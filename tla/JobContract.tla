----------------------------- MODULE JobContract -----------------------------
(* What the tracked-job registry promises, without tasks, events, transports,  *)
(* reconciliation or brokers: the durable record of each job, whether it lags  *)
(* because the last write failed, the requests to execute the job, and how the *)
(* execution ended.                                                            *)
(*                                                                             *)
(*  - code is sent for execution at most once, and only when the job is        *)
(*    already recorded or the record lags;                                     *)
(*  - a job skips the open record only while the record lags;                  *)
(*  - a recorded verdict is "finished" or "error" only if the execution ended  *)
(*    that way, otherwise the job is abandoned (missing, stale, interrupted);  *)
(*  - a recorded verdict is never taken back; the record may be forgotten,     *)
(*    perhaps in the same write that would have abandoned the job.             *)
EXTENDS Naturals

CONSTANT Jobs

VARIABLES record,    \* "none", "open", a verdict, or "forgotten"
          requests,  \* executions requested
          outcome,   \* how the execution ended: "none", "finished", "failed"
          lagging    \* the last write failed

cvars == <<record, requests, outcome, lagging>>

Verdicts == {"finished", "error", "abandoned"}

(* The verdicts the execution allows. *)
Allowed(j) == {"abandoned"} \cup {v \in {"finished"} : outcome[j] = "finished"}
                            \cup {v \in {"error"} : outcome[j] = "failed"}

(* The records the journal may hold next, given the present one. *)
Successors(j) ==
    CASE record[j] = "none"     -> {"none", "open", "forgotten"}
                                   \cup {v \in Allowed(j) : lagging}
      [] record[j] = "open"     -> {"open", "forgotten"} \cup Allowed(j)
      [] record[j] \in Verdicts -> {record[j], "forgotten"}
      [] OTHER                  -> {record[j]}

CInit ==
    /\ record = [j \in Jobs |-> "none"]
    /\ requests = [j \in Jobs |-> 0]
    /\ outcome = [j \in Jobs |-> "none"]
    /\ lagging = FALSE

(* One journal write may carry news of several jobs, or none: a replacement    *)
(* that knows only the record does not lag behind it.                          *)
WriteRecord ==
    /\ record' \in [Jobs -> Verdicts \cup {"none", "open", "forgotten"}]
    /\ \A j \in Jobs : record'[j] \in Successors(j)
    /\ lagging' = FALSE
    /\ UNCHANGED <<requests, outcome>>

WriteFails ==
    /\ lagging' = TRUE
    /\ UNCHANGED <<record, requests, outcome>>

Request(j) ==
    /\ record[j] = "open" \/ lagging
    /\ requests[j] = 0
    /\ requests' = [requests EXCEPT ![j] = 1]
    /\ UNCHANGED <<record, outcome, lagging>>

(* The runtime may end several executions at once. *)
Execute ==
    /\ outcome' \in [Jobs -> {"none", "finished", "failed"}]
    /\ \A j \in Jobs : \/ outcome'[j] = outcome[j]
                       \/ outcome[j] = "none" /\ requests[j] = 1
    /\ UNCHANGED <<record, requests, lagging>>

CNext == WriteRecord \/ WriteFails \/ (\E j \in Jobs : Request(j)) \/ Execute

ContractSpec == CInit /\ [][CNext]_cvars
==============================================================================
