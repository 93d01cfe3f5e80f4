----------------------------- MODULE ProxyRecovery -----------------------------
(* What a stdio proxy does with a tool call when the broker fails under it     *)
(* (colab_codex_adapter/server.py, _proxy_server): the watched operation, the  *)
(* recovery of the broker, and the one retry of a read-only call.  The brokers *)
(* are those of BrokerOwnership, which BrokerElection implements.              *)
EXTENDS Naturals

CONSTANTS Calls,     \* tool calls, of any proxies
          Mutating,  \* those of tools that are not in _READ_ONLY_PROXY_TOOLS
          MaxOwners  \* bound: broker owners, one after the other

ASSUME MutatingAreCalls == Mutating \subseteq Calls
ASSUME OwnersBounded == MaxOwners \in Nat

VARIABLES
    owner,    \* generation of the broker owner
    health,   \* of its process
    pc,       \* how far the proxy is with the call
    attempt,  \* 1, or 2 in replay_read_only; 0 before the call
    used,     \* the owner the task of the call uses, 0 while there is none
    request,  \* the request of each attempt: where it is and what became of it
    runs,     \* external: how often the tool has run for the call
    result    \* what the agent was told

Brokers == INSTANCE BrokerOwnership

broker == <<owner, health>>
proxy  == <<pc, attempt, used, request, runs, result>>
vars == <<owner, health, pc, attempt, used, request, runs, result>>

Attempts == 1..2
Requests == [at : Nat, phase : {"none", "sent", "ran", "answered", "failed"}]
NoRequest == [at |-> 0, phase |-> "none"]

(* broker_process_is_alive and the start identity: an owner that was replaced  *)
(* has ended.                                                                  *)
Alive(g) == g = owner /\ health # "dead"
Serves(g) == g = owner /\ health = "serving"

Init ==
    /\ Brokers!Init
    /\ pc = [c \in Calls |-> "idle"]
    /\ attempt = [c \in Calls |-> 0]
    /\ used = [c \in Calls |-> 0]
    /\ request = [c \in Calls |-> [k \in Attempts |-> NoRequest]]
    /\ runs = [c \in Calls |-> 0]
    /\ result = [c \in Calls |-> "none"]

------------------------------------------------------------------------------
(* The brokers *)

OwnerServes == Brokers!Serve /\ UNCHANGED proxy
OwnerHangs  == Brokers!Hang /\ UNCHANGED proxy
OwnerDies   == Brokers!Die /\ UNCHANGED proxy

(* Some proxy's ensure_running starts the next owner. *)
Replace == Brokers!Replace /\ owner < MaxOwners /\ UNCHANGED proxy

(* The broker that has a request runs the tool, whether or not the proxy is    *)
(* still waiting for it; the tool succeeds or raises.                          *)
Execute(c, k) ==
    /\ request[c][k].phase = "sent"
    /\ Serves(request[c][k].at)
    /\ request' = [request EXCEPT ![c][k].phase = "ran"]
    /\ runs' = [runs EXCEPT ![c] = @ + 1]
    /\ UNCHANGED <<broker, pc, attempt, used, result>>

Respond(c, k) ==
    /\ request[c][k].phase = "ran"
    /\ Serves(request[c][k].at)
    /\ \E p \in {"answered", "failed"} :
         request' = [request EXCEPT ![c][k].phase = p]
    /\ UNCHANGED <<broker, pc, attempt, used, runs, result>>

------------------------------------------------------------------------------
(* owner_watched(super().call_tool(...)) *)

Present(c) == request[c][attempt[c]]

Conclude(c, told) ==
    /\ pc' = [pc EXCEPT ![c] = "done"]
    /\ result' = [result EXCEPT ![c] = told]

Begin(c) ==
    /\ pc[c] = "idle"
    /\ pc' = [pc EXCEPT ![c] = "finding"]
    /\ attempt' = [attempt EXCEPT ![c] = 1]
    /\ UNCHANGED <<broker, used, request, runs, result>>

(* get_tools: ensure_running names an owner to list the tools of, once more    *)
(* when the listing failed or that owner was lost.                             *)
Lists(c) ==
    /\ pc[c] \in {"finding", "listing"}
    /\ health = "serving"
    /\ used' = [used EXCEPT ![c] = owner]
    /\ pc' = [pc EXCEPT ![c] = IF @ = "finding" THEN "listing" ELSE "relisting"]
    /\ UNCHANGED <<broker, attempt, request, runs, result>>

(* Whoever answers at the endpoint lists the tools; the task of the call       *)
(* remembers the owner that was named, which may have been replaced since.     *)
Discover(c) ==
    /\ pc[c] \in {"listing", "relisting"}
    /\ health = "serving"
    /\ pc' = [pc EXCEPT ![c] = "found"]
    /\ UNCHANGED <<broker, attempt, used, request, runs, result>>

(* The request reaches whoever answers at the endpoint by now. *)
Send(c) ==
    /\ pc[c] = "found"
    /\ health = "serving"
    /\ request' = [request EXCEPT ![c][attempt[c]] =
                                  [at |-> owner, phase |-> "sent"]]
    /\ pc' = [pc EXCEPT ![c] = "sent"]
    /\ UNCHANGED <<broker, attempt, used, runs, result>>

Answered(c) ==
    /\ pc[c] = "sent"
    /\ Present(c).phase = "answered"
    /\ Conclude(c, "ok")
    /\ UNCHANGED <<broker, attempt, used, request, runs>>

Discovering(c) == pc[c] \in {"finding", "listing", "relisting"}
Calling(c) == pc[c] \in {"found", "sent"}

LastAttempt(c) == attempt[c] = 2

(* ProxyOperationFailed: discovery, connection or response failed or timed     *)
(* out, or the tool raised.  The task of the call remembers no owner while     *)
(* it is discovering.                                                          *)
Fails(c) ==
    /\ Discovering(c) \/ Calling(c)
    /\ Present(c).phase # "answered"
    /\ used' = [used EXCEPT ![c] = IF Discovering(c) THEN 0 ELSE @]
    /\ IF LastAttempt(c)
       THEN Conclude(c, "error")
       ELSE pc' = [pc EXCEPT ![c] = "failed"] /\ UNCHANGED result
    /\ UNCHANGED <<broker, attempt, request, runs>>

(* BrokerOwnerLost: the poll finds that the remembered owner has ended, and    *)
(* cancels the task.                                                           *)
OwnerLost(c) ==
    /\ Calling(c)
    /\ ~Alive(used[c])
    /\ IF LastAttempt(c)
       THEN Conclude(c, "error")
       ELSE pc' = [pc EXCEPT ![c] = "lost"] /\ UNCHANGED result
    /\ UNCHANGED <<broker, attempt, used, request, runs>>

------------------------------------------------------------------------------
(* call_tool: recovery *)

(* Mutant of Replayable: every call is tried again. *)
AnyReplayable(c) == TRUE

Replayable(c) == c \notin Mutating

(* Mutant of SameOwner: the identities are not compared. *)
OwnerRemembered(c) == used[c] # 0

SameOwner(c) == used[c] = owner

(* Mutant of Replay: the retry is recovered like the first attempt. *)
ReplayUncounted(c) ==
    /\ pc' = [pc EXCEPT ![c] = "finding"]
    /\ used' = [used EXCEPT ![c] = 0]
    /\ UNCHANGED <<attempt, result>>

(* replay_read_only *)
Replay(c) ==
    /\ pc' = [pc EXCEPT ![c] = "finding"]
    /\ attempt' = [attempt EXCEPT ![c] = @ + 1]
    /\ used' = [used EXCEPT ![c] = 0]
    /\ UNCHANGED result

Recovered(c) ==
    /\ pc[c] \in {"failed", "lost"}
    /\ health = "serving"
    /\ IF pc[c] = "failed" /\ SameOwner(c)
       THEN Conclude(c, "error") /\ UNCHANGED <<attempt, used>>
       ELSE IF Replayable(c)
       THEN Replay(c)
       ELSE Conclude(c, "unknown") /\ UNCHANGED <<attempt, used>>
    /\ UNCHANGED <<broker, request, runs>>

RecoveryFails(c) ==
    /\ pc[c] \in {"failed", "lost"}
    /\ Conclude(c, "unknown")
    /\ UNCHANGED <<broker, attempt, used, request, runs>>

(* The agent cancels the call. *)
Cancelled(c) ==
    /\ pc[c] \notin {"idle", "done"}
    /\ Conclude(c, "cancelled")
    /\ UNCHANGED <<broker, attempt, used, request, runs>>

------------------------------------------------------------------------------
ProxyStep(c) == \/ Lists(c) \/ Discover(c) \/ Send(c) \/ Answered(c) \/ Fails(c)
                \/ OwnerLost(c) \/ Recovered(c) \/ RecoveryFails(c)

Next ==
    \/ \E c \in Calls : \/ Begin(c) \/ ProxyStep(c) \/ Cancelled(c)
                        \/ \E k \in Attempts : Execute(c, k) \/ Respond(c, k)
    \/ OwnerServes \/ OwnerHangs \/ OwnerDies \/ Replace

Spec == Init /\ [][Next]_vars

(* Every await of the proxy has a timeout: the client's 1200 s, ensure_running *)
(* (BrokerElection, CallsEnd).  Nothing is assumed of the brokers.             *)
FairSpec == Spec /\ \A c \in Calls : WF_vars(ProxyStep(c))

------------------------------------------------------------------------------
(* Type invariant. *)
TypeOK ==
    /\ owner \in Nat /\ health \in {"starting", "serving", "hung", "dead"}
    /\ pc \in [Calls -> {"idle", "finding", "listing", "relisting", "found", "sent",
                       "failed", "lost", "done"}]
    /\ attempt \in [Calls -> 0..2]
    /\ used \in [Calls -> 0..owner]
    /\ request \in [Calls -> [Attempts -> Requests]]
    /\ runs \in [Calls -> Nat]
    /\ result \in [Calls -> {"none", "ok", "error", "unknown", "cancelled"}]

(* A tool that changes anything runs at most once for a call, however the      *)
(* brokers fail, hang and replace each other; a read-only one at most twice.   *)
RunsAtMostOnce ==
    \A c \in Calls : runs[c] <= IF c \in Mutating THEN 1 ELSE 2

(* A mutating call that was given to a broker which is gone by the time the    *)
(* call is concluded is reported as unknown, not as a plain error.             *)
LossIsReported ==
    [][\A c \in Mutating : result[c] = "none" /\ result'[c] = "error" =>
          request[c][1].at \in {0, owner}]_vars

(* Every call is concluded, whatever the brokers do. *)
CallsEnd == \A c \in Calls : pc[c] # "idle" ~> pc[c] = "done"

------------------------------------------------------------------------------
(* The inductive invariant of ProxyRecoveryProofs. *)

Ran(c, k) == IF request[c][k].phase \in {"none", "sent"} THEN 0 ELSE 1

(* A call is recovered in its first attempt only, and never a mutating one     *)
(* twice.                                                                      *)
AttemptsInOrder ==
    \A c \in Calls :
       /\ attempt[c] = 0 <=> pc[c] = "idle"
       /\ pc[c] \in {"failed", "lost"} => attempt[c] = 1
       /\ c \in Mutating => attempt[c] # 2

(* Each attempt sends one request, after its discovery. *)
OneRequestEach ==
    \A c \in Calls, k \in Attempts :
       /\ k > attempt[c] => request[c][k] = NoRequest
       /\ k = attempt[c] /\ (Discovering(c) \/ pc[c] = "found") =>
             request[c][k] = NoRequest

(* The owner a call remembers is no later than the one that has its request.   *)
UsedNoLater ==
    \A c \in Calls, k \in Attempts :
       /\ request[c][k].at <= owner
       /\ k = attempt[c] /\ request[c][k].at # 0 => used[c] <= request[c][k].at

RunsAreCounted == \A c \in Calls : runs[c] = Ran(c, 1) + Ran(c, 2)

ProxyInv == /\ TypeOK /\ AttemptsInOrder /\ OneRequestEach
            /\ UsedNoLater /\ RunsAreCounted
==============================================================================
