------------------------- MODULE JobTrackingContract -------------------------
(* JobTracking implements JobContract: the contract's record is what the       *)
(* journal says of a job, its requests are the run_code_cell requests, its     *)
(* outcome is what the kernel did, and it lags when the last write failed.     *)
EXTENDS JobTracking

RecordOf(r) ==
    CASE r.state = "absent"                 -> "none"
      [] r.state = "gone"                   -> "forgotten"
      [] r.state \in {"running", "timed_out"} -> "open"
      [] r.state \in {"finished", "error"}  -> r.state
      [] OTHER                              -> "abandoned"

OutcomeOf(k) ==
    CASE k \in {"finished", "malformed"} -> "finished"
      [] k \in {"error", "killed"}       -> "failed"
      [] OTHER                           -> "none"

Contract == INSTANCE JobContract WITH
              record   <- [j \in Jobs |-> RecordOf(journal[j])],
              requests <- sends,
              outcome  <- [j \in Jobs |-> OutcomeOf(kernel[j])],
              lagging  <- behind

(* The registry keeps its contract in every behaviour: through disconnects,    *)
(* lost responses, timeouts, reconciliation, resets, shutdowns, crashes and    *)
(* failed writes the journal never records a verdict the kernel did not give,  *)
(* never takes one back, and code is requested once and only when it is on     *)
(* record, unless the last write failed.                                       *)
KeepsContract == Contract!ContractSpec
==============================================================================
