--------------------------- MODULE JobTrackingInv ---------------------------
(* The inductive invariant behind the theorems of JobTrackingProofs, in parts  *)
(* named for what they say.  TLC checks it before it is proved.                *)
EXTENDS JobTrackingContract

VerdictStates == {"finished", "error", "missing", "stale", "interrupted"}

(* The journal knows of no job that the registry does not, it lacks none       *)
(* unless its last write failed, and a job that was never started has left no  *)
(* trace.                                                                      *)
SameJobs ==
    \A j \in Jobs :
       /\ state[j] = "absent" => journal[j].state = "absent"
       /\ journal[j].state = "gone" => state[j] = "gone"
       /\ ~behind /\ journal[j].state = "absent" => state[j] \in {"absent", "gone"}
       /\ state[j] = "absent" => /\ tracking[j] = "none"
                                 /\ task[j] = "none"
                                 /\ sends[j] = 0

(* Tasks live in a broker process, and a task that has not run yet belongs to  *)
(* a job that nothing has touched since start_python recorded it.              *)
CreatedIsFresh ==
    \A j \in Jobs :
       /\ task[j] # "none" => BrokerUp
       /\ task[j] = "created" => /\ state[j] = "running"
                                 /\ tracking[j] = "active"
                                 /\ ~behind => journal[j].state = "running"
                                 /\ sends[j] = 0

(* The request counter follows the kernel's view of the cell. *)
SentOnce ==
    \A j \in Jobs :
       /\ sends[j] \in {0, 1}
       /\ sends[j] = 0 => kernel[j] = "idle"

(* A terminal marker, in the runtime or in the answer of a probe, tells how    *)
(* the code ended, and it ended in a known way.                                *)
MarkersAreTrue ==
    \A j \in Jobs :
       /\ marker[j] \in OutcomeKinds => kernel[j] = marker[j]
       /\ seen[j] \in OutcomeKinds => kernel[j] = seen[j]
       /\ kernel[j] \in OutcomeKinds => kernel[j] \in Outcomes

(* A verdict given to a job, in memory or on disk, is the kernel's. *)
Proven(r, j) ==
    /\ r.state = "finished" => /\ r.source = "terminal_manifest"
                               /\ kernel[j] \in {"finished", "malformed"}
    /\ r.state = "error" => kernel[j] \in {"error", "killed"}

AllProven == \A j \in Jobs : Proven(Snapshot[j], j) /\ Proven(journal[j], j)

SafetyInv == /\ TypeOK /\ SameJobs /\ CreatedIsFresh
             /\ SentOnce /\ MarkersAreTrue /\ AllProven

(* Memory never contradicts a verdict on disk, and a verdict closes tracking;  *)
(* the latter only while no manifest is malformed.                             *)
DiskIsNotContradicted ==
    BrokerUp => \A j \in Jobs :
       journal[j].state \in VerdictStates => state[j] \in {journal[j].state, "gone"}

VerdictIsClosed ==
    \A j \in Jobs : /\ state[j] \in VerdictStates => tracking[j] = "complete"
                    /\ state[j] = "gone" => tracking[j] = "none"

ContractInv == SafetyInv /\ DiskIsNotContradicted /\ VerdictIsClosed

(* A task whose journal write is deferred has been cancelled, so it can give   *)
(* no verdict that nobody writes down.                                         *)
AwaitedHaveStopped ==
    \A j \in Jobs : Deferred(j) => /\ state[j] # "absent"
                                   /\ task[j] \in {"none", "cancelled"}

(* The reconciliation holds all it has marked, and gives back what it owns. *)
RecoveringIsHeld ==
    BrokerUp => \A j \in Jobs :
       tracking[j] = "recovering" => /\ j \in batch /\ recon # "idle"
                                     /\ state[j] \in {"running", "timed_out"}

RunningIsOnDisk ==
    BrokerUp /\ ~behind =>
       \A j \in Jobs : state[j] = "running" => journal[j].state = "running"

(* What is complete is terminal, on disk as well, and would be restored as     *)
(* complete.  Only the verdict of a reset is written when the reset ends.      *)
CompleteIsOnDisk ==
    \A j \in Jobs : tracking[j] = "complete" =>
       /\ state[j] \in TerminalStates
       /\ ~behind /\ state[j] # "stale" =>
                                /\ journal[j].state = state[j]
                                /\ journal[j].source = source[j]
                                /\ ~Recoverable(journal[j])

RegistryInv == /\ SafetyInv /\ AwaitedHaveStopped /\ RecoveringIsHeld
               /\ RunningIsOnDisk /\ CompleteIsOnDisk /\ NoLostWakeup
==============================================================================
