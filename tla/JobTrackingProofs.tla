-------------------------- MODULE JobTrackingProofs --------------------------
(* Theorems about JobTracking for every set of jobs and every bound.           *)
EXTENDS JobTrackingInv, TLAPS

USE DEF Handlers, TerminalStates, States, Trackings, Sources, Tasks, OutcomeKinds,
        Kernels, Markers, disk

LEMMA TypeInit == Init => TypeOK
  <1> SUFFICES ASSUME Init PROVE TypeOK  OBVIOUS
  <1>1. Snapshot \in [Jobs -> Records]
    BY DEF Init, Snapshot, Records
  <1>2. journal \in [Jobs -> Records] /\ behind \in BOOLEAN
    BY <1>1 DEF Init
  <1>3. QED  BY <1>2 DEF Init, TypeOK

(* A write leaves the journal behind as it was, or with the registry's records. *)
LEMMA Written ==
  ASSUME Persist
  PROVE  /\ behind' \in BOOLEAN
         /\ behind' => journal' = journal
         /\ ~behind' => \A j \in Jobs : /\ journal'[j].state = state'[j]
                                        /\ journal'[j].tracking = tracking'[j]
                                        /\ journal'[j].source = source'[j]
  <1>1. behind' = (journal' # Snapshot') /\ (journal' = Snapshot' \/ journal' = journal)
    BY DEF Persist
  <1>2. CASE journal' = Snapshot'
    BY <1>1, <1>2 DEF Snapshot
  <1>3. CASE journal' # Snapshot'
    BY <1>1, <1>3
  <1>4. QED  BY <1>2, <1>3

(* Persist leaves a well-typed journal when the registry is well typed. *)
LEMMA PersistType ==
  ASSUME TypeOK, Persist, state' \in [Jobs -> States],
         tracking' \in [Jobs -> Trackings], source' \in [Jobs -> Sources]
  PROVE  journal' \in [Jobs -> Records] /\ behind' \in BOOLEAN
  <1>1. Snapshot' \in [Jobs -> Records]
    BY DEF Snapshot, Records
  <1>2. QED  BY <1>1, Written DEF TypeOK, Persist

LEMMA ConcludeType ==
  ASSUME TypeOK, NEW j \in Jobs, NEW s \in States, NEW t \in Trackings,
         NEW src \in Sources, Conclude(j, s, t, src)
  PROVE  /\ state' \in [Jobs -> States]
         /\ tracking' \in [Jobs -> Trackings]
         /\ source' \in [Jobs -> Sources]
  BY DEF TypeOK, Conclude

LEMMA TaskEndsType ==
  ASSUME TypeOK, NEW j \in Jobs, TaskEnds(j), state' \in [Jobs -> States],
         tracking' \in [Jobs -> Trackings], source' \in [Jobs -> Sources]
  PROVE  TypeOK'
  <1>1. journal' \in [Jobs -> Records] /\ behind' \in BOOLEAN
    <2>1. CASE UNCHANGED disk
      BY <2>1 DEF TypeOK
    <2>2. CASE Persist
      BY <2>2, PersistType
    <2>3. QED  BY <2>1, <2>2 DEF TaskEnds
  <1>2. /\ state' \in [Jobs -> States] /\ tracking' \in [Jobs -> Trackings]
        /\ source' \in [Jobs -> Sources]
        /\ task' \in [Jobs -> Tasks] /\ event' \in [Jobs -> BOOLEAN]
    BY DEF TaskEnds, TypeOK
  <1>3. UNCHANGED <<recon, batch, seen, handler, awaiting, conn, broker, kernel,
                    marker, sends, expired, faults>>
    BY DEF TaskEnds, runtime
  <1>4. QED  BY <1>1, <1>2, <1>3 DEF TypeOK

LEMMA DetachType ==
  ASSUME TypeOK, NEW S, Detach(S)
  PROVE  tracking' \in [Jobs -> Trackings]
  BY DEF TypeOK, Detach

LEMMA CancelType ==
  ASSUME TypeOK, NEW S, Cancel(S)
  PROVE  task' \in [Jobs -> Tasks]
  BY DEF TypeOK, Cancel

LEMMA GatherType ==
  ASSUME TypeOK, NEW h \in Handlers, NEW S \in SUBSET Jobs, Gather(h, S)
  PROVE  /\ handler' \in [Handlers -> {"idle", "cancelling", "gathering"}]
         /\ awaiting' \in [Handlers -> SUBSET Jobs]
  BY DEF TypeOK, Gather

LEMMA TypeStep == TypeOK /\ [Next]_vars => TypeOK'
  <1> SUFFICES ASSUME TypeOK, [Next]_vars PROVE TypeOK'  OBVIOUS
  <1> USE DEF job, control, runtime
  <1>1. ASSUME NEW j \in Jobs, Start(j) PROVE TypeOK'
    <2>1. /\ state' \in [Jobs -> States]
          /\ tracking' \in [Jobs -> Trackings]
          /\ source' \in [Jobs -> Sources]
      BY <1>1 DEF Start, Register, TypeOK
    <2>2. journal' \in [Jobs -> Records] /\ behind' \in BOOLEAN
      BY <1>1, <2>1, PersistType DEF Start
    <2>3. QED  BY <1>1, <2>1, <2>2 DEF Start, Register, TypeOK
  <1>2. ASSUME NEW j \in Jobs, Send(j) PROVE TypeOK'
    BY <1>2 DEF Send, TypeOK
  <1>3. ASSUME NEW j \in Jobs, RunEnds(j) PROVE TypeOK'
    <2>1. CASE RunReturnsManifest(j)
      BY <2>1, ConcludeType, TaskEndsType DEF RunReturnsManifest, ManifestState
    <2>2. CASE RunReturnsError(j)
      BY <2>2, ConcludeType, TaskEndsType DEF RunReturnsError
    <2> source[j] \in Sources  BY DEF TypeOK
    <2>3. CASE RunAmbiguous(j)
      BY <2>3, ConcludeType, TaskEndsType DEF RunAmbiguous
    <2>4. CASE RunTimesOut(j)
      BY <2>4, ConcludeType, TaskEndsType DEF RunTimesOut
    <2>5. CASE RunCancelled(j)
      BY <2>5, ConcludeType, TaskEndsType DEF RunCancelled
    <2>6. QED  BY <1>3, <2>1, <2>2, <2>3, <2>4, <2>5 DEF RunEnds
  <1>4. ASSUME NEW j \in Jobs, StatusLost(j) PROVE TypeOK'
    <2>1. /\ state' \in [Jobs -> States]
          /\ tracking' \in [Jobs -> Trackings]
          /\ source' \in [Jobs -> Sources]
      BY <1>4 DEF StatusLost, Detach, TypeOK
    <2>2. QED  BY <1>4, <2>1, PersistType DEF StatusLost, TypeOK
  <1>5. ASSUME NEW j \in Jobs, StatusMissing(j) PROVE TypeOK'
    <2>1. /\ state' \in [Jobs -> States]
          /\ tracking' \in [Jobs -> Trackings]
          /\ source' \in [Jobs -> Sources]
      BY <1>5 DEF StatusMissing, TypeOK
    <2>2. QED  BY <1>5, <2>1, PersistType DEF StatusMissing, Cancel, TypeOK
  <1>6. ASSUME NEW j \in Jobs, KernelStarts(j) PROVE TypeOK'
    BY <1>6 DEF KernelStarts, TypeOK
  <1>7. ASSUME NEW j \in Jobs, KernelFinishes(j) PROVE TypeOK'
    BY <1>7, OutcomesKnown DEF KernelFinishes, TypeOK
  <1>8. ASSUME NEW j \in Jobs, RequestLost(j) \/ DeadlinePasses(j) PROVE TypeOK'
    <2>1. CASE RequestLost(j)
      BY <2>1 DEF RequestLost, TypeOK
    <2>2. CASE DeadlinePasses(j)
      BY <2>2 DEF DeadlinePasses, TypeOK
    <2>3. QED  BY <1>8, <2>1, <2>2
  <1>9. CASE StartFails
    BY <1>9 DEF StartFails, TypeOK
  <1>10. CASE Bookkeeping
    BY <1>10, PersistType DEF Bookkeeping, TypeOK
  <1>11. CASE Drop \/ ListenerCancelsReconciler \/ RuntimeReady
    BY <1>11 DEF Drop, ListenerCancelsReconciler, RuntimeReady, TypeOK
  <1>12. CASE OnBrowserDisconnect
    <2>1. PICK S \in SUBSET Jobs : /\ Detach(S) /\ Cancel(S) /\ Gather("disconnect", S)
                                   /\ event' = [j \in Jobs |-> IF j \in S THEN TRUE ELSE event[j]]
      BY <1>12 DEF OnBrowserDisconnect
    <2>2. QED  BY <1>12, <2>1, DetachType, CancelType, GatherType
               DEF OnBrowserDisconnect, TypeOK
  <1>13. CASE OnBrowserDisconnectEnds
    BY <1>13, PersistType DEF OnBrowserDisconnectEnds, TypeOK
  <1>14. CASE ReconcileBegin
    <2>1. /\ state' \in [Jobs -> States]
          /\ tracking' \in [Jobs -> Trackings]
          /\ source' \in [Jobs -> Sources]
      BY <1>14 DEF ReconcileBegin, TypeOK
    <2>2. event' \in [Jobs -> BOOLEAN] /\ batch' \in SUBSET Jobs
      BY <1>14 DEF ReconcileBegin, TypeOK
    <2>3. QED  BY <1>14, <2>1, <2>2, PersistType DEF ReconcileBegin, TypeOK
  <1>15. CASE ProbeReads
    BY <1>15 DEF ProbeReads, TypeOK
  <1>16. CASE ReconcileFails
    <2>1. tracking' \in [Jobs -> Trackings] /\ event' \in [Jobs -> BOOLEAN]
      BY <1>16 DEF ReconcileFails, Detach, TypeOK
    <2>2. QED
      BY <1>16, <2>1, PersistType DEF ReconcileFails, ReconcileEnds, TypeOK
  <1>17. CASE ReconcileApplies
    <2>1. \A j \in Jobs : MarkerState(j) \in States /\ MarkerTracking(j) \in Trackings
      BY DEF MarkerState, MarkerTracking, ManifestState, TypeOK
    <2>2. /\ state' \in [Jobs -> States]
          /\ tracking' \in [Jobs -> Trackings]
          /\ source' \in [Jobs -> Sources]
          /\ event' \in [Jobs -> BOOLEAN]
      BY <1>17, <2>1 DEF ReconcileApplies, TypeOK
    <2>3. QED
      BY <1>17, <2>2, PersistType DEF ReconcileApplies, ReconcileEnds, TypeOK
  <1>18. CASE MarkStale
    <2>1. PICK S \in SUBSET Jobs : /\ Cancel(S) /\ Gather("reset", S)
                                   /\ state' = [j \in Jobs |-> IF j \in S THEN "stale" ELSE state[j]]
                                   /\ tracking' = [j \in Jobs |-> IF j \in S THEN "complete" ELSE tracking[j]]
      BY <1>18 DEF MarkStale, Tracked
    <2>2. QED  BY <1>18, <2>1, CancelType, GatherType DEF MarkStale, TypeOK
  <1>19. CASE MarkStaleEnds
    BY <1>19, PersistType DEF MarkStaleEnds, TypeOK
  <1>20. CASE ShutdownCancelsReconciler
    BY <1>20 DEF ShutdownCancelsReconciler, TypeOK
  <1>21. CASE DetachForShutdown
    <2>1. PICK S \in SUBSET Jobs : /\ Detach(S)
                                   /\ event' = [j \in Jobs |-> IF j \in S THEN TRUE ELSE event[j]]
      BY <1>21 DEF DetachForShutdown
    <2>2. QED  BY <1>21, <2>1, DetachType, CancelType, GatherType
               DEF DetachForShutdown, TypeOK
  <1>22. CASE ShutdownEnds
    BY <1>22, PersistType DEF ShutdownEnds, ProcessEnds, TypeOK
  <1>23. CASE Crash
    BY <1>23 DEF Crash, ProcessEnds, TypeOK
  <1>24. CASE Restart
    <2>1. \A j \in Jobs : /\ RestoredState(journal[j]) \in States
                          /\ RestoredTracking(journal[j]) \in Trackings
                          /\ journal[j].source \in Sources
      BY DEF RestoredState, RestoredTracking, Records, TypeOK
    <2>2. QED  BY <1>24, <2>1 DEF Restart, TypeOK
  <1>25. CASE KernelDies
    BY <1>25 DEF KernelDies, TypeOK
  <1>26. CASE UNCHANGED vars
    BY <1>26 DEF vars, TypeOK
  <1>27. QED
    BY <1>1, <1>2, <1>3, <1>4, <1>5, <1>6, <1>7, <1>8, <1>9, <1>10, <1>11, <1>12,
       <1>13, <1>14, <1>15, <1>16, <1>17, <1>18, <1>19, <1>20, <1>21, <1>22, <1>23,
       <1>24, <1>25, <1>26 DEF Next, RunEnds

(* Every reachable state of the registry, the journal and the handlers is well *)
(* typed, for every set of jobs and every bound on the faults.                 *)
THEOREM TypeCorrect == Spec => []TypeOK
  BY TypeInit, TypeStep, PTL DEF Spec

------------------------------------------------------------------------------
(* What one step of a broker may do to one job.  Every action of a running     *)
(* broker except the request itself is an instance of BrokerStep; the          *)
(* invariants are then preserved by BrokerStep, not by each action separately. *)

Untouched(j) == state'[j] = state[j] /\ tracking'[j] = tracking[j]

Moved(j) ==
    \/ state'[j] = state[j] /\ state[j] \in {"running", "timed_out"}
    \/ state[j] = "running" /\ state'[j] = "timed_out"
    \/ /\ tracking[j] = "complete" /\ state[j] \in TerminalStates
       /\ state'[j] = "gone" /\ tracking'[j] = "none"
    \/ /\ state[j] \notin {"absent", "gone"}
       /\ ~(state[j] \in TerminalStates /\ tracking[j] = "complete")
       /\ state'[j] \in {"missing", "stale", "interrupted"}
       /\ tracking'[j] = "complete"

Judged(j) ==
    /\ state[j] \in {"running", "timed_out"}
    /\ \/ /\ state'[j] = "finished" /\ source'[j] = "terminal_manifest"
          /\ kernel[j] \in {"finished", "malformed"}
       \/ state'[j] = "error" /\ kernel[j] \in {"error", "killed"}
    /\ kernel[j] # "malformed" => tracking'[j] = "complete"

Started(j) ==
    /\ state[j] = "absent" /\ task'[j] = "created" /\ Persist
    /\ state'[j] = "running" /\ tracking'[j] = "active"

JobStep(j) ==
    \/ /\ Untouched(j)
       /\ source'[j] = source[j]
       /\ task'[j] \in {task[j], "none", "cancelled"}
       /\ task[j] = "none" => task'[j] = "none"
    \/ /\ \/ Moved(j) /\ source'[j] = source[j]
          \/ Judged(j)
       /\ task'[j] # "created"
       /\ task[j] = "none" => task'[j] = "none"
    \/ Started(j) /\ source'[j] = source[j]

BrokerStep ==
    /\ BrokerUp /\ broker' = broker
    /\ UNCHANGED <<kernel, sends>>
    /\ \A j \in Jobs : JobStep(j)
    /\ UNCHANGED disk \/ Persist

LEMMA RunStep ==
  ASSUME SafetyInv, NEW j \in Jobs, RunEnds(j)
  PROVE  BrokerStep
  <1> USE DEF BrokerStep, JobStep, Untouched, Moved, Judged, TaskEnds, Conclude,
              runtime, SafetyInv, TypeOK
  <1>1. CASE RunReturnsManifest(j)
    BY <1>1, OutcomesKnown DEF RunReturnsManifest, ManifestState
  <1>2. CASE RunReturnsError(j)
    BY <1>2 DEF RunReturnsError
  <1>3. CASE RunAmbiguous(j)
    BY <1>3 DEF RunAmbiguous
  <1>4. CASE RunTimesOut(j)
    BY <1>4 DEF RunTimesOut
  <1>5. CASE RunCancelled(j)
    BY <1>5 DEF RunCancelled
  <1>6. QED  BY <1>1, <1>2, <1>3, <1>4, <1>5 DEF RunEnds

LEMMA ToolStep ==
  ASSUME SafetyInv,
         StartFails \/ Bookkeeping \/ MarkStale \/ MarkStaleEnds
         \/ \E j \in Jobs : Start(j) \/ StatusLost(j) \/ StatusMissing(j)
  PROVE  BrokerStep
  <1> USE DEF BrokerStep, JobStep, Untouched, Moved, runtime, job, control,
              SafetyInv, TypeOK
  <1>1. ASSUME NEW j \in Jobs, Start(j) PROVE BrokerStep
    <2>1. \A P \in PruneSets : P \subseteq {i \in Tracked : tracking[i] = "complete"
                                                  /\ state[i] \in TerminalStates}
      BY DEF PruneSets
    <2>2. \A i \in Jobs \ {j} : JobStep(i)
      BY <1>1, <2>1 DEF Start, Register, Tracked, CreatedIsFresh
    <2>3. JobStep(j)
      BY <1>1, <2>1 DEF Start, Register, Started
    <2>4. QED  BY <1>1, <2>2, <2>3 DEF Start, Register, Serving, BrokerUp
  <1>2. ASSUME NEW j \in Jobs, StatusLost(j) PROVE BrokerStep
    BY <1>2 DEF StatusLost, StatusFinds, Serving, Detach
  <1>3. ASSUME NEW j \in Jobs, StatusMissing(j) PROVE BrokerStep
    BY <1>3 DEF StatusMissing, StatusFinds, Serving, Cancel
  <1>4. CASE StartFails
    <2>1. \A P \in PruneSets : P \subseteq {i \in Tracked : tracking[i] = "complete"
                                                  /\ state[i] \in TerminalStates}
      BY DEF PruneSets
    <2>2. QED  BY <1>4, <2>1 DEF StartFails, Serving, Tracked, CreatedIsFresh
  <1>5. CASE Bookkeeping
    BY <1>5 DEF Bookkeeping
  <1>6. CASE MarkStale
    BY <1>6 DEF MarkStale, Serving, Cancel, Tracked
  <1>7. CASE MarkStaleEnds
    BY <1>7 DEF MarkStaleEnds
  <1>8. QED  BY <1>1, <1>2, <1>3, <1>4, <1>5, <1>6, <1>7

LEMMA ConnectionStep ==
  ASSUME SafetyInv,
         Drop \/ ListenerCancelsReconciler \/ OnBrowserDisconnect
         \/ OnBrowserDisconnectEnds \/ RuntimeReady \/ ShutdownCancelsReconciler
         \/ DetachForShutdown
  PROVE  BrokerStep
  <1> USE DEF BrokerStep, JobStep, Untouched, Moved, runtime, job, control,
              SafetyInv, TypeOK
  <1>1. CASE Drop
    BY <1>1 DEF Drop
  <1>2. CASE ListenerCancelsReconciler
    BY <1>2 DEF ListenerCancelsReconciler
  <1>3. CASE OnBrowserDisconnect
    BY <1>3 DEF OnBrowserDisconnect, Detach, Cancel
  <1>4. CASE OnBrowserDisconnectEnds
    BY <1>4 DEF OnBrowserDisconnectEnds
  <1>5. CASE RuntimeReady
    BY <1>5 DEF RuntimeReady
  <1>6. CASE ShutdownCancelsReconciler
    BY <1>6 DEF ShutdownCancelsReconciler, Serving
  <1>7. CASE DetachForShutdown
    BY <1>7 DEF DetachForShutdown, Detach, Cancel
  <1>8. QED  BY <1>1, <1>2, <1>3, <1>4, <1>5, <1>6, <1>7

LEMMA ReconcileStep ==
  ASSUME SafetyInv,
         ReconcileBegin \/ ProbeReads \/ ReconcileFails \/ ReconcileApplies
  PROVE  BrokerStep
  <1> USE DEF BrokerStep, JobStep, Untouched, Moved, runtime, job, control,
              SafetyInv, TypeOK
  <1>1. CASE ReconcileBegin
    BY <1>1 DEF ReconcileBegin, Serving, CreatedIsFresh
  <1>2. CASE ProbeReads
    BY <1>2 DEF ProbeReads
  <1>3. CASE ReconcileFails
    BY <1>3 DEF ReconcileFails, ReconcileEnds, Detach, Owned, CreatedIsFresh
  <1>4. CASE ReconcileApplies
    <2>1. ASSUME NEW j \in Owned PROVE JobStep(j)
      <3>1. /\ state[j] \in {"running", "timed_out"}
            /\ j \in Jobs
            /\ tracking[j] = "recovering"
            /\ task[j] # "created"
            /\ task' = task
        BY <1>4 DEF Owned, CreatedIsFresh, ReconcileApplies, ReconcileEnds
      <3>2. CASE seen[j] \in OutcomeKinds
        BY <1>4, <3>1, <3>2
           DEF ReconcileApplies, MarkerState, MarkerTracking, ManifestState,
               Judged, MarkersAreTrue
      <3>3. CASE seen[j] \in {"none", "running"}
        BY <1>4, <3>1, <3>3 DEF ReconcileApplies, MarkerState, MarkerTracking
      <3>4. QED  BY <3>1, <3>2, <3>3
    <2>2. ASSUME NEW j \in Jobs \ Owned PROVE JobStep(j)
      BY <1>4 DEF ReconcileApplies, ReconcileEnds
    <2>3. QED  BY <1>4, <2>1, <2>2 DEF ReconcileApplies, ReconcileEnds
  <1>5. QED  BY <1>1, <1>2, <1>3, <1>4

(* A step that touches neither the registry nor the kernel. *)
IdleStep ==
    UNCHANGED <<state, tracking, source, task, disk, broker, kernel, sends>>

(* The process dies, with or without a last journal write. *)
BrokerDies ==
    /\ BrokerUp /\ ProcessEnds
    /\ UNCHANGED disk \/ Persist

KernelStep ==
    KernelDies \/ \E j \in Jobs : KernelStarts(j) \/ KernelFinishes(j) \/ RequestLost(j)

LEMMA StepKinds ==
  ASSUME SafetyInv, [Next]_vars
  PROVE  \/ BrokerStep \/ IdleStep \/ BrokerDies \/ KernelStep \/ Restart
         \/ \E j \in Jobs : Send(j)
  <1>1. ASSUME NEW j \in Jobs, DeadlinePasses(j) PROVE IdleStep
    BY <1>1 DEF DeadlinePasses, IdleStep, job, control, runtime
  <1>2. ASSUME UNCHANGED vars PROVE IdleStep
    BY <1>2 DEF vars, IdleStep
  <1>3. ASSUME ShutdownEnds \/ Crash PROVE BrokerDies
    BY <1>3 DEF ShutdownEnds, Crash, BrokerDies
  <1>4. QED
    BY <1>1, <1>2, <1>3, RunStep, ToolStep, ConnectionStep, ReconcileStep
       DEF Next, RunEnds, KernelStep

LEMMA MarkersStep ==
  ASSUME SafetyInv, [Next]_vars
  PROVE  MarkersAreTrue'
  <1> USE DEF MarkersAreTrue, SafetyInv, TypeOK
  <1>1. ASSUME NEW j \in Jobs, Send(j) PROVE MarkersAreTrue'
    BY <1>1 DEF Send, CreatedIsFresh, SentOnce
  <1>2. ASSUME NEW j \in Jobs, KernelStarts(j) PROVE MarkersAreTrue'
    BY <1>2 DEF KernelStarts, control
  <1>3. ASSUME NEW j \in Jobs, KernelFinishes(j) PROVE MarkersAreTrue'
    BY <1>3, OutcomesKnown DEF KernelFinishes, control
  <1>4. ASSUME NEW j \in Jobs, RequestLost(j) PROVE MarkersAreTrue'
    BY <1>4 DEF RequestLost, control
  <1>5. CASE KernelDies
    BY <1>5 DEF KernelDies, control
  <1>6. CASE ProbeReads
    BY <1>6 DEF ProbeReads, runtime
  <1>7. CASE UNCHANGED runtime /\ (UNCHANGED seen \/ seen' = [j \in Jobs |-> "none"])
    BY <1>7 DEF runtime
  <1>8. ASSUME Next, ~ProbeReads, ~KernelStep, \A j \in Jobs : ~Send(j)
        PROVE  UNCHANGED runtime /\ (UNCHANGED seen \/ seen' = [j \in Jobs |-> "none"])
    <2>1. ASSUME NEW j \in Jobs,
                 Start(j) \/ StatusLost(j) \/ StatusMissing(j) \/ DeadlinePasses(j)
          PROVE  UNCHANGED <<runtime, seen>>
      BY <2>1 DEF Start, Register, StatusLost, StatusMissing, DeadlinePasses, runtime, control
    <2>2. ASSUME NEW j \in Jobs, RunEnds(j) PROVE UNCHANGED <<runtime, seen>>
      BY <2>2 DEF RunEnds, RunReturnsManifest, RunReturnsError, RunAmbiguous,
                  RunTimesOut, RunCancelled, TaskEnds
    <2>3. ASSUME StartFails \/ Bookkeeping \/ MarkStale \/ MarkStaleEnds
          PROVE  UNCHANGED <<runtime, seen>>
      BY <2>3 DEF StartFails, Bookkeeping, MarkStale, MarkStaleEnds, control
    <2>4. ASSUME Drop \/ ListenerCancelsReconciler \/ RuntimeReady
                 \/ OnBrowserDisconnect \/ OnBrowserDisconnectEnds
          PROVE  UNCHANGED <<runtime, seen>>
      BY <2>4 DEF Drop, ListenerCancelsReconciler, RuntimeReady,
                  OnBrowserDisconnect, OnBrowserDisconnectEnds, control
    <2>5. ASSUME ReconcileBegin \/ ShutdownCancelsReconciler \/ DetachForShutdown
                 \/ Restart
          PROVE  UNCHANGED <<runtime, seen>>
      BY <2>5 DEF ReconcileBegin, ShutdownCancelsReconciler, DetachForShutdown,
                  Restart, control
    <2>6. ASSUME ReconcileFails \/ ReconcileApplies \/ ShutdownEnds \/ Crash
          PROVE  UNCHANGED runtime /\ seen' = [j \in Jobs |-> "none"]
      BY <2>6 DEF ReconcileFails, ReconcileApplies, ReconcileEnds, ShutdownEnds,
                  Crash, ProcessEnds, runtime
    <2>7. QED  BY <1>8, <2>1, <2>2, <2>3, <2>4, <2>5, <2>6 DEF Next, RunEnds, KernelStep
  <1>9. CASE UNCHANGED vars
    BY <1>7, <1>9 DEF vars, runtime
  <1>10. QED
    BY <1>1, <1>2, <1>3, <1>4, <1>5, <1>6, <1>7, <1>8, <1>9 DEF KernelStep

(* The remaining parts of SafetyInv, for each kind of step. *)
RestOfSafety == SameJobs /\ CreatedIsFresh /\ SentOnce /\ AllProven

LEMMA BrokerStepSafe ==
  ASSUME SafetyInv, TypeOK', BrokerStep
  PROVE  RestOfSafety'
  <1> USE DEF SafetyInv, BrokerStep, JobStep, Untouched, Moved, Judged, Started
  <1>a. ASSUME NEW j \in Jobs
        PROVE  \/ UNCHANGED disk
               \/ behind' /\ journal' = journal
               \/ ~behind' /\ journal'[j].state = state'[j]
    BY Written
  <1>1. SameJobs'
    <2> SUFFICES ASSUME NEW j \in Jobs
                 PROVE  /\ state'[j] = "absent" => journal'[j].state = "absent"
                        /\ journal'[j].state = "gone" => state'[j] = "gone"
                        /\ ~behind' /\ journal'[j].state = "absent"
                              => state'[j] \in {"absent", "gone"}
                        /\ state'[j] = "absent" => /\ tracking'[j] = "none"
                                                   /\ task'[j] = "none"
                                                   /\ sends'[j] = 0
      BY DEF SameJobs
    <2>1. /\ state'[j] = "absent" <=> state[j] = "absent" /\ ~Started(j)
          /\ state[j] = "gone" => state'[j] = "gone"
      BY DEF TypeOK
    <2>2. state'[j] = "absent" => journal'[j].state = "absent"
      BY <1>a, <2>1 DEF SameJobs
    <2>3. journal'[j].state = "gone" => state'[j] = "gone"
      BY <1>a, <2>1 DEF SameJobs
    <2>4. ~behind' /\ journal'[j].state = "absent" => state'[j] \in {"absent", "gone"}
      <3>1. CASE Persist
        BY <3>1, Written
      <3>2. CASE UNCHANGED disk /\ ~Persist
        BY <2>1, <3>2 DEF SameJobs
      <3>3. QED  BY <3>1, <3>2
    <2>5. state'[j] = "absent" => Untouched(j) /\ task'[j] = "none"
      BY <2>1 DEF SameJobs
    <2>6. QED  BY <2>1, <2>2, <2>3, <2>4, <2>5 DEF SameJobs
  <1>2. CreatedIsFresh'
    <2> SUFFICES ASSUME NEW j \in Jobs, task'[j] = "created"
                 PROVE  /\ state'[j] = "running"
                        /\ tracking'[j] = "active"
                        /\ ~behind' => journal'[j].state = "running"
                        /\ sends'[j] = 0
      BY DEF CreatedIsFresh, BrokerUp
    <2>1. CASE Started(j)
      BY <2>1, Written DEF SameJobs
    <2>2. CASE ~Started(j)
      <3>1. Untouched(j) /\ task[j] = "created"
        BY <2>2
      <3>2. QED  BY <1>a, <3>1 DEF CreatedIsFresh
    <2>3. QED  BY <2>1, <2>2
  <1>3. SentOnce'
    BY DEF SentOnce
  <1>4. ASSUME NEW j \in Jobs PROVE Proven(Snapshot[j], j)'
    <2>1. /\ state[j] = "finished" => /\ source[j] = "terminal_manifest"
                                      /\ kernel[j] \in {"finished", "malformed"}
          /\ state[j] = "error" => kernel[j] \in {"error", "killed"}
      BY DEF AllProven, Proven, Snapshot
    <2>2. JobStep(j) /\ kernel' = kernel  OBVIOUS
    <2>3. /\ state'[j] = "finished" => /\ source'[j] = "terminal_manifest"
                                       /\ kernel'[j] \in {"finished", "malformed"}
          /\ state'[j] = "error" => kernel'[j] \in {"error", "killed"}
      BY <2>1, <2>2
    <2>4. QED  BY <2>3 DEF Proven, Snapshot
  <1>5. ASSUME NEW j \in Jobs PROVE Proven(journal[j], j)'
    <2>1. CASE journal' = journal
      BY <2>1 DEF AllProven, Proven, TypeOK
    <2>2. CASE journal' = Snapshot'
      BY <1>4, <2>2
    <2>3. QED  BY <2>1, <2>2 DEF Persist
  <1>6. QED  BY <1>1, <1>2, <1>3, <1>4, <1>5 DEF RestOfSafety, AllProven

LEMMA OtherStepsSafe ==
  ASSUME SafetyInv, TypeOK',
         \/ IdleStep \/ BrokerDies \/ KernelStep \/ Restart
         \/ \E j \in Jobs : Send(j)
  PROVE  RestOfSafety'
  <1> USE DEF SafetyInv, RestOfSafety
  <1>1. CASE IdleStep
    BY <1>1 DEF IdleStep, SameJobs, CreatedIsFresh, SentOnce, AllProven, Proven,
                Snapshot, BrokerUp
  <1>2. CASE BrokerDies
    <2>1. UNCHANGED <<state, tracking, source, kernel, sends>>
          /\ task' = [j \in Jobs |-> "none"]
      BY <1>2 DEF BrokerDies, ProcessEnds, job, runtime
    <2>2. SameJobs'
      BY <1>2, <2>1, Written DEF BrokerDies, SameJobs
    <2>3. CreatedIsFresh' /\ SentOnce'
      BY <2>1 DEF CreatedIsFresh, SentOnce
    <2>4. \A j \in Jobs : Proven(Snapshot[j], j)'
      BY <2>1 DEF AllProven, Proven, Snapshot
    <2>5. \A j \in Jobs : Proven(journal[j], j)'
      <3>1. CASE journal' = journal
        BY <2>1, <3>1 DEF AllProven, Proven
      <3>2. CASE journal' = Snapshot'
        BY <2>4, <3>2
      <3>3. QED  BY <1>2, <3>1, <3>2 DEF BrokerDies, Persist
    <2>6. QED  BY <2>2, <2>3, <2>4, <2>5 DEF AllProven
  <1>3. CASE Restart
    <2>1. RestOfSafety' <=> /\ SameJobs' /\ CreatedIsFresh' /\ SentOnce' /\ AllProven'
      OBVIOUS
    <2>2. UNCHANGED <<task, journal, kernel, sends>> /\ broker = "down"
      BY <1>3 DEF Restart, control, runtime
    <2>3. SameJobs'
      BY <1>3, <2>2 DEF Restart, SameJobs, RestoredState, RestoredTracking, TypeOK
    <2>4. CreatedIsFresh'
      BY <1>3, <2>2 DEF Restart, CreatedIsFresh, BrokerUp, TypeOK
    <2>5. SentOnce'
      BY <2>2 DEF SentOnce
    <2>6. AllProven'
      <3>1. ASSUME NEW j \in Jobs
            PROVE  /\ state'[j] = "finished" => /\ journal[j].state = "finished"
                                                /\ source'[j] = "terminal_manifest"
                   /\ state'[j] = "error" => journal[j].state = "error"
        BY <1>3 DEF Restart, RestoredState
      <3>2. ASSUME NEW j \in Jobs PROVE Proven(Snapshot[j], j)'
        BY <2>2, <3>1 DEF AllProven, Proven, Snapshot
      <3>3. ASSUME NEW j \in Jobs PROVE Proven(journal[j], j)'
        BY <2>2 DEF AllProven, Proven
      <3>4. QED  BY <3>2, <3>3 DEF AllProven
    <2>7. QED  BY <2>1, <2>3, <2>4, <2>5, <2>6
  <1>4. ASSUME NEW j \in Jobs, Send(j) PROVE RestOfSafety'
    BY <1>4 DEF Send, SameJobs, CreatedIsFresh, SentOnce, AllProven, Proven,
                Snapshot, TypeOK, job, BrokerUp
  <1>5. CASE KernelStep
    <2>1. UNCHANGED <<state, tracking, source, task, disk, broker, sends>>
      BY <1>5 DEF KernelStep, KernelDies, KernelStarts, KernelFinishes, RequestLost,
                  job, control
    <2>2. \A j \in Jobs : \/ kernel'[j] = kernel[j]
                          \/ kernel[j] \in {"queued", "running"}
      BY <1>5 DEF KernelStep, KernelDies, KernelStarts, KernelFinishes, RequestLost,
                  TypeOK
    <2>3. SameJobs' /\ CreatedIsFresh' /\ SentOnce'
      BY <2>1, <2>2 DEF SameJobs, CreatedIsFresh, SentOnce, BrokerUp
    <2>4. AllProven'
      BY <2>1, <2>2 DEF AllProven, Proven, Snapshot
    <2>5. QED  BY <2>3, <2>4
  <1>6. QED  BY <1>1, <1>2, <1>3, <1>4, <1>5

LEMMA SafetyInit == Init => SafetyInv
  BY TypeInit DEF Init, SafetyInv, SameJobs, CreatedIsFresh, SentOnce,
     MarkersAreTrue, AllProven, Proven, Snapshot, BrokerUp

LEMMA SafetyStep == SafetyInv /\ [Next]_vars => SafetyInv'
  <1> SUFFICES ASSUME SafetyInv, [Next]_vars PROVE SafetyInv'  OBVIOUS
  <1>1. TypeOK'  BY TypeStep DEF SafetyInv
  <1>2. MarkersAreTrue'  BY MarkersStep
  <1>3. RestOfSafety'  BY <1>1, StepKinds, BrokerStepSafe, OtherStepsSafe
  <1>4. QED  BY <1>1, <1>2, <1>3 DEF SafetyInv, RestOfSafety

LEMMA SafetyInvariant == Spec => []SafetyInv
  BY SafetyInit, SafetyStep, PTL DEF Spec

(* No interleaving of responses, timeouts, disconnects, reconciliations,       *)
(* resets, crashes and restarts gives a job a verdict its kernel did not give. *)
THEOREM VerdictsAreProven == Spec => []VerdictIsProven
  <1>1. SafetyInv => VerdictIsProven
    BY DEF SafetyInv, AllProven, Proven, Snapshot, VerdictIsProven
  <1>2. QED  BY <1>1, SafetyInvariant, PTL

(* User code is requested at most once. *)
THEOREM CodeIsNeverReplayed == Spec => []NeverReplayed
  <1>1. SafetyInv => NeverReplayed
    BY DEF SafetyInv, SentOnce, NeverReplayed
  <1>2. QED  BY <1>1, SafetyInvariant, PTL

(* Unless the last journal write failed, a replacement broker would restore    *)
(* every registered job whose execution was requested, however many writes     *)
(* failed before and wherever the broker dies.                                 *)
THEOREM ExecutionIsJournaled == Spec => []WriteAhead
  <1>1. SafetyInv => WriteAhead
    BY DEF SafetyInv, SameJobs, WriteAhead, Tracked, RestoredState
  <1>2. QED  BY <1>1, SafetyInvariant, PTL
==============================================================================
