------------------------- MODULE JobRegistryProofs -------------------------
(* Durability, finality and wake-ups in JobTracking: RegistryInv is inductive, *)
(* for every set of jobs and every bound on the faults.                        *)
EXTENDS JobTrackingProofs

USE DEF Handlers, TerminalStates, States, Trackings, Sources, Tasks, OutcomeKinds, disk

(* A completed job keeps its verdict or is pruned, except that a restart may   *)
(* undo what was never written.                                                *)
Keeps(j) ==
    tracking[j] = "complete" /\ ~(broker = "down" /\ (state[j] = "stale" \/ behind))
    => \/ state'[j] = state[j] /\ tracking'[j] = "complete"
       \/ state'[j] = "gone"

(* What a step must do for RegistryInv, apart from SafetyInv and the deferral. *)
Sound == /\ RecoveringIsHeld' /\ CompleteIsOnDisk' /\ NoLostWakeup'
         /\ \A j \in Jobs : Keeps(j)

------------------------------------------------------------------------------
(* A job that is running in memory is running on disk. *)
LEMMA RunningStep ==
  ASSUME SafetyInv, RunningIsOnDisk, [Next]_vars
  PROVE  RunningIsOnDisk'
  <1> USE DEF RunningIsOnDisk
  <1>1. CASE BrokerStep
    <2> SUFFICES ASSUME NEW j \in Jobs, state'[j] = "running", ~behind'
                 PROVE  journal'[j].state = "running"
      OBVIOUS
    <2>1. CASE Persist
      BY <2>1, Written
    <2>2. CASE UNCHANGED disk /\ state[j] = "running"
      BY <1>1, <2>2 DEF BrokerStep
    <2>3. state[j] = "running" \/ Persist
      BY <1>1 DEF BrokerStep, JobStep, Untouched, Moved, Judged, Started
    <2>4. QED  BY <1>1, <2>1, <2>2, <2>3 DEF BrokerStep
  <1>2. CASE IdleStep \/ KernelStep \/ \E j \in Jobs : Send(j)
    BY <1>2 DEF IdleStep, KernelStep, KernelDies, KernelStarts, KernelFinishes,
                RequestLost, Send, job, control, BrokerUp
  <1>3. CASE BrokerDies
    BY <1>3 DEF BrokerDies, ProcessEnds, BrokerUp
  <1>4. CASE Restart
    BY <1>4 DEF Restart, RestoredState
  <1>5. QED  BY <1>1, <1>2, <1>3, <1>4, StepKinds

------------------------------------------------------------------------------
(* Deferral.  A handler that begins to gather has cancelled what it waits for. *)
LEMMA GatheredHaveStopped ==
  ASSUME SafetyInv, AwaitedHaveStopped, NEW h \in Handlers, NEW S \in SUBSET Jobs,
         Cancel(S), Gather(h, S), \A j \in Jobs : state[j] # "absent" => state'[j] # "absent"
  PROVE  AwaitedHaveStopped'
  <1> USE DEF SafetyInv, TypeOK
  <1> SUFFICES ASSUME NEW j \in Jobs, Deferred(j)'
               PROVE  state'[j] # "absent" /\ task'[j] \in {"none", "cancelled"}
    BY DEF AwaitedHaveStopped
  <1>1. CASE Deferred(j)
    BY <1>1 DEF AwaitedHaveStopped, Cancel
  <1>2. CASE ~Deferred(j)
    <2>1. j \in S /\ task[j] # "none"
      BY <1>2 DEF Deferred, Gather
    <2>2. QED  BY <2>1 DEF Cancel, SameJobs
  <1>3. QED  BY <1>1, <1>2

(* Any other step defers nothing more and lets no cancelled task go on. *)
Calm ==
    /\ \A h \in Handlers : handler'[h] = "gathering" =>
         handler[h] = "gathering" /\ awaiting'[h] = awaiting[h]
    /\ \A j \in Jobs :
         /\ state[j] # "absent" => state'[j] # "absent"
         /\ \/ task'[j] \in {task[j], "none", "cancelled"}
            \/ state[j] = "absent" \/ task[j] = "created"

LEMMA CalmIsStopped ==
  ASSUME AwaitedHaveStopped, Calm
  PROVE  AwaitedHaveStopped'
  <1> SUFFICES ASSUME NEW j \in Jobs, Deferred(j)'
               PROVE  state'[j] # "absent" /\ task'[j] \in {"none", "cancelled"}
    BY DEF AwaitedHaveStopped
  <1>1. Deferred(j)
    BY DEF Deferred, Calm
  <1>2. QED  BY <1>1 DEF AwaitedHaveStopped, Calm

LEMMA AwaitedStep ==
  ASSUME SafetyInv, AwaitedHaveStopped, [Next]_vars
  PROVE  AwaitedHaveStopped'
  <1>0. /\ task \in [Jobs -> Tasks] /\ state \in [Jobs -> States]
        /\ handler \in [Handlers -> {"idle", "cancelling", "gathering"}]
        /\ awaiting \in [Handlers -> SUBSET Jobs]
    BY DEF SafetyInv, TypeOK
  <1> USE <1>0 DEF job, control
  <1>1. ASSUME NEW j \in Jobs, Start(j) PROVE Calm
    BY <1>1 DEF Start, Register, Calm
  <1>2. ASSUME NEW j \in Jobs, Send(j) PROVE Calm
    BY <1>2 DEF Send, Calm
  <1>3. ASSUME NEW j \in Jobs, RunEnds(j) PROVE Calm
    <2>1. TaskEnds(j)
      BY <1>3 DEF RunEnds, RunReturnsManifest, RunReturnsError, RunAmbiguous,
                  RunTimesOut, RunCancelled
    <2>2. \A i \in Jobs : state[i] # "absent" => state'[i] # "absent"
      BY <1>3 DEF RunEnds, RunReturnsManifest, RunReturnsError, RunAmbiguous,
                  RunTimesOut, RunCancelled, Conclude, ManifestState
    <2>3. QED  BY <2>1, <2>2 DEF TaskEnds, Calm
  <1>4. ASSUME NEW j \in Jobs, StatusLost(j) \/ DeadlinePasses(j) PROVE Calm
    BY <1>4 DEF StatusLost, DeadlinePasses, Calm
  <1>5. ASSUME NEW j \in Jobs, StatusMissing(j) PROVE Calm
    BY <1>5 DEF StatusMissing, Cancel, Calm
  <1>6. ASSUME StartFails PROVE Calm
    BY <1>6 DEF StartFails, Calm
  <1>7. ASSUME Bookkeeping \/ Drop \/ ListenerCancelsReconciler \/ RuntimeReady PROVE Calm
    BY <1>7 DEF Bookkeeping, Drop, ListenerCancelsReconciler, RuntimeReady, Calm
  <1>8. ASSUME KernelStep \/ UNCHANGED vars PROVE Calm
    <2>1. UNCHANGED <<state, task, handler, awaiting>>
      BY <1>8 DEF KernelStep, KernelDies, KernelStarts, KernelFinishes, RequestLost, vars
    <2>2. QED  BY <2>1 DEF Calm
  <1>9. ASSUME OnBrowserDisconnectEnds PROVE Calm
    BY <1>9 DEF OnBrowserDisconnectEnds, Calm
  <1>10. ASSUME MarkStaleEnds PROVE Calm
    BY <1>10 DEF MarkStaleEnds, Calm
  <1>11. ASSUME ReconcileBegin PROVE Calm
    BY <1>11 DEF ReconcileBegin, Calm
  <1>12. ASSUME ProbeReads \/ ReconcileFails PROVE Calm
    BY <1>12 DEF ProbeReads, ReconcileFails, ReconcileEnds, Calm
  <1>13. ASSUME ReconcileApplies PROVE Calm
    <2>1. \A j \in Owned : MarkerState(j) # "absent"
      BY DEF MarkerState, ManifestState, Owned
    <2>2. QED  BY <1>13, <2>1 DEF ReconcileApplies, ReconcileEnds, Calm
  <1>14. ASSUME ShutdownCancelsReconciler PROVE Calm
    BY <1>14 DEF ShutdownCancelsReconciler, Calm
  <1>15. ASSUME Crash \/ ShutdownEnds PROVE Calm
    BY <1>15 DEF Crash, ShutdownEnds, ProcessEnds, Calm
  <1>16. ASSUME Restart PROVE Calm
    <2>1. \A j \in Jobs : journal[j].state # "absent" => RestoredState(journal[j]) # "absent"
      BY DEF RestoredState
    <2>2. QED  BY <1>16, <2>1 DEF Restart, SafetyInv, SameJobs, Calm
  <1>17. CASE OnBrowserDisconnect
    <2>1. PICK S \in SUBSET Jobs : Cancel(S) /\ Gather("disconnect", S)
      BY <1>17 DEF OnBrowserDisconnect
    <2>2. QED  BY <1>17, <2>1, GatheredHaveStopped DEF OnBrowserDisconnect
  <1>18. CASE MarkStale
    <2>1. PICK S \in SUBSET Jobs :
            /\ Cancel(S) /\ Gather("reset", S)
            /\ state' = [j \in Jobs |-> IF j \in S THEN "stale" ELSE state[j]]
      BY <1>18 DEF MarkStale, Tracked
    <2>2. QED  BY <2>1, GatheredHaveStopped
  <1>19. CASE DetachForShutdown
    BY <1>19, GatheredHaveStopped DEF DetachForShutdown
  <1>20. QED
    BY <1>1, <1>2, <1>3, <1>4, <1>5, <1>6, <1>7, <1>8, <1>9, <1>10, <1>11, <1>12,
       <1>13, <1>14, <1>15, <1>16, <1>17, <1>18, <1>19, CalmIsStopped
       DEF Next, RunEnds, KernelStep

------------------------------------------------------------------------------
(* A journal that has just been written has what is complete, or is behind. *)
LEMMA WrittenIsComplete ==
  ASSUME Persist, \A j \in Jobs : tracking'[j] = "complete" => state'[j] \in TerminalStates
  PROVE  CompleteIsOnDisk'
  <1>1. ASSUME NEW j \in Jobs, ~behind'
        PROVE  /\ journal'[j].state = state'[j]
               /\ journal'[j].source = source'[j]
               /\ journal'[j].tracking = tracking'[j]
    BY <1>1, Written
  <1>2. QED  BY <1>1 DEF CompleteIsOnDisk, Recoverable

(* What was complete already and is left alone is on disk still. *)
LEMMA LeftAloneIsComplete ==
  ASSUME CompleteIsOnDisk, UNCHANGED disk,
         \A j \in Jobs : tracking'[j] = "complete" =>
            /\ tracking[j] = "complete"
            /\ state'[j] = state[j] /\ source'[j] = source[j]
  PROVE  CompleteIsOnDisk'
  BY DEF CompleteIsOnDisk, Recoverable

(* Sound, job by job. *)
LEMMA SoundIfJobs ==
  ASSUME \A j \in Jobs :
           /\ BrokerUp' /\ tracking'[j] = "recovering" =>
                 j \in batch' /\ recon' # "idle" /\ state'[j] \in {"running", "timed_out"}
           /\ BrokerUp' /\ state'[j] \notin {"absent", "gone"} /\ ~event'[j] =>
                 \/ tracking'[j] = "active" /\ task'[j] # "none"
                 \/ task'[j] = "cancelled"
                 \/ tracking'[j] = "recovering" /\ j \in batch'
                 \/ state'[j] = "stale" /\ handler'["reset"] = "gathering"
           /\ Keeps(j),
         CompleteIsOnDisk'
  PROVE  Sound
  <1>1. RecoveringIsHeld'  BY DEF RecoveringIsHeld
  <1>2. NoLostWakeup'  BY DEF NoLostWakeup, Tracked
  <1>3. QED  BY <1>1, <1>2 DEF Sound

------------------------------------------------------------------------------
(* The steps of tools and tasks. *)
LEMMA RunIsSound ==
  ASSUME RegistryInv, NEW j \in Jobs, RunEnds(j)
  PROVE  Sound
  <1>0. /\ task \in [Jobs -> Tasks] /\ state \in [Jobs -> States]
        /\ tracking \in [Jobs -> Trackings] /\ source \in [Jobs -> Sources]
        /\ event \in [Jobs -> BOOLEAN]
    BY DEF RegistryInv, SafetyInv, TypeOK
  <1> USE <1>0 DEF RegistryInv
  <1>1. /\ BrokerUp /\ BrokerUp' /\ TaskEnds(j)
        /\ UNCHANGED <<batch, recon, handler>>
    BY DEF RunEnds, RunReturnsManifest, RunReturnsError, RunAmbiguous, RunTimesOut,
           RunCancelled, TaskEnds, BrokerUp
  <1>2. PICK s \in States, t \in {"complete", "detached"}, src \in Sources :
          /\ Conclude(j, s, t, src)
          /\ s \in {"running", "timed_out", "finished", "error"}
          /\ t = "complete" => s \in {"finished", "error"}
          /\ t = "complete" => task[j] = "waiting"
    BY DEF RunEnds, RunReturnsManifest, RunReturnsError, RunAmbiguous, RunTimesOut,
           RunCancelled, ManifestState
  <1>3. \A i \in Jobs \ {j} : /\ state'[i] = state[i] /\ tracking'[i] = tracking[i]
                              /\ source'[i] = source[i] /\ event'[i] = event[i]
                              /\ task'[i] = task[i]
    BY <1>1, <1>2 DEF Conclude, TaskEnds
  <1>4. \/ /\ state'[j] = state[j] /\ tracking'[j] = tracking[j] /\ source'[j] = source[j]
        \/ /\ state[j] = "running" /\ state'[j] = s /\ tracking'[j] = t
    BY <1>2 DEF Conclude
  <1>5. \/ event'[j]
        \/ state[j] \in {"absent", "gone"} /\ state'[j] = state[j]
    BY <1>1, <1>4 DEF TaskEnds, Tracked
  <1>6. tracking[j] = "complete" => state[j] # "running"
    BY DEF CompleteIsOnDisk
  <1>7. CompleteIsOnDisk'
    <2>1. CASE Deferred(j)
      <3>1. UNCHANGED disk /\ task[j] # "waiting"
        BY <1>1, <2>1 DEF TaskEnds, AwaitedHaveStopped
      <3>2. \A i \in Jobs : tracking'[i] = "complete" =>
              tracking[i] = "complete" /\ state'[i] = state[i] /\ source'[i] = source[i]
        BY <1>2, <1>3, <1>4, <3>1
      <3>3. QED  BY <3>1, <3>2 DEF CompleteIsOnDisk
    <2>2. CASE ~Deferred(j)
      <3>1. Persist  BY <1>1, <2>2 DEF TaskEnds
      <3>2. \A i \in Jobs : tracking'[i] = "complete" => state'[i] \in TerminalStates
        BY <1>2, <1>3, <1>4 DEF CompleteIsOnDisk
      <3>3. QED  BY <3>1, <3>2, WrittenIsComplete
    <2>3. QED  BY <2>1, <2>2
  <1>8. QED
    BY <1>1, <1>2, <1>3, <1>4, <1>5, <1>6, <1>7, SoundIfJobs
       DEF RecoveringIsHeld, NoLostWakeup, Tracked, Keeps

LEMMA ToolIsSound ==
  ASSUME RegistryInv,
         StartFails \/ Bookkeeping \/ MarkStale \/ MarkStaleEnds
         \/ \E j \in Jobs : Start(j) \/ StatusLost(j) \/ StatusMissing(j)
  PROVE  Sound
  <1>0. /\ task \in [Jobs -> Tasks] /\ state \in [Jobs -> States]
        /\ tracking \in [Jobs -> Trackings] /\ event \in [Jobs -> BOOLEAN]
        /\ handler \in [Handlers -> {"idle", "cancelling", "gathering"}]
    BY DEF RegistryInv, SafetyInv, TypeOK
  <1>p. \A P \in PruneSets : P \subseteq {i \in Tracked : tracking[i] = "complete"
                                                /\ state[i] \in TerminalStates}
    BY DEF PruneSets
  <1>c. \A j \in Jobs : tracking[j] = "complete" => state[j] \in TerminalStates
    BY DEF RegistryInv, CompleteIsOnDisk
  <1> USE <1>0 DEF RegistryInv, job, control, BrokerUp
  <1>1. ASSUME NEW j \in Jobs, Start(j) PROVE Sound
    <2>1. CompleteIsOnDisk'
      BY <1>1, <1>p, <1>c, WrittenIsComplete DEF Start, Register
    <2>2. tracking[j] = "none"
      BY <1>1 DEF Start, Register, SafetyInv, SameJobs
    <2>3. QED
      BY <1>1, <1>p, <2>1, <2>2, SoundIfJobs
         DEF Start, Register, Serving, RecoveringIsHeld, NoLostWakeup, Tracked, Keeps
  <1>2. ASSUME NEW j \in Jobs, StatusLost(j) PROVE Sound
    <2>1. CompleteIsOnDisk'
      BY <1>2, <1>c, WrittenIsComplete DEF StatusLost, Detach
    <2>2. QED
      BY <1>2, <2>1, SoundIfJobs
         DEF StatusLost, StatusFinds, Serving, Detach, RecoveringIsHeld, NoLostWakeup,
             Tracked, Keeps
  <1>3. ASSUME NEW j \in Jobs, StatusMissing(j) PROVE Sound
    <2>1. CompleteIsOnDisk'
      BY <1>3, <1>c, WrittenIsComplete DEF StatusMissing
    <2>2. QED
      BY <1>3, <2>1, SoundIfJobs
         DEF StatusMissing, StatusFinds, Serving, Cancel, RecoveringIsHeld,
             NoLostWakeup, Tracked, Keeps
  <1>4. CASE StartFails
    <2>1. CompleteIsOnDisk'
      BY <1>4 DEF StartFails, CompleteIsOnDisk
    <2>2. QED
      BY <1>4, <1>p, <2>1, SoundIfJobs
         DEF StartFails, Serving, RecoveringIsHeld, NoLostWakeup, Tracked, Keeps
  <1>5. CASE Bookkeeping
    <2>1. CompleteIsOnDisk'
      BY <1>5, <1>c, WrittenIsComplete DEF Bookkeeping
    <2>2. QED
      BY <1>5, <2>1, SoundIfJobs
         DEF Bookkeeping, RecoveringIsHeld, NoLostWakeup, Tracked, Keeps
  <1>6. CASE MarkStale
    <2>1. PICK S \in SUBSET Jobs :
            /\ S = {j \in Tracked : ~(state[j] \in TerminalStates
                                      /\ tracking[j] = "complete")}
            /\ state' = [j \in Jobs |-> IF j \in S THEN "stale" ELSE state[j]]
            /\ tracking' = [j \in Jobs |-> IF j \in S THEN "complete" ELSE tracking[j]]
            /\ Cancel(S) /\ Gather("reset", S)
      BY <1>6 DEF MarkStale, Tracked
    <2>2. /\ BrokerUp /\ BrokerUp' /\ UNCHANGED <<source, event, disk, recon, batch>>
          /\ handler["reset"] = "idle"
      BY <1>6 DEF MarkStale, Serving
    <2>3. CompleteIsOnDisk'
      BY <2>1, <2>2 DEF CompleteIsOnDisk
    <2>4. \A j \in Jobs : /\ task[j] = "cancelled" => task'[j] = "cancelled"
                          /\ j \notin S => task'[j] = task[j]
      BY <2>1 DEF Cancel
    <2>5. handler'["reset"] = "gathering"
      BY <2>1 DEF Gather
    <2>6. ASSUME NEW j \in Jobs, j \in S
          PROVE  /\ state'[j] = "stale" /\ tracking'[j] = "complete"
                 /\ tracking[j] = "complete" => state[j] \notin TerminalStates
      BY <2>1, <2>6
    <2>7. ASSUME NEW j \in Jobs, j \notin S
          PROVE  /\ state'[j] = state[j] /\ tracking'[j] = tracking[j]
                 /\ task'[j] = task[j] /\ event'[j] = event[j]
      BY <2>1, <2>2, <2>4, <2>7
    <2>8. QED
      BY <1>c, <2>2, <2>3, <2>5, <2>6, <2>7, SoundIfJobs
         DEF RecoveringIsHeld, NoLostWakeup, Tracked, Keeps
  <1>7. CASE MarkStaleEnds
    <2>1. CompleteIsOnDisk'
      BY <1>7, <1>c, WrittenIsComplete DEF MarkStaleEnds
    <2>2. QED
      BY <1>7, <2>1, SoundIfJobs
         DEF MarkStaleEnds, RecoveringIsHeld, NoLostWakeup, Tracked, Keeps
  <1>8. QED  BY <1>1, <1>2, <1>3, <1>4, <1>5, <1>6, <1>7

LEMMA ConnectionIsSound ==
  ASSUME RegistryInv,
         Drop \/ ListenerCancelsReconciler \/ OnBrowserDisconnect
         \/ OnBrowserDisconnectEnds \/ RuntimeReady \/ ShutdownCancelsReconciler
         \/ DetachForShutdown
  PROVE  Sound
  <1>0. /\ task \in [Jobs -> Tasks] /\ state \in [Jobs -> States]
        /\ tracking \in [Jobs -> Trackings] /\ event \in [Jobs -> BOOLEAN]
        /\ handler \in [Handlers -> {"idle", "cancelling", "gathering"}]
    BY DEF RegistryInv, SafetyInv, TypeOK
  <1>c. \A j \in Jobs : tracking[j] = "complete" => state[j] \in TerminalStates
    BY DEF RegistryInv, CompleteIsOnDisk
  <1>f. \A j \in Jobs : task[j] = "created" => state[j] = "running" /\ tracking[j] = "active"
    BY DEF RegistryInv, SafetyInv, CreatedIsFresh
  <1> USE <1>0 DEF RegistryInv, job, control, BrokerUp
  <1>1. CASE Drop \/ ListenerCancelsReconciler \/ RuntimeReady
    <2>1. UNCHANGED <<state, tracking, source, event, disk, task, recon, batch,
                      handler, broker>>
      BY <1>1 DEF Drop, ListenerCancelsReconciler, RuntimeReady
    <2>2. CompleteIsOnDisk'  BY <2>1 DEF CompleteIsOnDisk
    <2>3. QED
      BY <2>1, <2>2, SoundIfJobs DEF RecoveringIsHeld, NoLostWakeup, Tracked, Keeps
  <1>2. CASE ShutdownCancelsReconciler
    <2>1. /\ UNCHANGED <<state, tracking, source, event, disk, task, recon, batch,
                         broker>>
          /\ handler'["reset"] = handler["reset"]
      BY <1>2 DEF ShutdownCancelsReconciler
    <2>2. CompleteIsOnDisk'  BY <2>1 DEF CompleteIsOnDisk
    <2>3. QED
      BY <2>1, <2>2, SoundIfJobs DEF RecoveringIsHeld, NoLostWakeup, Tracked, Keeps
  <1>3. CASE OnBrowserDisconnectEnds
    <2>1. CompleteIsOnDisk'
      BY <1>3, <1>c, WrittenIsComplete DEF OnBrowserDisconnectEnds
    <2>2. handler'["reset"] = handler["reset"]
      BY <1>3 DEF OnBrowserDisconnectEnds
    <2>3. QED
      BY <1>3, <2>1, <2>2, SoundIfJobs
         DEF OnBrowserDisconnectEnds, RecoveringIsHeld, NoLostWakeup, Tracked, Keeps
  <1>4. CASE OnBrowserDisconnect
    <2>1. PICK S \in SUBSET Jobs :
            /\ S = {j \in Jobs : state[j] = "running"}
            /\ Detach(S) /\ Cancel(S) /\ Gather("disconnect", S)
            /\ event' = [j \in Jobs |-> IF j \in S THEN TRUE ELSE event[j]]
      BY <1>4 DEF OnBrowserDisconnect
    <2>2. UNCHANGED <<state, source, disk, recon, batch, broker>>
      BY <1>4 DEF OnBrowserDisconnect
    <2>3. handler'["reset"] = handler["reset"]
      BY <2>1 DEF Gather
    <2>4. \A j \in Jobs : /\ tracking'[j] = IF j \in S THEN "detached" ELSE tracking[j]
                          /\ j \notin S => task'[j] = task[j]
      BY <2>1 DEF Detach, Cancel
    <2>5. CompleteIsOnDisk'
      BY <2>2, <2>4, LeftAloneIsComplete
    <2>6. ASSUME NEW j \in Jobs, j \in S
          PROVE  tracking'[j] = "detached" /\ event'[j] /\ tracking[j] # "complete"
      BY <1>c, <2>1, <2>4, <2>6
    <2>7. ASSUME NEW j \in Jobs, j \notin S
          PROVE  /\ tracking'[j] = tracking[j] /\ event'[j] = event[j]
                 /\ task'[j] = task[j]
      BY <2>1, <2>4, <2>7
    <2>8. QED
      BY <2>2, <2>3, <2>5, <2>6, <2>7, SoundIfJobs
         DEF RecoveringIsHeld, NoLostWakeup, Tracked, Keeps
  <1>5. CASE DetachForShutdown
    <2>1. PICK S \in SUBSET Jobs :
            /\ S = {j \in Jobs : /\ state[j] \in {"running", "timed_out"}
                                 /\ tracking[j] # "complete"}
            /\ Detach(S) /\ Cancel(Jobs) /\ Gather("shutdown", Jobs)
            /\ event' = [j \in Jobs |-> IF j \in S THEN TRUE ELSE event[j]]
      BY <1>5 DEF DetachForShutdown
    <2>2. UNCHANGED <<state, source, disk, recon, batch, broker>>
      BY <1>5 DEF DetachForShutdown
    <2>3. handler'["reset"] = handler["reset"]
      BY <2>1 DEF Gather
    <2>4. \A j \in Jobs : /\ tracking'[j] = IF j \in S THEN "detached" ELSE tracking[j]
                          /\ j \notin S /\ task[j] # "none" => task'[j] = "cancelled"
      BY <1>f, <2>1 DEF Detach, Cancel
    <2>5. CompleteIsOnDisk'
      BY <2>2, <2>4, LeftAloneIsComplete
    <2>6. ASSUME NEW j \in Jobs, j \in S
          PROVE  tracking'[j] = "detached" /\ event'[j] /\ tracking[j] # "complete"
      BY <2>1, <2>4, <2>6
    <2>7. ASSUME NEW j \in Jobs, j \notin S
          PROVE  /\ tracking'[j] = tracking[j] /\ event'[j] = event[j]
                 /\ task[j] # "none" => task'[j] = "cancelled"
      BY <2>1, <2>4, <2>7
    <2>8. QED
      BY <2>2, <2>3, <2>5, <2>6, <2>7, SoundIfJobs
         DEF RecoveringIsHeld, NoLostWakeup, Tracked, Keeps
  <1>6. QED  BY <1>1, <1>2, <1>3, <1>4, <1>5

LEMMA ReconcileIsSound ==
  ASSUME RegistryInv,
         ReconcileBegin \/ ProbeReads \/ ReconcileFails \/ ReconcileApplies
  PROVE  Sound
  <1>0. /\ task \in [Jobs -> Tasks] /\ state \in [Jobs -> States]
        /\ tracking \in [Jobs -> Trackings] /\ event \in [Jobs -> BOOLEAN]
        /\ batch \subseteq Jobs
    BY DEF RegistryInv, SafetyInv, TypeOK
  <1>c. \A j \in Jobs : tracking[j] = "complete" => state[j] \in TerminalStates
    BY DEF RegistryInv, CompleteIsOnDisk
  <1> USE <1>0 DEF RegistryInv, job, control, BrokerUp
  <1>1. CASE ReconcileBegin
    <2>1. CompleteIsOnDisk'
      BY <1>1, <1>c, WrittenIsComplete DEF ReconcileBegin
    <2>2. QED
      BY <1>1, <2>1, SoundIfJobs
         DEF ReconcileBegin, Serving, RecoveringIsHeld, NoLostWakeup, Tracked, Keeps
  <1>2. CASE ProbeReads
    <2>1. CompleteIsOnDisk'  BY <1>2 DEF ProbeReads, CompleteIsOnDisk
    <2>2. QED
      BY <1>2, <2>1, SoundIfJobs
         DEF ProbeReads, RecoveringIsHeld, NoLostWakeup, Tracked, Keeps
  <1>o. BrokerUp => \A j \in Jobs : tracking[j] = "recovering" => j \in Owned
    BY DEF RecoveringIsHeld, Owned
  <1>w. \A j \in Owned : j \in Jobs /\ tracking[j] = "recovering"
    BY DEF Owned
  <1>3. CASE ReconcileFails
    <2>1. CompleteIsOnDisk'
      BY <1>3, <1>c, WrittenIsComplete DEF ReconcileFails, Detach
    <2>2. QED
      BY <1>3, <1>o, <1>w, <2>1, SoundIfJobs
         DEF ReconcileFails, ReconcileEnds, Detach, RecoveringIsHeld, NoLostWakeup,
             Tracked, Keeps
  <1>4. CASE ReconcileApplies
    <2>1. \A j \in Owned : /\ MarkerTracking(j) \in {"detached", "complete"}
                           /\ MarkerTracking(j) = "complete" => MarkerState(j) \in TerminalStates
      BY DEF MarkerTracking, MarkerState, ManifestState
    <2>2. CompleteIsOnDisk'
      BY <1>4, <1>c, <1>w, <2>1, WrittenIsComplete DEF ReconcileApplies
    <2>3. /\ BrokerUp /\ BrokerUp' /\ UNCHANGED <<task, handler>>
      BY <1>4 DEF ReconcileApplies, ReconcileEnds
    <2>4. ASSUME NEW j \in Jobs, j \in Owned
          PROVE  tracking'[j] # "recovering" /\ event'[j] /\ tracking[j] # "complete"
      BY <1>4, <1>w, <2>1, <2>4 DEF ReconcileApplies
    <2>5. ASSUME NEW j \in Jobs, j \notin Owned
          PROVE  /\ state'[j] = state[j] /\ tracking'[j] = tracking[j]
                 /\ event'[j] = event[j] /\ tracking[j] # "recovering"
      BY <1>4, <1>o, <2>5 DEF ReconcileApplies
    <2>6. QED
      BY <2>2, <2>3, <2>4, <2>5, SoundIfJobs DEF NoLostWakeup, Tracked, Keeps
  <1>5. QED  BY <1>1, <1>2, <1>3, <1>4

(* The end of the process, its replacement, the kernel and the clock. *)
IdleStepOfJobs ==
    UNCHANGED <<state, tracking, source, event, disk, task, recon, batch, handler,
                broker>>

LEMMA OthersAreSound ==
  ASSUME RegistryInv,
         BrokerDies \/ IdleStepOfJobs \/ Restart \/ \E j \in Jobs : Send(j)
  PROVE  Sound
  <1>0. /\ task \in [Jobs -> Tasks] /\ tracking \in [Jobs -> Trackings]
        /\ state \in [Jobs -> States] /\ journal \in [Jobs -> Records]
    BY DEF RegistryInv, SafetyInv, TypeOK
  <1>c. \A j \in Jobs : tracking[j] = "complete" => state[j] \in TerminalStates
    BY DEF RegistryInv, CompleteIsOnDisk
  <1> USE <1>0 DEF RegistryInv, job, control, BrokerUp
  <1>1. CASE BrokerDies
    <2>1. UNCHANGED <<state, tracking, source>> /\ ~BrokerUp'
      BY <1>1 DEF BrokerDies, ProcessEnds
    <2>2. CASE UNCHANGED disk
      <3>1. CompleteIsOnDisk'  BY <2>1, <2>2 DEF CompleteIsOnDisk
      <3>2. QED  BY <2>1, <3>1, SoundIfJobs DEF Keeps
    <2>3. CASE Persist
      <3>1. CompleteIsOnDisk'  BY <1>c, <2>1, <2>3, WrittenIsComplete
      <3>2. QED  BY <2>1, <3>1, SoundIfJobs DEF Keeps
    <2>4. QED  BY <1>1, <2>2, <2>3 DEF BrokerDies
  <1>2. CASE IdleStepOfJobs
    <2>1. CompleteIsOnDisk'  BY <1>2 DEF IdleStepOfJobs, CompleteIsOnDisk
    <2>2. QED
      BY <1>2, <2>1, SoundIfJobs
         DEF IdleStepOfJobs, RecoveringIsHeld, NoLostWakeup, Tracked, Keeps
  <1>3. ASSUME NEW j \in Jobs, Send(j) PROVE Sound
    <2>1. CompleteIsOnDisk'  BY <1>3 DEF Send, CompleteIsOnDisk
    <2>2. QED
      BY <1>3, <2>1, SoundIfJobs
         DEF Send, RecoveringIsHeld, NoLostWakeup, Tracked, Keeps
  <1>4. CASE Restart
    <2>1. ASSUME NEW j \in Jobs
          PROVE  /\ journal[j].state # "absent" => state'[j] = journal[j].state
                 /\ source'[j] = journal[j].source
                 /\ tracking'[j] = RestoredTracking(journal[j])
                 /\ journal'[j] = journal[j] /\ event'[j]
                 /\ journal[j].state \in States
      BY <1>4 DEF Restart, RestoredState, SafetyInv, AllProven, Proven, Records
    <2>2. CompleteIsOnDisk'
      BY <2>1 DEF CompleteIsOnDisk, RestoredTracking, Recoverable
    <2>3. ASSUME NEW j \in Jobs PROVE Keeps(j)
      <3> SUFFICES ASSUME tracking[j] = "complete", state[j] # "stale", ~behind
                   PROVE  state'[j] = state[j] /\ tracking'[j] = "complete"
        BY <1>4 DEF Keeps, Restart
      <3>1. /\ journal[j].state = state[j] /\ state[j] \in TerminalStates
            /\ ~Recoverable(journal[j])
        BY DEF CompleteIsOnDisk
      <3>2. QED  BY <2>1, <3>1 DEF RestoredTracking
    <2>4. \A j \in Jobs : tracking'[j] # "recovering"
      BY <2>1 DEF RestoredTracking
    <2>5. QED  BY <2>1, <2>2, <2>3, <2>4, SoundIfJobs
  <1>5. QED  BY <1>1, <1>2, <1>3, <1>4

LEMMA EveryStepIsSound ==
  ASSUME RegistryInv, [Next]_vars
  PROVE  Sound
  <1>1. ASSUME NEW j \in Jobs, DeadlinePasses(j) PROVE IdleStepOfJobs
    BY <1>1 DEF DeadlinePasses, IdleStepOfJobs, job, control
  <1>2. CASE KernelStep
    <2>1. IdleStepOfJobs
      BY <1>2 DEF KernelStep, KernelDies, KernelStarts, KernelFinishes, RequestLost,
                  IdleStepOfJobs, job, control
    <2>2. QED  BY <2>1, OthersAreSound
  <1>3. CASE UNCHANGED vars
    BY <1>3, OthersAreSound DEF vars, IdleStepOfJobs
  <1>4. ASSUME ShutdownEnds \/ Crash PROVE BrokerDies
    BY <1>4 DEF ShutdownEnds, Crash, BrokerDies
  <1>5. QED
    BY <1>1, <1>2, <1>3, <1>4, RunIsSound, ToolIsSound, ConnectionIsSound,
       ReconcileIsSound, OthersAreSound
       DEF Next, RunEnds, KernelStep

------------------------------------------------------------------------------
LEMMA RegistryInit == Init => RegistryInv
  <1> SUFFICES ASSUME Init PROVE RegistryInv  OBVIOUS
  <1>1. SafetyInv  BY SafetyInit
  <1>2. AwaitedHaveStopped
    BY DEF Init, AwaitedHaveStopped, Deferred
  <1>3. \A j \in Jobs : state[j] = "absent" /\ tracking[j] = "none"
    BY DEF Init
  <1>4. RecoveringIsHeld /\ RunningIsOnDisk /\ CompleteIsOnDisk /\ NoLostWakeup
    BY <1>3 DEF RecoveringIsHeld, RunningIsOnDisk, CompleteIsOnDisk, NoLostWakeup, Tracked
  <1>5. QED  BY <1>1, <1>2, <1>4 DEF RegistryInv

LEMMA RegistryStep == RegistryInv /\ [Next]_vars => RegistryInv'
  <1> SUFFICES ASSUME RegistryInv, [Next]_vars PROVE RegistryInv'  OBVIOUS
  <1>1. SafetyInv'  BY SafetyStep DEF RegistryInv
  <1>2. AwaitedHaveStopped'  BY AwaitedStep DEF RegistryInv
  <1>3. RunningIsOnDisk'  BY RunningStep DEF RegistryInv
  <1>4. Sound  BY EveryStepIsSound
  <1>5. QED  BY <1>1, <1>2, <1>3, <1>4 DEF RegistryInv, Sound

(* Memory, journal, tasks, events and the reconciliation fit together at every *)
(* await, whatever is lost, cancelled, reset or restarted.                     *)
THEOREM RegistryInvariance == Spec => []RegistryInv
  BY RegistryInit, RegistryStep, PTL DEF Spec

(* A finished or failed job that can be read as such is in the journal, in     *)
(* spite of the writes that cancelled tasks leave to others, unless the last   *)
(* write failed.                                                               *)
THEOREM VerdictsAreDurable == Spec => []VerdictIsDurable
  <1>1. RegistryInv => VerdictIsDurable
    BY DEF RegistryInv, CompleteIsOnDisk, VerdictIsDurable
  <1>2. QED  BY <1>1, RegistryInvariance, PTL

(* No late response, reconciliation, disconnect, reset or restart changes the  *)
(* verdict on a completed job, if it was written before its broker ended.      *)
THEOREM VerdictsAreFinal == Spec => VerdictIsFinal
  <1>1. RegistryInv /\ [Next]_vars =>
          [\A j \in Jobs :
             /\ tracking[j] = "complete"
             /\ ~(broker = "down" /\ (state[j] = "stale" \/ behind))
             => \/ state'[j] = state[j] /\ tracking'[j] = "complete"
                \/ state'[j] = "gone"]_vars
    BY EveryStepIsSound DEF Sound, Keeps
  <1>2. QED  BY <1>1, RegistryInvariance, PTL DEF Spec, VerdictIsFinal

(* What is in "recovering" is held by the reconciliation that is under way. *)
THEOREM RecoveringJobsAreHeld == Spec => []RecoveringIsOwned
  <1>1. RegistryInv => RecoveringIsOwned
    BY DEF RegistryInv, RecoveringIsHeld, RecoveringIsOwned
  <1>2. QED  BY <1>1, RegistryInvariance, PTL

(* A crash at any moment leaves every running job to be restored as detached,  *)
(* unless the last write failed.                                               *)
THEOREM RunningJobsSurvive == Spec => []RunningSurvivesCrash
  <1>1. RegistryInv => RunningSurvivesCrash
    BY DEF RegistryInv, RunningIsOnDisk, RunningSurvivesCrash, RestoredTracking,
           Recoverable
  <1>2. QED  BY <1>1, RegistryInvariance, PTL

(* While the event of a registered job is clear, something that will set it is *)
(* under way: no waiter of wait() is forgotten.                                *)
THEOREM WaitersAreRemembered == Spec => []NoLostWakeup
  <1>1. RegistryInv => NoLostWakeup  BY DEF RegistryInv
  <1>2. QED  BY <1>1, RegistryInvariance, PTL
=============================================================================
