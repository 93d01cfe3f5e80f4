----------------------------- MODULE JobTracking -----------------------------
(* The tracked-job registry of the broker (colab_codex_adapter/jobs.py, class  *)
(* ColabJobManager) with everything that drives it: the _execute task of every *)
(* job, the status tool, the connection listener and reconciliation loop of    *)
(* server.py, resets, orderly shutdown, crashes, and the journal a replacement *)
(* broker restores from.  The Colab kernel and its marker files are external.  *)
(*                                                                             *)
(* Python code between two awaits is one action: asyncio runs it without       *)
(* interleaving.  Every await is a place where other actions may run.          *)
EXTENDS Naturals, FiniteSets

CONSTANTS Jobs,        \* job ids: uuid4, so each is started at most once
          MaxTracked,  \* max_tracked_jobs
          Outcomes,    \* how user code may end, see OutcomeKinds
          MaxDrops,    \* bound: transport losses
          MaxCrashes,  \* bound: crashes and orderly shutdowns of the broker
          MaxResets,   \* bound: colab_reset_connection calls
          MaxFaults    \* bound: all of these together

OutcomeKinds == {"finished", "error", "malformed"}

ASSUME JobsFinite == IsFiniteSet(Jobs)
ASSUME OutcomesKnown == Outcomes \subseteq OutcomeKinds
ASSUME BoundsAreNaturals ==
    /\ MaxTracked \in Nat \ {0}
    /\ MaxDrops \in Nat
    /\ MaxCrashes \in Nat
    /\ MaxResets \in Nat
    /\ MaxFaults \in Nat

VARIABLES
    state,     \* ColabJob.state; "absent" = not started, "gone" = pruned
    tracking,  \* ColabJob.tracking_state
    source,    \* completion_source (terminal_manifest_found iff "terminal_manifest")
    task,      \* the asyncio task running _execute(job)
    event,     \* the completion event that wait() blocks on
    journal,   \* the journal file: the record of every job
    behind,    \* the last write failed: the file lacks what it was to tell
    recon,     \* where reconcile_detached is suspended
    batch,     \* the jobs it holds a reconciliation attempt for
    seen,      \* the markers its probe returned
    handler,   \* the multi-step handlers: disconnect, reset, shutdown
    awaiting,  \* the cancelled tasks each handler is gathering
    conn,      \* the browser transport, as the listener sees it
    broker,    \* is a broker process running
    kernel,    \* external: what the Colab kernel did with the job's cell
    marker,    \* external: the job's marker file in the runtime
    sends,     \* how often run_code_cell was requested for the job
    expired,   \* started_at + timeout + grace has passed
    faults     \* bounded counters of drops, crashes and resets

job      == <<state, tracking, source, event>>
disk     == <<journal, behind>>
control  == <<task, recon, batch, seen, handler, awaiting>>
runtime  == <<kernel, marker>>
vars == <<state, tracking, source, task, event, journal, behind, recon,
          batch, seen, handler, awaiting, conn, broker, kernel, marker, sends,
          expired, faults>>

TerminalStates ==
    {"finished", "error", "timed_out", "missing", "stale", "interrupted"}
States    == TerminalStates \cup {"absent", "gone", "running"}
Trackings == {"none", "active", "detached", "recovering", "complete"}
Sources   == {"none", "terminal_manifest", "explicit_cell_error"}
Tasks     == {"none", "created", "waiting", "cancelled"}
Kernels   == OutcomeKinds \cup {"idle", "queued", "running", "killed", "lost"}
Markers   == OutcomeKinds \cup {"none", "running"}
Handlers  == {"disconnect", "reset", "shutdown"}
Records   == [state : States, tracking : Trackings, source : Sources]

(* Mutant of ManifestState: the manifest is taken at its word. *)
UncheckedManifestState(o) == o

(* A malformed manifest says "finished" and carries a size that is no number. *)
ManifestState(o) == IF o = "error" THEN "error" ELSE "finished"

Tracked == {j \in Jobs : state[j] \notin {"absent", "gone"}}

------------------------------------------------------------------------------
(* The journal *)

Snapshot == [j \in Jobs |-> [state    |-> state[j],
                             tracking |-> tracking[j],
                             source   |-> source[j]]]

(* Mutant of Persist: the snapshot is taken before the change it is to tell. *)
PersistEarly == journal' = Snapshot /\ behind' = FALSE

(* _persist_journal replaces the file by one that tells of every job.  A write *)
(* that fails (a full disk) leaves the old file, and its OSError is logged and *)
(* swallowed: the caller goes on either way, and the next write that succeeds  *)
(* catches up.                                                                 *)
Persist ==
    /\ \/ journal' = Snapshot'
       \/ journal' = journal
    /\ behind' = (journal' # Snapshot')

(* Mutant of RestoredState: no restored success is believed. *)
DistrustedState(r) == IF r.state = "finished" THEN "interrupted" ELSE r.state

(* Mutant of Recoverable: only what was already detached is resumed. *)
RecoverableIfDetached(r) == r.tracking = "detached"

(* _restore_record: a "finished" without manifest proof is not believed, and   *)
(* a job is recoverable when its state is open or it timed out while detached. *)
RestoredState(r) ==
    IF r.state = "finished" /\ r.source # "terminal_manifest"
    THEN "interrupted" ELSE r.state

Recoverable(r) == \/ r.state \notin TerminalStates
                  \/ r.state = "timed_out" /\ r.tracking = "detached"

(* Mutants of RestoredTracking: everything is resumed; a record is resumed as  *)
(* it was left.                                                                *)
AllDetached(r) == IF r.state \in {"absent", "gone"} THEN "none" ELSE "detached"

RestoredAsLeft(r) ==
    IF r.state \in {"absent", "gone"} THEN "none"
    ELSE IF ~Recoverable(r) THEN "complete"
    ELSE IF r.tracking = "recovering" THEN "recovering" ELSE "detached"

RestoredTracking(r) ==
    IF r.state \in {"absent", "gone"} THEN "none"
    ELSE IF Recoverable(r) THEN "detached" ELSE "complete"

------------------------------------------------------------------------------
(* Effects shared by several operations *)

Detach(S) == tracking' = [j \in Jobs |-> IF j \in S THEN "detached" ELSE tracking[j]]

(* Task.cancel(): a task that never ran ends at once, without its finally      *)
(* block; a suspended one receives CancelledError later.                       *)
Cancel(S) ==
    task' = [j \in Jobs |->
               IF j \notin S THEN task[j]
               ELSE IF task[j] = "waiting" THEN "cancelled"
               ELSE IF task[j] = "created" THEN "none" ELSE task[j]]

(* _cancel_job_tasks: handler h gathers the tasks of S; until then their own   *)
(* persistence is deferred to it.                                              *)
Gather(h, S) ==
    /\ handler' = [handler EXCEPT ![h] = "gathering"]
    /\ awaiting' = [awaiting EXCEPT ![h] = {j \in S : task[j] # "none"}]

Gathered(h) == /\ handler[h] = "gathering"
               /\ \A j \in awaiting[h] : task[j] = "none"

(* Mutant of Deferred: a task never writes the journal itself. *)
DeferredAlways(j) == TRUE

Deferred(j) == \E h \in Handlers : handler[h] = "gathering" /\ j \in awaiting[h]

(* Mutant of Owned: a timed out job is not given back. *)
OwnedRunning == {j \in batch : state[j] = "running" /\ tracking[j] = "recovering"}

(* _owns_reconciliation *)
Owned == {j \in batch : /\ state[j] \in {"running", "timed_out"}
                        /\ tracking[j] = "recovering"}

BrokerUp == broker = "up"
Serving  == BrokerUp /\ handler["shutdown"] = "idle"   \* tool calls are accepted
KernelFree == \A j \in Jobs : kernel[j] # "running"
MoreFaults == faults.drops + faults.crashes + faults.resets < MaxFaults

------------------------------------------------------------------------------
Init ==
    /\ state = [j \in Jobs |-> "absent"]
    /\ tracking = [j \in Jobs |-> "none"]
    /\ source = [j \in Jobs |-> "none"]
    /\ task = [j \in Jobs |-> "none"]
    /\ event = [j \in Jobs |-> TRUE]
    /\ journal = Snapshot /\ behind = FALSE
    /\ recon = "idle" /\ batch = {}
    /\ seen = [j \in Jobs |-> "none"]
    /\ handler = [h \in Handlers |-> "idle"]
    /\ awaiting = [h \in Handlers |-> {}]
    /\ conn = "down" /\ broker = "up"
    /\ kernel = [j \in Jobs |-> "idle"]
    /\ marker = [j \in Jobs |-> "none"]
    /\ sends = [j \in Jobs |-> 0]
    /\ expired = [j \in Jobs |-> FALSE]
    /\ faults = [drops |-> 0, crashes |-> 0, resets |-> 0]

(* _prune_completed_jobs(reserve=1): the completed jobs that make room for one *)
(* more.  The oldest go first in the code; here any of them.                   *)
PruneSets ==
    LET completed == {j \in Tracked : tracking[j] = "complete"
                                      /\ state[j] \in TerminalStates}
        tracked == Cardinality(Tracked)
    IN  {P \in SUBSET completed :
           /\ P = {} \/ tracked - Cardinality(P) >= MaxTracked - 1
           /\ P = completed \/ tracked - Cardinality(P) < MaxTracked}

(* start_python after its last await: registration, task creation and journal  *)
(* write happen without a suspension point, so the task body runs after it;    *)
(* it runs even when the write failed.                                         *)
Register(j) ==
    /\ Serving
    /\ state[j] = "absent"
    /\ \E P \in PruneSets :
         /\ Cardinality(Tracked \ P) < MaxTracked
         /\ state' = [i \in Jobs |-> IF i = j THEN "running"
                                     ELSE IF i \in P THEN "gone" ELSE state[i]]
         /\ tracking' = [i \in Jobs |-> IF i = j THEN "active"
                                        ELSE IF i \in P THEN "none" ELSE tracking[i]]
    /\ task' = [task EXCEPT ![j] = "created"]
    /\ event' = [event EXCEPT ![j] = FALSE]
    /\ UNCHANGED <<source, recon, batch, seen, handler, awaiting, conn, broker,
                   kernel, marker, sends, expired, faults>>

(* Mutant of Start: the job is registered, and written by whoever writes next. *)
StartUnwritten(j) == Register(j) /\ UNCHANGED disk

Start(j) == Register(j) /\ Persist

(* A start_python that fails after pruning (pool limit, browser call failed):  *)
(* the registry is pruned and nothing is written.                              *)
StartFails ==
    /\ Serving
    /\ \E P \in PruneSets \ {{}} :
         /\ state' = [i \in Jobs |-> IF i \in P THEN "gone" ELSE state[i]]
         /\ tracking' = [i \in Jobs |-> IF i \in P THEN "none" ELSE tracking[i]]
    /\ UNCHANGED <<source, event, control, disk, conn, broker, runtime, sends,
                   expired, faults>>

(* Cell-pool and probe-cell bookkeeping rewrites the journal at any time.      *)
Bookkeeping ==
    /\ BrokerUp
    /\ journal # Snapshot \/ behind
    /\ UNCHANGED <<job, control, conn, broker, runtime, sends, expired, faults>>
    /\ Persist

------------------------------------------------------------------------------
(* _execute *)

Send(j) ==
    /\ BrokerUp
    /\ task[j] = "created"
    /\ conn = "up"
    /\ task' = [task EXCEPT ![j] = "waiting"]
    /\ kernel' = [kernel EXCEPT ![j] = "queued"]
    /\ sends' = [sends EXCEPT ![j] = @ + 1]
    /\ UNCHANGED <<job, disk, recon, batch, seen, handler, awaiting, conn,
                   broker, marker, expired, faults>>

(* The finally block: forget the task, wake waiters, persist unless deferred.  *)
(* A pruned job's event is no longer registered, so nobody sets it.            *)
TaskEnds(j) ==
    /\ task' = [task EXCEPT ![j] = "none"]
    /\ event' = [event EXCEPT ![j] = @ \/ j \in Tracked]
    /\ IF Deferred(j) THEN UNCHANGED disk ELSE Persist
    /\ UNCHANGED <<recon, batch, seen, handler, awaiting, conn, broker, runtime,
                   sends, expired, faults>>

(* Mutant of Conclude: the response wins whatever happened meanwhile. *)
ConcludeAlways(j, s, t, src) ==
    /\ state' = [state EXCEPT ![j] = s]
    /\ tracking' = [tracking EXCEPT ![j] = t]
    /\ source' = [source EXCEPT ![j] = src]

(* What a response changes, only while the job is still "running". *)
Conclude(j, s, t, src) ==
    IF state[j] = "running"
    THEN /\ state' = [state EXCEPT ![j] = s]
         /\ tracking' = [tracking EXCEPT ![j] = t]
         /\ source' = [source EXCEPT ![j] = src]
    ELSE UNCHANGED <<state, tracking, source>>

(* The output carries the wrapper's manifest.  _finish_from_manifest assigns   *)
(* before it parses the sizes, so a malformed one concludes the job as well    *)
(* and the exception it raises finds the job no longer running.                *)
RunReturnsManifest(j) ==
    /\ BrokerUp
    /\ task[j] = "waiting"
    /\ kernel[j] \in Outcomes
    /\ Conclude(j, ManifestState(kernel[j]), "complete", "terminal_manifest")
    /\ TaskEnds(j)

(* No manifest, but the frontend reports an error of the cell. *)
RunReturnsError(j) ==
    /\ BrokerUp
    /\ task[j] = "waiting"
    /\ kernel[j] \in {"killed", "error"}
    /\ Conclude(j, "error", "complete", "explicit_cell_error")
    /\ TaskEnds(j)

(* Mutant of RunAmbiguous: a lost response is answered with a retry. *)
RunAmbiguousRetried(j) ==
    /\ BrokerUp
    /\ task[j] = "waiting" /\ conn # "up"
    /\ task' = [task EXCEPT ![j] = "created"]
    /\ UNCHANGED <<job, disk, recon, batch, seen, handler, awaiting, conn,
                   broker, runtime, sends, expired, faults>>

(* No usable output, a lost response, or a request refused while disconnected. *)
RunAmbiguous(j) ==
    /\ BrokerUp
    /\ \/ task[j] = "waiting"
       \/ task[j] = "created" /\ conn # "up"
    /\ Conclude(j, "running", "detached", source[j])
    /\ TaskEnds(j)

(* asyncio.TimeoutError; session.call_tool turns it into a lost response when  *)
(* the transport is gone by then.                                              *)
RunTimesOut(j) ==
    /\ BrokerUp
    /\ task[j] = "waiting"
    /\ conn = "up"
    /\ Conclude(j, "timed_out", "detached", source[j])
    /\ TaskEnds(j)

RunCancelled(j) ==
    /\ BrokerUp
    /\ task[j] = "cancelled"
    /\ Conclude(j, "running", "detached", source[j])
    /\ TaskEnds(j)

RunEnds(j) == \/ RunReturnsManifest(j) \/ RunReturnsError(j)
              \/ RunAmbiguous(j) \/ RunTimesOut(j) \/ RunCancelled(j)

------------------------------------------------------------------------------
(* The status tool.  It re-checks the job after its await, so its effect only  *)
(* depends on the state then and on the answer; the task has run by then.      *)

(* Mutant of StatusFinds: the verdict is given before the task had its turn. *)
StatusFindsEarly(j) == Serving /\ state[j] = "running" /\ tracking[j] = "active"

StatusFinds(j) == /\ Serving
                  /\ state[j] = "running"
                  /\ tracking[j] = "active"
                  /\ task[j] # "created"

StatusLost(j) ==
    /\ StatusFinds(j)
    /\ conn # "up"
    /\ Detach({j})
    /\ event' = [event EXCEPT ![j] = TRUE]
    /\ UNCHANGED <<state, source>>
    /\ Persist
    /\ UNCHANGED <<control, conn, broker, runtime, sends, expired, faults>>

StatusMissing(j) ==
    /\ StatusFinds(j)
    /\ state' = [state EXCEPT ![j] = "missing"]
    /\ tracking' = [tracking EXCEPT ![j] = "complete"]
    /\ Cancel({j})
    /\ UNCHANGED <<source, event>>
    /\ Persist
    /\ UNCHANGED <<recon, batch, seen, handler, awaiting, conn, broker, runtime,
                   sends, expired, faults>>

------------------------------------------------------------------------------
(* The transport and the connection listener of server.py *)

Drop ==
    /\ BrokerUp
    /\ conn = "up"
    /\ faults.drops < MaxDrops /\ MoreFaults
    /\ conn' = "dropped"
    /\ faults' = [faults EXCEPT !.drops = @ + 1]
    /\ UNCHANGED <<job, disk, control, broker, runtime, sends, expired>>

ListenerCancelsReconciler ==
    /\ BrokerUp
    /\ conn = "dropped"
    /\ conn' = "cancelling"
    /\ UNCHANGED <<job, disk, control, broker, runtime, sends, expired, faults>>

OnBrowserDisconnect ==
    /\ BrokerUp
    /\ conn = "cancelling"
    /\ recon = "idle"
    /\ LET S == {j \in Jobs : state[j] = "running"}
       IN  /\ Detach(S)
           /\ event' = [j \in Jobs |-> IF j \in S THEN TRUE ELSE event[j]]
           /\ Cancel(S)
           /\ Gather("disconnect", S)
    /\ conn' = "down"
    /\ UNCHANGED <<state, source, disk, recon, batch, seen, broker, runtime,
                   sends, expired, faults>>

OnBrowserDisconnectEnds ==
    /\ BrokerUp
    /\ Gathered("disconnect")
    /\ handler' = [handler EXCEPT !["disconnect"] = "idle"]
    /\ awaiting' = [awaiting EXCEPT !["disconnect"] = {}]
    /\ UNCHANGED job
    /\ Persist
    /\ UNCHANGED <<task, recon, batch, seen, conn, broker, runtime, sends,
                   expired, faults>>

(* The same tab reconnects (or a new one connects) and MCP is initialised. *)
RuntimeReady ==
    /\ BrokerUp
    /\ conn = "down"
    /\ handler["disconnect"] = "idle"
    /\ conn' = "up"
    /\ UNCHANGED <<job, disk, control, broker, runtime, sends, expired, faults>>

------------------------------------------------------------------------------
(* The reconciliation loop: probe_kernel, then reconcile_detached *)

ReconcileBegin ==
    LET all == {j \in Jobs : /\ state[j] \in {"running", "timed_out"}
                             /\ tracking[j] = "detached"}
        late == {j \in all : expired[j]}
    IN  /\ Serving
        /\ conn \in {"up", "dropped"}
        /\ recon = "idle"
        /\ KernelFree                     \* the readiness probe was answered
        /\ all # {}
        /\ state' = [j \in Jobs |-> IF j \in late THEN "interrupted" ELSE state[j]]
        /\ tracking' = [j \in Jobs |-> IF j \in late THEN "complete"
                                       ELSE IF j \in all THEN "recovering"
                                       ELSE tracking[j]]
        /\ event' = [j \in Jobs |-> IF j \in all THEN j \in late ELSE event[j]]
        /\ batch' = all \ late
        /\ recon' = IF all = late THEN "idle" ELSE "probing"
        /\ UNCHANGED source
        /\ Persist
        /\ UNCHANGED <<task, seen, handler, awaiting, conn, broker, runtime, sends,
                       expired, faults>>

(* The probe cell runs in the kernel and reads the marker files. *)
ProbeReads ==
    /\ BrokerUp
    /\ recon = "probing"
    /\ conn = "up"
    /\ KernelFree
    /\ seen' = [j \in Jobs |-> IF j \in batch THEN marker[j] ELSE "none"]
    /\ recon' = "answered"
    /\ UNCHANGED <<job, disk, task, batch, handler, awaiting, conn, broker,
                   runtime, sends, expired, faults>>

ReconcileEnds ==
    /\ recon' = "idle"
    /\ batch' = {}
    /\ seen' = [j \in Jobs |-> "none"]
    /\ UNCHANGED <<task, handler, awaiting, conn, broker, runtime, sends, expired,
                   faults>>

(* The probe failed, timed out or its response was lost; or the listener or    *)
(* the shutdown cancelled the loop: the jobs still owned go back to detached.  *)
ReconcileFails ==
    /\ BrokerUp
    /\ recon # "idle"
    /\ Detach(Owned)
    /\ event' = [j \in Jobs |-> IF j \in Owned THEN TRUE ELSE event[j]]
    /\ UNCHANGED <<state, source>>
    /\ Persist
    /\ ReconcileEnds

(* Mutant of MarkerState: a marker that is gone is taken for a success. *)
MissingIsSuccess(j) ==
    CASE seen[j] = "none" -> "finished"
      [] seen[j] = "running" -> IF expired[j] THEN "interrupted" ELSE state[j]
      [] OTHER -> ManifestState(seen[j])

(* The verdict on a job from its marker.  A malformed terminal marker has      *)
(* already changed state and source when it is found invalid and detached.     *)
MarkerState(j) ==
    CASE seen[j] = "none" -> "interrupted"
      [] seen[j] = "running" -> IF expired[j] THEN "interrupted" ELSE state[j]
      [] OTHER -> ManifestState(seen[j])

MarkerTracking(j) ==
    IF seen[j] = "malformed" \/ (seen[j] = "running" /\ ~expired[j])
    THEN "detached" ELSE "complete"

ReconcileApplies ==
    /\ BrokerUp
    /\ recon = "answered"
    /\ conn # "cancelling"
    /\ handler["shutdown"] # "cancelling"
    /\ state' = [j \in Jobs |-> IF j \in Owned THEN MarkerState(j) ELSE state[j]]
    /\ tracking' = [j \in Jobs |-> IF j \in Owned THEN MarkerTracking(j)
                                   ELSE tracking[j]]
    /\ source' = [j \in Jobs |-> IF j \in Owned /\ seen[j] \in OutcomeKinds
                                 THEN "terminal_manifest" ELSE source[j]]
    /\ event' = [j \in Jobs |-> IF j \in Owned THEN TRUE ELSE event[j]]
    /\ Persist
    /\ ReconcileEnds

------------------------------------------------------------------------------
(* colab_reset_connection: mark_stale, then session.reset *)

MarkStale ==
    /\ Serving
    /\ handler["reset"] = "idle"
    /\ faults.resets < MaxResets /\ MoreFaults
    /\ LET S == {j \in Tracked : ~(state[j] \in TerminalStates
                                   /\ tracking[j] = "complete")}
       IN  /\ state' = [j \in Jobs |-> IF j \in S THEN "stale" ELSE state[j]]
           /\ tracking' = [j \in Jobs |-> IF j \in S THEN "complete" ELSE tracking[j]]
           /\ Cancel(S)
           /\ Gather("reset", S)
    /\ faults' = [faults EXCEPT !.resets = @ + 1]
    /\ UNCHANGED <<source, event, disk, recon, batch, seen, conn, broker,
                   runtime, sends, expired>>

MarkStaleEnds ==
    /\ BrokerUp
    /\ Gathered("reset")
    /\ handler' = [handler EXCEPT !["reset"] = "idle"]
    /\ awaiting' = [awaiting EXCEPT !["reset"] = {}]
    /\ event' = [j \in Jobs |-> IF state[j] = "stale" THEN TRUE ELSE event[j]]
    /\ conn' = IF conn = "up" THEN "dropped" ELSE conn
    /\ UNCHANGED <<state, tracking, source>>
    /\ Persist
    /\ UNCHANGED <<task, recon, batch, seen, broker, runtime, sends, expired, faults>>

------------------------------------------------------------------------------
(* Orderly shutdown (SIGTERM), crash and replacement of the broker *)

ShutdownCancelsReconciler ==
    /\ Serving
    /\ faults.crashes < MaxCrashes /\ MoreFaults
    /\ handler' = [handler EXCEPT !["shutdown"] = "cancelling"]
    /\ faults' = [faults EXCEPT !.crashes = @ + 1]
    /\ UNCHANGED <<job, disk, task, recon, batch, seen, awaiting, conn, broker,
                   runtime, sends, expired>>

DetachForShutdown ==
    /\ BrokerUp
    /\ handler["shutdown"] = "cancelling"
    /\ recon = "idle"
    /\ LET S == {j \in Jobs : /\ state[j] \in {"running", "timed_out"}
                              /\ tracking[j] # "complete"}
       IN  /\ Detach(S)
           /\ event' = [j \in Jobs |-> IF j \in S THEN TRUE ELSE event[j]]
    /\ Cancel(Jobs)
    /\ Gather("shutdown", Jobs)
    /\ UNCHANGED <<state, source, disk, recon, batch, seen, conn, broker,
                   runtime, sends, expired, faults>>

(* The process ends: tasks, handlers and the transport end with it. *)
ProcessEnds ==
    /\ broker' = "down"
    /\ conn' = "down"
    /\ task' = [j \in Jobs |-> "none"]
    /\ recon' = "idle"
    /\ batch' = {}
    /\ seen' = [j \in Jobs |-> "none"]
    /\ handler' = [h \in Handlers |-> "idle"]
    /\ awaiting' = [h \in Handlers |-> {}]
    /\ UNCHANGED <<job, runtime, sends, expired>>

ShutdownEnds ==
    /\ BrokerUp
    /\ Gathered("shutdown")
    /\ ProcessEnds
    /\ Persist
    /\ UNCHANGED faults

Crash ==
    /\ BrokerUp
    /\ faults.crashes < MaxCrashes /\ MoreFaults
    /\ faults' = [faults EXCEPT !.crashes = @ + 1]
    /\ ProcessEnds
    /\ UNCHANGED disk

(* A replacement broker: ColabJobManager.__init__ runs _load_journal.  A job   *)
(* that no write has reached is gone with the broker that knew it.             *)
Restart ==
    /\ broker = "down"
    /\ broker' = "up"
    /\ state' = [j \in Jobs |->
                    IF journal[j].state = "absent" /\ state[j] # "absent"
                    THEN "gone" ELSE RestoredState(journal[j])]
    /\ tracking' = [j \in Jobs |-> RestoredTracking(journal[j])]
    /\ source' = [j \in Jobs |-> journal[j].source]
    /\ event' = [j \in Jobs |-> TRUE]
    /\ behind' = FALSE
    /\ UNCHANGED <<control, journal, conn, runtime, sends, expired, faults>>

------------------------------------------------------------------------------
(* The Colab runtime: one cell at a time.  The wrapper writes the "running"    *)
(* marker, evicts old pairs to respect its quota, runs the code and writes     *)
(* the terminal marker before it prints the manifest.                          *)

KernelStarts(j) ==
    /\ kernel[j] = "queued"
    /\ KernelFree
    /\ kernel' = [kernel EXCEPT ![j] = "running"]
    /\ \E evicted \in SUBSET {i \in Jobs \ {j} : marker[i] # "none"} :
         marker' = [i \in Jobs |-> IF i = j THEN "running"
                                   ELSE IF i \in evicted THEN "none" ELSE marker[i]]
    /\ UNCHANGED <<job, disk, control, conn, broker, sends, expired, faults>>

KernelFinishes(j) ==
    /\ kernel[j] = "running"
    /\ \E o \in Outcomes : /\ kernel' = [kernel EXCEPT ![j] = o]
                           /\ marker' = [marker EXCEPT ![j] = o]
    /\ UNCHANGED <<job, disk, control, conn, broker, sends, expired, faults>>

(* The kernel restarts (markers stay) or the machine is recycled (they go). *)
KernelDies ==
    /\ \E j \in Jobs : kernel[j] \in {"queued", "running"} \/ marker[j] # "none"
    /\ kernel' = [j \in Jobs |-> CASE kernel[j] = "running" -> "killed"
                                   [] kernel[j] = "queued" -> "lost"
                                   [] OTHER -> kernel[j]]
    /\ marker' \in {marker, [j \in Jobs |-> "none"]}
    /\ runtime' # runtime
    /\ UNCHANGED <<job, disk, control, conn, broker, sends, expired, faults>>

(* The request never reaches the kernel. *)
RequestLost(j) ==
    /\ kernel[j] = "queued"
    /\ kernel' = [kernel EXCEPT ![j] = "lost"]
    /\ UNCHANGED <<job, disk, control, conn, broker, marker, sends, expired,
                   faults>>

(* Time passes the job's recovery deadline. *)
DeadlinePasses(j) ==
    /\ state[j] # "absent"
    /\ tracking[j] # "complete"
    /\ ~expired[j]
    /\ expired' = [expired EXCEPT ![j] = TRUE]
    /\ UNCHANGED <<job, disk, control, conn, broker, runtime, sends, faults>>

------------------------------------------------------------------------------
Next ==
    \/ \E j \in Jobs : \/ Start(j)
                       \/ Send(j)
                       \/ RunReturnsManifest(j)
                       \/ RunReturnsError(j)
                       \/ RunAmbiguous(j)
                       \/ RunTimesOut(j)
                       \/ RunCancelled(j)
                       \/ StatusLost(j)
                       \/ StatusMissing(j)
                       \/ KernelStarts(j)
                       \/ KernelFinishes(j)
                       \/ RequestLost(j)
                       \/ DeadlinePasses(j)
    \/ StartFails
    \/ Bookkeeping
    \/ Drop
    \/ ListenerCancelsReconciler
    \/ OnBrowserDisconnect
    \/ OnBrowserDisconnectEnds
    \/ RuntimeReady
    \/ ReconcileBegin
    \/ ProbeReads
    \/ ReconcileFails
    \/ ReconcileApplies
    \/ MarkStale
    \/ MarkStaleEnds
    \/ ShutdownCancelsReconciler
    \/ DetachForShutdown
    \/ ShutdownEnds
    \/ Crash
    \/ Restart
    \/ KernelDies

Spec == Init /\ [][Next]_vars

------------------------------------------------------------------------------
(* Fairness.  asyncio runs every ready callback and each remote call has a     *)
(* timeout, so no await of the broker is for ever; the reconciliation loop     *)
(* polls.  Assumed of the environment: time passes, a dead broker is replaced  *)
(* by the next request of a proxy, and the browser tab reconnects.             *)
BrokerFairness ==
    /\ \A j \in Jobs : /\ WF_vars(Send(j))
                       /\ WF_vars(RunEnds(j))
    /\ WF_vars(ListenerCancelsReconciler)
    /\ WF_vars(OnBrowserDisconnect)
    /\ WF_vars(OnBrowserDisconnectEnds)
    /\ WF_vars(ReconcileBegin)
    /\ WF_vars(ReconcileApplies)
    /\ WF_vars(ReconcileFails)
    /\ WF_vars(MarkStaleEnds)
    /\ WF_vars(DetachForShutdown)
    /\ WF_vars(ShutdownEnds)

EnvironmentFairness ==
    /\ \A j \in Jobs : WF_vars(DeadlinePasses(j))
    /\ WF_vars(Restart)
    /\ WF_vars(RuntimeReady)

(* User code that runs ends, or its kernel is interrupted. *)
KernelFairness == \A j \in Jobs : WF_vars(KernelFinishes(j) \/ KernelDies)

FairSpec == Spec /\ BrokerFairness /\ EnvironmentFairness /\ KernelFairness

(* The same without any assumption on what user code does. *)
BrokerFairSpec == Spec /\ BrokerFairness /\ EnvironmentFairness

------------------------------------------------------------------------------
(* Type invariant: every variable stays in the range its code gives it.        *)
TypeOK ==
    /\ state \in [Jobs -> States]
    /\ tracking \in [Jobs -> Trackings]
    /\ source \in [Jobs -> Sources]
    /\ task \in [Jobs -> Tasks]
    /\ event \in [Jobs -> BOOLEAN]
    /\ journal \in [Jobs -> Records] /\ behind \in BOOLEAN
    /\ recon \in {"idle", "probing", "answered"}
    /\ batch \in SUBSET Jobs
    /\ seen \in [Jobs -> Markers]
    /\ handler \in [Handlers -> {"idle", "cancelling", "gathering"}]
    /\ awaiting \in [Handlers -> SUBSET Jobs]
    /\ conn \in {"up", "dropped", "cancelling", "down"}
    /\ broker \in {"up", "down"}
    /\ kernel \in [Jobs -> Kernels]
    /\ marker \in [Jobs -> Markers]
    /\ sends \in [Jobs -> Nat]
    /\ expired \in [Jobs -> BOOLEAN]
    /\ faults \in [drops : Nat, crashes : Nat, resets : Nat]

(* A job is only ever reported finished when its own code ran to the end and   *)
(* its manifest says so, and an explicit error only when the cell failed:      *)
(* timeouts, lost responses, disconnects, reconciliation and restarts in any   *)
(* order never turn into a verdict the kernel did not give.                    *)
VerdictIsProven ==
    \A j \in Jobs :
       /\ state[j] = "finished" => /\ source[j] = "terminal_manifest"
                                   /\ kernel[j] \in {"finished", "malformed"}
       /\ state[j] = "error" => kernel[j] \in {"error", "killed"}

(* run_code_cell is requested at most once for a job, however often the tab    *)
(* reconnects, the reconciler retries or the broker is replaced.               *)
NeverReplayed == \A j \in Jobs : sends[j] <= 1

(* Unless the last journal write failed, a replacement broker would know of    *)
(* every registered job whose execution was requested: no crash between the    *)
(* registration, the request and the writes of others leaves one it would not  *)
(* restore, and one write that succeeds makes up for all that failed before.   *)
WriteAhead ==
    ~behind => \A j \in Tracked :
       sends[j] > 0 => RestoredState(journal[j]) \notin {"absent", "gone"}

(* A verdict a client can read is on disk already: a crash cannot take back    *)
(* a finished or failed job, in spite of the deferred persistence, unless the  *)
(* last journal write failed.                                                  *)
VerdictIsDurable ==
    BrokerUp /\ ~behind => \A j \in Jobs :
       tracking[j] = "complete" /\ state[j] \in {"finished", "error"}
          => journal[j].state = state[j] /\ journal[j].source = source[j]

(* Waiters of wait() are never forgotten: while the event of a registered job  *)
(* is clear, something is under way that will set it.                          *)
NoLostWakeup ==
    BrokerUp => \A j \in Tracked :
       ~event[j] => \/ tracking[j] = "active" /\ task[j] # "none"
                    \/ task[j] = "cancelled"
                    \/ tracking[j] = "recovering" /\ j \in batch
                    \/ state[j] = "stale" /\ handler["reset"] = "gathering"

(* A job in "recovering" is held by the reconciliation under way: the loop     *)
(* only picks up "detached" jobs, so an orphan would stay there for good.      *)
RecoveringIsOwned ==
    BrokerUp => \A j \in Jobs :
       tracking[j] = "recovering" => j \in batch /\ recon # "idle"

(* The journal is never ahead of or apart from a running job: if the broker    *)
(* died now, its replacement would restore every running job as detached,      *)
(* unless the last journal write failed.                                       *)
RunningSurvivesCrash ==
    BrokerUp /\ ~behind => \A j \in Jobs :
       state[j] = "running" => RestoredTracking(journal[j]) = "detached"

(* A completed job keeps its verdict: no late response, reconciliation, reset, *)
(* disconnect or restart changes it.  Only what was not on disk is undone by a *)
(* restart: a reset that the crash of its broker interrupted before its        *)
(* journal write, and what a failed write should have told.                    *)
VerdictIsFinal ==
    [][\A j \in Jobs :
         /\ tracking[j] = "complete"
         /\ ~(broker = "down" /\ (state[j] = "stale" \/ behind))
         => \/ state'[j] = state[j] /\ tracking'[j] = "complete"
            \/ state'[j] = "gone"]_vars

(* Every started job is eventually concluded: none stays running, or timed out *)
(* and waiting to be reconciled.                                               *)
Unfinished(j) == /\ state[j] \in {"running", "timed_out"}
                 /\ tracking[j] # "complete"

EventuallyConcluded == \A j \in Jobs : Unfinished(j) ~> ~Unfinished(j)

(* Every wait() on a registered job would be answered without its timeout. *)
WaitersWake == \A j \in Jobs : ~event[j] ~> (event[j] \/ state[j] = "gone")

------------------------------------------------------------------------------
(* What the documentation says and the code does not do *)

(* "A replacement broker restores unfinished entries as detached and           *)
(* reconciles them": said of every unfinished job, the timed out ones too.     *)
UnfinishedRestoredDetached ==
    [][broker = "down" /\ broker' = "up" =>
         \A j \in Jobs : /\ journal[j].state \in {"running", "timed_out"}
                         /\ journal[j].tracking # "complete"
                         => tracking'[j] = "detached"]_vars

(* "Running markers are polled ... until terminal or until the job's execution *)
(* timeout plus recovery grace has elapsed": every detached job is eventually  *)
(* concluded, whatever its code does.                                          *)
DetachedIsBounded ==
    \A j \in Jobs : tracking[j] = "detached" ~> tracking[j] # "detached"
==============================================================================
