------------------------------- MODULE CellPool -------------------------------
(* The notebook cells that tracked jobs run in (colab_codex_adapter/jobs.py):  *)
(* start_python reuses or adds a connector-owned cell through four calls to    *)
(* the browser, any of which may fail, be cancelled or be cut off by a crash   *)
(* of the broker or a reset of the connection, while the user edits the same   *)
(* notebook.  What JobTracking knows of a job is reduced here to open or done. *)
(*                                                                             *)
(* Python code between two awaits is one action.  The browser answers the      *)
(* calls of one connection in order: a call that landed late would be seen by  *)
(* the searches made after it.                                                 *)
EXTENDS Naturals, FiniteSets

CONSTANTS Jobs,         \* job ids; the wrapper source of each is unique
          Cells,        \* cell ids, never reused
          MaxCells,     \* max_job_cells
          User,         \* source that is not the connector's
          NoOne,        \* None
          MaxFailures,  \* bound: browser calls that fail, cancelled starts
          MaxCrashes,   \* bound: crashes of the broker
          MaxResets,    \* bound: colab_reset_connection calls
          MaxEdits      \* bound: edits of connector cells by the user

ASSUME NoOneIsNeither == NoOne \notin Jobs \cup Cells \cup {User} /\ User \notin Jobs
ASSUME CellsFinite == IsFiniteSet(Cells)
ASSUME BoundsAreNaturals ==
    {MaxCells, MaxFailures, MaxCrashes, MaxResets, MaxEdits} \subseteq Nat

VARIABLES
    where,    \* external: the notebook a cell is in, 0 before it is added
    src,      \* external: whose source it holds, NoOne once it is deleted
    pool,     \* _job_cells
    pending,  \* _pending_job_cell_sha256: the source of an unanswered add
    start,    \* the start_python that holds the manager's lock
    stat,     \* what became of each job
    cell,     \* ColabJob.cell_id
    task,     \* is its _execute still to request run_code_cell
    conn,     \* connection_id, and with it the notebook that is connected
    reset,    \* how far colab_reset_connection is
    journal,  \* the journal file
    saved,    \* the connection_id in the browser state file
    faults    \* bounded counters

notebook == <<where, src>>
vars == <<where, src, pool, pending, start, stat, cell, task, conn, reset,
          journal, saved, faults>>

Present(x) == where[x] = conn /\ src[x] # NoOne
OwnedCell(x) == Present(x) /\ src[x] \in Jobs    \* _is_owned_job_cell
Open == {j \in Jobs : stat[j] = "open"}

(* _find_cell_by_source_sha256 *)
Search(h) == {x \in Cells : Present(x) /\ src[x] = h}

(* _persist_journal.  A failed write is swallowed there; here all succeed, and *)
(* what JobTracking says of failing ones is not said again.                    *)
Persist == journal' = [pool |-> pool', pending |-> pending', open |-> Open',
                       conn |-> conn']

Journals == [pool : SUBSET Cells, pending : Jobs \cup {NoOne},
             open : SUBSET Jobs, conn : Nat]

(* Where start_python is suspended; the result of its last call. *)
Starts == [pc : {"idle", "recovering", "choosing", "counting", "updating",
                 "adding", "refinding", "readding"},
           job : Jobs \cup {NoOne}, hash : Jobs \cup {NoOne},
           left : SUBSET Cells, cell : Cells \cup {NoOne},
           changed : BOOLEAN, landed : BOOLEAN, conn : Nat]

NoStart == [pc |-> "idle", job |-> NoOne, hash |-> NoOne, left |-> {},
            cell |-> NoOne, changed |-> FALSE, landed |-> FALSE, conn |-> 0]

(* The next call of the start goes out on the current connection. *)
Awaiting(pc) == [start EXCEPT !.pc = pc, !.conn = conn, !.landed = FALSE]

(* Its answer can come only while that connection lasts. *)
Answerable(pc) == start.pc = pc /\ start.conn = conn

FaultKinds == {"failures", "crashes", "resets", "edits"}

Fault(kind, bound) == /\ faults[kind] < bound
                      /\ faults' = [faults EXCEPT ![kind] = @ + 1]

------------------------------------------------------------------------------
Init ==
    /\ where = [x \in Cells |-> 0] /\ src = [x \in Cells |-> NoOne]
    /\ pool = {} /\ pending = NoOne
    /\ start = NoStart
    /\ stat = [j \in Jobs |-> "new"]
    /\ cell = [j \in Jobs |-> NoOne]
    /\ task = [j \in Jobs |-> FALSE]
    /\ conn = 1 /\ saved = 1
    /\ reset = "idle"
    /\ journal = [pool |-> {}, pending |-> NoOne, open |-> {}, conn |-> 1]
    /\ faults = [failures |-> 0, crashes |-> 0, resets |-> 0, edits |-> 0]

------------------------------------------------------------------------------
(* start_python *)

(* Mutant of Protected: the cells of detached jobs may be taken. *)
ProtectedIfTracked == {cell[i] : i \in {j \in Open : task[j]}}

(* protected_cell_ids *)
Protected == {cell[i] : i \in Open}

(* The loop of _next_reusable_job_cell over the candidates that are left; with *)
(* none a cell is added, unless the pool is full.                              *)
Choosing(begun, left, changed) ==
    IF left # {}
    THEN [begun EXCEPT !.pc = "choosing", !.left = left, !.changed = changed,
                       !.conn = conn]
    ELSE IF Cardinality(pool') >= MaxCells
    THEN NoStart
    ELSE [begun EXCEPT !.pc = "counting", !.left = {}, !.conn = conn]

Begin(j) ==
    LET begun == [NoStart EXCEPT !.job = j, !.hash = pending]
    IN  /\ start.pc = "idle"
        /\ stat[j] = "new"
        /\ stat' = [stat EXCEPT ![j] = "begun"]
        /\ UNCHANGED pool
        /\ start' = IF pending # NoOne
                    THEN [begun EXCEPT !.pc = "recovering", !.conn = conn]
                    ELSE Choosing(begun, pool \ Protected, FALSE)
        /\ UNCHANGED <<notebook, pending, cell, task, conn, reset, journal, saved,
                       faults>>

(* _recover_pending_job_cell; the hash was read before the search. *)
RecoverPending ==
    /\ Answerable("recovering")
    /\ pool' = pool \cup Search(start.hash)
    /\ pending' = NoOne
    /\ start' = Choosing(start, pool' \ Protected, FALSE)
    /\ UNCHANGED <<notebook, stat, cell, task, conn, reset, saved, faults>>
    /\ Persist

TakeCell(x) ==
    /\ Answerable("choosing")
    /\ x \in start.left
    /\ OwnedCell(x)
    /\ start' = [Awaiting("updating") EXCEPT !.cell = x]
    /\ UNCHANGED <<notebook, pool, pending, stat, cell, task, conn, reset, saved,
                   faults>>
    /\ IF start.changed THEN Persist ELSE UNCHANGED journal

DropCell(x) ==
    /\ Answerable("choosing")
    /\ x \in start.left
    /\ ~OwnedCell(x)
    /\ pool' = pool \ {x}
    /\ start' = Choosing(start, start.left \ {x}, TRUE)
    /\ UNCHANGED <<notebook, pending, stat, cell, task, conn, reset, saved, faults>>
    /\ IF start.left = {x} THEN Persist ELSE UNCHANGED journal

(* Mutant of Add: the hash is not written down before the call. *)
AddUnjournaled ==
    /\ Answerable("counting")
    /\ pending' = start.job
    /\ start' = Awaiting("adding")
    /\ UNCHANGED <<notebook, pool, stat, cell, task, conn, reset, journal, saved,
                   faults>>

(* _cell_count has answered; the hash of the source is journaled before the    *)
(* browser is asked to add it.                                                 *)
Add ==
    /\ Answerable("counting")
    /\ pending' = start.job
    /\ start' = Awaiting("adding")
    /\ UNCHANGED <<notebook, pool, stat, cell, task, conn, reset, saved, faults>>
    /\ Persist

(* External: the page carries out update_cell or add_code_cell. *)
UpdateLands ==
    /\ Answerable("updating")
    /\ ~start.landed
    /\ Present(start.cell)
    /\ src' = [src EXCEPT ![start.cell] = start.job]
    /\ start' = [start EXCEPT !.landed = TRUE]
    /\ UNCHANGED <<where, pool, pending, stat, cell, task, conn, reset, journal,
                   saved, faults>>

AddLands(x) ==
    /\ Answerable("adding")
    /\ ~start.landed
    /\ where[x] = 0
    /\ where' = [where EXCEPT ![x] = conn]
    /\ src' = [src EXCEPT ![x] = start.job]
    /\ start' = [start EXCEPT !.landed = TRUE, !.cell = x]
    /\ UNCHANGED <<pool, pending, stat, cell, task, conn, reset, journal, saved,
                   faults>>

(* The answer: the job is registered, its task created, the journal written.   *)
Register ==
    /\ Answerable("updating") \/ Answerable("adding")
    /\ start.landed
    /\ stat' = [stat EXCEPT ![start.job] = "open"]
    /\ cell' = [cell EXCEPT ![start.job] = start.cell]
    /\ task' = [task EXCEPT ![start.job] = TRUE]
    /\ IF start.pc = "adding"
       THEN pool' = pool \cup {start.cell} /\ pending' = NoOne
       ELSE UNCHANGED <<pool, pending>>
    /\ start' = NoStart
    /\ UNCHANGED <<notebook, conn, reset, saved, faults>>
    /\ Persist

(* A call raises: timeout, lost transport, an error of the page. *)
CallFails == IF start.conn = conn THEN Fault("failures", MaxFailures)
                                  ELSE UNCHANGED faults

UpdateFails ==
    /\ start.pc = "updating"
    /\ IF Present(start.cell) THEN CallFails ELSE UNCHANGED faults
    /\ start' = Awaiting("refinding")
    /\ UNCHANGED <<notebook, pool, pending, stat, cell, task, conn, reset, journal,
                   saved>>

Refinds ==
    /\ Answerable("refinding")
    /\ start' = NoStart
    /\ UNCHANGED <<notebook, pending, stat, cell, task, conn, reset, saved, faults>>
    /\ IF Present(start.cell)
       THEN pool' = pool \cup {start.cell} /\ UNCHANGED journal
       ELSE pool' = pool \ {start.cell} /\ Persist

AddFails ==
    /\ start.pc = "adding"
    /\ CallFails
    /\ start' = IF pending = NoOne THEN NoStart
                ELSE [Awaiting("readding") EXCEPT !.hash = pending]
    /\ UNCHANGED <<notebook, pool, pending, stat, cell, task, conn, reset, journal,
                   saved>>

(* _recover_pending_job_cell(clear_if_missing=False) *)
FindsAdded ==
    /\ Answerable("readding")
    /\ start' = NoStart
    /\ UNCHANGED <<notebook, stat, cell, task, conn, reset, saved, faults>>
    /\ IF Search(start.hash) # {}
       THEN pool' = pool \cup Search(start.hash) /\ pending' = NoOne /\ Persist
       ELSE UNCHANGED <<pool, pending, journal>>

(* Any other call raises, or the tool call is cancelled: nothing is tidied.    *)
Abandon ==
    /\ start.pc # "idle"
    /\ IF start.pc \in {"updating", "adding"} THEN Fault("failures", MaxFailures)
       ELSE CallFails
    /\ start' = NoStart
    /\ UNCHANGED <<notebook, pool, pending, stat, cell, task, conn, reset, journal,
                   saved>>

------------------------------------------------------------------------------
(* The job afterwards, see JobTracking *)

Run(j) ==
    /\ task[j]
    /\ task' = [task EXCEPT ![j] = FALSE]
    /\ UNCHANGED <<notebook, pool, pending, start, stat, cell, conn, reset, journal,
                   saved, faults>>

Complete(j) ==
    /\ stat[j] = "open"
    /\ stat' = [stat EXCEPT ![j] = "done"]
    /\ task' = [task EXCEPT ![j] = FALSE]
    /\ UNCHANGED <<notebook, pool, pending, start, cell, conn, reset, saved, faults>>
    /\ Persist

------------------------------------------------------------------------------
(* colab_reset_connection: mark_stale, then session.reset, then the state file *)

(* Mutant of MarkStale: the tasks of stale jobs are not cancelled. *)
StaleKeepsTasks ==
    /\ reset = "idle"
    /\ Fault("resets", MaxResets)
    /\ reset' = "gathering"
    /\ stat' = [j \in Jobs |-> IF j \in Open THEN "done" ELSE stat[j]]
    /\ UNCHANGED <<notebook, pool, pending, start, cell, task, conn, journal, saved>>

MarkStale ==
    /\ reset = "idle"
    /\ Fault("resets", MaxResets)
    /\ reset' = "gathering"
    /\ stat' = [j \in Jobs |-> IF j \in Open THEN "done" ELSE stat[j]]
    /\ task' = [j \in Jobs |-> FALSE]
    /\ UNCHANGED <<notebook, pool, pending, start, cell, conn, journal, saved>>

ForgetCells ==
    /\ reset = "gathering"
    /\ reset' = "closing"
    /\ pool' = {} /\ pending' = NoOne
    /\ UNCHANGED <<notebook, start, stat, cell, task, conn, saved, faults>>
    /\ Persist

NewConnection ==
    /\ reset = "closing"
    /\ reset' = "saving"
    /\ conn' = faults.resets + 1
    /\ UNCHANGED <<notebook, pool, pending, start, stat, cell, task, journal, saved,
                   faults>>

SaveConnection ==
    /\ reset = "saving"
    /\ reset' = "idle"
    /\ saved' = conn
    /\ UNCHANGED <<notebook, pool, pending, start, stat, cell, task, conn, journal,
                   faults>>

------------------------------------------------------------------------------
(* _load_journal: cell ids are restored for the same connection identity only. *)
Restored(value, none) == IF journal.conn = saved THEN value ELSE none

(* The broker is killed and a replacement restores journal and state file. *)
Crash ==
    /\ Fault("crashes", MaxCrashes)
    /\ conn' = saved
    /\ pool' = Restored(journal.pool, {})
    /\ pending' = Restored(journal.pending, NoOne)
    /\ stat' = [j \in Jobs |-> IF j \in journal.open THEN "open"
                               ELSE IF stat[j] = "new" THEN "new" ELSE "done"]
    /\ task' = [j \in Jobs |-> FALSE]
    /\ start' = NoStart
    /\ reset' = "idle"
    /\ UNCHANGED <<notebook, cell, journal, saved>>

(* External: the user deletes a connector cell or writes into it. *)
UserEdits(x) ==
    /\ OwnedCell(x)
    /\ Fault("edits", MaxEdits)
    /\ \E s \in {User, NoOne} : src' = [src EXCEPT ![x] = s]
    /\ UNCHANGED <<where, pool, pending, start, stat, cell, task, conn, reset,
                   journal, saved>>

Next ==
    \/ \E j \in Jobs : Begin(j) \/ Run(j) \/ Complete(j)
    \/ \E x \in Cells : TakeCell(x) \/ DropCell(x) \/ AddLands(x) \/ UserEdits(x)
    \/ RecoverPending \/ Add \/ UpdateLands \/ Register
    \/ UpdateFails \/ Refinds \/ AddFails \/ FindsAdded \/ Abandon
    \/ MarkStale \/ ForgetCells \/ NewConnection \/ SaveConnection \/ Crash

Spec == Init /\ [][Next]_vars

------------------------------------------------------------------------------
(* Type invariant. *)
TypeOK ==
    /\ where \in [Cells -> Nat]
    /\ src \in [Cells -> Jobs \cup {User, NoOne}]
    /\ pool \subseteq Cells
    /\ pending \in Jobs \cup {NoOne}
    /\ start \in Starts
    /\ stat \in [Jobs -> {"new", "begun", "open", "done"}]
    /\ cell \in [Jobs -> Cells \cup {NoOne}]
    /\ task \in [Jobs -> BOOLEAN]
    /\ conn \in Nat /\ saved \in Nat
    /\ reset \in {"idle", "gathering", "closing", "saving"}
    /\ journal \in Journals
    /\ faults \in [FaultKinds -> Nat]

(* Two unfinished jobs never share a cell: neither a reuse decided before an   *)
(* await, nor a restored job, nor a reset in the middle of a start gives away  *)
(* the cell of a job that may still be executing in it.                        *)
CellsAreExclusive ==
    \A i, j \in Open : i # j => cell[i] # cell[j]

(* A job whose run_code_cell is still to be requested runs its own code, or    *)
(* what the user wrote into the cell, never the code of another job.           *)
CellHoldsItsJob ==
    \A j \in Jobs : task[j] /\ Present(cell[j]) => src[cell[j]] \in {j, User}

(* "bounds persistent wrapper source growth": failed, cancelled and crashed    *)
(* starts leave no cell behind that the pool forgets, until a reset disowns    *)
(* the cells of its notebook, and while journal writes succeed.                *)
WrappersAreBounded ==
    faults.resets = 0 => Cardinality({x \in Cells : OwnedCell(x)}) <= MaxCells

(* "A reset invalidates all notebook-scoped cell state": once it is over, the  *)
(* pool holds no cell of another notebook.                                     *)
ResetForgetsCells ==
    reset = "idle" => \A x \in pool : where[x] = conn
==============================================================================
