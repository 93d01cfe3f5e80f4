------------------------------ MODULE CellPoolInv ------------------------------
(* The inductive invariant behind CellsAreExclusive, CellHoldsItsJob and       *)
(* WrappersAreBounded.                                                         *)
EXTENDS CellPool

(* What a start has chosen belongs to no open job, although it chose before    *)
(* its awaits.                                                                 *)
ChosenIsFree ==
    /\ start.pc = "choosing" => start.left \cap Protected = {}
    /\ start.pc = "updating" => start.cell \in Cells \ Protected
    /\ start.pc = "refinding" => start.cell \in Cells
    /\ start.pc = "adding" /\ start.landed => start.cell \in Cells \ Protected
    /\ start.pc # "idle" => start.job \in Jobs

(* What has landed is the wrapper of the job, or what the user made of it.     *)
LandedIsOwn ==
    start.pc \in {"updating", "adding"} /\ start.landed =>
       /\ start.cell \in Cells
       /\ where[start.cell] # 0
       /\ src[start.cell] \in {start.job, User, NoOne}

(* Pool, candidates and the cells of jobs are cells that were added once: an   *)
(* add never returns one of them.                                              *)
CellsWereAdded ==
    /\ conn # 0 /\ saved # 0
    /\ \A x \in pool \cup journal.pool \cup start.left : where[x] # 0
    /\ start.pc \in {"updating", "refinding"} => where[start.cell] # 0
    /\ \A j \in Open \cup journal.open : cell[j] \in Cells /\ where[cell[j]] # 0

(* The jobs a crash would bring back have cells of their own, too.             *)
JournalIsExclusive ==
    \A i, j \in journal.open : i # j => cell[i] # cell[j]

(* A job whose execution is still to be requested is open.                     *)
TasksAreOpen == \A j \in Jobs : task[j] => j \in Open

HoldsOwn == \A j \in Jobs : task[j] => src[cell[j]] \in {j, User, NoOne}

CellInv ==
    /\ TypeOK
    /\ CellsAreExclusive
    /\ ChosenIsFree
    /\ LandedIsOwn
    /\ CellsWereAdded
    /\ JournalIsExclusive
    /\ TasksAreOpen
    /\ HoldsOwn

(* No two cells hold the source of one job: what a start has not yet sent to   *)
(* the page is in no cell, and a search finds one cell at most.                *)
SourcesAreUnique ==
    /\ \A x, y \in Cells : src[x] \in Jobs /\ src[x] = src[y] => x = y
    /\ \A x \in Cells : src[x] \in Jobs => stat[src[x]] # "new"
    /\ start.pc # "idle" => stat[start.job] # "new"
    /\ start.pc \in {"recovering", "choosing", "counting"} =>
         \A x \in Cells : src[x] # start.job
    /\ start.pc \in {"updating", "adding"} =>
         \A x \in Cells : src[x] = start.job => start.landed /\ x = start.cell

(* A cell that holds the connector's source is in the pool or is the one of    *)
(* the add that the journal knows of, for which there is room.                 *)
WrappersAreKnown ==
    /\ conn = 1 /\ saved = 1 /\ reset = "idle"
    /\ journal.conn = conn /\ journal.pending = pending /\ pool \subseteq journal.pool
    /\ \A x \in Cells : OwnedCell(x) => x \in pool \/ src[x] = pending
    /\ Cardinality(journal.pool) <= MaxCells
    /\ pending # NoOne => Cardinality(journal.pool) < MaxCells

(* What a suspended start relies on when its call is answered. *)
StartIsInPool ==
    /\ start.pc \in {"choosing", "counting", "updating", "refinding"} => pending = NoOne
    /\ start.pc = "choosing" => start.left \subseteq pool
    /\ start.pc \in {"updating", "refinding"} => start.cell \in pool
    /\ start.pc = "counting" => Cardinality(pool) < MaxCells
    /\ start.pc = "adding" => pending = start.job
    /\ start.pc \in {"recovering", "readding"} => start.hash = pending

WrapperInv ==
    /\ SourcesAreUnique
    /\ faults.resets = 0 => WrappersAreKnown /\ StartIsInPool

PoolInv == CellInv /\ WrapperInv
==============================================================================
