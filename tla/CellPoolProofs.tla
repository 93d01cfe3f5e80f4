---------------------------- MODULE CellPoolProofs ----------------------------
(* Proofs about CellPool, for all sets of jobs and cells and all bounds.       *)
EXTENDS CellPoolInv, FiniteSetTheorems, TLAPS

LEMMA TypeNoStart == NoStart \in Starts
  BY DEF NoStart, Starts

LEMMA TypeAwaiting ==
  ASSUME TypeOK, NEW pc \in {"recovering", "choosing", "counting", "updating",
                             "adding", "refinding", "readding"}
  PROVE  /\ Awaiting(pc) \in Starts
         /\ Awaiting(pc).pc = pc
         /\ Awaiting(pc).job = start.job
         /\ Awaiting(pc).left = start.left
         /\ Awaiting(pc).cell = start.cell
         /\ ~Awaiting(pc).landed
  BY DEF TypeOK, Awaiting, Starts

LEMMA TypeChoosing ==
  ASSUME TypeOK, NEW begun \in Starts, NEW left \in SUBSET Cells,
         NEW changed \in BOOLEAN
  PROVE  Choosing(begun, left, changed) \in Starts
<1>1. [begun EXCEPT !.pc = "choosing", !.left = left, !.changed = changed,
                    !.conn = conn] \in Starts
  BY DEF TypeOK, Starts
<1>2. [begun EXCEPT !.pc = "counting", !.left = {}, !.conn = conn] \in Starts
  BY DEF TypeOK, Starts
<1>3. QED
  BY <1>1, <1>2, TypeNoStart DEF Choosing

(* Persist writes a well-typed journal when the registry is well typed. *)
LEMMA TypePersist ==
  ASSUME Persist, pool' \in SUBSET Cells, pending' \in Jobs \cup {NoOne},
         conn' \in Nat
  PROVE  journal' \in Journals
  BY DEF Persist, Open, Journals

LEMMA TypeFault ==
  ASSUME TypeOK, NEW kind \in FaultKinds, NEW bound, Fault(kind, bound)
  PROVE  faults' \in [FaultKinds -> Nat]
  BY DEF TypeOK, Fault

LEMMA TypeInit == Init => TypeOK
  BY TypeNoStart DEF Init, TypeOK, Journals, FaultKinds

(* A start that is answered has a cell. *)
LEMMA TypeStep == TypeOK /\ ChosenIsFree /\ LandedIsOwn /\ [Next]_vars => TypeOK'
<1> SUFFICES ASSUME TypeOK, ChosenIsFree, LandedIsOwn, [Next]_vars PROVE TypeOK'
  OBVIOUS
<1>1. ASSUME NEW j \in Jobs, Begin(j) PROVE TypeOK'
  <2>1. [NoStart EXCEPT !.job = j, !.hash = pending] \in Starts
    BY <1>1 DEF Starts, NoStart, TypeOK, notebook
  <2>2. [[NoStart EXCEPT !.job = j, !.hash = pending] EXCEPT !.pc = "recovering",
                                                             !.conn = conn] \in Starts
    BY <1>1 DEF Starts, NoStart, TypeOK, notebook
  <2>3. start' \in Starts
    BY <1>1, <2>1, <2>2, TypeChoosing DEF Begin, TypeOK, notebook
  <2>4. QED
    BY <1>1, <2>1, <2>2, <2>3 DEF Begin, TypeOK, notebook
<1>2. ASSUME RecoverPending PROVE TypeOK'
  <2>1. pool' \in SUBSET Cells /\ pending' \in Jobs \cup {NoOne}
    BY <1>2 DEF RecoverPending, Search, TypeOK, notebook
  <2>2. start' \in Starts
    BY <1>2, <2>1, TypeChoosing DEF RecoverPending, Protected, TypeOK, notebook
  <2>3. journal' \in Journals
    BY <1>2, <2>1, TypePersist DEF RecoverPending, TypeOK, notebook
  <2>4. QED
    BY <1>2, <2>1, <2>2, <2>3 DEF RecoverPending, TypeOK, notebook
<1>3. ASSUME NEW x \in Cells, TakeCell(x) PROVE TypeOK'
  <2>1. start' \in Starts
    BY <1>3, TypeAwaiting DEF TakeCell, Starts, TypeOK, notebook
  <2>2. journal' \in Journals
    BY <1>3, TypePersist DEF TakeCell, TypeOK, notebook
  <2>3. QED
    BY <1>3, <2>1, <2>2 DEF TakeCell, TypeOK, notebook
<1>4. ASSUME NEW x \in Cells, DropCell(x) PROVE TypeOK'
  <2>1. start' \in Starts
    BY <1>4, TypeChoosing DEF DropCell, Starts, TypeOK, notebook
  <2>2. journal' \in Journals
    BY <1>4, TypePersist DEF DropCell, TypeOK, notebook
  <2>3. QED
    BY <1>4, <2>1, <2>2 DEF DropCell, TypeOK, notebook
<1>5. ASSUME Add PROVE TypeOK'
  <2>1. pending' \in Jobs \cup {NoOne}
    BY <1>5 DEF Add, Starts, TypeOK, notebook
  <2>2. start' \in Starts
    BY <1>5, TypeAwaiting DEF Add, TypeOK, notebook
  <2>3. journal' \in Journals
    BY <1>5, <2>1, TypePersist DEF Add, TypeOK, notebook
  <2>4. QED
    BY <1>5, <2>1, <2>2, <2>3 DEF Add, TypeOK, notebook
<1>6. ASSUME UpdateLands PROVE TypeOK'
  <2>1. start' \in Starts
    BY <1>6 DEF UpdateLands, Starts, TypeOK, notebook
  <2>2. src' \in [Cells -> Jobs \cup {User, NoOne}]
    BY <1>6 DEF UpdateLands, Starts, TypeOK, notebook
  <2>3. QED
    BY <1>6, <2>1, <2>2 DEF UpdateLands, TypeOK, notebook
<1>7. ASSUME NEW x \in Cells, AddLands(x) PROVE TypeOK'
  <2>1. start' \in Starts
    BY <1>7 DEF AddLands, Starts, TypeOK, notebook
  <2>2. src' \in [Cells -> Jobs \cup {User, NoOne}]
    BY <1>7 DEF AddLands, Starts, TypeOK, notebook
  <2>3. QED
    BY <1>7, <2>1, <2>2 DEF AddLands, TypeOK, notebook
<1>8. ASSUME Register PROVE TypeOK'
  <2>1. /\ stat' \in [Jobs -> {"new", "begun", "open", "done"}]
      /\ cell' \in [Jobs -> Cells \cup {NoOne}]
      /\ task' \in [Jobs -> BOOLEAN]
    BY <1>8 DEF Register, Starts, TypeOK, notebook
  <2>2. pool' \in SUBSET Cells /\ pending' \in Jobs \cup {NoOne}
    BY <1>8 DEF Register, Starts, Answerable, LandedIsOwn, TypeOK, notebook
  <2>3. journal' \in Journals
    BY <1>8, <2>1, <2>2, TypePersist DEF Register, TypeOK, notebook
  <2>4. start' \in Starts
    BY <1>8, TypeNoStart DEF Register, TypeOK, notebook
  <2>5. QED
    BY <1>8, <2>1, <2>2, <2>3, <2>4 DEF Register, TypeOK, notebook
<1>9. ASSUME UpdateFails PROVE TypeOK'
  <2>1. start' \in Starts
    BY <1>9, TypeAwaiting DEF UpdateFails, TypeOK, notebook
  <2>2. faults' \in [FaultKinds -> Nat]
    BY <1>9, TypeFault DEF UpdateFails, CallFails, FaultKinds, TypeOK, notebook
  <2>3. QED
    BY <1>9, <2>1, <2>2 DEF UpdateFails, TypeOK, notebook
<1>10. ASSUME Refinds PROVE TypeOK'
  <2>1. pool' \in SUBSET Cells
    BY <1>10 DEF Refinds, Starts, Answerable, ChosenIsFree, TypeOK, notebook
  <2>2. journal' \in Journals
    BY <1>10, <2>1, TypePersist DEF Refinds, TypeOK, notebook
  <2>3. start' \in Starts
    BY <1>10, TypeNoStart DEF Refinds, TypeOK, notebook
  <2>4. QED
    BY <1>10, <2>1, <2>2, <2>3 DEF Refinds, TypeOK, notebook
<1>11. ASSUME AddFails PROVE TypeOK'
  <2>1. start' \in Starts
    BY <1>11, TypeAwaiting, TypeNoStart DEF AddFails, Starts, TypeOK, notebook
  <2>2. faults' \in [FaultKinds -> Nat]
    BY <1>11, TypeFault DEF AddFails, CallFails, FaultKinds, TypeOK, notebook
  <2>3. QED
    BY <1>11, <2>1, <2>2 DEF AddFails, TypeOK, notebook
<1>12. ASSUME FindsAdded PROVE TypeOK'
  <2>1. pool' \in SUBSET Cells /\ pending' \in Jobs \cup {NoOne}
    BY <1>12 DEF FindsAdded, Search, TypeOK, notebook
  <2>2. journal' \in Journals
    BY <1>12, <2>1, TypePersist DEF FindsAdded, TypeOK, notebook
  <2>3. start' \in Starts
    BY <1>12, TypeNoStart DEF FindsAdded, TypeOK, notebook
  <2>4. QED
    BY <1>12, <2>1, <2>2, <2>3 DEF FindsAdded, TypeOK, notebook
<1>13. ASSUME Abandon PROVE TypeOK'
  <2>1. start' \in Starts
    BY <1>13, TypeNoStart DEF Abandon, TypeOK, notebook
  <2>2. faults' \in [FaultKinds -> Nat]
    BY <1>13, TypeFault DEF Abandon, CallFails, FaultKinds, TypeOK, notebook
  <2>3. QED
    BY <1>13, <2>1, <2>2 DEF Abandon, TypeOK, notebook
<1>14. ASSUME NEW j \in Jobs, Run(j) PROVE TypeOK'
  BY <1>14 DEF Run, TypeOK, notebook
<1>15. ASSUME NEW j \in Jobs, Complete(j) PROVE TypeOK'
  <2>1. journal' \in Journals
    BY <1>15, TypePersist DEF Complete, TypeOK, notebook
  <2>2. QED
    BY <1>15, <2>1 DEF Complete, TypeOK, notebook
<1>16. ASSUME MarkStale PROVE TypeOK'
  <2>1. faults' \in [FaultKinds -> Nat]
    BY <1>16, TypeFault DEF MarkStale, FaultKinds, TypeOK, notebook
  <2>2. QED
    BY <1>16, <2>1 DEF MarkStale, TypeOK, notebook
<1>17. ASSUME ForgetCells PROVE TypeOK'
  <2>1. journal' \in Journals
    BY <1>17, TypePersist DEF ForgetCells, TypeOK, notebook
  <2>2. QED
    BY <1>17, <2>1 DEF ForgetCells, TypeOK, notebook
<1>18. ASSUME NewConnection PROVE TypeOK'
  <2>1. faults.resets \in Nat
    BY <1>18 DEF FaultKinds, TypeOK, notebook
  <2>2. QED
    BY <1>18, <2>1 DEF NewConnection, TypeOK, notebook
<1>19. ASSUME SaveConnection PROVE TypeOK'
  BY <1>19 DEF SaveConnection, TypeOK, notebook
<1>20. ASSUME Crash PROVE TypeOK'
  <2>1. faults' \in [FaultKinds -> Nat]
    BY <1>20, TypeFault DEF Crash, FaultKinds, TypeOK, notebook
  <2>2. pool' \in SUBSET Cells /\ pending' \in Jobs \cup {NoOne}
    BY <1>20 DEF Crash, Restored, Journals, TypeOK, notebook
  <2>3. start' \in Starts
    BY <1>20, TypeNoStart DEF Crash, TypeOK, notebook
  <2>4. QED
    BY <1>20, <2>1, <2>2, <2>3 DEF Crash, TypeOK, notebook
<1>21. ASSUME NEW x \in Cells, UserEdits(x) PROVE TypeOK'
  <2>1. faults' \in [FaultKinds -> Nat]
    BY <1>21, TypeFault DEF UserEdits, FaultKinds, TypeOK, notebook
  <2>2. QED
    BY <1>21, <2>1 DEF UserEdits, TypeOK, notebook
<1>22. CASE UNCHANGED vars
  BY <1>22 DEF vars, TypeOK
<1>23. QED
  BY <1>1, <1>2, <1>3, <1>4, <1>5, <1>6, <1>7, <1>8, <1>9, <1>10, <1>11,
     <1>12, <1>13, <1>14, <1>15, <1>16, <1>17, <1>18, <1>19, <1>20, <1>21,
     <1>22 DEF Next

(* The three outcomes of choosing. *)
LEMMA ChoosingValue ==
  ASSUME NEW begun \in Starts, NEW left, NEW changed,
         start' = Choosing(begun, left, changed)
  PROVE  /\ start'.pc \in {"choosing", "counting", "idle"}
         /\ start'.left = {} \/ start'.left = left
         /\ start'.pc = "choosing" => start'.left = left
         /\ start'.pc # "idle" => start'.job = begun.job
  BY DEF Choosing, Starts, NoStart

LEMMA CellStep == CellInv /\ [Next]_vars => CellInv'
<1> SUFFICES ASSUME CellInv, [Next]_vars PROVE CellInv'
  OBVIOUS
<1>0. TypeOK'
  BY TypeStep DEF CellInv
<1> USE NoOneIsNeither
<1>1. ASSUME NEW j \in Jobs, Begin(j) PROVE CellInv'
  <2>1. Open' = Open /\ Protected' = Protected
    BY <1>1 DEF Begin, Open, Protected
  <2>2. [NoStart EXCEPT !.job = j, !.hash = pending] \in Starts
    BY DEF NoStart, Starts, CellInv, TypeOK
  <2>3. start'.pc \in {"recovering", "choosing", "counting", "idle"}
    BY <1>1, ChoosingValue, <2>2 DEF Begin, Starts
  <2>4. start'.left \subseteq pool \ Protected
    <3>1. CASE pending = NoOne
      <4>1. start' = Choosing([NoStart EXCEPT !.job = j, !.hash = pending],
                              pool \ Protected, FALSE)
        BY <1>1, <3>1 DEF Begin <4>2. QED BY <2>2, <4>1, ChoosingValue
    <3>2. CASE pending # NoOne
      BY <1>1, <3>2 DEF Begin, NoStart
    <3>3. QED
      BY <3>1, <3>2
  <2>5. start'.pc # "idle" => start'.job \in Jobs
    BY <1>1, ChoosingValue, <2>2 DEF Begin, Starts
  <2>6. ChosenIsFree'
    BY <2>1, <2>3, <2>4, <2>5 DEF ChosenIsFree
  <2>7. LandedIsOwn'
    BY <2>3 DEF LandedIsOwn
  <2>8. CellsWereAdded'
    BY <1>1, <2>1, <2>3, <2>4 DEF Begin, notebook, CellInv, CellsWereAdded
  <2>9. CellsAreExclusive' /\ JournalIsExclusive' /\ TasksAreOpen' /\ HoldsOwn'
    BY <1>1 DEF Begin, notebook, CellInv, CellsAreExclusive,
       JournalIsExclusive, TasksAreOpen, HoldsOwn, Open
  <2>10. QED
    BY <1>0, <2>6, <2>7, <2>8, <2>9 DEF CellInv
<1>2. ASSUME RecoverPending PROVE CellInv'
  <2>1. Open' = Open /\ Protected' = Protected
    BY <1>2 DEF RecoverPending, Open, Protected
  <2>2. start'.pc \in {"recovering", "choosing", "counting", "idle"}
    BY <1>2, ChoosingValue DEF RecoverPending, CellInv, TypeOK
  <2>3. start'.left \subseteq (pool \cup Search(start.hash)) \ Protected
    BY <1>2, ChoosingValue, <2>1 DEF RecoverPending, CellInv, TypeOK, Starts,
       NoStart
  <2>4. start'.pc # "idle" => start'.job \in Jobs
    BY <1>2, ChoosingValue DEF RecoverPending, Answerable, CellInv, TypeOK,
       ChosenIsFree
  <2>5. ChosenIsFree'
    BY <2>1, <2>2, <2>3, <2>4 DEF ChosenIsFree
  <2>6. LandedIsOwn'
    BY <2>2 DEF LandedIsOwn
  <2>7. CellsWereAdded'
    BY <1>2, <2>1, <2>2, <2>3 DEF RecoverPending, Search, Present, Persist,
       notebook, CellInv, CellsWereAdded
  <2>8. JournalIsExclusive'
    BY <1>2, <2>1 DEF RecoverPending, CellInv, Persist, CellsAreExclusive,
       JournalIsExclusive
  <2>9. CellsAreExclusive' /\ TasksAreOpen' /\ HoldsOwn'
    BY <1>2 DEF RecoverPending, notebook, CellInv, CellsAreExclusive,
       TasksAreOpen, HoldsOwn, Open
  <2>10. QED
    BY <1>0, <2>5, <2>6, <2>7, <2>8, <2>9 DEF CellInv
<1>3. ASSUME NEW x \in Cells, TakeCell(x) PROVE CellInv'
  <2>1. ChosenIsFree'
    BY <1>3, TypeAwaiting DEF TakeCell, CellInv, Open, Protected, Answerable,
       ChosenIsFree
  <2>2. LandedIsOwn'
    BY <1>3, TypeAwaiting DEF TakeCell, CellInv, LandedIsOwn
  <2>3. CellsWereAdded'
    BY <1>3, TypeAwaiting DEF TakeCell, notebook, CellInv, Open, Persist,
       CellsWereAdded
  <2>4. JournalIsExclusive'
    BY <1>3 DEF TakeCell, CellInv, Open, Persist, CellsAreExclusive,
       JournalIsExclusive
  <2>5. CellsAreExclusive' /\ TasksAreOpen' /\ HoldsOwn'
    BY <1>3 DEF TakeCell, notebook, CellInv, CellsAreExclusive, TasksAreOpen,
       HoldsOwn, Open
  <2>6. QED
    BY <1>0, <2>1, <2>2, <2>3, <2>4, <2>5 DEF CellInv
<1>4. ASSUME NEW x \in Cells, DropCell(x) PROVE CellInv'
  <2>1. Open' = Open /\ Protected' = Protected
    BY <1>4 DEF DropCell, Open, Protected
  <2>2. start'.pc \in {"recovering", "choosing", "counting", "idle"}
    BY <1>4, ChoosingValue DEF DropCell, CellInv, TypeOK
  <2>3. start'.left \subseteq start.left
    <3>1. start' = Choosing(start, start.left \ {x}, TRUE)
      BY <1>4 DEF DropCell
    <3>2. start \in Starts
      BY DEF CellInv, TypeOK
    <3>3. start'.left = {} \/ start'.left = start.left \ {x}
      BY <3>1, <3>2, ChoosingValue
    <3>4. QED
      BY <3>3
  <2>4. start'.pc # "idle" => start'.job \in Jobs
    BY <1>4, ChoosingValue DEF DropCell, Answerable, CellInv, TypeOK,
       ChosenIsFree
  <2>5. ChosenIsFree'
    BY <1>4, <2>1, <2>2, <2>3, <2>4 DEF DropCell, Answerable, CellInv,
       ChosenIsFree
  <2>6. LandedIsOwn'
    BY <2>2 DEF LandedIsOwn
  <2>7. CellsWereAdded'
    <3>1. pool' \subseteq pool /\ where' = where /\ conn' = conn /\ saved' = saved
          /\ cell' = cell
      BY <1>4 DEF DropCell, notebook
    <3>2. journal'.pool \subseteq pool \cup journal.pool
          /\ journal'.open \subseteq Open \cup journal.open
      BY <1>4, <2>1 DEF DropCell, Persist
    <3>3. QED
      BY <2>1, <2>2, <2>3, <3>1, <3>2 DEF CellInv, CellsWereAdded
  <2>8. JournalIsExclusive'
    BY <1>4, <2>1 DEF DropCell, CellInv, Persist, CellsAreExclusive,
       JournalIsExclusive
  <2>9. CellsAreExclusive' /\ TasksAreOpen' /\ HoldsOwn'
    BY <1>4 DEF DropCell, notebook, CellInv, CellsAreExclusive, TasksAreOpen,
       HoldsOwn, Open
  <2>10. QED
    BY <1>0, <2>5, <2>6, <2>7, <2>8, <2>9 DEF CellInv
<1>5. ASSUME Add PROVE CellInv'
  <2>1. ChosenIsFree'
    BY <1>5, TypeAwaiting DEF Add, CellInv, Answerable, ChosenIsFree
  <2>2. LandedIsOwn'
    BY <1>5, TypeAwaiting DEF Add, CellInv, LandedIsOwn
  <2>3. CellsWereAdded'
    BY <1>5, TypeAwaiting DEF Add, notebook, CellInv, Open, Persist,
       CellsWereAdded
  <2>4. JournalIsExclusive'
    BY <1>5 DEF Add, CellInv, Open, Persist, CellsAreExclusive,
       JournalIsExclusive
  <2>5. CellsAreExclusive' /\ TasksAreOpen' /\ HoldsOwn'
    BY <1>5 DEF Add, notebook, CellInv, CellsAreExclusive, TasksAreOpen,
       HoldsOwn, Open
  <2>6. QED
    BY <1>0, <2>1, <2>2, <2>3, <2>4, <2>5 DEF CellInv
<1>6. ASSUME UpdateLands PROVE CellInv'
  <2>1. ChosenIsFree'
    BY <1>6 DEF UpdateLands, CellInv, Open, Protected, Answerable, ChosenIsFree
  <2>2. LandedIsOwn'
    BY <1>6, <1>0 DEF UpdateLands, CellInv, TypeOK, Answerable, LandedIsOwn,
       CellsWereAdded
  <2>3. HoldsOwn'
    BY <1>6 DEF UpdateLands, CellInv, Protected, Answerable, ChosenIsFree,
       TasksAreOpen, HoldsOwn
  <2>4. CellsAreExclusive' /\ CellsWereAdded' /\ JournalIsExclusive' /\
         TasksAreOpen'
    BY <1>6 DEF UpdateLands, CellInv, CellsAreExclusive, CellsWereAdded,
       JournalIsExclusive, TasksAreOpen, Open
  <2>5. QED
    BY <1>0, <2>1, <2>2, <2>3, <2>4 DEF CellInv
<1>7. ASSUME NEW x \in Cells, AddLands(x) PROVE CellInv'
  <2>1. start'.job = start.job /\ start'.pc = "adding" /\ start'.cell = x
    BY <1>7 DEF AddLands, Answerable
  <2>2. ChosenIsFree'
    BY <1>7 DEF AddLands, CellInv, Open, Protected, ChosenIsFree,
       CellsWereAdded
  <2>3. LandedIsOwn'
    BY <1>7 DEF AddLands, CellInv, TypeOK, LandedIsOwn, CellsWereAdded
  <2>4. CellsWereAdded'
    BY <1>7, <2>1 DEF AddLands, CellInv, Open, CellsWereAdded
  <2>5. HoldsOwn'
    BY <1>7 DEF AddLands, CellInv, CellsWereAdded, TasksAreOpen, HoldsOwn
  <2>6. CellsAreExclusive' /\ JournalIsExclusive' /\ TasksAreOpen'
    BY <1>7 DEF AddLands, CellInv, CellsAreExclusive, JournalIsExclusive,
       TasksAreOpen, Open
  <2>7. QED
    BY <1>0, <2>2, <2>3, <2>4, <2>5, <2>6 DEF CellInv
<1>8. ASSUME Register PROVE CellInv'
  <2>1. CellsAreExclusive'
    BY <1>8 DEF Register, CellInv, TypeOK, Open, Protected, Answerable,
       CellsAreExclusive, ChosenIsFree
  <2>2. ChosenIsFree'
    BY <1>8 DEF Register, NoStart, ChosenIsFree
  <2>3. LandedIsOwn'
    BY <1>8 DEF Register, NoStart, LandedIsOwn
  <2>4. CellsWereAdded'
    BY <1>8 DEF Register, notebook, CellInv, TypeOK, Open, Persist, Answerable,
       NoStart, LandedIsOwn, CellsWereAdded
  <2>5. JournalIsExclusive'
    BY <1>8 DEF Register, CellInv, TypeOK, Open, Protected, Persist,
       Answerable, CellsAreExclusive, ChosenIsFree, JournalIsExclusive
  <2>6. TasksAreOpen'
    BY <1>8 DEF Register, CellInv, TypeOK, Open, TasksAreOpen
  <2>7. HoldsOwn'
    BY <1>8 DEF Register, notebook, CellInv, TypeOK, Answerable, LandedIsOwn,
       HoldsOwn
  <2>8. QED
    BY <1>0, <2>1, <2>2, <2>3, <2>4, <2>5, <2>6, <2>7 DEF CellInv
<1>9. ASSUME UpdateFails PROVE CellInv'
  <2>1. ChosenIsFree'
    BY <1>9, TypeAwaiting DEF UpdateFails, CellInv, ChosenIsFree
  <2>2. LandedIsOwn'
    BY <1>9, TypeAwaiting DEF UpdateFails, CellInv, LandedIsOwn
  <2>3. CellsWereAdded'
    BY <1>9, TypeAwaiting DEF UpdateFails, notebook, CellInv, Open,
       CellsWereAdded
  <2>4. CellsAreExclusive' /\ JournalIsExclusive' /\ TasksAreOpen' /\ HoldsOwn'
    BY <1>9 DEF UpdateFails, notebook, CellInv, CellsAreExclusive,
       JournalIsExclusive, TasksAreOpen, HoldsOwn, Open
  <2>5. QED
    BY <1>0, <2>1, <2>2, <2>3, <2>4 DEF CellInv
<1>10. ASSUME Refinds PROVE CellInv'
  <2>1. ChosenIsFree'
    BY <1>10 DEF Refinds, NoStart, ChosenIsFree
  <2>2. LandedIsOwn'
    BY <1>10 DEF Refinds, NoStart, LandedIsOwn
  <2>3. CellsWereAdded'
    BY <1>10 DEF Refinds, notebook, CellInv, Open, Persist, Answerable,
       NoStart, CellsWereAdded
  <2>4. JournalIsExclusive'
    BY <1>10 DEF Refinds, CellInv, Open, Persist, CellsAreExclusive,
       JournalIsExclusive
  <2>5. CellsAreExclusive' /\ TasksAreOpen' /\ HoldsOwn'
    BY <1>10 DEF Refinds, notebook, CellInv, CellsAreExclusive, TasksAreOpen,
       HoldsOwn, Open
  <2>6. QED
    BY <1>0, <2>1, <2>2, <2>3, <2>4, <2>5 DEF CellInv
<1>11. ASSUME AddFails PROVE CellInv'
  <2>1. ChosenIsFree'
    BY <1>11, TypeAwaiting DEF AddFails, CellInv, NoStart, ChosenIsFree
  <2>2. LandedIsOwn'
    BY <1>11, TypeAwaiting DEF AddFails, CellInv, NoStart, LandedIsOwn
  <2>3. CellsWereAdded'
    BY <1>11, TypeAwaiting DEF AddFails, notebook, CellInv, Open, NoStart,
       CellsWereAdded
  <2>4. CellsAreExclusive' /\ JournalIsExclusive' /\ TasksAreOpen' /\ HoldsOwn'
    BY <1>11 DEF AddFails, notebook, CellInv, CellsAreExclusive,
       JournalIsExclusive, TasksAreOpen, HoldsOwn, Open
  <2>5. QED
    BY <1>0, <2>1, <2>2, <2>3, <2>4 DEF CellInv
<1>12. ASSUME FindsAdded PROVE CellInv'
  <2>1. ChosenIsFree'
    BY <1>12 DEF FindsAdded, NoStart, ChosenIsFree
  <2>2. LandedIsOwn'
    BY <1>12 DEF FindsAdded, NoStart, LandedIsOwn
  <2>3. CellsWereAdded'
    BY <1>12 DEF FindsAdded, notebook, CellInv, Open, Persist, NoStart, Search,
       Present, CellsWereAdded
  <2>4. JournalIsExclusive'
    BY <1>12 DEF FindsAdded, CellInv, Open, Persist, CellsAreExclusive,
       JournalIsExclusive
  <2>5. CellsAreExclusive' /\ TasksAreOpen' /\ HoldsOwn'
    BY <1>12 DEF FindsAdded, notebook, CellInv, CellsAreExclusive,
       TasksAreOpen, HoldsOwn, Open
  <2>6. QED
    BY <1>0, <2>1, <2>2, <2>3, <2>4, <2>5 DEF CellInv
<1>13. ASSUME Abandon PROVE CellInv'
  <2>1. ChosenIsFree'
    BY <1>13 DEF Abandon, NoStart, ChosenIsFree
  <2>2. LandedIsOwn'
    BY <1>13 DEF Abandon, NoStart, LandedIsOwn
  <2>3. CellsWereAdded'
    BY <1>13 DEF Abandon, notebook, CellInv, Open, NoStart, CellsWereAdded
  <2>4. CellsAreExclusive' /\ JournalIsExclusive' /\ TasksAreOpen' /\ HoldsOwn'
    BY <1>13 DEF Abandon, notebook, CellInv, CellsAreExclusive,
       JournalIsExclusive, TasksAreOpen, HoldsOwn, Open
  <2>5. QED
    BY <1>0, <2>1, <2>2, <2>3, <2>4 DEF CellInv
<1>14. ASSUME NEW j \in Jobs, Run(j) PROVE CellInv'
  <2>1. TasksAreOpen'
    BY <1>14 DEF Run, CellInv, Open, TasksAreOpen
  <2>2. HoldsOwn'
    BY <1>14 DEF Run, notebook, CellInv, HoldsOwn
  <2>3. CellsAreExclusive' /\ ChosenIsFree' /\ LandedIsOwn' /\ CellsWereAdded'
         /\ JournalIsExclusive'
    BY <1>14 DEF Run, notebook, CellInv, CellsAreExclusive, ChosenIsFree,
       LandedIsOwn, CellsWereAdded, JournalIsExclusive, Open, Protected
  <2>4. QED
    BY <1>0, <2>1, <2>2, <2>3 DEF CellInv
<1>15. ASSUME NEW j \in Jobs, Complete(j) PROVE CellInv'
  <2>1. CellsAreExclusive'
    BY <1>15 DEF Complete, CellInv, Open, CellsAreExclusive
  <2>2. ChosenIsFree'
    BY <1>15 DEF Complete, CellInv, Open, Protected, ChosenIsFree
  <2>3. CellsWereAdded'
    BY <1>15 DEF Complete, notebook, CellInv, Open, Persist, CellsWereAdded
  <2>4. JournalIsExclusive'
    BY <1>15 DEF Complete, CellInv, Open, Persist, CellsAreExclusive,
       JournalIsExclusive
  <2>5. TasksAreOpen'
    BY <1>15 DEF Complete, CellInv, TypeOK, Open, TasksAreOpen
  <2>6. HoldsOwn'
    BY <1>15 DEF Complete, notebook, CellInv, HoldsOwn
  <2>7. LandedIsOwn'
    BY <1>15 DEF Complete, notebook, CellInv, LandedIsOwn
  <2>8. QED
    BY <1>0, <2>1, <2>2, <2>3, <2>4, <2>5, <2>6, <2>7 DEF CellInv
<1>16. ASSUME MarkStale PROVE CellInv'
  <2>1. CellsAreExclusive'
    BY <1>16 DEF MarkStale, Open, CellsAreExclusive
  <2>2. ChosenIsFree'
    BY <1>16 DEF MarkStale, CellInv, Open, Protected, ChosenIsFree
  <2>3. CellsWereAdded'
    BY <1>16 DEF MarkStale, notebook, CellInv, Open, CellsWereAdded
  <2>4. TasksAreOpen'
    BY <1>16 DEF MarkStale, TasksAreOpen
  <2>5. HoldsOwn'
    BY <1>16 DEF MarkStale, HoldsOwn
  <2>6. LandedIsOwn' /\ JournalIsExclusive'
    BY <1>16 DEF MarkStale, notebook, CellInv, LandedIsOwn, JournalIsExclusive
  <2>7. QED
    BY <1>0, <2>1, <2>2, <2>3, <2>4, <2>5, <2>6 DEF CellInv
<1>17. ASSUME ForgetCells PROVE CellInv'
  <2>1. CellsWereAdded'
    BY <1>17 DEF ForgetCells, notebook, CellInv, Open, Persist, CellsWereAdded
  <2>2. JournalIsExclusive'
    BY <1>17 DEF ForgetCells, CellInv, Open, Persist, CellsAreExclusive,
       JournalIsExclusive
  <2>3. CellsAreExclusive' /\ ChosenIsFree' /\ LandedIsOwn' /\ TasksAreOpen' /\
         HoldsOwn'
    BY <1>17 DEF ForgetCells, notebook, CellInv, CellsAreExclusive,
       ChosenIsFree, LandedIsOwn, TasksAreOpen, HoldsOwn, Open, Protected
  <2>4. QED
    BY <1>0, <2>1, <2>2, <2>3 DEF CellInv
<1>18. ASSUME NewConnection PROVE CellInv'
  <2>1. CellsWereAdded'
    BY <1>18 DEF NewConnection, notebook, CellInv, TypeOK, Open, FaultKinds,
       CellsWereAdded
  <2>2. CellsAreExclusive' /\ ChosenIsFree' /\ LandedIsOwn' /\
         JournalIsExclusive' /\ TasksAreOpen' /\ HoldsOwn'
    BY <1>18 DEF NewConnection, notebook, CellInv, CellsAreExclusive,
       ChosenIsFree, LandedIsOwn, JournalIsExclusive, TasksAreOpen, HoldsOwn,
       Open, Protected
  <2>3. QED
    BY <1>0, <2>1, <2>2 DEF CellInv
<1>19. ASSUME SaveConnection PROVE CellInv'
  <2>1. CellsWereAdded'
    BY <1>19 DEF SaveConnection, notebook, CellInv, Open, CellsWereAdded
  <2>2. CellsAreExclusive' /\ ChosenIsFree' /\ LandedIsOwn' /\
         JournalIsExclusive' /\ TasksAreOpen' /\ HoldsOwn'
    BY <1>19 DEF SaveConnection, notebook, CellInv, CellsAreExclusive,
       ChosenIsFree, LandedIsOwn, JournalIsExclusive, TasksAreOpen, HoldsOwn,
       Open, Protected
  <2>3. QED
    BY <1>0, <2>1, <2>2 DEF CellInv
<1>20. ASSUME Crash PROVE CellInv'
  <2>1. CellsAreExclusive'
    BY <1>20 DEF Crash, CellInv, Open, JournalIsExclusive, CellsAreExclusive
  <2>2. ChosenIsFree'
    BY <1>20 DEF Crash, NoStart, ChosenIsFree
  <2>3. LandedIsOwn'
    BY <1>20 DEF Crash, NoStart, LandedIsOwn
  <2>4. CellsWereAdded'
    BY <1>20 DEF Crash, notebook, CellInv, Open, NoStart, Restored,
       CellsWereAdded
  <2>5. TasksAreOpen'
    BY <1>20 DEF Crash, TasksAreOpen
  <2>6. HoldsOwn'
    BY <1>20 DEF Crash, HoldsOwn
  <2>7. JournalIsExclusive'
    BY <1>20 DEF Crash, CellInv, JournalIsExclusive
  <2>8. QED
    BY <1>0, <2>1, <2>2, <2>3, <2>4, <2>5, <2>6, <2>7 DEF CellInv
<1>21. ASSUME NEW x \in Cells, UserEdits(x) PROVE CellInv'
  <2>1. LandedIsOwn'
    BY <1>21 DEF UserEdits, CellInv, LandedIsOwn
  <2>2. HoldsOwn'
    BY <1>21 DEF UserEdits, CellInv, HoldsOwn
  <2>3. CellsAreExclusive' /\ ChosenIsFree' /\ CellsWereAdded' /\
         JournalIsExclusive' /\ TasksAreOpen'
    BY <1>21 DEF UserEdits, CellInv, CellsAreExclusive, ChosenIsFree,
       CellsWereAdded, JournalIsExclusive, TasksAreOpen, Open, Protected
  <2>4. QED
    BY <1>0, <2>1, <2>2, <2>3 DEF CellInv
<1>22. CASE UNCHANGED vars
  BY <1>0, <1>22 DEF vars, CellInv, CellsAreExclusive, ChosenIsFree,
     LandedIsOwn, CellsWereAdded, JournalIsExclusive, TasksAreOpen, HoldsOwn,
     Open, Protected
<1>23. QED
  BY <1>1, <1>2, <1>3, <1>4, <1>5, <1>6, <1>7, <1>8, <1>9, <1>10, <1>11, <1>12,
     <1>13, <1>14, <1>15, <1>16, <1>17, <1>18, <1>19, <1>20, <1>21, <1>22 DEF
     Next

LEMMA CellInitially == Init => CellInv
<1> SUFFICES ASSUME Init PROVE CellInv
  OBVIOUS
<1>1. TypeOK
  BY TypeInit
<1>2. Open = {} /\ start.pc = "idle" /\ ~start.landed /\ start.left = {}
  BY DEF Init, Open, NoStart
<1>3. QED
  BY <1>1, <1>2 DEF Init, CellInv, CellsAreExclusive, ChosenIsFree,
     LandedIsOwn, CellsWereAdded, JournalIsExclusive, TasksAreOpen, HoldsOwn

------------------------------------------------------------------------------
(* The wrappers. *)

(* Nothing is sent to the page: the start ends or goes on with its job. *)
LEMMA NothingIsSent ==
  ASSUME CellInv, SourcesAreUnique, src' = src,
         \A j \in Jobs : stat[j] # "new" => stat'[j] # "new",
         \/ start'.pc = "idle"
         \/ /\ start.pc # "idle" /\ start'.job = start.job
            /\ start'.pc \in {"recovering", "choosing", "counting"} =>
                 start.pc \in {"recovering", "choosing", "counting"}
            /\ start'.pc \in {"updating", "adding"} =>
                 \/ start.pc \in {"recovering", "choosing", "counting"}
                 \/ start' = start
  PROVE  SourcesAreUnique'
  BY DEF SourcesAreUnique, CellInv, ChosenIsFree

LEMMA SourcesStep ==
  ASSUME CellInv, SourcesAreUnique, [Next]_vars
  PROVE  SourcesAreUnique'
<1> USE NoOneIsNeither DEF notebook
<1>1. ASSUME NEW j \in Jobs, Begin(j) PROVE SourcesAreUnique'
  <2>1. /\ stat[j] = "new" /\ stat' = [stat EXCEPT ![j] = "begun"] /\ src' = src
    BY <1>1 DEF Begin
  <2>2. \A x \in Cells : src[x] # j
    BY <2>1 DEF SourcesAreUnique
  <2>3. [NoStart EXCEPT !.job = j, !.hash = pending] \in Starts
    BY DEF NoStart, Starts, CellInv, TypeOK
  <2>4. /\ start'.pc \in {"recovering", "choosing", "counting", "idle"}
        /\ start'.pc # "idle" => start'.job = j
    BY <1>1, <2>3, ChoosingValue DEF Begin, NoStart
  <2> QED BY <2>1, <2>2, <2>4 DEF SourcesAreUnique, CellInv, TypeOK
<1>2. ASSUME RecoverPending \/ \E x \in Cells : DropCell(x) PROVE SourcesAreUnique'
  <2>1. /\ start.pc \in {"recovering", "choosing"}
        /\ start'.pc \in {"choosing", "counting", "idle"}
        /\ start'.pc # "idle" => start'.job = start.job
    BY <1>2, ChoosingValue DEF RecoverPending, DropCell, Answerable, CellInv, TypeOK
  <2> QED BY <1>2, <2>1, NothingIsSent DEF RecoverPending, DropCell
<1>3. ASSUME Add \/ \E x \in Cells : TakeCell(x) PROVE SourcesAreUnique'
  <2>1. /\ start.pc \in {"choosing", "counting"}
        /\ start'.pc \in {"updating", "adding"} /\ start'.job = start.job
    <3>1. ASSUME NEW pc \in {"updating", "adding"}
          PROVE  /\ Awaiting(pc) \in Starts
                 /\ Awaiting(pc).pc = pc /\ Awaiting(pc).job = start.job
      BY TypeAwaiting DEF CellInv
    <3>2. CASE Add
      BY <3>1, <3>2 DEF Add, Answerable
    <3>3. ASSUME NEW x \in Cells, TakeCell(x)
          PROVE  /\ start.pc = "choosing"
                 /\ start'.pc = "updating" /\ start'.job = start.job
      BY <3>1, <3>3 DEF TakeCell, Answerable, Starts
    <3> QED BY <1>3, <3>2, <3>3
  <2> QED BY <1>3, <2>1, NothingIsSent DEF TakeCell, Add
<1>4. ASSUME UpdateLands PROVE SourcesAreUnique'
  <2>1. /\ start.pc = "updating" /\ start.cell \in Cells /\ start.job \in Jobs
        /\ ~start.landed /\ stat' = stat
        /\ src' = [src EXCEPT ![start.cell] = start.job]
        /\ start'.pc = start.pc /\ start'.job = start.job
        /\ start'.cell = start.cell /\ start'.landed
    BY <1>4 DEF UpdateLands, Answerable, CellInv, ChosenIsFree, TypeOK, Starts
  <2> QED BY <2>1 DEF SourcesAreUnique, CellInv, TypeOK
<1>5. ASSUME NEW x \in Cells, AddLands(x) PROVE SourcesAreUnique'
  <2>1. /\ start.pc = "adding" /\ start.job \in Jobs
        /\ ~start.landed /\ stat' = stat
        /\ src' = [src EXCEPT ![x] = start.job]
        /\ start'.pc = start.pc /\ start'.job = start.job
        /\ start'.cell = x /\ start'.landed
    BY <1>5 DEF AddLands, Answerable, CellInv, ChosenIsFree, TypeOK, Starts
  <2> QED BY <2>1 DEF SourcesAreUnique, CellInv, TypeOK
<1>6. ASSUME Register PROVE SourcesAreUnique'
  <2>1. start'.pc = "idle" /\ src' = src /\ stat' = [stat EXCEPT ![start.job] = "open"]
    BY <1>6 DEF Register, NoStart
  <2> QED BY <2>1, NothingIsSent DEF CellInv, TypeOK
<1>7. ASSUME UpdateFails \/ AddFails PROVE SourcesAreUnique'
  <2>1. /\ start.pc # "idle" /\ src' = src /\ stat' = stat
        /\ \/ start'.pc = "idle"
           \/ start'.pc \in {"refinding", "readding"} /\ start'.job = start.job
    <3>1. ASSUME NEW pc \in {"refinding", "readding"}
          PROVE  /\ Awaiting(pc) \in Starts
                 /\ Awaiting(pc).pc = pc /\ Awaiting(pc).job = start.job
      BY TypeAwaiting DEF CellInv
    <3>2. CASE UpdateFails
      BY <3>1, <3>2 DEF UpdateFails
    <3>3. CASE AddFails
      BY <3>1, <3>3 DEF AddFails, NoStart, Starts
    <3> QED BY <1>7, <3>2, <3>3
  <2> QED BY <2>1, NothingIsSent
<1>8. ASSUME Refinds \/ FindsAdded \/ Abandon PROVE SourcesAreUnique'
  BY <1>8, NothingIsSent DEF Refinds, FindsAdded, Abandon, NoStart
<1>9. ASSUME NEW j \in Jobs, Run(j) \/ Complete(j) PROVE SourcesAreUnique'
  <2>1. src' = src /\ start' = start /\ \A i \in Jobs : stat[i] # "new" => stat'[i] # "new"
    BY <1>9 DEF Run, Complete, CellInv, TypeOK
  <2> QED BY <2>1, NothingIsSent
<1>10. ASSUME MarkStale \/ ForgetCells \/ NewConnection \/ SaveConnection
       PROVE  SourcesAreUnique'
  <2>1. src' = src /\ start' = start /\ \A i \in Jobs : stat[i] # "new" => stat'[i] # "new"
    BY <1>10 DEF MarkStale, ForgetCells, NewConnection, SaveConnection
  <2> QED BY <2>1, NothingIsSent
<1>11. ASSUME Crash PROVE SourcesAreUnique'
  <2>1. src' = src /\ start'.pc = "idle"
        /\ \A i \in Jobs : stat[i] # "new" => stat'[i] # "new"
    BY <1>11 DEF Crash, NoStart
  <2> QED BY <2>1, NothingIsSent
<1>12. ASSUME NEW x \in Cells, UserEdits(x) PROVE SourcesAreUnique'
  <2>1. /\ UNCHANGED <<start, stat>>
        /\ src'[x] \notin Jobs /\ \A y \in Cells \ {x} : src'[y] = src[y]
    BY <1>12 DEF UserEdits, CellInv, TypeOK
  <2> QED BY <2>1 DEF SourcesAreUnique, CellInv, ChosenIsFree
<1>13. CASE UNCHANGED vars
  BY <1>13, NothingIsSent DEF vars
<1> QED BY <1>1, <1>2, <1>3, <1>4, <1>5, <1>6, <1>7, <1>8, <1>9, <1>10, <1>11,
       <1>12, <1>13 DEF Next

(* Before the first reset. *)
LEMMA ResetsAreCounted ==
  ASSUME CellInv, [Next]_vars, faults'.resets = 0
  PROVE  faults.resets = 0 /\ ~MarkStale
<1>1. \/ faults' = faults
      \/ \E k \in FaultKinds : \E b : Fault(k, b)
  BY DEF Next, vars, Begin, RecoverPending, TakeCell, DropCell, Add, UpdateLands, AddLands,
     Register, UpdateFails, CallFails, Refinds, AddFails, FindsAdded, Abandon, Run,
     Complete, MarkStale, ForgetCells, NewConnection, SaveConnection, Crash, UserEdits,
     FaultKinds
<1>2. faults \in [FaultKinds -> Nat] /\ faults.resets \in Nat
  BY DEF CellInv, TypeOK, FaultKinds
<1>3. faults.resets = 0
  BY <1>1, <1>2 DEF Fault, FaultKinds
<1>4. ~MarkStale
  BY <1>2 DEF MarkStale, Fault, FaultKinds
<1> QED BY <1>3, <1>4

(* Sets of cells are finite. *)
LEMMA CellsAreCounted ==
  ASSUME NEW S \in SUBSET Cells
  PROVE  /\ IsFiniteSet(S) /\ Cardinality(S) \in Nat
         /\ \A T \in SUBSET S : Cardinality(T) <= Cardinality(S)
  BY CellsFinite, FS_Subset, FS_CardinalityType

(* A step that neither adds to the pool nor sends anything to the page. *)
LEMMA KnownAgain ==
  ASSUME CellInv, WrappersAreKnown, UNCHANGED <<where, conn, saved, reset, pending>>,
         pool' \subseteq pool, \A x \in Cells : OwnedCell(x) => x \in pool' \/ x \notin pool,
         \A x \in Cells : src'[x] \in Jobs => src'[x] = src[x],
         journal' = journal \/ Persist
  PROVE  WrappersAreKnown'
<1>1. /\ pool \in SUBSET Cells /\ journal.pool \in SUBSET Cells
  BY DEF CellInv, TypeOK, Journals
<1>2. /\ journal'.pool \in SUBSET journal.pool /\ pool' \subseteq journal'.pool
      /\ journal'.conn = conn /\ journal'.pending = pending
  BY DEF WrappersAreKnown, Persist
<1>3. /\ Cardinality(journal'.pool) <= Cardinality(journal.pool)
      /\ Cardinality(journal'.pool) \in Nat /\ Cardinality(journal.pool) \in Nat
  BY <1>1, <1>2, CellsAreCounted
<1>4. /\ Cardinality(journal'.pool) <= MaxCells
      /\ pending # NoOne => Cardinality(journal'.pool) < MaxCells
  BY <1>3, BoundsAreNaturals DEF WrappersAreKnown
<1>5. \A x \in Cells : OwnedCell(x)' => x \in pool' \/ src'[x] = pending
  BY DEF OwnedCell, Present, WrappersAreKnown
<1> QED BY <1>2, <1>4, <1>5 DEF WrappersAreKnown

(* A search for the pending source makes the pool complete, and not too large. *)
LEMMA SearchIsEnough ==
  ASSUME CellInv, SourcesAreUnique, WrappersAreKnown
  PROVE  /\ pool \cup Search(pending) \in SUBSET Cells
         /\ Cardinality(pool \cup Search(pending)) <= MaxCells
         /\ \A x \in Cells : OwnedCell(x) => x \in pool \cup Search(pending)
<1>1. /\ pool \in SUBSET Cells /\ journal.pool \in SUBSET Cells
      /\ Search(pending) \in SUBSET Cells
  BY DEF CellInv, TypeOK, Journals, Search
<1>2. /\ Cardinality(pool) <= Cardinality(journal.pool)
      /\ Cardinality(pool) \in Nat /\ Cardinality(journal.pool) \in Nat
  BY <1>1, CellsAreCounted DEF WrappersAreKnown
<1>3. Cardinality(pool \cup Search(pending)) <= MaxCells
  <2>1. CASE Search(pending) = {}
    <3>1. pool \cup Search(pending) = pool
      BY <2>1
    <3> QED BY <1>2, <3>1, BoundsAreNaturals DEF WrappersAreKnown
  <2>2. CASE Search(pending) # {}
    <3>1. PICK x \in Cells : Present(x) /\ src[x] = pending
      BY <2>2 DEF Search
    <3>2. pending \in Jobs /\ pending # NoOne
      BY <3>1 DEF Present, CellInv, TypeOK
    <3>3. pool \cup Search(pending) = pool \cup {x}
      BY <3>1, <3>2 DEF Search, SourcesAreUnique
    <3>4. Cardinality(pool \cup {x}) <= Cardinality(pool) + 1
      BY <1>1, <1>2, CellsAreCounted, FS_AddElement
    <3>5. Cardinality(pool \cup {x}) \in Nat
      BY <1>1, <3>1, CellsAreCounted
    <3>6. Cardinality(journal.pool) < MaxCells
      BY <3>2 DEF WrappersAreKnown
    <3> QED BY <1>2, <3>3, <3>4, <3>5, <3>6, BoundsAreNaturals
  <2> QED BY <2>1, <2>2
<1>4. \A x \in Cells : OwnedCell(x) => x \in pool \cup Search(pending)
  BY DEF WrappersAreKnown, OwnedCell, Search
<1> QED BY <1>1, <1>3, <1>4

(* The pool takes in all that the pending source is found in, and it is saved. *)
LEMMA PoolIsComplete ==
  ASSUME CellInv, WrappersAreKnown, UNCHANGED <<notebook, conn, saved, reset>>,
         pool' \in SUBSET Cells, Cardinality(pool') <= MaxCells, pending' = NoOne,
         \A x \in Cells : OwnedCell(x) => x \in pool', Persist
  PROVE  WrappersAreKnown'
  BY DEF WrappersAreKnown, OwnedCell, Present, Persist, notebook

(* The three outcomes of choosing agree with the pool. *)
LEMMA ChoosingIsInPool ==
  ASSUME NEW begun \in Starts, NEW left, NEW changed, pool' \in SUBSET Cells,
         left \subseteq pool', pending' = NoOne, start' = Choosing(begun, left, changed)
  PROVE  StartIsInPool'
<1>1. /\ start'.pc \in {"choosing", "counting", "idle"}
      /\ start'.pc = "choosing" => start'.left = left
  BY ChoosingValue
<1>2. start'.pc = "counting" => Cardinality(pool') < MaxCells
  <2>1. Cardinality(pool') \in Nat
    BY CellsAreCounted
  <2> QED BY <2>1, BoundsAreNaturals DEF Choosing, NoStart
<1> QED BY <1>1, <1>2 DEF StartIsInPool

LEMMA KnownStep ==
  ASSUME CellInv, SourcesAreUnique, WrappersAreKnown, StartIsInPool, [Next]_vars,
         ~MarkStale, TypeOK'
  PROVE  WrappersAreKnown' /\ StartIsInPool'
<1> DEFINE Goal == WrappersAreKnown' /\ StartIsInPool'
<1> USE NoOneIsNeither DEF notebook
<1>0. /\ start \in Starts /\ pool \in SUBSET Cells /\ pool' \in SUBSET Cells
  BY DEF CellInv, TypeOK
<1>1. ASSUME NEW j \in Jobs, Begin(j) PROVE Goal
  <2>1. WrappersAreKnown'
    BY <1>1, KnownAgain DEF Begin
  <2>2. [NoStart EXCEPT !.job = j, !.hash = pending] \in Starts
    BY DEF NoStart, Starts, CellInv, TypeOK
  <2>3. CASE pending = NoOne
    <3>1. /\ start' = Choosing([NoStart EXCEPT !.job = j, !.hash = pending],
                               pool \ Protected, FALSE)
          /\ pool' = pool /\ pending' = NoOne
      BY <1>1, <2>3 DEF Begin
    <3> QED BY <1>0, <2>1, <2>2, <3>1, ChoosingIsInPool
  <2>4. CASE pending # NoOne
    <3>1. /\ start'.pc = "recovering" /\ start'.hash = pending
          /\ pending' = pending
      BY <1>1, <2>4 DEF Begin, NoStart
    <3> QED BY <2>1, <3>1 DEF StartIsInPool
  <2> QED BY <2>3, <2>4
<1>2. ASSUME RecoverPending PROVE Goal
  <2>1. start.hash = pending
    BY <1>2 DEF RecoverPending, Answerable, StartIsInPool
  <2>2. WrappersAreKnown'
    BY <1>2, <2>1, SearchIsEnough, PoolIsComplete DEF RecoverPending
  <2>3. start' = Choosing(start, pool' \ Protected, FALSE) /\ pending' = NoOne
    BY <1>2 DEF RecoverPending
  <2> QED BY <1>0, <2>2, <2>3, ChoosingIsInPool
<1>3. ASSUME NEW x \in Cells, TakeCell(x) PROVE Goal
  <2>1. WrappersAreKnown'
    BY <1>3, KnownAgain DEF TakeCell
  <2>2. /\ start'.pc = "updating" /\ start'.cell = x
        /\ x \in pool /\ pending = NoOne /\ UNCHANGED <<pool, pending>>
    <3>1. Awaiting("updating") \in Starts /\ Awaiting("updating").pc = "updating"
      BY TypeAwaiting DEF CellInv
    <3> QED BY <1>3, <3>1 DEF TakeCell, Answerable, StartIsInPool, Starts
  <2> QED BY <2>1, <2>2 DEF StartIsInPool
<1>4. ASSUME NEW x \in Cells, DropCell(x) PROVE Goal
  <2>1. /\ pool' = pool \ {x} /\ ~OwnedCell(x) /\ UNCHANGED <<notebook, pending>>
        /\ journal' = journal \/ Persist
        /\ UNCHANGED <<conn, saved, reset>>
        /\ start' = Choosing(start, start.left \ {x}, TRUE)
    BY <1>4 DEF DropCell
  <2>2. WrappersAreKnown'
    BY <2>1, KnownAgain
  <2>3. pending = NoOne /\ start.left \subseteq pool
    BY <1>4 DEF DropCell, Answerable, StartIsInPool
  <2> QED BY <1>0, <2>1, <2>2, <2>3, ChoosingIsInPool
<1>5. ASSUME Add PROVE Goal
  <2>1. /\ pending = NoOne /\ pending' = start.job /\ start'.pc = "adding"
        /\ start'.job = start.job /\ UNCHANGED <<notebook, pool, conn, saved, reset>>
        /\ Cardinality(pool) < MaxCells /\ Persist
    BY <1>5, TypeAwaiting DEF Add, Answerable, StartIsInPool, CellInv
  <2>2. Cardinality(pool) \in Nat
    BY <1>0, CellsAreCounted
  <2>3. \A x \in Cells : OwnedCell(x)' => x \in pool
    BY <2>1 DEF WrappersAreKnown, OwnedCell, Present
  <2>4. WrappersAreKnown'
    BY <2>1, <2>2, <2>3, BoundsAreNaturals DEF WrappersAreKnown, Persist
  <2> QED BY <2>1, <2>4 DEF StartIsInPool
<1>6. ASSUME UpdateLands PROVE Goal
  <2>1. /\ start.cell \in pool /\ start.cell \in Cells /\ pending = NoOne
        /\ src' = [src EXCEPT ![start.cell] = start.job]
        /\ UNCHANGED <<where, pool, pending, conn, saved, reset, journal>>
        /\ start'.pc = "updating" /\ start'.cell = start.cell
    BY <1>6 DEF UpdateLands, Answerable, StartIsInPool, CellInv, TypeOK
  <2>2. \A x \in Cells : OwnedCell(x)' => x \in pool \/ src'[x] = pending
    BY <2>1 DEF WrappersAreKnown, OwnedCell, Present, CellInv, TypeOK
  <2> QED BY <2>1, <2>2 DEF WrappersAreKnown, StartIsInPool
<1>7. ASSUME NEW x \in Cells, AddLands(x) PROVE Goal
  <2>1. /\ pending = start.job
        /\ src' = [src EXCEPT ![x] = start.job] /\ where' = [where EXCEPT ![x] = conn]
        /\ UNCHANGED <<pool, pending, conn, saved, reset, journal>>
        /\ start'.pc = "adding" /\ start'.job = start.job
    BY <1>7 DEF AddLands, Answerable, StartIsInPool
  <2>2. ASSUME NEW y \in Cells, OwnedCell(y)' PROVE y \in pool \/ src'[y] = pending
    <3>1. CASE y = x
      BY <2>1, <3>1 DEF CellInv, TypeOK
    <3>2. CASE y # x
      BY <2>1, <2>2, <3>2 DEF WrappersAreKnown, OwnedCell, Present, CellInv, TypeOK
    <3> QED BY <3>1, <3>2
  <2> QED BY <2>1, <2>2 DEF WrappersAreKnown, StartIsInPool
<1>8. ASSUME Register PROVE Goal
  <2>1. start'.pc = "idle" /\ UNCHANGED <<notebook, conn, saved, reset>> /\ Persist
    BY <1>8 DEF Register, NoStart
  <2>2. CASE start.pc # "adding"
    BY <1>8, <2>1, <2>2, KnownAgain DEF Register, StartIsInPool
  <2>3. CASE start.pc = "adding"
    <3>1. /\ pool' = pool \cup {start.cell} /\ pending' = NoOne
          /\ pending = start.job /\ start.job \in Jobs
      BY <1>8, <2>3 DEF Register, StartIsInPool, CellInv, ChosenIsFree
    <3>2. \A x \in Cells : OwnedCell(x) => x \in pool'
      BY <2>3, <3>1 DEF WrappersAreKnown, SourcesAreUnique
    <3>3. Cardinality(pool') <= Cardinality(pool) + 1
      BY <1>0, <3>1, CellsAreCounted, FS_AddElement
    <3>4. /\ Cardinality(pool) <= Cardinality(journal.pool)
          /\ Cardinality(journal.pool) < MaxCells
          /\ Cardinality(pool) \in Nat /\ Cardinality(journal.pool) \in Nat
          /\ Cardinality(pool') \in Nat
      <4>1. journal.pool \in SUBSET Cells
        BY DEF CellInv, TypeOK, Journals
      <4> QED BY <1>0, <3>1, <4>1, CellsAreCounted DEF WrappersAreKnown
    <3>5. Cardinality(pool') <= MaxCells
      BY <3>3, <3>4, BoundsAreNaturals
    <3> QED BY <1>0, <2>1, <3>1, <3>2, <3>5, PoolIsComplete DEF StartIsInPool
  <2> QED BY <2>2, <2>3
<1>9. ASSUME UpdateFails PROVE Goal
  <2>1. /\ start.pc = "updating" /\ start'.pc = "refinding" /\ start'.cell = start.cell
        /\ UNCHANGED <<pool, pending>>
    BY <1>9, TypeAwaiting DEF UpdateFails, CellInv
  <2> QED BY <1>9, <2>1, KnownAgain DEF UpdateFails, StartIsInPool
<1>10. ASSUME Refinds PROVE Goal
  <2>1. start'.pc = "idle" /\ start.cell \in pool
        /\ UNCHANGED <<notebook, pending, conn, saved, reset>>
    BY <1>10 DEF Refinds, NoStart, Answerable, StartIsInPool
  <2>2. CASE Present(start.cell)
    <3>1. pool' = pool /\ journal' = journal
      BY <1>10, <2>1, <2>2 DEF Refinds
    <3> QED BY <2>1, <3>1, KnownAgain DEF StartIsInPool
  <2>3. CASE ~Present(start.cell)
    <3>1. pool' = pool \ {start.cell} /\ Persist /\ ~OwnedCell(start.cell)
      BY <1>10, <2>3 DEF Refinds, OwnedCell
    <3> QED BY <2>1, <3>1, KnownAgain DEF StartIsInPool
  <2> QED BY <2>2, <2>3
<1>11. ASSUME AddFails PROVE Goal
  <2>1. /\ UNCHANGED <<pool, pending>>
        /\ \/ start'.pc = "idle"
           \/ start'.pc = "readding" /\ start'.hash = pending
    <3>1. Awaiting("readding") \in Starts /\ Awaiting("readding").pc = "readding"
      BY TypeAwaiting DEF CellInv
    <3> QED BY <1>11, <3>1 DEF AddFails, NoStart, Starts
  <2> QED BY <1>11, <2>1, KnownAgain DEF AddFails, StartIsInPool
<1>12. ASSUME FindsAdded PROVE Goal
  <2>1. start'.pc = "idle" /\ start.hash = pending
        /\ UNCHANGED <<notebook, conn, saved, reset>>
    BY <1>12 DEF FindsAdded, NoStart, Answerable, StartIsInPool
  <2>2. CASE Search(pending) # {}
    <3>1. pool' = pool \cup Search(pending) /\ pending' = NoOne /\ Persist
      BY <1>12, <2>1, <2>2 DEF FindsAdded
    <3> QED BY <2>1, <3>1, SearchIsEnough, PoolIsComplete DEF StartIsInPool
  <2>3. CASE Search(pending) = {}
    <3>1. UNCHANGED <<pool, pending, journal>>
      BY <1>12, <2>1, <2>3 DEF FindsAdded
    <3> QED BY <2>1, <3>1, KnownAgain DEF StartIsInPool
  <2> QED BY <2>2, <2>3
<1>13. ASSUME Abandon PROVE Goal
  BY <1>13, KnownAgain DEF Abandon, NoStart, StartIsInPool
<1>14. ASSUME NEW j \in Jobs, Run(j) \/ Complete(j) PROVE Goal
  <2>1. UNCHANGED <<notebook, pool, pending, start, conn, saved, reset>>
        /\ (journal' = journal \/ Persist)
    BY <1>14 DEF Run, Complete
  <2> QED BY <2>1, KnownAgain DEF StartIsInPool
<1>15. ASSUME ForgetCells \/ NewConnection \/ SaveConnection PROVE Goal
  BY <1>15 DEF ForgetCells, NewConnection, SaveConnection, WrappersAreKnown
<1>16. ASSUME Crash PROVE Goal
  <2>1. /\ start'.pc = "idle" /\ UNCHANGED <<notebook, journal, saved>>
        /\ conn' = conn /\ reset' = "idle"
        /\ pool' = journal.pool /\ pending' = pending
    BY <1>16 DEF Crash, NoStart, Restored, WrappersAreKnown
  <2>2. WrappersAreKnown'
    BY <2>1 DEF WrappersAreKnown, OwnedCell, Present
  <2> QED BY <2>1, <2>2 DEF StartIsInPool
<1>17. ASSUME NEW x \in Cells, UserEdits(x) PROVE Goal
  <2>1. \A y \in Cells : src'[y] \in Jobs => src'[y] = src[y]
    BY <1>17 DEF UserEdits, CellInv, TypeOK
  <2> QED BY <1>17, <2>1, KnownAgain DEF UserEdits, StartIsInPool
<1>18. CASE UNCHANGED vars
  BY <1>18, KnownAgain DEF vars, StartIsInPool
<1> QED BY <1>1, <1>2, <1>3, <1>4, <1>5, <1>6, <1>7, <1>8, <1>9, <1>10, <1>11,
       <1>12, <1>13, <1>14, <1>15, <1>16, <1>17, <1>18 DEF Next

LEMMA WrapperStep == CellInv /\ WrapperInv /\ [Next]_vars => WrapperInv'
<1> SUFFICES ASSUME CellInv, WrapperInv, [Next]_vars PROVE WrapperInv'
  OBVIOUS
<1>1. SourcesAreUnique'
  BY SourcesStep DEF WrapperInv
<1>2. TypeOK'
  BY TypeStep DEF CellInv
<1>3. ASSUME faults'.resets = 0 PROVE WrappersAreKnown' /\ StartIsInPool'
  BY <1>2, <1>3, ResetsAreCounted, KnownStep DEF WrapperInv
<1> QED BY <1>1, <1>3 DEF WrapperInv

LEMMA WrapperInitially == Init => WrapperInv
<1> SUFFICES ASSUME Init PROVE WrapperInv
  OBVIOUS
<1>1. start.pc = "idle" /\ Cardinality({}) = 0
  BY FS_EmptySet DEF Init, NoStart
<1> QED BY <1>1, NoOneIsNeither, BoundsAreNaturals
       DEF Init, WrapperInv, SourcesAreUnique, WrappersAreKnown, StartIsInPool,
           OwnedCell, Present

(* The invariant holds throughout: what a suspended start has chosen stays     *)
(* apart from the cells of open jobs, in memory and in the journal, and until  *)
(* a reset every wrapper in the notebook is known to the pool or the journal.  *)
THEOREM PoolInvariance == Spec => []PoolInv
<1>1. Init => PoolInv
  BY CellInitially, WrapperInitially DEF PoolInv
<1>2. PoolInv /\ [Next]_vars => PoolInv'
  BY CellStep, WrapperStep DEF PoolInv
<1>3. QED
  BY <1>1, <1>2, PTL DEF Spec

(* Pool, start, journal and jobs keep their types in every run. *)
THEOREM PoolTypeCorrect == Spec => []TypeOK
<1>1. PoolInv => TypeOK
  BY DEF PoolInv, CellInv
<1>2. QED
  BY <1>1, PoolInvariance, PTL

(* No start_python, however late its browser answers, and no restored broker   *)
(* gives the cell of an unfinished job to another one.                         *)
THEOREM OpenJobsShareNoCell == Spec => []CellsAreExclusive
<1>1. PoolInv => CellsAreExclusive
  BY DEF PoolInv, CellInv
<1>2. QED
  BY <1>1, PoolInvariance, PTL

(* run_code_cell runs the code the job was started with, unless the user       *)
(* edited the cell.                                                            *)
THEOREM JobsRunTheirOwnCode == Spec => []CellHoldsItsJob
<1>1. PoolInv => CellHoldsItsJob
  BY DEF PoolInv, CellInv, HoldsOwn, CellHoldsItsJob, Present
<1>2. QED
  BY <1>1, PoolInvariance, PTL

(* Until the first reset the notebook never holds more wrappers than the pool  *)
(* may have cells: no failed, cancelled or crashed start leaves one behind     *)
(* that neither the pool nor the journal, whose writes succeed, knows of.      *)
THEOREM WrappersStayBounded == Spec => []WrappersAreBounded
<1>1. PoolInv => WrappersAreBounded
  <2> SUFFICES ASSUME PoolInv, faults.resets = 0
               PROVE  Cardinality({x \in Cells : OwnedCell(x)}) <= MaxCells
    BY DEF WrappersAreBounded
  <2> DEFINE Owned == {x \in Cells : OwnedCell(x)}
             Known == pool \cup Search(pending)
  <2>1. /\ CellInv /\ SourcesAreUnique /\ WrappersAreKnown
    BY DEF PoolInv, WrapperInv
  <2>2. Known \in SUBSET Cells /\ Cardinality(Known) <= MaxCells /\ Owned \in SUBSET Known
    BY <2>1, SearchIsEnough
  <2>3. /\ Cardinality(Owned) <= Cardinality(Known)
        /\ Cardinality(Known) \in Nat /\ Cardinality(Owned) \in Nat
    BY <2>2, CellsAreCounted
  <2> QED BY <2>2, <2>3, BoundsAreNaturals
<1>2. QED
  BY <1>1, PoolInvariance, PTL
==============================================================================
