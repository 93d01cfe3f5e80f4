-------------------------- MODULE ArtifactStoreProofs --------------------------
(* Proofs about ArtifactStore. *)
EXTENDS ArtifactStoreInv, FiniteSetTheorems, TLAPS

(* Where a call is, by the names of its steps. *)
LEMMA StepNames ==
  /\ {"idle", "lock", "open"} \subseteq Unlocked /\ Unlocked \cap Writing = {}
  /\ \A s \in {"scan", "sweep", "evict", "look"} : s \notin Unlocked \cup Writing
  /\ \A s \in {"data", "replace_data", "meta", "replace_meta", "undo"} : s \in Writing
  BY DEF Unlocked, Writing

LEMMA Names ==
  /\ Unlocked \cup Writing \cup {"scan", "sweep", "evict", "look"} = Steps
  /\ "none" \in FileStates /\ "temp" \in FileStates /\ "file" \in FileStates
  BY DEF Unlocked, Writing, Steps, FileStates

LEMMA FilesInit == Init => FilesInv
  BY SizesFit, StepNames, Names DEF Init, FilesInv, TypeOK,
     LockInv, PutInv, OpenInv, CleanInv, Whole, Started

LEMMA FilesStep == FilesInv /\ [Next]_vars => FilesInv'
<1> SUFFICES ASSUME TypeOK, LockInv, PutInv, OpenInv, CleanInv, [Next]_vars
             PROVE  FilesInv'
  BY DEF FilesInv
<1> USE DEF files, refs, calls
<1>1. CASE Tick
  <2>1. TypeOK'
    BY <1>1 DEF Tick, TypeOK
  <2>2. LockInv'
    BY <1>1 DEF Tick, LockInv
  <2>3. PutInv'
    BY <1>1 DEF Tick, PutInv
  <2>4. OpenInv'
    BY <1>1 DEF Tick, OpenInv
  <2>5. CleanInv'
    BY <1>1 DEF Tick, CleanInv, Whole, Started, Unreadable, LeftOver
  <2> QED BY <2>1, <2>2, <2>3, <2>4, <2>5 DEF FilesInv
<1>2. CASE ClockSetBack
  <2>1. TypeOK'
    BY <1>2 DEF ClockSetBack, Fault, TypeOK
  <2>2. LockInv'
    BY <1>2 DEF ClockSetBack, LockInv
  <2>3. PutInv'
    BY <1>2 DEF ClockSetBack, PutInv
  <2>4. OpenInv'
    BY <1>2 DEF ClockSetBack, OpenInv
  <2>5. CleanInv'
    BY <1>2 DEF ClockSetBack, CleanInv, Whole, Started, Unreadable, LeftOver
  <2> QED BY <2>1, <2>2, <2>3, <2>4, <2>5 DEF FilesInv
<1>3. ASSUME NEW t \in Threads, NEW i \in Ids, Read(t, i) PROVE FilesInv'
  <2>1. TypeOK'
    BY <1>3, StepNames, Names DEF Read, Begins, TypeOK
  <2>2. LockInv'
    BY <1>3, StepNames, NoneIsNoId DEF Read, Doing, Begins, LockInv, TypeOK
  <2>3. PutInv'
    BY <1>3 DEF Read, Doing, Begins, PutInv, LockInv
  <2>4. OpenInv'
    BY <1>3 DEF Read, Doing, Begins, OpenInv
  <2>5. CleanInv'
    BY <1>3, StepNames DEF Read, Doing, Begins, CleanInv, Whole, Unreadable,
       LeftOver
  <2> QED BY <2>1, <2>2, <2>3, <2>4, <2>5 DEF FilesInv
<1>4. ASSUME NEW t \in Threads, NEW i \in Ids, NEW n \in Lengths, Put(t, i, n) PROVE FilesInv'
  <2>1. TypeOK'
    BY <1>4, StepNames, Names, LengthsAreNumbers, SizesFit DEF Put, Begins,
       Cut, TypeOK
  <2>2. LockInv'
    BY <1>4, StepNames, NoneIsNoId DEF Put, Doing, Begins, LockInv, TypeOK
  <2>3. PutInv'
    BY <1>4 DEF Put, Begins, PutInv, OpenInv, TypeOK
  <2>4. OpenInv'
    BY <1>4 DEF Put, Doing, Begins, OpenInv
  <2>5. CleanInv'
    BY <1>4, StepNames DEF Put, Doing, Begins, CleanInv, Whole, Unreadable,
       LeftOver
  <2> QED BY <2>1, <2>2, <2>3, <2>4, <2>5 DEF FilesInv
<1>5. ASSUME NEW t \in Threads, Locks(t) PROVE FilesInv'
  <2>1. TypeOK'
    BY <1>5, Names DEF Locks, TypeOK
  <2>2. LockInv'
    BY <1>5, StepNames DEF Locks, Doing, LockIsFree, LockInv, TypeOK
  <2>3. PutInv'
    BY <1>5 DEF Locks, Doing, PutInv
  <2>4. OpenInv'
    BY <1>5 DEF Locks, OpenInv
  <2>5. CleanInv'
    BY <1>5, StepNames DEF Locks, LockIsFree, CleanInv, LockInv
  <2> QED BY <2>1, <2>2, <2>3, <2>4, <2>5 DEF FilesInv
<1>6. ASSUME NEW t \in Threads, Scanned(t) PROVE FilesInv'
  <2>1. TypeOK'
    BY <1>6, Names DEF Scanned, To, TypeOK
  <2>2. LockInv'
    BY <1>6, StepNames DEF Scanned, Doing, To, LockInv
  <2>3. PutInv'
    BY <1>6 DEF Scanned, Doing, To, PutInv
  <2>4. OpenInv'
    BY <1>6 DEF Scanned, To, OpenInv
  <2>5. CleanInv'
    BY <1>6, StepNames DEF Scanned, Doing, To, CleanInv, LockInv, Unreadable
  <2> QED BY <2>1, <2>2, <2>3, <2>4, <2>5 DEF FilesInv
<1>7. ASSUME NEW t \in Threads, Swept(t) PROVE FilesInv'
  <2>1. TypeOK'
    BY <1>7, Names DEF Swept, To, TypeOK
  <2>2. LockInv'
    BY <1>7, StepNames DEF Swept, Doing, To, LockInv
  <2>3. PutInv'
    BY <1>7 DEF Swept, Doing, To, PutInv
  <2>4. OpenInv'
    BY <1>7 DEF Swept, To, OpenInv
  <2>5. CleanInv'
    BY <1>7, StepNames DEF Swept, Doing, To, CleanInv, LockInv, Unreadable,
       LeftOver
  <2> QED BY <2>1, <2>2, <2>3, <2>4, <2>5 DEF FilesInv
<1>8. ASSUME NEW t \in Threads, Evicted(t) PROVE FilesInv'
  <2>1. TypeOK'
    BY <1>8, StepNames, Names DEF Evicted, To, Ends, Release, TypeOK
  <2>2. LockInv'
    BY <1>8, StepNames DEF Evicted, Doing, To, Ends, Release, LockInv, TypeOK
  <2>3. PutInv'
    BY <1>8 DEF Evicted, Doing, To, Ends, PutInv, TypeOK
  <2>4. OpenInv'
    BY <1>8 DEF Evicted, To, Ends, OpenInv, TypeOK
  <2>5. CleanInv'
    BY <1>8 DEF Evicted, Doing, CleanInv, TypeOK, Whole, Unreadable, LeftOver,
       FileStates
  <2> QED BY <2>1, <2>2, <2>3, <2>4, <2>5 DEF FilesInv
<1>9. ASSUME NEW t \in Threads, NEW i \in Ids, UnlinkMeta(t, i) PROVE FilesInv'
  <2>1. TypeOK'
    BY <1>9, Names DEF UnlinkMeta, TypeOK
  <2>2. LockInv'
    BY <1>9 DEF UnlinkMeta, LockInv
  <2>3. PutInv'
    BY <1>9 DEF UnlinkMeta, Unreadable, PutInv
  <2>4. OpenInv'
    BY <1>9 DEF UnlinkMeta, Unreadable, OpenInv
  <2>5. CleanInv'
    BY <1>9, StepNames DEF UnlinkMeta, Doing, Unreadable, CleanInv, LockInv,
       PutInv, TypeOK, LeftOver, FileStates
  <2> QED BY <2>1, <2>2, <2>3, <2>4, <2>5 DEF FilesInv
<1>10. ASSUME NEW t \in Threads, NEW i \in Ids, Expire(t, i) PROVE FilesInv'
  <2>1. TypeOK'
    BY <1>10, Names DEF Expire, UnlinkFirst, TypeOK
  <2>2. LockInv'
    BY <1>10 DEF Expire, LockInv
  <2>3. PutInv'
    BY <1>10 DEF Expire, Stored, UnlinkFirst, PutInv
  <2>4. OpenInv'
    BY <1>10 DEF Expire, UnlinkFirst, OpenInv
  <2>5. CleanInv'
    BY <1>10, StepNames DEF Expire, Doing, CleanInv, LockInv
  <2> QED BY <2>1, <2>2, <2>3, <2>4, <2>5 DEF FilesInv
<1>11. ASSUME NEW t \in Threads, NEW i \in Ids, Sweep(t, i) PROVE FilesInv'
  <2>1. TypeOK'
    BY <1>11, Names DEF Sweep, TypeOK
  <2>2. LockInv'
    BY <1>11 DEF Sweep, LockInv
  <2>3. PutInv'
    BY <1>11, StepNames DEF Sweep, Doing, PutInv, LockInv, TypeOK
  <2>4. OpenInv'
    BY <1>11 DEF Sweep, OpenInv, TypeOK
  <2>5. CleanInv'
    BY <1>11, StepNames DEF Sweep, Doing, LeftOver, CleanInv, LockInv, TypeOK,
       Unreadable
  <2> QED BY <2>1, <2>2, <2>3, <2>4, <2>5 DEF FilesInv
<1>12. ASSUME NEW t \in Threads, NEW i \in Ids, Evict(t, i) PROVE FilesInv'
  <2>1. TypeOK'
    BY <1>12, Names DEF Evict, UnlinkFirst, TypeOK
  <2>2. LockInv'
    BY <1>12 DEF Evict, LockInv
  <2>3. PutInv'
    BY <1>12 DEF Evict, Stored, UnlinkFirst, PutInv
  <2>4. OpenInv'
    BY <1>12 DEF Evict, UnlinkFirst, OpenInv
  <2>5. CleanInv'
    BY <1>12, StepNames DEF Evict, Doing, UnlinkFirst, CleanInv, LockInv,
       LeftOver
  <2> QED BY <2>1, <2>2, <2>3, <2>4, <2>5 DEF FilesInv
<1>13. ASSUME NEW t \in Threads, WriteTemp(t) PROVE FilesInv'
  <2>1. TypeOK'
    BY <1>13, StepNames, Names DEF WriteTemp, To, TypeOK
  <2>2. LockInv'
    BY <1>13, StepNames DEF WriteTemp, Doing, To, LockInv, TypeOK
  <2>3. PutInv'
    BY <1>13, StepNames DEF WriteTemp, Doing, To, PutInv, LockInv, TypeOK,
       FileStates
  <2>4. OpenInv'
    BY <1>13, StepNames DEF WriteTemp, Doing, To, OpenInv, PutInv, LockInv,
       TypeOK
  <2>5. CleanInv'
    BY <1>13, StepNames DEF WriteTemp, Doing, To, CleanInv, LockInv, TypeOK,
       Whole
  <2> QED BY <2>1, <2>2, <2>3, <2>4, <2>5 DEF FilesInv
<1>14. ASSUME NEW t \in Threads, ReplaceData(t) PROVE FilesInv'
  <2>1. TypeOK'
    BY <1>14, StepNames, Names DEF ReplaceData, To, TypeOK
  <2>2. LockInv'
    BY <1>14, StepNames DEF ReplaceData, Doing, To, LockInv
  <2>3. PutInv'
    BY <1>14, StepNames DEF ReplaceData, Doing, To, PutInv, LockInv, TypeOK
  <2>4. OpenInv'
    BY <1>14, StepNames DEF ReplaceData, Doing, To, OpenInv, PutInv, LockInv
  <2>5. CleanInv'
    BY <1>14, StepNames DEF ReplaceData, Doing, To, CleanInv, LockInv, Whole
  <2> QED BY <2>1, <2>2, <2>3, <2>4, <2>5 DEF FilesInv
<1>15. ASSUME NEW t \in Threads, ReplaceMeta(t) PROVE FilesInv'
  <2>1. TypeOK'
    BY <1>15, StepNames, Names DEF ReplaceMeta, Ends, Release, TypeOK
  <2>2. LockInv'
    BY <1>15, StepNames DEF ReplaceMeta, Ends, Release, LockInv, TypeOK
  <2>3. PutInv'
    BY <1>15, StepNames DEF ReplaceMeta, Doing, Ends, PutInv, LockInv, TypeOK
  <2>4. OpenInv'
    BY <1>15 DEF ReplaceMeta, Doing, Ends, OpenInv
  <2>5. CleanInv'
    BY <1>15, StepNames DEF ReplaceMeta, Doing, Ends, CleanInv, LockInv,
       PutInv, TypeOK, Whole
  <2> QED BY <2>1, <2>2, <2>3, <2>4, <2>5 DEF FilesInv
<1>16. ASSUME NEW t \in Threads, WriteFails(t) PROVE FilesInv'
  <2>1. TypeOK'
    BY <1>16, StepNames, Names DEF WriteFails, Fault, To, Ends, Release, TypeOK
  <2>2. LockInv'
    BY <1>16, StepNames DEF WriteFails, To, Ends, Release, LockInv, TypeOK
  <2>3. PutInv'
    BY <1>16, StepNames DEF WriteFails, To, Ends, PutInv, LockInv, TypeOK
  <2>4. OpenInv'
    BY <1>16, StepNames DEF WriteFails, To, Ends, OpenInv, PutInv, LockInv,
       TypeOK
  <2>5. CleanInv'
    BY <1>16, StepNames DEF WriteFails, To, Ends, CleanInv, LockInv, PutInv,
       TypeOK, Whole, FileStates
  <2> QED BY <2>1, <2>2, <2>3, <2>4, <2>5 DEF FilesInv
<1>17. ASSUME NEW t \in Threads, Undo(t) PROVE FilesInv'
  <2>1. TypeOK'
    BY <1>17, StepNames, Names DEF Undo, Ends, Release, TypeOK
  <2>2. LockInv'
    BY <1>17, StepNames DEF Undo, Ends, Release, LockInv, TypeOK
  <2>3. PutInv'
    BY <1>17, StepNames DEF Undo, Doing, Ends, PutInv, LockInv, TypeOK
  <2>4. OpenInv'
    BY <1>17 DEF Undo, Doing, Ends, OpenInv
  <2>5. CleanInv'
    BY <1>17, StepNames DEF Undo, Doing, Ends, CleanInv, LockInv, PutInv,
       TypeOK, Whole, FileStates
  <2> QED BY <2>1, <2>2, <2>3, <2>4, <2>5 DEF FilesInv
<1>18. ASSUME NEW t \in Threads, Look(t) PROVE FilesInv'
  <2>1. TypeOK'
    BY <1>18, StepNames, Names DEF Look, To, Ends, Release, Answer, TypeOK
  <2>2. LockInv'
    BY <1>18, StepNames DEF Look, Doing, To, Ends, Release, LockInv, TypeOK
  <2>3. PutInv'
    BY <1>18 DEF Look, To, Ends, Stored, PutInv, TypeOK
  <2>4. OpenInv'
    BY <1>18 DEF Look, To, Ends, Stored, OpenInv, PutInv, TypeOK
  <2>5. CleanInv'
    BY <1>18, StepNames DEF Look, Doing, To, Ends, CleanInv, LockInv, TypeOK,
       Whole
  <2> QED BY <2>1, <2>2, <2>3, <2>4, <2>5 DEF FilesInv
<1>19. ASSUME NEW t \in Threads, Open(t) PROVE FilesInv'
  <2>1. TypeOK'
    BY <1>19, StepNames, Names DEF Open, Ends, Answer, TypeOK
  <2>2. LockInv'
    BY <1>19, StepNames DEF Open, Doing, Ends, LockInv, TypeOK
  <2>3. PutInv'
    BY <1>19 DEF Open, Doing, Ends, PutInv, LockInv
  <2>4. OpenInv'
    BY <1>19 DEF Open, Ends, OpenInv, TypeOK
  <2>5. CleanInv'
    BY <1>19, StepNames DEF Open, Doing, Ends, CleanInv, LockInv, Whole,
       Started, Unreadable, LeftOver
  <2> QED BY <2>1, <2>2, <2>3, <2>4, <2>5 DEF FilesInv
<1>20. ASSUME NEW t \in Threads, Crash(t) PROVE FilesInv'
  <2>1. TypeOK'
    BY <1>20, StepNames, Names DEF Crash, Fault, TypeOK
  <2>2. LockInv'
    BY <1>20, StepNames DEF Crash, LockInv
  <2>3. PutInv'
    BY <1>20 DEF Crash, PutInv
  <2>4. OpenInv'
    BY <1>20 DEF Crash, OpenInv
  <2>5. CleanInv'
    BY <1>20, StepNames DEF Crash, CleanInv, Started
  <2> QED BY <2>1, <2>2, <2>3, <2>4, <2>5 DEF FilesInv
<1>21. CASE UNCHANGED vars
  BY <1>21 DEF vars, FilesInv, TypeOK, LockInv, PutInv, OpenInv, CleanInv,
     Whole, Started, Unreadable, LeftOver
<1> QED BY <1>1, <1>2, <1>3, <1>4, <1>5, <1>6, <1>7, <1>8, <1>9, <1>10, <1>11,
    <1>12, <1>13, <1>14, <1>15, <1>16, <1>17, <1>18, <1>19, <1>20, <1>21 DEF Next

------------------------------------------------------------------------------
(* The bytes on disk. *)

(* A finite set of artifacts has finitely many bytes. *)
LEMMA BytesAreFinite ==
  ASSUME TypeOK, NEW S \in SUBSET Ids, IsFiniteSet(S)
  PROVE  IsFiniteSet(Contents(S)) /\ Bytes(S) \in Nat
<1>1. IsFiniteSet(1..MaxSize)
  BY SizesFit, FS_Interval
<1>2. IsFiniteSet(S \X (1..MaxSize))
  BY <1>1, FS_Product
<1>3. \A i \in S : 1..size[i] \subseteq 1..MaxSize
  BY SizesFit DEF TypeOK
<1>4. Contents(S) \subseteq S \X (1..MaxSize)
  BY <1>3 DEF Contents
<1>5. IsFiniteSet(Contents(S))
  BY <1>2, <1>4, FS_Subset
<1> QED BY <1>5, FS_CardinalityType DEF Bytes

(* Fewer artifacts have no more bytes. *)
LEMMA FewerBytes ==
  ASSUME TypeOK, NEW S \in SUBSET Ids, IsFiniteSet(S), NEW T \in SUBSET S
  PROVE  Bytes(T) <= Bytes(S)
<1>1. Contents(T) \subseteq Contents(S)
  BY DEF Contents
<1> QED BY <1>1, BytesAreFinite, FS_Subset DEF Bytes

(* One more artifact has as many bytes more as its size, at most. *)
LEMMA OneMore ==
  ASSUME TypeOK, NEW S \in SUBSET Ids, IsFiniteSet(S), NEW i \in Ids
  PROVE  Bytes(S \cup {i}) <= Bytes(S) + size[i]
<1> DEFINE I == {i} \X (1..size[i])
<1>1. size[i] \in Nat
  BY SizesFit DEF TypeOK
<1>2. IsFiniteSet(1..size[i]) /\ Cardinality(1..size[i]) = size[i]
  BY <1>1, FS_Interval
<1>3. IsFiniteSet({i}) /\ Cardinality({i}) = 1
  BY FS_Singleton
<1>4. IsFiniteSet(I) /\ Cardinality(I) = 1 * size[i]
  BY <1>2, <1>3, FS_Product
<1>5. IsFiniteSet(Contents(S)) /\ Cardinality(Contents(S)) \in Nat
  BY BytesAreFinite DEF Bytes
<1>6. Contents(S \cup {i}) = Contents(S) \cup I
  BY DEF Contents
<1> HIDE DEF I
<1>7. Cardinality(Contents(S) \cup I)
        = Cardinality(Contents(S)) + Cardinality(I) - Cardinality(Contents(S) \cap I)
  BY <1>4, <1>5, FS_Union
<1>8. IsFiniteSet(Contents(S) \cap I)
  BY <1>4, FS_Subset
<1>9. Cardinality(Contents(S) \cap I) \in Nat
  BY <1>8, FS_CardinalityType
<1>10. Cardinality(I) = size[i]
  BY <1>1, <1>4
<1>11. Cardinality(Contents(S) \cup I) <= Cardinality(Contents(S)) + size[i]
  BY <1>1, <1>5, <1>7, <1>9, <1>10
<1> QED BY <1>6, <1>11 DEF Bytes

(* Every file is that of an ID that was given out: there are finitely many. *)
LEMMA DiskIsFinite ==
  ASSUME FilesInv, IsFiniteSet(used)
  PROVE  /\ OnDisk \in SUBSET Ids /\ IsFiniteSet(OnDisk)
         /\ Stored \in SUBSET Ids /\ IsFiniteSet(Stored)
         /\ Stored \subseteq OnDisk
<1>1. OnDisk \in SUBSET used /\ Stored \in SUBSET used
  BY DEF OnDisk, Stored, FilesInv, PutInv
<1>2. IsFiniteSet(OnDisk) /\ IsFiniteSet(Stored)
  BY <1>1, FS_Subset
<1> QED BY <1>2 DEF OnDisk, Stored

(* When the cleanup has evicted enough, what is on disk is what is stored. *)
LEMMA DiskIsClean ==
  ASSUME FilesInv, NEW t \in Threads, Doing(t, "evict"),
         \A i \in Ids : ~Unreadable(i)
  PROVE  OnDisk = Stored
  BY DEF FilesInv, CleanInv, Doing, OnDisk, Stored, LeftOver, Unreadable

(* The steps that write no data and begin no put. *)
LEMMA NoMoreData ==
  ASSUME FilesInv, QuotaInv, used' = used, size' = size, OnDisk' \subseteq OnDisk,
         \A t \in Threads : step'[t] \in Writing =>
           step[t] \in Writing /\ id'[t] = id[t]
  PROVE  QuotaInv'
<1> DEFINE Room(t) == OnDisk \cup {id[t]}
<1>1. \A S : Bytes(S)' = Bytes(S')
  BY DEF Bytes, Contents
<1>2. /\ OnDisk \in SUBSET Ids /\ IsFiniteSet(OnDisk) /\ OnDisk' \in SUBSET OnDisk
      /\ TypeOK
  BY DiskIsFinite DEF QuotaInv, FilesInv
<1>3. QuotaHolds'
  <2>1. Bytes(OnDisk') <= Bytes(OnDisk)
    BY <1>2, FewerBytes
  <2>2. Bytes(OnDisk') \in Nat /\ Bytes(OnDisk) \in Nat
    BY <1>2, FS_Subset, BytesAreFinite
  <2> QED BY <1>1, <2>1, <2>2, SizesFit DEF QuotaInv, QuotaHolds
<1>4. ASSUME NEW t \in Threads, step'[t] \in Writing
      PROVE  Bytes(OnDisk' \cup {id'[t]}) <= MaxTotal
  <2>1. step[t] \in Writing /\ id'[t] = id[t] /\ id[t] \in Ids
    BY <1>4 DEF FilesInv, LockInv, TypeOK
  <2>2. Room(t) \in SUBSET Ids /\ IsFiniteSet(Room(t))
    BY <1>2, <2>1, FS_AddElement
  <2>3. OnDisk' \cup {id'[t]} \in SUBSET Room(t)
    BY <1>2, <2>1
  <2>4. Bytes(OnDisk' \cup {id'[t]}) <= Bytes(Room(t))
    BY <1>2, <2>2, <2>3, FewerBytes
  <2>5. Bytes(OnDisk' \cup {id'[t]}) \in Nat /\ Bytes(Room(t)) \in Nat
    BY <1>2, <2>2, <2>3, FS_Subset, BytesAreFinite
  <2> QED BY <2>1, <2>4, <2>5, SizesFit DEF QuotaInv
<1> QED BY <1>1, <1>3, <1>4 DEF QuotaInv, Bytes, Contents

LEMMA QuotaInit == Init => QuotaInv
<1> SUFFICES ASSUME Init PROVE QuotaInv
  OBVIOUS
<1>1. OnDisk = {} /\ Contents({}) = {}
  BY DEF Init, OnDisk, Contents
<1> QED BY <1>1, FS_EmptySet, SizesFit, StepNames
       DEF Init, QuotaInv, QuotaHolds, Bytes

LEMMA QuotaStep == FilesInv /\ QuotaInv /\ [Next]_vars => QuotaInv'
<1> SUFFICES ASSUME FilesInv, QuotaInv, [Next]_vars PROVE QuotaInv'
  OBVIOUS
<1> USE DEF files, refs, calls
<1>1. ASSUME Tick \/ ClockSetBack \/ UNCHANGED vars PROVE QuotaInv'
  BY <1>1, NoMoreData DEF Tick, ClockSetBack, vars, OnDisk
<1>2. ASSUME NEW t \in Threads, NEW i \in Ids, Read(t, i) PROVE QuotaInv'
  BY <1>2, NoMoreData, StepNames DEF Read, Begins, OnDisk, FilesInv, TypeOK
<1>3. ASSUME NEW t \in Threads, NEW i \in Ids, NEW n \in Lengths, Put(t, i, n)
      PROVE  QuotaInv'
  <2>1. IsFiniteSet(used')
    BY <1>3, FS_AddElement DEF Put, QuotaInv
  <2>2. OnDisk' = OnDisk /\ i \notin OnDisk
    BY <1>3 DEF Put, OnDisk, FilesInv, PutInv
  <2>3. ASSUME NEW S \in SUBSET Ids, i \notin S PROVE Bytes(S)' = Bytes(S)
    <3>1. \A j \in S : size'[j] = size[j]
      BY <1>3, <2>3 DEF Put, FilesInv, TypeOK
    <3>2. Contents(S)' = Contents(S)
      BY <3>1 DEF Contents
    <3> QED BY <3>2 DEF Bytes
  <2>4. QuotaHolds'
    <3>1. OnDisk \in SUBSET Ids
      BY DEF OnDisk
    <3>2. Bytes(OnDisk)' = Bytes(OnDisk)
      BY <2>2, <2>3, <3>1
    <3> QED BY <2>2, <3>2 DEF QuotaInv, QuotaHolds, Bytes, Contents
  <2>5. ASSUME NEW u \in Threads, step'[u] \in Writing
        PROVE  (Bytes(OnDisk \cup {id[u]}) <= MaxTotal)'
    <3>1. u # t /\ step[u] \in Writing /\ id'[u] = id[u]
      BY <1>3, <2>5, StepNames DEF Put, Begins, FilesInv, TypeOK
    <3>2. id[u] \in used /\ id[u] \in Ids
      BY <3>1 DEF FilesInv, LockInv, PutInv, TypeOK
    <3>3. OnDisk \cup {id[u]} \in SUBSET Ids /\ i \notin OnDisk \cup {id[u]}
      BY <1>3, <2>2, <3>2 DEF Put, OnDisk
    <3>4. Bytes(OnDisk \cup {id[u]})' = Bytes(OnDisk \cup {id[u]})
      BY <2>2, <2>3, <3>1, <3>3 DEF Bytes, Contents
    <3> QED BY <3>1, <3>4 DEF QuotaInv
  <2> QED BY <2>1, <2>4, <2>5 DEF QuotaInv
<1>4. ASSUME NEW t \in Threads, Locks(t) \/ Scanned(t) \/ Swept(t) PROVE QuotaInv'
  BY <1>4, NoMoreData, StepNames DEF Locks, Scanned, Swept, To, OnDisk, FilesInv,
     TypeOK
<1>5. ASSUME NEW t \in Threads, Evicted(t) PROVE QuotaInv'
  <2>1. CASE call[t] # "put"
    BY <1>5, <2>1, NoMoreData, StepNames DEF Evicted, Doing, To, Ends, OnDisk,
       FilesInv, TypeOK
  <2>2. CASE call[t] = "put"
    <3>1. id[t] \in Ids /\ size[id[t]] \in 0..MaxSize /\ Required(t) = size[id[t]]
      BY <2>2 DEF FilesInv, LockInv, TypeOK, Required
    <3>2. OnDisk = Stored /\ OnDisk \in SUBSET Ids /\ IsFiniteSet(OnDisk) /\ TypeOK
      BY <1>5, DiskIsClean, DiskIsFinite DEF Evicted, QuotaInv, FilesInv
    <3>3. Bytes(OnDisk) + size[id[t]] <= MaxTotal
      <4>1. CASE Fits(t)
        BY <3>1, <3>2, <4>1 DEF Fits
      <4>2. CASE Stored = {}
        <5>1. Bytes(OnDisk) = 0
          BY <3>2, <4>2, FS_EmptySet DEF Bytes, Contents
        <5> QED BY <3>1, <5>1, SizesFit
      <4> QED BY <1>5, <4>1, <4>2 DEF Evicted
    <3>4. Bytes(OnDisk \cup {id[t]}) <= Bytes(OnDisk) + size[id[t]]
      BY <3>1, <3>2, OneMore
    <3>5. Bytes(OnDisk \cup {id[t]}) \in Nat /\ Bytes(OnDisk) \in Nat
      <4>1. OnDisk \cup {id[t]} \in SUBSET Ids /\ IsFiniteSet(OnDisk \cup {id[t]})
        BY <3>1, <3>2, FS_AddElement
      <4> QED BY <3>2, <4>1, BytesAreFinite
    <3>6. Bytes(OnDisk \cup {id[t]}) <= MaxTotal
      BY <3>1, <3>3, <3>4, <3>5, SizesFit
    <3>7. To(t, "data") /\ UNCHANGED <<data, meta, size, created, used>>
      BY <1>5, <2>2 DEF Evicted
    <3>8. \A u \in Threads \ {t} : step'[u] \notin Writing
      BY <1>5, <3>7, StepNames DEF Evicted, Doing, To, FilesInv, LockInv, TypeOK
    <3>9. OnDisk' = OnDisk /\ \A S : Bytes(S)' = Bytes(S')
      BY <3>7 DEF OnDisk, Bytes, Contents
    <3> QED BY <3>6, <3>7, <3>8, <3>9 DEF To, QuotaInv, QuotaHolds, Bytes, Contents
  <2> QED BY <2>1, <2>2
<1>6. ASSUME NEW t \in Threads, NEW i \in Ids,
             UnlinkMeta(t, i) \/ Sweep(t, i) \/ Expire(t, i) \/ Evict(t, i)
      PROVE  QuotaInv'
  <2>1. OnDisk' \subseteq OnDisk
    BY <1>6 DEF UnlinkMeta, Sweep, Expire, Evict, UnlinkFirst, OnDisk, FilesInv,
       TypeOK
  <2> QED BY <1>6, <2>1, NoMoreData DEF UnlinkMeta, Sweep, Expire, Evict
<1>7. ASSUME NEW t \in Threads, WriteTemp(t) PROVE QuotaInv'
  <2>1. step[t] \in Writing /\ id[t] \in Ids
    BY <1>7, StepNames DEF WriteTemp, Doing, FilesInv, LockInv, TypeOK
  <2>2. OnDisk' \subseteq OnDisk \cup {id[t]}
    BY <1>7 DEF WriteTemp, OnDisk, FilesInv, TypeOK
  <2>3. OnDisk \cup {id[t]} \in SUBSET Ids /\ IsFiniteSet(OnDisk \cup {id[t]})
    BY <2>1, DiskIsFinite, FS_AddElement DEF QuotaInv
  <2>4. size' = size /\ used' = used /\ id' = id
        /\ \A u \in Threads : step'[u] \in Writing => step[u] \in Writing
    BY <1>7, StepNames DEF WriteTemp, Doing, To, FilesInv, TypeOK
  <2>5. \A u \in Threads : step'[u] \in Writing => u = t
    BY <2>1, <2>4, StepNames DEF FilesInv, LockInv
  <2>6. \A S : Bytes(S)' = Bytes(S')
    BY <2>4 DEF Bytes, Contents
  <2>7. /\ OnDisk' \cup {id[t]} \in SUBSET (OnDisk \cup {id[t]})
        /\ OnDisk' \in SUBSET (OnDisk \cup {id[t]})
    BY <2>2
  <2>8. Bytes(OnDisk') <= MaxTotal /\ Bytes(OnDisk' \cup {id[t]}) <= MaxTotal
    <3>1. TypeOK /\ Bytes(OnDisk \cup {id[t]}) <= MaxTotal
      BY <2>1 DEF FilesInv, QuotaInv
    <3>2. ASSUME NEW S \in SUBSET (OnDisk \cup {id[t]}) PROVE Bytes(S) <= MaxTotal
      <4>1. Bytes(S) <= Bytes(OnDisk \cup {id[t]})
        BY <2>3, <3>1, FewerBytes
      <4>2. Bytes(S) \in Nat /\ Bytes(OnDisk \cup {id[t]}) \in Nat
        BY <2>3, <3>1, FS_Subset, BytesAreFinite
      <4> QED BY <3>1, <4>1, <4>2, SizesFit
    <3> QED BY <2>7, <3>2
  <2> QED BY <2>4, <2>5, <2>6, <2>8 DEF QuotaInv, QuotaHolds, Bytes, Contents
<1>8. ASSUME NEW t \in Threads, ReplaceData(t) PROVE QuotaInv'
  <2>1. OnDisk' = OnDisk /\ step[t] \in Writing
    BY <1>8, StepNames DEF ReplaceData, Doing, OnDisk, FilesInv, LockInv, PutInv,
       TypeOK
  <2> QED BY <1>8, <2>1, NoMoreData DEF ReplaceData, To, FilesInv, TypeOK
<1>9. ASSUME NEW t \in Threads, ReplaceMeta(t) \/ Undo(t) \/ Look(t) \/ Open(t)
      PROVE  QuotaInv'
  <2>1. OnDisk' \subseteq OnDisk
    BY <1>9 DEF ReplaceMeta, Undo, Look, Open, OnDisk, FilesInv, TypeOK
  <2>2. /\ used' = used /\ size' = size
        /\ \A u \in Threads : step'[u] \in Writing =>
             step[u] \in Writing /\ id'[u] = id[u]
    BY <1>9, StepNames DEF ReplaceMeta, Undo, Look, Open, To, Ends, FilesInv, TypeOK
  <2> QED BY <2>1, <2>2, NoMoreData
<1>10. ASSUME NEW t \in Threads, WriteFails(t) PROVE QuotaInv'
  <2>1. OnDisk' \subseteq OnDisk
    BY <1>10 DEF WriteFails, OnDisk, FilesInv, TypeOK
  <2>2. /\ used' = used /\ size' = size
        /\ \A u \in Threads : step'[u] \in Writing =>
             step[u] \in Writing /\ id'[u] = id[u]
    BY <1>10, StepNames DEF WriteFails, To, Ends, FilesInv, TypeOK
  <2> QED BY <2>1, <2>2, NoMoreData
<1>11. ASSUME NEW t \in Threads, Crash(t) PROVE QuotaInv'
  BY <1>11, NoMoreData, StepNames DEF Crash, OnDisk
<1> QED BY <1>1, <1>2, <1>3, <1>4, <1>5, <1>6, <1>7, <1>8, <1>9, <1>10, <1>11
       DEF Next

LEMMA StoreInit == Init => StoreInv
  BY FilesInit, QuotaInit DEF StoreInv

LEMMA StoreStep == StoreInv /\ [Next]_vars => StoreInv'
  BY FilesStep, QuotaStep DEF StoreInv

(* Whatever a crash or a failure left in the middle, the store is cleaned up   *)
(* before the next call is done, both files of an artifact or none, and a put  *)
(* that writes has the room for all of its data.                               *)
THEOREM StoreInvariant == Spec => []StoreInv
<1> QED BY StoreInit, StoreStep, PTL DEF Spec

LEMMA FilesHold == Spec => []FilesInv
<1>1. StoreInv => FilesInv
  BY DEF StoreInv
<1> QED BY <1>1, StoreInvariant, PTL

(* The data on disk never exceeds the quota, whatever is left in the middle.   *)
THEOREM StoreHoldsQuota == Spec => []QuotaHolds
<1>1. StoreInv => QuotaHolds
  BY DEF StoreInv, QuotaInv
<1> QED BY <1>1, StoreInvariant, PTL

(* The variables of ArtifactStore have the types that its definitions assume.  *)
THEOREM StoreTypeCorrect == Spec => []TypeOK
<1>1. FilesInv => TypeOK
  BY DEF FilesInv
<1> QED BY <1>1, FilesHold, PTL

(* When nobody has the lock and the constructor has cleaned up, every artifact *)
(* has both of its files, and no temporary file is left.                       *)
THEOREM StoreIsClean == Spec => []NothingIsLeft
<1>1. FilesInv => NothingIsLeft
  BY DEF FilesInv, CleanInv, NothingIsLeft, Whole
<1> QED BY <1>1, FilesHold, PTL

------------------------------------------------------------------------------
(* ArtifactStore implements ArtifactMap. *)

LEMMA MapInit == Init => Map!Init
  BY DEF Init, Map!Init, Stored, Gone, Reading

(* The steps that change nothing a reader sees. *)
LEMMA NotSeen ==
  ASSUME Stored' = Stored, BeingPut' = BeingPut, used' = used,
         Reading' = Reading, answer' = answer
  PROVE  UNCHANGED Map!vars
  BY DEF Map!vars, Gone

(* What is being put is not stored, and no other thread puts it. *)
LEMMA PutIsNew ==
  ASSUME FilesInv, NEW t \in Threads, call[t] = "put"
  PROVE  /\ id[t] \in Ids /\ id[t] \in used /\ id[t] \notin Stored
         /\ id[t] \in BeingPut /\ id[t] \notin Gone
         /\ \A u \in Threads \ {t} : call[u] = "put" => id[u] # id[t]
  BY DEF FilesInv, TypeOK, PutInv, Stored, BeingPut, Gone

(* What is stored is removed for its age or for the quota, oldest first.       *)
LEMMA KeptStep ==
  ASSUME FilesInv, IsFiniteSet(used), [Next]_vars, NEW i \in Stored \ Stored'
  PROVE  \E t \in holder :
           \/ Expired(t, i)
           \/ Bytes({j \in Stored : created[i] <= created[j]}) + Required(t)
              > MaxTotal
<1> USE DEF files, refs, calls
<1> DEFINE Kept == i \in Stored'
<1>1. i \in Ids /\ data[i] = "file" /\ meta[i] = "file"
  BY DEF Stored
<1>2. CASE Tick \/ ClockSetBack \/ UNCHANGED vars
  BY <1>2, <1>1 DEF Tick, ClockSetBack, vars, Stored
<1>3. ASSUME NEW t \in Threads,
             \/ \E j \in Ids : Read(t, j) \/ \E n \in Lengths : Put(t, j, n)
             \/ Locks(t) \/ Scanned(t) \/ Swept(t) \/ Evicted(t)
             \/ Look(t) \/ Open(t) \/ Crash(t)
      PROVE  Kept
  BY <1>3, <1>1 DEF Read, Put, Locks, Scanned, Swept, Evicted, Look, Open, Crash, Stored
<1>4. ASSUME NEW t \in Threads, NEW j \in Ids, UnlinkMeta(t, j) \/ Sweep(t, j)
      PROVE  Kept
  BY <1>4, <1>1 DEF UnlinkMeta, Unreadable, Sweep, LeftOver, Stored, FilesInv, TypeOK
<1>5. ASSUME NEW t \in Threads, call[t] = "put",
             WriteTemp(t) \/ ReplaceData(t) \/ ReplaceMeta(t) \/ WriteFails(t) \/ Undo(t)
      PROVE  Kept
  <2>1. i # id[t]
    BY <1>1, <1>5, PutIsNew
  <2> QED BY <1>5, <1>1, <2>1 DEF WriteTemp, ReplaceData, ReplaceMeta, WriteFails,
          Undo, Stored, FilesInv, TypeOK
<1>6. ASSUME NEW t \in Threads,
             WriteTemp(t) \/ ReplaceData(t) \/ ReplaceMeta(t) \/ WriteFails(t) \/ Undo(t)
      PROVE  call[t] = "put"
  BY <1>6, StepNames DEF WriteTemp, ReplaceData, ReplaceMeta, WriteFails, Undo, Doing,
     FilesInv, LockInv
<1>7. ASSUME NEW t \in Threads, NEW j \in Ids, Expire(t, j) \/ Evict(t, j)
      PROVE  i = j /\ t \in holder
  BY <1>7, <1>1, StepNames DEF Expire, Evict, UnlinkFirst, Doing, Stored, FilesInv,
     LockInv, TypeOK
<1>8. CASE \E t \in Threads, j \in Ids : Expire(t, j)
  BY <1>7, <1>8 DEF Expire
<1>9. CASE \E t \in Threads, j \in Ids : Evict(t, j)
  <2>1. PICK t \in Threads : Evict(t, i) /\ t \in holder
    BY <1>7, <1>9
  <2>2. {j \in Stored : created[i] <= created[j]} = Stored
    BY <2>1 DEF Evict, Oldest
  <2>3. Bytes(Stored) \in Nat /\ Required(t) \in Nat
    BY DiskIsFinite, BytesAreFinite DEF Required, FilesInv, LockInv, TypeOK
  <2>4. Bytes(Stored) + Required(t) > MaxTotal
    BY <2>1, <2>3, SizesFit DEF Evict, Fits
  <2> QED BY <2>1, <2>2, <2>4
<1> QED BY <1>2, <1>3, <1>4, <1>5, <1>6, <1>8, <1>9 DEF Next

(* A crash or another artifact does not take what is stored: only its age or   *)
(* the quota does, the oldest first.                                           *)
THEOREM StoreKeepsStored == Spec => StoredIsKept
<1>1. StoreInv /\ [Next]_vars =>
        [\A i \in Stored \ Stored' :
           \E t \in holder :
             \/ Expired(t, i)
             \/ Bytes({j \in Stored : created[i] <= created[j]}) + Required(t)
                > MaxTotal]_vars
  BY KeptStep DEF StoreInv, QuotaInv
<1> QED BY <1>1, StoreInvariant, PTL DEF Spec, StoredIsKept

(* A put that ends is no longer in progress; its thread was not reading. *)
LEMMA PutEnds ==
  ASSUME FilesInv, NEW t \in Threads, call[t] = "put", Ends(t)
  PROVE  BeingPut' = BeingPut \ {id[t]} /\ Reading' = Reading
<1>1. BeingPut' = BeingPut \ {id[t]}
  BY PutIsNew DEF Ends, BeingPut, FilesInv, TypeOK
<1>2. Reading' = Reading
  BY DEF Ends, Reading
<1> QED BY <1>1, <1>2

(* A read that ends was all that its thread did. *)
LEMMA ReadEnds ==
  ASSUME FilesInv, NEW t \in Threads, call[t] = "read", Ends(t)
  PROVE  /\ BeingPut' = BeingPut
         /\ Reading[t] = id[t] /\ Reading[t] # None
         /\ Reading' = [Reading EXCEPT ![t] = None]
<1>1. BeingPut' = BeingPut
  BY DEF Ends, BeingPut
<1>2. Reading' = [Reading EXCEPT ![t] = None]
  BY DEF Ends, Reading, FilesInv, TypeOK
<1>3. id[t] # None
  BY DEF FilesInv, LockInv
<1> QED BY <1>1, <1>2, <1>3 DEF Reading

LEMMA MapStep == FilesInv /\ [Next]_vars => [Map!Next]_(Map!vars)
<1> SUFFICES ASSUME FilesInv, [Next]_vars
             PROVE  Map!Next \/ UNCHANGED Map!vars
  OBVIOUS
<1> USE DEF files, refs, calls
<1>1. CASE Tick \/ ClockSetBack
  BY <1>1, NotSeen DEF Tick, ClockSetBack, Stored, BeingPut, Reading
<1>2. ASSUME NEW t \in Threads, NEW i \in Ids, Read(t, i) PROVE Map!Ask(t, i)
  <2>1. call[t] = "none"
    BY <1>2 DEF Read, Doing, FilesInv, LockInv
  <2>2. Stored' = Stored /\ BeingPut' = BeingPut /\ used' = used
    BY <1>2, <2>1 DEF Read, Begins, Stored, BeingPut
  <2>3. Reading[t] = None /\ Reading' = [Reading EXCEPT ![t] = i]
    BY <1>2, <2>1 DEF Read, Begins, Reading, FilesInv, TypeOK
  <2> QED BY <1>2, <2>2, <2>3 DEF Read, Map!Ask, Gone
<1>3. ASSUME NEW t \in Threads, NEW i \in Ids, NEW n \in Lengths, Put(t, i, n)
      PROVE  UNCHANGED Map!vars
  <2>1. call[t] = "none"
    BY <1>3 DEF Put, Doing, FilesInv, LockInv
  <2>2. Stored' = Stored /\ Reading' = Reading
    BY <1>3, <2>1 DEF Put, Begins, Stored, Reading
  <2>3. BeingPut' = BeingPut \cup {i}
    BY <1>3, <2>1 DEF Put, Begins, BeingPut, FilesInv, TypeOK
  <2>4. i \notin used /\ used' = used \cup {i}
    BY <1>3 DEF Put
  <2>5. Gone' = Gone
    BY <2>2, <2>3, <2>4 DEF Gone
  <2> QED BY <1>3, <2>2, <2>5 DEF Put, Map!vars
<1>4. ASSUME NEW t \in Threads, Locks(t) \/ Scanned(t) \/ Swept(t)
      PROVE  UNCHANGED Map!vars
  BY <1>4, NotSeen DEF Locks, Scanned, Swept, To, Stored, BeingPut, Reading
<1>5. ASSUME NEW t \in Threads, Evicted(t) PROVE UNCHANGED Map!vars
  <2>1. CASE call[t] = "clean"
    <3>1. BeingPut' = BeingPut /\ Reading' = Reading
      BY <1>5, <2>1 DEF Evicted, Ends, BeingPut, Reading, FilesInv, TypeOK
    <3> QED BY <1>5, <3>1, NotSeen DEF Evicted, Stored
  <2>2. CASE call[t] # "clean"
    BY <1>5, <2>2, NotSeen DEF Evicted, To, Stored, BeingPut, Reading
  <2> QED BY <2>1, <2>2
<1>6. ASSUME NEW t \in Threads, NEW i \in Ids, UnlinkMeta(t, i) \/ Sweep(t, i)
      PROVE  UNCHANGED Map!vars
  <2>1. Stored' = Stored
    BY <1>6 DEF UnlinkMeta, Unreadable, Sweep, LeftOver, Stored, FilesInv,
       TypeOK
  <2> QED BY <1>6, <2>1, NotSeen DEF UnlinkMeta, Sweep, BeingPut, Reading
<1>7. ASSUME NEW t \in Threads, NEW i \in Ids, Expire(t, i) \/ Evict(t, i)
      PROVE  Map!Forget(i)
  <2>1. i \in Stored /\ i \in used
    BY <1>7 DEF Expire, Evict, Stored, FilesInv, PutInv
  <2>2. i \notin BeingPut
    BY <2>1, PutIsNew DEF BeingPut
  <2>3. Stored' = Stored \ {i}
    BY <1>7 DEF Expire, Evict, UnlinkFirst, Stored, FilesInv, TypeOK
  <2>4. BeingPut' = BeingPut /\ Reading' = Reading /\ used' = used
        /\ answer' = answer
    BY <1>7 DEF Expire, Evict, BeingPut, Reading
  <2> QED BY <2>1, <2>2, <2>3, <2>4 DEF Map!Forget, Gone
<1>8. ASSUME NEW t \in Threads, WriteTemp(t) \/ ReplaceData(t)
      PROVE  UNCHANGED Map!vars
  <2>1. call[t] = "put" /\ BeingPut' = BeingPut /\ Reading' = Reading
    BY <1>8, StepNames DEF WriteTemp, ReplaceData, Doing, To, BeingPut,
       Reading, FilesInv, LockInv
  <2>2. Stored' = Stored
    BY <1>8, <2>1 DEF WriteTemp, ReplaceData, Stored, FilesInv, TypeOK, PutInv
  <2> QED BY <1>8, <2>1, <2>2, NotSeen DEF WriteTemp, ReplaceData
<1>9. ASSUME NEW t \in Threads, ReplaceMeta(t) PROVE Map!Next
  <2>1. call[t] = "put"
    BY <1>9, StepNames DEF ReplaceMeta, Doing, FilesInv, LockInv
  <2>2. BeingPut' = BeingPut \ {id[t]} /\ Reading' = Reading
    BY <1>9, <2>1, PutEnds DEF ReplaceMeta
  <2>3. Stored' = Stored \cup {id[t]}
    BY <1>9, <2>1 DEF ReplaceMeta, Doing, Stored, FilesInv, TypeOK, PutInv
  <2>4. used' = used /\ answer' = answer
    BY <1>9 DEF ReplaceMeta
  <2> QED BY <2>1, <2>2, <2>3, <2>4, PutIsNew DEF Map!Add, Map!Next, Gone
<1>10. ASSUME NEW t \in Threads, Undo(t) PROVE Map!Next
  <2>1. call[t] = "put"
    BY <1>10, StepNames DEF Undo, Doing, FilesInv, LockInv
  <2>2. BeingPut' = BeingPut \ {id[t]} /\ Reading' = Reading
    BY <1>10, <2>1, PutEnds DEF Undo
  <2>3. Stored' = Stored
    BY <1>10, <2>1, PutIsNew DEF Undo, Stored
  <2>4. used' = used /\ answer' = answer
    BY <1>10 DEF Undo
  <2> QED BY <2>1, <2>2, <2>3, <2>4, PutIsNew
      DEF Map!Forget, Map!Next, Gone
<1>11. ASSUME NEW t \in Threads, WriteFails(t)
       PROVE  Map!Next \/ UNCHANGED Map!vars
  <2>1. call[t] = "put"
    BY <1>11, StepNames DEF WriteFails, FilesInv, LockInv
  <2>2. Stored' = Stored /\ used' = used /\ answer' = answer
    BY <1>11, <2>1, PutIsNew DEF WriteFails, Stored, FilesInv, TypeOK
  <2>3. CASE Ends(t)
    <3>1. BeingPut' = BeingPut \ {id[t]} /\ Reading' = Reading
      BY <2>1, <2>3, PutEnds
    <3> QED BY <2>1, <2>2, <3>1, PutIsNew DEF Map!Forget, Map!Next, Gone
  <2>4. CASE To(t, "undo")
    BY <2>2, <2>4, NotSeen DEF To, BeingPut, Reading
  <2> QED BY <1>11, <2>3, <2>4 DEF WriteFails
<1>12. ASSUME NEW t \in Threads, Look(t)
       PROVE  Map!Tell(t) \/ UNCHANGED Map!vars
  <2>1. call[t] = "read" /\ Stored' = Stored /\ used' = used
    BY <1>12 DEF Look, Doing, Stored, FilesInv, LockInv
  <2>2. CASE id[t] \in Stored
    BY <1>12, <2>1, <2>2, NotSeen DEF Look, To, BeingPut, Reading
  <2>3. CASE id[t] \notin Stored
    <3>1. Ends(t) /\ Answer(t, "unknown")
      BY <1>12, <2>3 DEF Look
    <3> QED BY <2>1, <2>3, <3>1, ReadEnds DEF Answer, Map!Tell, Gone
  <2> QED BY <2>2, <2>3
<1>13. ASSUME NEW t \in Threads, Open(t) PROVE Map!Tell(t)
  <2>1. call[t] = "read" /\ Stored' = Stored /\ used' = used
    BY <1>13 DEF Open, Doing, Stored, FilesInv, LockInv
  <2>2. data[id[t]] = "file" <=> id[t] \in Stored
    BY <1>13 DEF Open, Doing, Stored, FilesInv, OpenInv, TypeOK
  <2>3. Ends(t) /\ Answer(t, IF id[t] \in Stored THEN "found" ELSE "unknown")
    BY <1>13, <2>2 DEF Open
  <2> QED BY <2>1, <2>3, ReadEnds DEF Answer, Map!Tell, Gone
<1>14. ASSUME NEW t \in Threads, Crash(t) PROVE Map!Stop
  <2>1. Stored' = Stored /\ used' = used /\ answer' = answer
    BY <1>14 DEF Crash, Stored
  <2>2. BeingPut' = {} /\ Reading' = [u \in Threads |-> None]
    BY <1>14 DEF Crash, BeingPut, Reading
  <2> QED BY <2>1, <2>2 DEF Map!Stop, Gone
<1>15. CASE UNCHANGED vars
  BY <1>15, NotSeen DEF vars, Stored, BeingPut, Reading
<1> QED BY <1>1, <1>2, <1>3, <1>4, <1>5, <1>6, <1>7, <1>8, <1>9, <1>10, <1>11,
       <1>12, <1>13, <1>14, <1>15 DEF Next, Map!Next

(* ArtifactStore implements ArtifactMap: an artifact is there at once and      *)
(* whole, is gone for good when it is gone, and a read is told what was so.    *)
THEOREM StoreKeepsArtifacts == Spec => KeepsArtifacts
<1> QED BY MapInit, MapStep, FilesHold, PTL
        DEF Spec, KeepsArtifacts, Map!Spec
===============================================================================
