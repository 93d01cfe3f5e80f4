--------------------------- MODULE ArtifactStoreInv ---------------------------
(* What must hold of ArtifactStore. *)
EXTENDS ArtifactStore

Steps == {"idle", "lock", "scan", "sweep", "evict", "data", "replace_data", "meta",
          "replace_meta", "undo", "look", "open"}

TypeOK ==
    /\ data \in [Ids -> FileStates] /\ meta \in [Ids -> FileStates]
    /\ size \in [Ids -> 0..MaxSize] /\ created \in [Ids -> Nat]
    /\ used \subseteq Ids
    /\ holder \subseteq Threads
    /\ call \in [Threads -> {"none", "put", "read", "clean"}]
    /\ step \in [Threads -> Steps]
    /\ id \in [Threads -> Ids \cup {None}]
    /\ began \in [Threads -> Nat]
    /\ answer \in [Threads -> {"none", "found", "unknown"}]
    /\ now \in Nat /\ faults \in Nat

(* The data on disk never exceeds max_total_bytes, the temporary and orphaned  *)
(* files that a crash or a failed write leaves in the middle included.         *)
OnDisk == {i \in Ids : data[i] # "none"}
QuotaHolds == Bytes(OnDisk) <= MaxTotal

(* Whatever crashed or failed, between two calls each artifact on disk has     *)
(* both files and nothing else is left.                                        *)
NothingIsLeft ==
    holder = {} /\ Started =>
      \A i \in Ids : data[i] = meta[i] /\ data[i] # "temp"

Unlocked == {"idle", "lock", "open"}
Writing == {"data", "replace_data", "meta", "replace_meta", "undo"}

(* One thread has the lock, and each call is at a step of its own. *)
LockInv ==
    /\ \A t \in Threads : t \in holder <=> step[t] \notin Unlocked
    /\ \A t, u \in holder : t = u
    /\ \A t \in Threads :
         /\ call[t] = "none" <=> step[t] = "idle"
         /\ step[t] \in {"look", "open"} => call[t] = "read"
         /\ step[t] \in Writing => call[t] = "put"
         /\ call[t] \in {"put", "read"} <=> id[t] # None

(* Data is in place before its metadata is written.  The files of a put in     *)
(* progress are its own, as far as it has written them, and no reader knows    *)
(* them.                                                                       *)
PutInv ==
    /\ \A i \in Ids :
         /\ data[i] # "none" \/ meta[i] # "none" => i \in used
         /\ data[i] = "temp" => meta[i] = "none"
    /\ \A t \in Threads : call[t] = "put" =>
         /\ id[t] \in used
         /\ \A u \in Threads \ {t} :
              call[u] = "put" \/ step[u] = "open" => id[u] # id[t]
         /\ data[id[t]] = "temp" <=> step[t] = "replace_data"
         /\ data[id[t]] = "file" <=> step[t] \in {"meta", "replace_meta", "undo"}
         /\ meta[id[t]] = "temp" <=> step[t] = "replace_meta"
         /\ meta[id[t]] # "file"

(* What a reader opens was stored, so its data goes first. *)
OpenInv ==
    \A t \in Threads : step[t] = "open" =>
      id[t] \in used /\ (data[id[t]] = "file" => meta[id[t]] = "file")

Whole(i) == data[i] = meta[i] /\ data[i] # "temp"

(* What the cleanup has dealt with at each of its steps. *)
CleanInv ==
    /\ holder = {} /\ Started => \A i \in Ids : Whole(i)
    /\ \A t \in Threads :
         /\ step[t] = "sweep" => \A i \in Ids : ~Unreadable(i)
         /\ step[t] = "evict" => \A i \in Ids : ~LeftOver(i) /\ meta[i] # "temp"
         /\ step[t] = "look" => \A i \in Ids : Whole(i)
         /\ step[t] \in Writing => \A i \in Ids \ {id[t]} : Whole(i)

FilesInv == TypeOK /\ LockInv /\ PutInv /\ OpenInv /\ CleanInv

(* A put has the room for all of its data before it writes the first byte. *)
QuotaInv ==
    /\ IsFiniteSet(used)
    /\ QuotaHolds
    /\ \A t \in Threads :
         step[t] \in Writing => Bytes(OnDisk \cup {id[t]}) <= MaxTotal

StoreInv == FilesInv /\ QuotaInv

(* A stored artifact is removed only when it has expired by the time the       *)
(* cleanup began, or when it, those not older and the one to come exceed the   *)
(* quota: a crash or another artifact does not take it.                        *)
StoredIsKept ==
    [][\A i \in Stored \ Stored' :
         \E t \in holder :
           \/ Expired(t, i)
           \/ Bytes({j \in Stored : created[i] <= created[j]}) + Required(t)
              > MaxTotal]_vars

(* The store as its readers see it. *)
BeingPut == {i \in Ids : \E t \in Threads : call[t] = "put" /\ id[t] = i}
Gone == used \ (Stored \cup BeingPut)
Reading == [t \in Threads |-> IF call[t] = "read" THEN id[t] ELSE None]

Map == INSTANCE ArtifactMap WITH
    Readers <- Threads, stored <- Stored, gone <- Gone, reading <- Reading,
    told <- answer

(* The store implements ArtifactMap: no crash or failed write shows a reader   *)
(* half of an artifact, brings one back or loses one that was there, and what  *)
(* a read says was so at a moment of the read, lock or no lock.                *)
KeepsArtifacts == Map!Spec
==============================================================================
