----------------------------- MODULE ArtifactStore -----------------------------
(* The artifact store of a broker (colab_codex_adapter/artifacts.py): two      *)
(* files for each artifact, written and removed one after the other under a    *)
(* lock that ends with the process, and readers that open the data file        *)
(* without the lock.                                                           *)
EXTENDS Integers, FiniteSets

CONSTANTS Threads,    \* users of one ArtifactStore
          Ids,        \* opaque IDs, token_hex(16)
          None,       \* no ID
          Lengths,    \* of the data to store
          MaxSize,    \* max_artifact_bytes
          MaxTotal,   \* max_total_bytes
          Ttl,        \* ttl_seconds
          MaxTime,    \* bound: time.time()
          MaxFaults   \* bound: crashes, failed writes, clocks set back

ASSUME LengthsAreNumbers == Lengths \subseteq Nat
ASSUME SizesFit == MaxSize \in Nat /\ MaxTotal \in Nat /\ MaxSize <= MaxTotal
ASSUME TimesAreNumbers == Ttl \in Nat /\ MaxTime \in Nat
ASSUME NoneIsNoId == None \notin Ids
ASSUME FaultsBounded == MaxFaults \in Nat

VARIABLES
    data,     \* the .artifact file of an ID
    meta,     \* its .json file
    size,     \* size_bytes
    created,  \* created_at
    used,     \* the IDs that were given out
    holder,   \* the threads that hold _lock
    call,     \* what a thread does: "put", "read", "clean" or "none"
    step,     \* how far it is
    id,       \* the artifact of a put or a read
    began,    \* time.time() of its cleanup
    answer,   \* what its last read was told
    now,      \* time.time()
    faults    \* faults so far

files == <<data, meta>>
refs == <<size, created, used>>
calls == <<call, step, id, began>>
vars == <<files, refs, holder, calls, answer, now, faults>>

FileStates == {"none", "temp", "file"}

Init ==
    /\ data = [i \in Ids |-> "none"] /\ meta = [i \in Ids |-> "none"]
    /\ size = [i \in Ids |-> 0] /\ created = [i \in Ids |-> 0] /\ used = {}
    /\ holder = {}
    /\ call = [t \in Threads |-> "none"] /\ step = [t \in Threads |-> "idle"]
    /\ id = [t \in Threads |-> None] /\ began = [t \in Threads |-> 0]
    /\ answer = [t \in Threads |-> "none"]
    /\ now = 0 /\ faults = 0

(* _read_record finds the artifact: the metadata and a data file of its size. *)
Stored == {i \in Ids : data[i] = "file" /\ meta[i] = "file"}

(* The bytes of the artifacts of S, counted: the sum of their sizes. *)
Contents(S) == UNION {{i} \X (1..size[i]) : i \in S}
Bytes(S) == Cardinality(Contents(S))

Doing(t, s) == step[t] = s
To(t, s) == step' = [step EXCEPT ![t] = s] /\ UNCHANGED <<call, id, began>>
Begins(t, c, i) ==
    /\ call' = [call EXCEPT ![t] = c] /\ id' = [id EXCEPT ![t] = i]
    /\ step' = [step EXCEPT ![t] = "lock"]
    /\ UNCHANGED began
Ends(t) ==
    /\ call' = [call EXCEPT ![t] = "none"] /\ id' = [id EXCEPT ![t] = None]
    /\ step' = [step EXCEPT ![t] = "idle"] /\ began' = [began EXCEPT ![t] = 0]
Release(t) == holder' = holder \ {t}
Fault == faults < MaxFaults /\ faults' = faults + 1

------------------------------------------------------------------------------
(* The calls *)

(* The constructor has cleaned up. *)
Started == \A t \in Threads : call[t] # "clean"

(* data[: self.max_artifact_bytes] *)
Cut(n) == IF n <= MaxSize THEN n ELSE MaxSize

(* put_bytes up to the lock: the time and the ID are chosen before. *)
Put(t, i, n) ==
    /\ Started /\ Doing(t, "idle") /\ i \notin used
    /\ Begins(t, "put", i)
    /\ size' = [size EXCEPT ![i] = Cut(n)]
    /\ created' = [created EXCEPT ![i] = now]
    /\ used' = used \cup {i}
    /\ UNCHANGED <<files, holder, answer, now, faults>>

(* read_chunk, with an ID that the store has given out or not. *)
Read(t, i) ==
    /\ Started /\ Doing(t, "idle")
    /\ Begins(t, "read", i)
    /\ answer' = [answer EXCEPT ![t] = "none"]
    /\ UNCHANGED <<files, refs, holder, now, faults>>

(* Mutant of LockIsFree: there is no lock. *)
NoLock == TRUE

LockIsFree == holder = {}

(* _cleanup_locked begins. *)
Locks(t) ==
    /\ Doing(t, "lock") /\ LockIsFree
    /\ holder' = holder \cup {t}
    /\ step' = [step EXCEPT ![t] = "scan"] /\ began' = [began EXCEPT ![t] = now]
    /\ UNCHANGED <<files, refs, call, id, answer, now, faults>>

------------------------------------------------------------------------------
(* _cleanup_locked *)

Expired(t, i) == created[i] + Ttl <= began[t]

Unreadable(i) == meta[i] = "file" /\ data[i] # "file"

(* Mutant of UnlinkFirst: the metadata is unlinked first. *)
MetaFirst(i) == meta' = [meta EXCEPT ![i] = "none"] /\ UNCHANGED data

(* _delete_record unlinks the data, and then the metadata. *)
UnlinkFirst(i) == data' = [data EXCEPT ![i] = "none"] /\ UNCHANGED meta

(* Metadata whose data is missing, be it from a moment ago. *)
UnlinkMeta(t, i) ==
    /\ Doing(t, "scan") \/ Doing(t, "evict")
    /\ Unreadable(i)
    /\ meta' = [meta EXCEPT ![i] = "none"]
    /\ UNCHANGED <<data, refs, holder, calls, answer, now, faults>>

Expire(t, i) ==
    /\ Doing(t, "scan")
    /\ i \in Stored /\ Expired(t, i)
    /\ UnlinkFirst(i)
    /\ UNCHANGED <<refs, holder, calls, answer, now, faults>>

Scanned(t) ==
    /\ Doing(t, "scan")
    /\ \A i \in Ids : ~Unreadable(i) /\ (i \in Stored => ~Expired(t, i))
    /\ To(t, "sweep")
    /\ UNCHANGED <<files, refs, holder, answer, now, faults>>

(* Mutant of LeftOver: temporary files are left alone. *)
OrphansOnly(i) == data[i] = "file" /\ meta[i] # "file"

(* Data without metadata, and the temporary files of a crash. *)
LeftOver(i) == data[i] # "none" /\ meta[i] # "file"

Sweep(t, i) ==
    /\ Doing(t, "sweep")
    /\ \/ LeftOver(i) /\ data' = [data EXCEPT ![i] = "none"] /\ UNCHANGED meta
       \/ meta[i] = "temp" /\ meta' = [meta EXCEPT ![i] = "none"] /\ UNCHANGED data
    /\ UNCHANGED <<refs, holder, calls, answer, now, faults>>

Swept(t) ==
    /\ Doing(t, "sweep")
    /\ \A i \in Ids : ~LeftOver(i) /\ meta[i] # "temp"
    /\ To(t, "evict")
    /\ UNCHANGED <<files, refs, holder, answer, now, faults>>

Required(t) == IF call[t] = "put" THEN size[id[t]] ELSE 0

(* Mutant of Fits: the artifact to come is not counted. *)
FitsNow(t) == Bytes(Stored) <= MaxTotal

Fits(t) == Bytes(Stored) + Required(t) <= MaxTotal

(* Mutant of Oldest: sorted the other way round. *)
Newest(i) == \A j \in Stored : created[j] <= created[i]

Oldest(i) == \A j \in Stored : created[i] <= created[j]

(* One record after the other, its metadata before the next. *)
Evict(t, i) ==
    /\ Doing(t, "evict")
    /\ \A j \in Ids : ~Unreadable(j)
    /\ ~Fits(t)
    /\ i \in Stored /\ Oldest(i)
    /\ UnlinkFirst(i)
    /\ UNCHANGED <<refs, holder, calls, answer, now, faults>>

(* A cleanup ends here, a put goes on to write, a read to look. *)
Evicted(t) ==
    /\ Doing(t, "evict")
    /\ \A j \in Ids : ~Unreadable(j)
    /\ Fits(t) \/ Stored = {}
    /\ IF call[t] = "clean"
       THEN Ends(t) /\ Release(t)
       ELSE To(t, IF call[t] = "put" THEN "data" ELSE "look") /\ UNCHANGED holder
    /\ UNCHANGED <<files, refs, answer, now, faults>>

------------------------------------------------------------------------------
(* put_bytes, with the lock *)

(* _write_atomic: a temporary file, which replaces the file. *)
WriteTemp(t) ==
    /\ \/ Doing(t, "data") /\ data' = [data EXCEPT ![id[t]] = "temp"]
          /\ UNCHANGED meta
          /\ To(t, "replace_data")
       \/ Doing(t, "meta") /\ meta' = [meta EXCEPT ![id[t]] = "temp"]
          /\ UNCHANGED data
          /\ To(t, "replace_meta")
    /\ UNCHANGED <<refs, holder, answer, now, faults>>

ReplaceData(t) ==
    /\ Doing(t, "replace_data")
    /\ data' = [data EXCEPT ![id[t]] = "file"]
    /\ To(t, "meta")
    /\ UNCHANGED <<meta, refs, holder, answer, now, faults>>

(* The reference is returned. *)
ReplaceMeta(t) ==
    /\ Doing(t, "replace_meta")
    /\ meta' = [meta EXCEPT ![id[t]] = "file"]
    /\ Ends(t) /\ Release(t)
    /\ UNCHANGED <<data, refs, answer, now, faults>>

(* A write fails: its temporary file, if there is one, is unlinked.  If it was *)
(* the metadata's, the data is unlinked next.  (The chmod of the file in place *)
(* does not fail.)                                                             *)
WriteFails(t) ==
    /\ Fault
    /\ \/ step[t] \in {"data", "replace_data"}
          /\ data' = [data EXCEPT ![id[t]] = "none"]
          /\ UNCHANGED meta
          /\ Ends(t) /\ Release(t)
       \/ step[t] \in {"meta", "replace_meta"}
          /\ meta' = [meta EXCEPT ![id[t]] = "none"]
          /\ UNCHANGED data
          /\ To(t, "undo") /\ UNCHANGED holder
    /\ UNCHANGED <<refs, answer, now>>

Undo(t) ==
    /\ Doing(t, "undo")
    /\ data' = [data EXCEPT ![id[t]] = "none"]
    /\ Ends(t) /\ Release(t)
    /\ UNCHANGED <<meta, refs, answer, now, faults>>

------------------------------------------------------------------------------
(* read_chunk *)

Answer(t, a) == answer' = [answer EXCEPT ![t] = a]

(* get_ref looks for the record and gives up the lock. *)
Look(t) ==
    /\ Doing(t, "look")
    /\ Release(t)
    /\ IF id[t] \in Stored
       THEN To(t, "open") /\ UNCHANGED answer
       ELSE Ends(t) /\ Answer(t, "unknown")
    /\ UNCHANGED <<files, refs, now, faults>>

(* The data file is opened without the lock, and may be gone. *)
Open(t) ==
    /\ Doing(t, "open")
    /\ Ends(t)
    /\ Answer(t, IF data[id[t]] = "file" THEN "found" ELSE "unknown")
    /\ UNCHANGED <<files, refs, holder, now, faults>>

------------------------------------------------------------------------------
(* The process and the clock *)

(* The process dies; the constructor of the next one cleans up. *)
Crash(t) ==
    /\ Fault
    /\ call' = [u \in Threads |-> IF u = t THEN "clean" ELSE "none"]
    /\ step' = [u \in Threads |-> IF u = t THEN "lock" ELSE "idle"]
    /\ id' = [u \in Threads |-> None] /\ began' = [u \in Threads |-> 0]
    /\ holder' = {}
    /\ UNCHANGED <<files, refs, answer, now>>

Tick ==
    /\ now < MaxTime
    /\ now' = now + 1
    /\ UNCHANGED <<files, refs, holder, calls, answer, faults>>

(* time.time() is not monotonic. *)
ClockSetBack ==
    /\ Fault
    /\ now > 0
    /\ now' = now - 1
    /\ UNCHANGED <<files, refs, holder, calls, answer>>

Next ==
    \/ Tick \/ ClockSetBack
    \/ \E t \in Threads :
         \/ \E i \in Ids : Read(t, i) \/ \E n \in Lengths : Put(t, i, n)
         \/ Locks(t) \/ Scanned(t) \/ Swept(t) \/ Evicted(t)
         \/ \E i \in Ids :
              UnlinkMeta(t, i) \/ Expire(t, i) \/ Sweep(t, i) \/ Evict(t, i)
         \/ WriteTemp(t) \/ ReplaceData(t) \/ ReplaceMeta(t)
         \/ WriteFails(t) \/ Undo(t)
         \/ Look(t) \/ Open(t) \/ Crash(t)

Spec == Init /\ [][Next]_vars
==============================================================================
