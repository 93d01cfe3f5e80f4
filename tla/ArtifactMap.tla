------------------------------ MODULE ArtifactMap ------------------------------
(* What an artifact store promises its readers: an artifact is there at once   *)
(* and whole, is gone for good when it is gone, and a read says whether it was *)
(* there at a moment of the read.                                              *)
CONSTANTS Readers, Ids, None

VARIABLES
    stored,   \* the artifacts that are there
    gone,     \* the IDs that will never be
    reading,  \* the ID a reader asked for, None when it asks for none
    told      \* what it was last told

vars == <<stored, gone, reading, told>>

Init ==
    /\ stored = {} /\ gone = {}
    /\ reading = [t \in Readers |-> None]
    /\ told = [t \in Readers |-> "none"]

Add(i) ==
    /\ i \notin stored \cup gone
    /\ stored' = stored \cup {i}
    /\ UNCHANGED <<gone, reading, told>>

(* It expired or made room, or it was never stored. *)
Forget(i) ==
    /\ i \notin gone
    /\ stored' = stored \ {i}
    /\ gone' = gone \cup {i}
    /\ UNCHANGED <<reading, told>>

Ask(t, i) ==
    /\ reading[t] = None
    /\ reading' = [reading EXCEPT ![t] = i]
    /\ told' = [told EXCEPT ![t] = "none"]
    /\ UNCHANGED <<stored, gone>>

Tell(t) ==
    /\ reading[t] # None
    /\ told' = [told EXCEPT ![t] =
                  IF reading[t] \in stored THEN "found" ELSE "unknown"]
    /\ reading' = [reading EXCEPT ![t] = None]
    /\ UNCHANGED <<stored, gone>>

(* The process ends: what was being stored is not, and nobody is told. *)
Stop ==
    /\ gone \subseteq gone'
    /\ gone' \cap stored = {}
    /\ reading' = [t \in Readers |-> None]
    /\ UNCHANGED <<stored, told>>

Next ==
    \/ Stop
    \/ \E i \in Ids : Add(i) \/ Forget(i)
    \/ \E t \in Readers : Tell(t) \/ \E i \in Ids : Ask(t, i)

Spec == Init /\ [][Next]_vars
==============================================================================
