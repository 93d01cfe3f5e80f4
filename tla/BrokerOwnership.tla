---------------------------- MODULE BrokerOwnership ----------------------------
(* What the broker processes promise whoever uses the endpoint: one owner at a *)
(* time, numbered by its generation, and a next one only after the end of the  *)
(* last.  BrokerElection implements it; ProxyRecovery is built on it.          *)
EXTENDS Naturals

VARIABLES
    owner,  \* generation of the broker owner, 0 before the first
    health  \* of its process: not yet answering, answering, alive without
            \* answering, dead

Init == owner = 0 /\ health = "dead"

Replace ==
    /\ health = "dead"
    /\ owner' = owner + 1
    /\ health' = "starting"

Serve ==
    /\ health = "starting"
    /\ health' = "serving"
    /\ UNCHANGED owner

(* Its server fails or stops, and the process goes on. *)
Hang ==
    /\ health \in {"starting", "serving"}
    /\ health' = "hung"
    /\ UNCHANGED owner

Die ==
    /\ health # "dead"
    /\ health' = "dead"
    /\ UNCHANGED owner

Next == Replace \/ Serve \/ Hang \/ Die

Spec == Init /\ [][Next]_<<owner, health>>
==============================================================================
