--------------------------- MODULE MCBrokerElection ---------------------------
(* Instances of BrokerElection for TLC.                                        *)
EXTENDS BrokerElectionInv, TLC

CONSTANTS c1, c2, d1, d2

(* Calls of the same protocol version, and unborn daemons, are alike.          *)
SameVersion == Permutations(Calls) \cup Permutations(Daemons)
==============================================================================
