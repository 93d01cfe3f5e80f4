---------------------------- MODULE MCArtifactStore ----------------------------
(* ArtifactStore for TLC: threads are alike, and so are the IDs. *)
EXTENDS ArtifactStoreInv, TLC

CONSTANTS t1, t2, a, b, c

Alike == Permutations({t1, t2}) \cup Permutations({a, b, c})
==============================================================================
