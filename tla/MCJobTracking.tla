---------------------------- MODULE MCJobTracking ----------------------------
(* Instances of JobTracking for TLC: the jobs are model values, and nothing in *)
(* the specification tells one from another.                                   *)
EXTENDS JobTrackingInv, TLC

CONSTANTS j1, j2

Symmetry == Permutations(Jobs)
==============================================================================
