----------------------------- MODULE MCCellPool -----------------------------
(* CellPool for TLC: job and cell ids are interchangeable. *)
EXTENDS CellPoolInv, TLC

CONSTANTS j1, j2, j3, j4, x1, x2, x3

Interchangeable == Permutations(Jobs) \cup Permutations(Cells)
==============================================================================
