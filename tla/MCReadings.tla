----------------------------- MODULE MCReadings -----------------------------
(* Readings over small documents: see the .cfg files.  Keys that all       *)
(* resolve to strings are alike.                                           *)
EXTENDS Readings

Symmetry == Permutations(Key)
=============================================================================
