------------------------------ MODULE MCDescent ------------------------------
(***************************************************************************)
(* Descent on short streams.                                               *)
(***************************************************************************)
EXTENDS Descent, TLC

MCTypes == {"scalar", "collection", "entry"}

Symmetry == Permutations(Name)
=============================================================================
