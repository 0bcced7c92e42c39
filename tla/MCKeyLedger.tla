----------------------------- MODULE MCKeyLedger -----------------------------
(***************************************************************************)
(* KeyLedger on small streams.                                             *)
(***************************************************************************)
EXTENDS KeyLedger, TLC

(* Neither a name nor a kind is told from another of its sort. *)
Symmetry == Permutations(Text) \cup Permutations(Kind)
=============================================================================
