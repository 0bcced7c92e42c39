---------------------------- MODULE MCTokenArena ----------------------------
(* TokenArena on a small tape: see TokenArena.cfg.  Chunks are alike, and  *)
(* so are the callers that save runs.                                      *)
EXTENDS TokenArena, TLC

Symmetry == Permutations(Chunk) \cup Permutations(Holder)
=============================================================================
