----------------------------- MODULE MCWalkTape -----------------------------
(* WalkTape on a small tape: see WalkTape.cfg.  Chunks of tokens are alike; *)
(* chunks of cells are numbered and the levels of the descent ordered.     *)
EXTENDS WalkTape, TLC

Symmetry == Permutations(Chunk)
=============================================================================
