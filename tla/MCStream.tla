------------------------------ MODULE MCStream ------------------------------
(***************************************************************************)
(* Streams of a few tokens.                                                *)
(***************************************************************************)
EXTENDS Stream, TLC
=============================================================================
