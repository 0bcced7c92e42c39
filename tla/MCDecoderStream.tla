-------------------------- MODULE MCDecoderStream --------------------------
(* DecoderStream over short streams, with entries of every kind.           *)
EXTENDS DecoderStream

EveryKind == {"plain", "null", "alias", "misfit", "cycle", "repeat"}
=============================================================================
