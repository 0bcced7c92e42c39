------------------------------ MODULE MCGroups ------------------------------
(* Groups over every stream of a profile up to a length of its own.  The   *)
(* limit is two characters, so that three tokens run past it.              *)
EXTENDS Groups

MCMaxLength ==
    [p \in {"keys", "tagged", "bodies", "notes", "properties", "prelude"} |->
        CASE p = "keys" -> 6 [] p = "tagged" -> 6 [] p = "bodies" -> 6
          [] p \in {"notes", "properties", "prelude"} -> 5]
=============================================================================
