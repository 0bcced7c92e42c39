---------------------------- MODULE MCTypeCaches ----------------------------
(* TypeCaches over a type that holds itself, and in one vocabulary of tags *)
(* a field of a type that reads itself; in the other the tags of that type *)
(* name two fields alike.                                                  *)
EXTENDS TypeCaches

Types == {"list", "time"}
UnderTypes ==
    [m \in Mode |->
        [t \in Types |->
            CASE t = "list" -> IF m = "yaml" THEN {"list", "time"} ELSE {"list"}
              [] OTHER -> {}]]
DuplicatedTypes == [m \in Mode |-> IF m = "json" THEN {"time"} ELSE {}]
=============================================================================
