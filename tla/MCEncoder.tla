----------------------------- MODULE MCEncoder ------------------------------
(* Encoder with smart anchors over maps and slices, and without them over  *)
(* structs whose fields are tagged in the ways that meet one another.      *)
EXTENDS Encoder

NoTags == <<"plain", "plain">>
Struct(a, b) == [kind |-> "struct", tags |-> <<a, b>>]
MCShapes ==
    [s \in BOOLEAN |->
        IF s THEN {[kind |-> k, tags |-> NoTags] : k \in {"map", "slice", "struct"}}
        ELSE {[kind |-> "slice", tags |-> NoTags], Struct("plain", "plain"), Struct("auto", "plain"),
              Struct("named", "aliasNamed"), Struct("inline", "plain")}]
MCMaxDocs == [s \in BOOLEAN |-> IF s THEN 1 ELSE 2]
MCMaxObjects == [s \in BOOLEAN |-> IF s THEN 4 ELSE 3]
=============================================================================
