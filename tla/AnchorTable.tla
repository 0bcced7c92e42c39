----------------------------- MODULE AnchorTable -----------------------------
(***************************************************************************)
(* parser/anchors.go: the anchors of the document being read, and the      *)
(* aliases that named one before its node existed.                         *)
(*                                                                         *)
(* A declaration is the place of an anchor among those of its document.    *)
(* What a name stands for is a declaration and whether the node is the     *)
(* tagged one, for a tag written before the anchor.  An alias is the place *)
(* of the alias among those of its document; 0 is no declaration.          *)
(***************************************************************************)
EXTENDS Integers, Sequences, SequencesExt

CONSTANT Name   \* the names anchors are given

Nothing == [decl |-> 0, tagged |-> FALSE]

NewTable == [nodes |-> [n \in Name |-> Nothing], open |-> <<>>, cyclic |-> <<>>]

(* openName and dropName. *)
OpenName(table, name, decl) == [table EXCEPT !.open = Append(@, [name |-> name, decl |-> decl])]
DropName(table) == [table EXCEPT !.open = IF @ = <<>> THEN @ ELSE Front(@)]

(* keepAnchor: closes the name, and records the node it stands for. *)
Keep(table, name, decl) ==
    [DropName(table) EXCEPT !.nodes[name] = [decl |-> decl, tagged |-> FALSE]]

(* openNode: the innermost anchor of the name whose node is being read. *)
OpenDecl(table, name) ==
    LET at == {i \in DOMAIN table.open : table.open[i].name = name}
    IN  IF at = {} THEN 0 ELSE table.open[CHOOSE i \in at : \A j \in at : j <= i].decl

Known(table, name) == OpenDecl(table, name) # 0 \/ table.nodes[name].decl # 0

(* resolveAlias, for a name that is known: the target, nothing as yet for  *)
(* an alias inside the node it names.                                      *)
Target(table, name) == IF OpenDecl(table, name) # 0 THEN Nothing ELSE table.nodes[name]
HoldCyclic(table, name, alias) ==
    IF OpenDecl(table, name) = 0 THEN table
    ELSE [table EXCEPT !.cyclic = Append(@, [alias |-> alias, decl |-> OpenDecl(table, name),
                                             tagged |-> FALSE])]

(* Broken: leaves the aliases inside the node on the anchor. *)
RetagNameOnly(table, name, decl) ==
    IF table.nodes[name] = [decl |-> decl, tagged |-> FALSE]
    THEN [table EXCEPT !.nodes[name].tagged = TRUE] ELSE table

(* retag: a tag around the anchor is closed. *)
Retag(table, name, decl) ==
    [table EXCEPT
        !.nodes[name].tagged = @ \/ table.nodes[name].decl = decl,
        !.cyclic = [i \in DOMAIN @ |->
                       [table.cyclic[i] EXCEPT !.tagged = @ \/ table.cyclic[i].decl = decl]]]

(* take: the table as the next document finds it, and what it fills in for *)
(* each alias it held.                                                     *)
Take(table) == [table EXCEPT !.nodes = NewTable.nodes, !.open = <<>>, !.cyclic = <<>>]
Filled(table, alias) ==
    LET held == {table.cyclic[i] : i \in DOMAIN table.cyclic}
    IN  {[decl |-> c.decl, tagged |-> c.tagged] : c \in {h \in held : h.alias = alias}}
=============================================================================
