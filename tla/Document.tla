------------------------------ MODULE Document ------------------------------
(***************************************************************************)
(* One document as the parser builds it, and what it denotes.              *)
(*                                                                         *)
(* A document is a sequence of nodes in the order the parser reads them,   *)
(* each knowing the collection or the anchor it stands in, the key of the  *)
(* entry it is the value of, and for an alias the node it names and        *)
(* whether it stands inside it.  Scalars are told apart by their place.  A *)
(* mapping writes each key and "<<" once, and its keys are plain scalars:  *)
(* KeyLedger is about the others.                                          *)
(***************************************************************************)
EXTENDS Integers, Sequences, SequencesExt

MergeKey == "<<"
NoKey == "none"
NoName == "none"

NewNode(kind, under, key, name) ==
    [kind |-> kind, under |-> under, key |-> key, name |-> name, target |-> 0, inside |-> FALSE]

ChildrenOf(ns, n) == SelectSeq([i \in 1..Len(ns) |-> i], LAMBDA i : ns[i].under = n)
KeysOf(ns, n) == {ns[i].key : i \in {j \in 1..Len(ns) : ns[j].under = n}}

IsMerge(ns, i) == ns[i].key = MergeKey
Below(ns, n) ==
    LET down[i \in 1..Len(ns)] == i = n \/ (ns[i].under > 0 /\ down[ns[i].under])
    IN  {i \in 1..Len(ns) : down[i]}

----------------------------------------------------------------------------
(* parser/anchors.go: the names still open, and the node each name read    *)
(* so far stands for, 0 for none.                                          *)
OpenAnchors(ns, path, name) ==
    {i \in 1..Len(path) : ns[path[i]].kind = "anchor" /\ ns[path[i]].name = name}
Known(ns, path, anchors, name) == OpenAnchors(ns, path, name) # {} \/ anchors[name] # 0

(* resolveAlias, the target of an alias inside its node filled in at once. *)
ResolveAlias(ns, path, anchors, alias) ==
    LET open == OpenAnchors(ns, path, alias.name)
    IN  IF open = {} THEN [alias EXCEPT !.target = anchors[alias.name]]
        ELSE [alias EXCEPT !.target = path[CHOOSE i \in open : \A j \in open : j <= i] + 1,
                           !.inside = TRUE]

----------------------------------------------------------------------------
(* ast.MergeOf: the mappings a "<<" folds, earliest first.                 *)
RECURSIVE Unwrap(_, _)
Unwrap(ns, n) ==
    CASE ns[n].kind = "anchor" -> Unwrap(ns, n + 1)
      [] ns[n].kind = "alias" -> Unwrap(ns, ns[n].target)
      [] OTHER -> n

MergeItems(ns, value) ==
    LET of == Unwrap(ns, value)
    IN  IF ns[of].kind = "sequence" THEN ChildrenOf(ns, of) ELSE <<value>>
Sources(ns, value) ==
    LET items == MergeItems(ns, value) IN [i \in DOMAIN items |-> Unwrap(ns, items[i])]
Folds(ns, value) == \A i \in Range(Sources(ns, value)) : ns[i].kind = "mapping"

----------------------------------------------------------------------------
(* What a document denotes.  An alias stands for what its anchor names, so *)
(* a node that holds itself denotes nothing; a merge brings in the entries *)
(* of mappings, each only where no entry before it has its key.  Entries   *)
(* keep their order.  A collection is known by its node and, where every   *)
(* alias stands for a value of its own, the aliases it was reached by.     *)
Scalar(n) == [t |-> "scalar", v |-> n]
SequenceOf(id, es) == [t |-> "sequence", id |-> id, es |-> es]
MappingOf(id, es) == [t |-> "mapping", id |-> id, es |-> es]

FirstWins(entries) ==
    FoldLeft(LAMBDA kept, e : IF \E i \in DOMAIN kept : kept[i].k = e.k THEN kept ELSE Append(kept, e),
             <<>>, entries)

Sound(ns, of) ==
    \A i \in of : /\ ~ ns[i].inside
                  /\ IsMerge(ns, i) => Folds(ns, i)

RECURSIVE Denotes(_, _, _, _), Brought(_, _, _, _)
Denotes(ns, n, via, share) ==
    LET kids == ChildrenOf(ns, n)
        id == <<n>> \o (IF share THEN <<>> ELSE via)
        own == SelectSeq(kids, LAMBDA i : ~ IsMerge(ns, i))
        merges == SelectSeq(kids, LAMBDA i : IsMerge(ns, i))
    IN  CASE ns[n].kind = "scalar" -> Scalar(n)
          [] ns[n].kind = "anchor" -> Denotes(ns, n + 1, via, share)
          [] ns[n].kind = "alias" -> Denotes(ns, ns[n].target, <<n>> \o via, share)
          [] ns[n].kind = "sequence" ->
                SequenceOf(id, [i \in DOMAIN kids |-> Denotes(ns, kids[i], via, share)])
          [] OTHER ->
                MappingOf(id, FirstWins([i \in DOMAIN own |-> [k |-> ns[own[i]].key,
                                                         v |-> Denotes(ns, own[i], via, share)]]
                                   \o FlattenSeq([i \in DOMAIN merges |-> Brought(ns, merges[i], via, share)])))
Brought(ns, n, via, share) ==
    LET kids == ChildrenOf(ns, n)
    IN  CASE ns[n].kind = "anchor" -> Brought(ns, n + 1, via, share)
          [] ns[n].kind = "alias" -> Brought(ns, ns[n].target, <<n>> \o via, share)
          [] ns[n].kind = "sequence" ->
                FlattenSeq([i \in DOMAIN kids |-> Brought(ns, kids[i], via, share)])
          [] OTHER -> Denotes(ns, n, via, share).es

(* A Go map has its entries in no order; and a value is the same whichever *)
(* collections it is made of.                                              *)
RECURSIVE Unordered(_), Strip(_), StripOrdered(_), Size(_)
AsMap(es) == [k \in {es[i].k : i \in DOMAIN es} |-> (es[CHOOSE i \in DOMAIN es : es[i].k = k]).v]
Unordered(v) ==
    CASE v.t = "sequence" -> SequenceOf(v.id, [i \in DOMAIN v.es |-> Unordered(v.es[i])])
      [] v.t = "mapping" -> LET m == AsMap(v.es) IN MappingOf(v.id, [k \in DOMAIN m |-> Unordered(m[k])])
      [] OTHER -> v
Strip(v) ==
    IF v.t \in {"sequence", "mapping"}
    THEN [t |-> v.t, es |-> [i \in DOMAIN v.es |-> Strip(v.es[i])]] ELSE v
StripOrdered(v) ==
    CASE v.t = "sequence" -> [t |-> v.t, es |-> [i \in DOMAIN v.es |-> StripOrdered(v.es[i])]]
      [] v.t = "mapping" -> [t |-> v.t, es |-> [i \in DOMAIN v.es |-> [k |-> v.es[i].k, v |-> StripOrdered(v.es[i].v)]]]
      [] OTHER -> v

(* How many values there are in a value, itself and what it holds.         *)
Size(v) ==
    CASE v.t = "sequence" -> 1 + FoldLeft(LAMBDA n, e : n + Size(e), 0, v.es)
      [] v.t = "mapping" -> 1 + FoldLeft(LAMBDA n, e : n + Size(e.v), 0, v.es)
      [] OTHER -> 1
=============================================================================
