----------------------------- MODULE TreeReader -----------------------------
(***************************************************************************)
(* codec/decode.go: the Go value a decoder reads off the tree, the second  *)
(* reading of a document besides ValueBuilder's.  Entries are kept in the  *)
(* order they are set, which is the order of a MapSlice; a Go map has the  *)
(* same entries in none.                                                   *)
(*                                                                         *)
(* A reading threads what the decoder remembers: known, the value each     *)
(* anchor was read as, and reads, how often each collection was.  Its      *)
(* identity is the node and, past the first time, the count.               *)
(***************************************************************************)
EXTENDS Document, FiniteSets, TLC

CONSTANT MaxDepth   \* how deep a value may stand: 10,000 in the code

NewReading(ns, share) ==
    [share |-> share, known |-> <<>>, reads |-> [i \in DOMAIN ns |-> 0]]

Refused == [t |-> "refused"]
Refuse(st) == [v |-> Refused, st |-> st]
Refuses(r) == r.v.t = "refused"

Fresh(st, n) == IF st.reads[n] = 0 THEN <<n>> ELSE <<n, st.reads[n]>>
Counted(st, n) == [st EXCEPT !.reads[n] = @ + 1]
Know(st, name, v) == [st EXCEPT !.known = (name :> v) @@ @]

(* An entry set among those a mapping holds already: MapSlice.Set writes   *)
(* over the one with its key where that stands.                            *)
HeldAt(es, key) == {i \in DOMAIN es : es[i].k = key}
SetEntry(es, key, v) ==
    IF HeldAt(es, key) = {} THEN Append(es, [k |-> key, v |-> v])
    ELSE [es EXCEPT ![CHOOSE i \in HeldAt(es, key) : TRUE].v = v]

\* Broken: reads a mapping's entries as they are written.
AsWritten(ns, entries) == entries
(* eachEntryOwnFirst. *)
OwnFirst(ns, entries) ==
    SelectSeq(entries, LAMBDA i : ~ IsMerge(ns, i)) \o SelectSeq(entries, LAMBDA i : IsMerge(ns, i))

(* getMapNode and eachMergedEntry: the entries a "<<" brings in.  One      *)
(* mapping gives its own first; those of a sequence are strung together as *)
(* each is written.                                                        *)
MergedEntries(ns, value) ==
    LET sources == Sources(ns, value)
    IN  IF ns[Unwrap(ns, value)].kind = "sequence"
        THEN FlattenSeq([i \in DOMAIN sources |-> ChildrenOf(ns, sources[i])])
        ELSE OwnFirst(ns, ChildrenOf(ns, sources[1]))

(* The value an alias is handed under ShareAliases. *)
Shared(ns, n, st) == st.share /\ ns[n].name \in DOMAIN st.known

RECURSIVE Read(_, _, _, _, _), SetInto(_, _, _, _, _, _)

ReadSequence(ns, n, ctx, st, depth) ==
    LET all == FoldLeft(LAMBDA acc, i :
                    IF acc.refused THEN acc
                    ELSE LET r == Read(ns, i, ctx, acc.st, depth + 1)
                         IN  [es |-> Append(acc.es, r.v), st |-> r.st, refused |-> Refuses(r)],
                    [es |-> <<>>, st |-> Counted(st, n), refused |-> FALSE], ChildrenOf(ns, n))
    IN  IF all.refused THEN Refuse(all.st) ELSE [v |-> SequenceOf(Fresh(st, n), all.es), st |-> all.st]

(* keyedMap and MapSlice, filled by setToMapValue and setToOrderedMapValue. *)
ReadMapping(ns, n, ctx, st, depth) ==
    LET all == FoldLeft(LAMBDA acc, i : SetInto(ns, i, FALSE, ctx, acc, depth + 1),
                        [es |-> <<>>, st |-> Counted(st, n), refused |-> FALSE],
                        OwnFirst(ns, ChildrenOf(ns, n)))
    IN  IF all.refused THEN Refuse(all.st) ELSE [v |-> MappingOf(Fresh(st, n), all.es), st |-> all.st]

ReadAnchor(ns, n, ctx, st, depth) ==
    LET r == Read(ns, n + 1, ctx \cup {ns[n].name}, st, depth + 1)
    IN  IF Refuses(r) THEN r ELSE [r EXCEPT !.st = Know(@, ns[n].name, r.v)]

ReadAlias(ns, n, ctx, st, depth) ==
    CASE ns[n].name \in ctx -> Refuse(st)
      [] ns[n].name \notin ctx /\ Shared(ns, n, st) -> [v |-> st.known[ns[n].name], st |-> st]
      [] OTHER -> Read(ns, ns[n].target, ctx, st, depth + 1)

(* nodeToValue. *)
Read(ns, n, ctx, st, depth) ==
    CASE depth > MaxDepth -> Refuse(st)
      [] depth <= MaxDepth /\ ns[n].kind = "scalar" -> [v |-> Scalar(n), st |-> st]
      [] depth <= MaxDepth /\ ns[n].kind = "sequence" -> ReadSequence(ns, n, ctx, st, depth)
      [] depth <= MaxDepth /\ ns[n].kind = "mapping" -> ReadMapping(ns, n, ctx, st, depth)
      [] depth <= MaxDepth /\ ns[n].kind = "anchor" -> ReadAnchor(ns, n, ctx, st, depth)
      [] depth <= MaxDepth /\ ns[n].kind = "alias" -> ReadAlias(ns, n, ctx, st, depth)

(* setToMapValue and setToOrderedMapValue, for one entry. *)
SetInto(ns, e, merged, ctx, acc, depth) ==
    LET refused == [acc EXCEPT !.refused = TRUE]
        own == IF merged /\ HeldAt(acc.es, ns[e].key) # {} THEN acc
               ELSE LET r == Read(ns, e, ctx, acc.st, depth + 1)
                    IN  IF Refuses(r) THEN refused
                        ELSE [acc EXCEPT !.es = SetEntry(@, ns[e].key, r.v), !.st = r.st]
        brought == IF Folds(ns, e)
                   THEN FoldLeft(LAMBDA a, i : SetInto(ns, i, TRUE, ctx, a, depth + 1),
                                 acc, MergedEntries(ns, e))
                   ELSE refused
    IN  CASE acc.refused -> acc
          [] ~ acc.refused /\ depth > MaxDepth -> refused
          [] ~ acc.refused /\ depth <= MaxDepth -> IF IsMerge(ns, e) THEN brought ELSE own

ReadTree(ns, root, share) == Read(ns, root, {}, NewReading(ns, share), 1).v
=============================================================================
