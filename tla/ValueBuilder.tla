---------------------------- MODULE ValueBuilder ----------------------------
(***************************************************************************)
(* codec/walkvalue.go: the Go value a walk builds, with no tree behind it. *)
(*                                                                         *)
(* A builder is a record; each operator is what one handover does to it.   *)
(* A Go map is a function from keys to values and has an identity, as a    *)
(* slice does: the node that built it, then the alias of each copy made of *)
(* it.  A map holding a key that is not a string is a map[any]any.         *)
(***************************************************************************)
EXTENDS Integers, Sequences, SequencesExt, FiniteSetsExt, TLC

CONSTANTS
    OtherKey,  \* the keys that do not resolve to a string
    Budget     \* how many values may be copied for aliases

NewBuilder(share) ==
    [stack |-> <<>>, named |-> <<>>, declaredValues |-> <<>>, open |-> <<>>,
     share |-> share, built |-> 0, docs |-> <<>>, err |-> ""]

Frame(kind, id) ==
    [kind |-> kind, id |-> id, m |-> <<>>, seq |-> <<>>, key |-> "none", merging |-> FALSE,
     keyErr |-> "", mergeSource |-> FALSE, name |-> "none", received |-> [t |-> "none"]]

BuildErr(b, err) == [b EXCEPT !.err = IF @ = "" THEN err ELSE @]
Push(b, frame) == [b EXCEPT !.stack = Append(@, frame)]
SetTop(b, frame) == [b EXCEPT !.stack = Append(Front(@), frame)]
Top(b) == IF b.stack = <<>> THEN Frame("none", <<>>) ELSE Last(b.stack)

IsMap(v) == v.t = "mapping"
Widened(v) == IsMap(v) /\ \E k \in DOMAIN v.es : k \in OtherKey

----------------------------------------------------------------------------
(* merge: what a "<<" names, each entry where the mapping holds no such    *)
(* key.  refuseMerge keeps a refusal for the close of the mapping.         *)
RefuseMerge(frame) == [frame EXCEPT !.keyErr = IF @ = "" THEN "merge" ELSE @]
Bring(frame, v) == [frame EXCEPT !.m = @ @@ v.es]

MergeSeq(frame, es) ==
    LET bad == {i \in DOMAIN es : ~ IsMap(es[i])}
        upto == IF bad = {} THEN Len(es) ELSE Min(bad) - 1
        filled == FoldLeft(Bring, frame, SubSeq(es, 1, upto))
    IN  IF bad = {} THEN filled ELSE RefuseMerge(filled)
Merge(frame, v) ==
    CASE v.t = "mapping" -> Bring(frame, v)
      [] v.t = "sequence" -> MergeSeq(frame, v.es)
      [] OTHER -> RefuseMerge(frame)

Put(frame, v) == [frame EXCEPT !.m = (frame.key :> v) @@ @, !.key = "none"]

(* deliver. *)
Deliver(b, v) ==
    LET top == Top(b)
    IN  CASE b.stack = <<>> -> [b EXCEPT !.docs = Append(@, v)]
          [] top.kind = "property" -> SetTop(b, [top EXCEPT !.received = v])
          [] top.kind = "mapping" /\ top.merging -> SetTop(b, [Merge(top, v) EXCEPT !.merging = FALSE])
          [] top.kind = "mapping" -> SetTop(b, Put(top, v))
          [] top.mergeSource /\ ~ IsMap(v) ->
                [b EXCEPT !.stack[Len(b.stack) - 1] = RefuseMerge(@)]
          [] OTHER -> SetTop(b, [top EXCEPT !.seq = Append(@, v)])

----------------------------------------------------------------------------
(* copyValue: a map[any]any is not among what it copies. *)
RECURSIVE Copied(_, _), Copies(_)
Copied(v, alias) ==
    CASE v.t = "mapping" /\ ~ Widened(v) ->
            [v EXCEPT !.id = Append(@, alias), !.es = [k \in DOMAIN @ |-> Copied(@[k], alias)]]
      [] v.t = "sequence" ->
            [v EXCEPT !.id = Append(@, alias), !.es = [i \in DOMAIN @ |-> Copied(@[i], alias)]]
      [] OTHER -> v
Copies(v) ==
    CASE v.t = "mapping" /\ ~ Widened(v) -> 1 + MapThenSumSet(LAMBDA k : Copies(v.es[k]), DOMAIN v.es)
      [] v.t = "sequence" -> 1 + MapThenSumSet(LAMBDA i : Copies(v.es[i]), DOMAIN v.es)
      [] OTHER -> 1

\* Broken: hands the collection over, and copies what it holds.
CopyShallow(b, v, alias) ==
    LET made == [b EXCEPT !.built = @ + Copies(v)]
    IN  IF made.built > Budget THEN BuildErr(made, "aliasing")
        ELSE Deliver(made, IF v.t = "scalar" THEN v ELSE [Copied(v, alias) EXCEPT !.id = v.id])
\* Broken: counts one value for each alias.
CopyCountsOne(b, v, alias) ==
    LET made == [b EXCEPT !.built = @ + 1]
    IN  IF made.built > Budget THEN BuildErr(made, "aliasing") ELSE Deliver(made, Copied(v, alias))
CopyValue(b, v, alias) ==
    LET made == [b EXCEPT !.built = @ + Copies(v)]
    IN  IF made.built > Budget THEN BuildErr(made, "aliasing") ELSE Deliver(made, Copied(v, alias))

HandAlias(b, v, alias) == IF b.share THEN Deliver(b, v) ELSE CopyValue(b, v, alias)

(* aliasValue and declaredValue; declared holds what a decoder reads each  *)
(* declared anchor as.                                                     *)
AliasValue(b, alias, name, declared) ==
    CASE name \in DOMAIN b.named -> HandAlias(b, b.named[name], alias)
      [] name \notin DOMAIN b.named /\ Contains(b.open, name) -> BuildErr(b, "recursive")
      [] OTHER ->
            LET values == b.declaredValues @@ (name :> declared[name])
            IN  HandAlias([b EXCEPT !.declaredValues = values], values[name], alias)

----------------------------------------------------------------------------
(* Enter, for each kind of node.  root is whether it opens a document. *)
\* Broken: keeps the names of the document before.
EnterRootKeeps(b, root) == b
EnterRoot(b, root) == IF root THEN [b EXCEPT !.named = <<>>] ELSE b

EnterMerge(b) == SetTop(b, [Top(b) EXCEPT !.merging = TRUE])
EnterKey(b, key) == SetTop(b, [Top(b) EXCEPT !.key = key])
EnterMapping(b, n) == Push(b, Frame("mapping", <<n>>))
EnterSequence(b, n) ==
    Push(b, [Frame("sequence", <<n>>) EXCEPT !.mergeSource = Top(b).kind = "mapping" /\ Top(b).merging])
EnterAnchor(b, name) ==
    Push([b EXCEPT !.open = Append(@, name)], [Frame("property", <<>>) EXCEPT !.name = name])

(* Leave, and closeProperty. *)
LeaveCollection(b) ==
    LET frame == Top(b)
        rest == [b EXCEPT !.stack = Front(@)]
    IN  CASE frame.kind = "mapping" /\ frame.keyErr # "" -> BuildErr(rest, frame.keyErr)
          [] frame.kind = "mapping" -> Deliver(rest, [t |-> "mapping", id |-> frame.id, es |-> frame.m])
          [] OTHER -> Deliver(rest, [t |-> "sequence", id |-> frame.id, es |-> frame.seq])

LeaveProperty(b) ==
    LET frame == Top(b)
    IN  Deliver([b EXCEPT !.stack = Front(@), !.open = Front(@),
                          !.named = (frame.name :> frame.received) @@ @], frame.received)
=============================================================================
