---------------------------- MODULE JSONTokener ----------------------------
(***************************************************************************)
(* codec/jsontokener.go: the JSON tokens a document is handed over as,     *)
(* while it is walked, which ToJSON writes out.                            *)
(*                                                                         *)
(* A tokener is a record; each operator is what one handover does to it.   *)
(* A mapping's own entries go over as they are read; what a "<<" brings in *)
(* is collected in a run of its own and goes over as the mapping closes.   *)
(***************************************************************************)
EXTENDS Document, FiniteSets, TLC

Tok(kind) == [k |-> kind, v |-> ""]
KeyTok(key) == [k |-> "key", v |-> key]
ScalarTok(n) == [k |-> "scalar", v |-> ToString(n)]
Failure(why) == [k |-> "fail", v |-> why]

NewTokener ==
    [out |-> <<>>, err |-> "", frames |-> <<>>, maps |-> <<>>,
     buffering |-> FALSE, buffer |-> <<>>, bufDepth |-> 0, bufOwner |-> 0]

MapFrame == [brought |-> {}, merged |-> <<>>, mergeValue |-> FALSE, mergeSeq |-> -1, pending |-> "none"]
TopMap(t) == IF t.maps = <<>> THEN MapFrame ELSE Last(t.maps)
SetMap(t, frame) == [t EXCEPT !.maps = Append(Front(@), frame)]
PushMap(t) == [t EXCEPT !.maps = Append(@, MapFrame)]
Stop(t, why) == [t EXCEPT !.err = IF @ = "" THEN why ELSE @]

----------------------------------------------------------------------------
(* wellFormed, step and fillSlot: a mapping alternates key and value.      *)
Opens == {"{", "["}
Closes == {"}", "]"}
WellFormed(t, tok) ==
    \/ t.frames = <<>> \/ Last(t.frames).array \/ tok.k \in Closes
    \/ Last(t.frames).wantsKey = (tok.k = "key")

Filled(frames, wantsKey) ==
    IF frames = <<>> \/ Last(frames).array THEN frames
    ELSE Append(Front(frames), [Last(frames) EXCEPT !.wantsKey = wantsKey])
Step(frames, tok) ==
    CASE tok.k \in Closes -> IF frames = <<>> THEN frames ELSE Front(frames)
      [] tok.k = "key" -> Filled(frames, FALSE)
      [] tok.k \in Opens -> Append(Filled(frames, TRUE), [array |-> tok.k = "[", wantsKey |-> tok.k = "{"])
      [] OTHER -> Filled(frames, TRUE)

Emit(t, tok) ==
    CASE t.err # "" -> t
      [] t.err = "" /\ tok.k = "fail" -> Stop(t, tok.v)
      [] t.err = "" /\ tok.k # "fail" /\ t.buffering -> [t EXCEPT !.buffer = Append(@, tok)]
      [] t.err = "" /\ tok.k # "fail" /\ ~ t.buffering ->
            IF WellFormed(t, tok)
            THEN [t EXCEPT !.out = Append(@, tok), !.frames = Step(@, tok)]
            ELSE Stop(t, "two values")
EmitAll(t, toks) == FoldLeft(Emit, t, toks)

(* settleEntry: the key goes over as its value begins. *)
SettleEntry(t) ==
    IF TopMap(t).pending = "none" THEN t
    ELSE SetMap(Emit(t, KeyTok(TopMap(t).pending)), [TopMap(t) EXCEPT !.pending = "none"])

----------------------------------------------------------------------------
(* emitTree and emitTreeMapping: what an alias names, from the tree.       *)
(* Failure stands for the refusal the code makes there.                    *)
RECURSIVE Tree(_, _, _)
TreeMapping(ns, n, expanding) ==
    LET kids == ChildrenOf(ns, n)
        own == SelectSeq(kids, LAMBDA i : ~ IsMerge(ns, i))
        merges == SelectSeq(kids, LAMBDA i : IsMerge(ns, i))
        sources == FlattenSeq([i \in DOMAIN merges |-> Sources(ns, merges[i])])
        entries == own \o FlattenSeq([i \in DOMAIN sources |-> ChildrenOf(ns, sources[i])])
        \* the first entry of each name
        first == SelectSeq([i \in DOMAIN entries |-> i],
                           LAMBDA i : \A j \in 1..(i - 1) : ns[entries[j]].key # ns[entries[i]].key)
    IN  IF \A i \in DOMAIN merges : Folds(ns, merges[i])
        THEN <<Tok("{")>>
             \o FlattenSeq([i \in DOMAIN first |-> <<KeyTok(ns[entries[first[i]]].key)>>
                                                  \o Tree(ns, entries[first[i]], expanding)])
             \o <<Tok("}")>>
        ELSE <<Failure("merge")>>

TreeAlias(ns, n, expanding) ==
    IF ns[n].name \in expanding THEN <<Failure("cycle")>>
    ELSE Tree(ns, ns[n].target, expanding \cup {ns[n].name})

Tree(ns, n, expanding) ==
    LET kids == ChildrenOf(ns, n)
    IN  CASE ns[n].kind = "scalar" -> <<ScalarTok(n)>>
          [] ns[n].kind = "anchor" -> Tree(ns, n + 1, expanding)
          [] ns[n].kind = "alias" -> TreeAlias(ns, n, expanding)
          [] ns[n].kind = "sequence" ->
                <<Tok("[")>> \o FlattenSeq([i \in DOMAIN kids |-> Tree(ns, kids[i], expanding)]) \o <<Tok("]")>>
          [] ns[n].kind = "mapping" -> TreeMapping(ns, n, expanding)

----------------------------------------------------------------------------
(* mergedMembers and valueEnd: the members of a run that holds an object,  *)
(* each its key and where it starts and ends.                              *)
Level(run, i) ==
    Cardinality({j \in 1..i : run[j].k \in Opens}) - Cardinality({j \in 1..(i - 1) : run[j].k \in Closes})
MergedMembers(run) ==
    LET keys == SelectSeq([i \in DOMAIN run |-> i], LAMBDA i : run[i].k = "key" /\ Level(run, i) = 1)
        to(i) == IF i < Len(keys) THEN keys[i + 1] - 1 ELSE Len(run) - 1
    IN  IF Len(run) < 2 \/ run[1].k # "{" THEN <<>>
        ELSE [i \in DOMAIN keys |-> [key |-> run[keys[i]].v, toks |-> SubSeq(run, keys[i], to(i))]]

(* closeMapping: own keys are those the parser's ledger holds.  frame is   *)
(* what the mapping collected; a run goes over while the ones before it    *)
(* have not brought its key in.                                            *)
\* Broken: asks only about the mapping's own keys.
BringsTwice(frame, own, members) ==
    FoldLeft(LAMBDA acc, m : IF m.key \in own THEN acc
                             ELSE [brought |-> acc.brought \cup {m.key}, toks |-> acc.toks \o m.toks],
             [brought |-> frame.brought, toks |-> <<>>], members)
Brings(frame, own, members) ==
    FoldLeft(LAMBDA acc, m : IF m.key \in own \/ m.key \in acc.brought THEN acc
                             ELSE [brought |-> acc.brought \cup {m.key}, toks |-> acc.toks \o m.toks],
             [brought |-> frame.brought, toks |-> <<>>], members)

KeepRun(t, owner, run) == [t EXCEPT !.maps[owner].merged = Append(@, run)]
EndRun(t, depth) ==
    LET ended == [t EXCEPT !.buffering = FALSE, !.buffer = <<>>]
    IN  IF ~ t.buffering \/ depth # t.bufDepth THEN t
        ELSE IF t.bufOwner \in DOMAIN t.maps /\ t.err = "" THEN KeepRun(ended, t.bufOwner, t.buffer)
        ELSE ended
LeaveMap(t, own, depth) ==
    LET frame == TopMap(t)
        members == FlattenSeq([i \in DOMAIN frame.merged |-> MergedMembers(frame.merged[i])])
        popped == [t EXCEPT !.maps = Front(@)]
    IN  EndRun(Emit(EmitAll(popped, Brings(frame, own, members).toks), Tok("}")), depth)

----------------------------------------------------------------------------
(* collectMerge: what a "<<" names, none of it handed over yet.  A run an  *)
(* alias fills stands aside from the one being collected, which collectRun *)
(* takes up again.                                                         *)
Awaits(t) == TopMap(t).mergeValue
Answered(t) == IF TopMap(t).mergeSeq >= 0 THEN t ELSE SetMap(t, [TopMap(t) EXCEPT !.mergeValue = FALSE])

CollectAlias(t, ns, n) ==
    LET run == EmitAll([t EXCEPT !.buffering = TRUE, !.buffer = <<>>], TreeAlias(ns, n, {}))
        after == [run EXCEPT !.buffering = t.buffering, !.buffer = t.buffer]
    IN  IF run.err # "" THEN after ELSE KeepRun(Answered(after), Len(t.maps), run.buffer)

CollectMapping(t, depth) ==
    PushMap(Emit([Answered(t) EXCEPT !.buffering = TRUE, !.buffer = <<>>, !.bufDepth = depth,
                                     !.bufOwner = Len(t.maps)], Tok("{")))
CollectSequence(t, depth) ==
    IF TopMap(t).mergeSeq >= 0 THEN Stop(t, "merge")
    ELSE SetMap(t, [TopMap(t) EXCEPT !.mergeSeq = depth])

----------------------------------------------------------------------------
(* Enter and Leave, for each kind of node. *)
NoteMerge(t) == SetMap(t, [TopMap(t) EXCEPT !.mergeValue = TRUE, !.mergeSeq = -1])
NoteKey(t, key) == SetMap(t, [TopMap(t) EXCEPT !.pending = key])

OpenMapping(t, depth) ==
    IF Awaits(t) THEN CollectMapping(t, depth) ELSE PushMap(Emit(SettleEntry(t), Tok("{")))
OpenSequence(t, depth) ==
    IF Awaits(t) THEN CollectSequence(t, depth) ELSE Emit(SettleEntry(t), Tok("["))
OpenAnchor(t) == IF Awaits(t) THEN Stop(t, "merge") ELSE SettleEntry(t)
WriteScalar(t, n) == IF Awaits(t) THEN Stop(t, "merge") ELSE Emit(SettleEntry(t), ScalarTok(n))
(* The parser refuses an alias inside the node it names: WithJSONCompatible. *)
WriteAlias(t, ns, n) ==
    CASE ns[n].inside -> Stop(t, "cycle")
      [] ~ ns[n].inside /\ Awaits(t) -> CollectAlias(t, ns, n)
      [] OTHER -> EmitAll(SettleEntry(t), TreeAlias(ns, n, {}))

LeaveSequence(t, depth) ==
    IF TopMap(t).mergeSeq = depth THEN SetMap(t, [TopMap(t) EXCEPT !.mergeSeq = -1, !.mergeValue = FALSE])
    ELSE Emit(t, Tok("]"))
=============================================================================
