------------------------------ MODULE Encoder -------------------------------
(***************************************************************************)
(* codec: how an Encoder writes values that share what they point to.      *)
(*                                                                         *)
(* A value is a scalar, nil, or a reference to an object: a Go map, a      *)
(* slice, or a struct behind a pointer, which has an address.  An object   *)
(* has two slots; a struct's fields carry a tag each.  Keys and field      *)
(* names are the number of their slot, in the order the encoder sorts or   *)
(* reads them.  An object holds only objects made before it: a value that  *)
(* holds itself is written for ever, and is left out, as are marshalers,   *)
(* comments, styles, the callback of MarshalAnchor, and a field that is    *)
(* inlined and anchored at once.  Structs are written under WriteJSONTags: *)
(* an own field hides an inlined struct's of its name.  The default mode   *)
(* refuses such a type (duplicated key) before it writes any of it.        *)
(*                                                                         *)
(* The document is the sequence of what it opens, in its order, each at a  *)
(* path: a scalar, a collection, an anchor before what it names, an alias. *)
(***************************************************************************)
EXTENDS Integers, Sequences, FiniteSets, SequencesExt

CONSTANTS
    Smart,       \* the encoders explored: WithSmartAnchor or not
    Shapes,      \* the objects each is given: [kind, tags]
    MaxObjects,  \* bound: objects made for each
    MaxDocs      \* bound: documents each Encoder writes

VARIABLES
    smart,  \* enableSmartAnchor
    heap,   \* the objects
    enc,    \* what the Encoder keeps between documents
    doc     \* the document last written

vars == <<smart, heap, enc, doc>>

Nil == -1
Scalar == 0  \* a scalar of its own in every slot
None == <<0, 0>>     \* no name; a name is a key or field and the number added to it
Named == <<3, 0>>   \* the name the tags anchor and alias give
Slot == 1 .. 2
Objects == DOMAIN heap

(* What a slot holds; a scalar is told by where it stands. *)
Held(o, i) == IF heap[o].slots[i] = Scalar THEN -(2 * o + i) ELSE heap[o].slots[i]

NoRefs(n) == [o \in 1 .. n |-> None]

-----------------------------------------------------------------------------
(* What has been written of a document, and what the Encoder notes.        *)

Event(kind, at, of, name, own) ==
    [kind |-> kind, at |-> at, of |-> of, name |-> name, own |-> own]
Put(s, e) == [s EXCEPT !.out = Append(@, e)]

(* An anchor before what was written since the document was n long. *)
Anchored(s, n, at, name) ==
    [s EXCEPT !.out = SubSeq(@, 1, n) \o <<Event("anchor", at, 0, name, {})>> \o SubSeq(@, n + 1, Len(@))]

(* Broken: the name of the key, whatever names there are. *)
KeyName(names, base) == <<base, 0>>

(* generateAnchorName: the empty name after a hundred. *)
GenerateAnchorName(names, base) ==
    LET free == {n \in 0 .. 99 : <<base, n>> \notin names}
    IN  IF free = {} THEN None ELSE <<base, CHOOSE n \in free : \A k \in free : n <= k>>

(* setAnchor *)
SetAnchor(s, o, name) ==
    IF o <= 0 \/ name = None THEN s
    ELSE [s EXCEPT !.anchorRef[o] = name, !.names = @ \cup {name}]

(* setSmartAnchor *)
SetSmartAnchor(s, o, key) ==
    IF ~smart THEN s ELSE SetAnchor(s, o, GenerateAnchorName(s.names, key))

(* getSmartAlias *)
SmartAlias(s, o) == IF ~smart \/ o <= 0 THEN None ELSE s.aliasRef[o]

(* Broken: only what a struct pointer refers to is looked up. *)
AliasOfStruct(s, o) == IF heap[o].kind = "struct" THEN s.anchorRef[o] ELSE None

(* getAnchor *)
AliasOf(s, o) == s.anchorRef[o]

(* encodePtrAnchor, where the object has a name. *)
PutAlias(s, o, at) ==
    LET name == AliasOf(s, o)
    IN  Put([s EXCEPT !.aliasRef[o] = IF smart THEN name ELSE @], Event("alias", at, o, name, {}))

-----------------------------------------------------------------------------
(* Structs.                                                                *)

Last1(s) == s.out[Len(s.out)]

(* The names a struct's own fields write. *)
OwnNames(o) == {i \in Slot : heap[o].tags[i] # "inline"}

(* An alias in an inlined field is a merge; one in a field that says which *)
(* alias it is must be that one.                                           *)
FieldAlias(s, o, i, at) ==
    CASE heap[o].tags[i] = "aliasNamed" /\ Last1(s).name # Named -> [s EXCEPT !.err = TRUE]
      [] heap[o].tags[i] = "inline" ->
            [s EXCEPT !.out[Len(s.out)] = [@ EXCEPT !.kind = "merge", !.at = at, !.own = OwnNames(o)]]
      [] OTHER -> s

(* encodeAnchor: only what a pointer refers to can be found again. *)
FieldAnchor(s, n, name, v, at) ==
    LET t == Anchored(s, n, at, name)
    IN  IF v > 0 /\ heap[v].kind = "struct" THEN SetAnchor(t, v, name) ELSE t

(* An inlined field's entries are the struct's own, a merge among them, but *)
(* for the names its fields write, whether the field is a map or, under    *)
(* WriteJSONTags, a struct; a nil one has none.  lost is a history of the  *)
(* anchors that went with what was left out.                               *)
FieldInline(s, n, o, i, at) ==
    LET deep == Len(at) + 2
        merge(e) == e.kind = "merge" /\ e.at = Append(at, i)
        kept(e) == merge(e) \/ (Len(e.at) >= deep /\ e.at[deep] \notin OwnNames(o))
        new == SubSeq(s.out, n + 1, Len(s.out))
        raised(e) == [e EXCEPT !.at = at \o SubSeq(@, deep, Len(@)),
                               !.own = IF merge(e) THEN @ \cup OwnNames(o) ELSE @]
        moved == SelectSeq(new, kept)
    IN  [s EXCEPT !.out = SubSeq(@, 1, n) \o [k \in DOMAIN moved |-> raised(moved[k])],
                  !.lost = @ \/ \E e \in ToSet(new) : e.kind = "anchor" /\ ~kept(e)]

(* One field of encodeStruct, its value encoded, the document n long       *)
(* before it.                                                              *)
Field(s, n, o, i, at) ==
    LET v == heap[o].slots[i]
        tag == heap[o].tags[i]
    IN  IF s.err THEN s
        ELSE IF Last1(s).kind = "alias" /\ Last1(s).at = Append(at, i) THEN FieldAlias(s, o, i, at)
        ELSE CASE tag = "named" -> FieldAnchor(s, n, Named, v, Append(at, i))
               [] tag = "auto" -> FieldAnchor(s, n, <<i, 0>>, v, Append(at, i))
               [] tag = "inline" -> FieldInline(s, n, o, i, at)
               [] OTHER -> s

-----------------------------------------------------------------------------
(* Values.                                                                 *)

(* One entry of encodeMap, its value encoded: the second encoding names    *)
(* what the first found an alias of.                                       *)
Entry(s, n, v, i, at) ==
    LET name == SmartAlias(s, v)
    IN  IF s.err THEN s
        ELSE SetSmartAnchor(IF name = None THEN s ELSE Anchored(s, n, at, name), v, i)

RECURSIVE EncodeValue(_, _, _)

(* encodeMap, encodeSlice and encodeStruct. *)
EncodeObject(s, o, at) ==
    LET slot(t, i) ==
            IF t.err THEN t
            ELSE LET v == Held(o, i)
                     path == Append(at, i)
                 IN  CASE heap[o].kind = "map" -> Entry(EncodeValue(t, v, path), Len(t.out), v, i, path)
                       [] heap[o].kind = "slice" -> EncodeValue(t, v, path)
                       [] heap[o].kind = "struct" -> Field(EncodeValue(t, v, path), Len(t.out), o, i, at)
    IN  FoldLeft(slot, Put(s, Event("open", at, o, None, {})), <<1, 2>>)

(* encodeValue *)
EncodeValue(s, v, at) ==
    IF v = Nil THEN Put(s, Event("null", at, 0, None, {}))
    ELSE IF v < Nil THEN Put(s, Event("scalar", at, v, None, {}))
    ELSE IF AliasOf(s, v) # None THEN PutAlias(s, v, at)
    ELSE EncodeObject(s, v, at)

-----------------------------------------------------------------------------
(* A document.                                                             *)

Begin(e) == [anchorRef |-> e.anchorRef, names |-> e.names, aliasRef |-> e.aliasRef,
             out |-> <<>>, lost |-> FALSE, err |-> FALSE]

(* clearSmartAnchorRef *)
ClearSmartAnchorRef(s) == [Begin(s) EXCEPT !.anchorRef = NoRefs(Len(heap)), !.names = {}]

(* EncodeToNodeContext: a first encoding finds what is aliased. *)
EncodeDoc(e, root) ==
    LET second(s) == IF s.err THEN s ELSE EncodeValue(ClearSmartAnchorRef(s), root, <<>>)
        first == EncodeValue(Begin(e), root, <<>>)
    IN  IF smart THEN second(first) ELSE first

-----------------------------------------------------------------------------
NoDoc == [out |-> <<>>, lost |-> FALSE, err |-> FALSE, root |-> 0, n |-> 0, stale |-> {}]

Init ==
    /\ smart \in Smart
    /\ heap = <<>>
    /\ enc = [anchorRef |-> <<>>, names |-> {}, aliasRef |-> <<>>]
    /\ doc = NoDoc

(* The program makes a value. *)
Make(shape, slots) ==
    /\ doc.n = 0 /\ Len(heap) < MaxObjects[smart]
    /\ heap' = Append(heap, [kind |-> shape.kind, tags |-> shape.tags, slots |-> slots])
    /\ enc' = [enc EXCEPT !.anchorRef = NoRefs(Len(heap) + 1), !.aliasRef = NoRefs(Len(heap) + 1)]
    /\ UNCHANGED <<smart, doc>>

(* EncodeContext: what it noted stays, though the document is refused. *)
Encode(root) ==
    /\ Len(heap) = MaxObjects[smart] /\ doc.n < MaxDocs[smart]
    /\ \E s \in {EncodeDoc(enc, root)} :
        /\ enc' = [anchorRef |-> s.anchorRef, names |-> s.names, aliasRef |-> s.aliasRef]
        /\ doc' = [out |-> s.out, lost |-> s.lost, err |-> s.err, root |-> root, n |-> doc.n + 1,
                   stale |-> {o \in Objects : enc.anchorRef[o] # None}]
    /\ UNCHANGED <<smart, heap>>

Next ==
    \/ \E shape \in Shapes[smart] :
        \E slots \in [Slot -> Nil .. Len(heap)] :
            /\ \A i \in Slot : /\ slots[i] = Nil => shape.tags[i] = "inline"
                               /\ shape.tags[i] = "inline" =>
                                    slots[i] = Nil \/ (slots[i] > 0 /\ heap[slots[i]].kind = "struct")
            /\ Make(shape, slots)
    \/ \E root \in Objects : Encode(root)

Spec == Init /\ [][Next]_vars

-----------------------------------------------------------------------------
(* Reading the document. *)

Under(path, at) == IsPrefix(at, path)
Rest(path, at) == SubSeq(path, Len(at) + 1, Len(path))
Holds(r, at) == {[at |-> Rest(x.at, at), of |-> x.of] : x \in {y \in r.holds : Under(y.at, at)}}

(* What is read so far: where each scalar stands, what each name stands    *)
(* for, and whether an alias had nothing to stand for or an anchor.        *)
ReadEvent(r, e) ==
    LET there == Holds(r, r.names[e.name])
        aliased == {[at |-> e.at \o x.at, of |-> x.of] : x \in
                        {x \in there : e.kind = "merge" => (x.at # <<>> /\ x.at[1] \notin e.own)}}
    IN  CASE e.kind \in {"scalar", "null", "open"} ->
                [r EXCEPT !.holds = @ \cup {[at |-> e.at, of |-> IF e.kind = "open" THEN 0 ELSE e.of]}]
          [] e.kind = "anchor" -> [r EXCEPT !.names = (e.name :> e.at) @@ @]
          [] e.kind \in {"alias", "merge"} ->
                IF e.name \notin DOMAIN r.names THEN [r EXCEPT !.broken = TRUE]
                ELSE [r EXCEPT !.holds = @ \cup aliased,
                               !.broken = @ \/ (e.kind = "alias" /\ \E n \in DOMAIN r.names : r.names[n] = e.at)]

ReadBack == FoldLeft(ReadEvent, [holds |-> {}, names |-> <<>>, broken |-> FALSE], doc.out)

(* The value: where each scalar stands in it. *)
Meaning[o \in 0 .. Len(heap)] ==
    IF o = 0 THEN {} ELSE
    LET below(i) == LET v == Held(o, i) IN
            IF v <= Nil THEN {[at |-> <<>>, of |-> IF v = Nil THEN 0 ELSE v]} ELSE Meaning[v]
        own == IF heap[o].kind = "struct" THEN OwnNames(o) ELSE Slot
    IN  {[at |-> <<>>, of |-> 0]}
        \cup UNION {{[at |-> <<i>> \o x.at, of |-> x.of] : x \in below(i)} : i \in own}
        \cup UNION {{x \in below(i) : x.at # <<>> /\ x.at[1] \notin own} : i \in Slot \ own}

Written == doc.n > 0 /\ ~doc.err
Reach(root) == LET RECURSIVE reach(_)
                   reach(os) == LET more == os \cup ({heap[o].slots[i] : o \in os, i \in Slot} \cap Objects)
                                IN  IF more = os THEN os ELSE reach(more)
               IN  reach({root})

(* Where an object stands, the entries of maps among that, and the anchors. *)
IsEntry(e) ==
    e.at # <<>> /\ \E d \in ToSet(doc.out) : d.kind = "open" /\ d.at = Front(e.at) /\ heap[d.of].kind = "map"
Standing(o) == {k \in DOMAIN doc.out : doc.out[k].kind \in {"open", "alias"} /\ doc.out[k].of = o}
Entries(o) == {k \in Standing(o) : IsEntry(doc.out[k])}
Anchors == {k \in DOMAIN doc.out : doc.out[k].kind = "anchor"}

(* What the README leaves out: a document that is not the first a smart    *)
(* Encoder writes, and an object that is the value of two entries; without *)
(* smart anchors tags that name two objects alike, an anchor in a field    *)
(* left out, and an object that has a name since an earlier document.      *)
Apart ==
    IF smart THEN doc.n = 1 /\ \A o \in Objects : Cardinality(Entries(o)) <= 1
    ELSE /\ ~doc.lost
         /\ \A k, j \in Anchors : doc.out[k].name = doc.out[j].name => k = j
         /\ doc.stale \cap Reach(doc.root) = {}

(* What is read from the document is the value that was written, whatever  *)
(* of it is shared, and in smart documents and tagged ones alike           *)
(* (EncodeToNodeContext, encodePtrAnchor, encodeMap, encodeStruct,         *)
(* generateAnchorName).                                                    *)
ReadsBack ==
    Written /\ Apart => ReadBack.holds = Meaning[doc.root] /\ ~ReadBack.broken

(* With smart anchors an object first met as the value of a map is written *)
(* once, so that what is shared does not multiply, and an anchor stands    *)
(* only where an alias of it follows (setSmartAnchor, encodePtrAnchor,     *)
(* getSmartAlias).                                                         *)
SharedOnce ==
    Written /\ Apart /\ smart =>
        /\ \A o \in Objects :
            (\E k \in Entries(o) : \A j \in Standing(o) : k <= j)
                => Cardinality({k \in Standing(o) : doc.out[k].kind = "open"}) = 1
        /\ \A k \in Anchors : \E j \in k + 1 .. Len(doc.out) :
            doc.out[j].kind = "alias" /\ doc.out[j].name = doc.out[k].name

(* The documentation of WithSmartAnchor: where two values of maps share a  *)
(* pointer the first gets an anchor and the others are aliases of it       *)
(* (option.go, encode-options.md).                                         *)
FirstAnchored ==
    Written /\ smart /\ doc.n = 1 =>
        \A o \in Objects : Cardinality(Entries(o)) > 1 =>
            \E a \in Anchors : \A k \in Entries(o) :
                LET e == doc.out[k]
                IN  IF \A j \in Entries(o) : k <= j THEN e.kind = "open" /\ doc.out[a].at = e.at
                    ELSE /\ e.kind = "alias" /\ e.name = doc.out[a].name
                         /\ \A b \in Anchors : doc.out[b].at # e.at
=============================================================================
