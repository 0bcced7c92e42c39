----------------------------- MODULE KeyWindow ------------------------------
(***************************************************************************)
(* parser/group: the units the grouping works on, and keyWindow, which     *)
(* holds what a ':' arriving next might make a key of.                     *)
(*                                                                         *)
(* A unit is a token or a group of them.  It reports the type, the line    *)
(* and the column of the token it opens with.  toks, keys and bodies are   *)
(* not in the code: the numbers of its tokens, in its order, the keys made *)
(* inside it, each with its ':', and the bodies of the '?'s inside it.     *)
(*                                                                         *)
(* The window's tokens are a sequence and an opener is a place in it, from *)
(* the front of what is held now; base and the copying of the buffer are   *)
(* left out.                                                               *)
(***************************************************************************)
EXTENDS Integers, Sequences, SequencesExt

CONSTANT ImplicitKeyLimit

ASSUME LimitAssumption == ImplicitKeyLimit \in Nat

Opens(u) == u.type \in {"mapStart", "seqStart"}
Closes(u) == u.type \in {"mapEnd", "seqEnd"}
Comment(u) == u.type = "comment"

(* isScalarType, isFlowType, isNotMapKeyType and precedesAbsentKey.        *)
ScalarType(u) ==
    /\ u.group \notin {"mapKey", "mapKeyValue"}
    /\ u.type \in {"anchor", "alias", "literal", "null", "scalar"}
FlowType(u) == Opens(u) \/ Closes(u) \/ u.type \in {"entry", "comma"}
PrecedesAbsentKey(u) ==
    u.type \in {"comma", "mapStart", "seqStart", "entry", "colon", "directive", "header"}
NotMapKeyType(u) == PrecedesAbsentKey(u) \/ Closes(u)

(* group, group1 and group2. *)
Group(group, members) ==
    [members[1] EXCEPT
        !.group = group,
        !.toks = FlattenSeq([i \in DOMAIN members |-> members[i].toks]),
        !.keys = UNION {members[i].keys : i \in DOMAIN members},
        !.bodies = UNION {members[i].bodies : i \in DOMAIN members}]

(* implicitNullKeyToken, where the token it stands before does. *)
ImplicitNull(u) ==
    [u EXCEPT !.type = "null", !.group = "none", !.end = u.line,
              !.toks = <<>>, !.keys = {}, !.bodies = {}]

(* A key of the tokens of members, with its ':'. *)
KeyGroup(members, colon) ==
    LET g == Group("mapKey", Append(members, colon))
        of == FlattenSeq([i \in DOMAIN members |-> members[i].toks])
    IN  [g EXCEPT !.keys = @ \cup {[key |-> of, colon |-> colon.toks[1]]}]

-----------------------------------------------------------------------------
(* Reading the window. *)

NewWindow == [held |-> <<>>, openers |-> <<>>, valueNext |-> FALSE, valueLine |-> 0]

(* lastContentIndex, 0 where there is none. *)
LastContent(held) ==
    IF \A i \in DOMAIN held : Comment(held[i]) THEN 0
    ELSE CHOOSE i \in DOMAIN held :
            ~Comment(held[i]) /\ \A j \in i+1 .. Len(held) : Comment(held[j])

(* How far the brackets from i to the end are out of balance. *)
DepthFrom(held, i) ==
    LET bare(P(_)) == Len(SelectSeq(SubSeq(held, i, Len(held)), LAMBDA u : u.group = "none" /\ P(u)))
    IN  bare(Closes) - bare(Opens)

(* flowCollectionStart: where the collection that ends held begins, 0      *)
(* where the brackets do not balance.  A group is balanced within itself.  *)
CollectionStart(held) ==
    LET starts == {i \in DOMAIN held :
                    held[i].group = "none" /\ Opens(held[i]) /\ DepthFrom(held, i) = 0}
    IN  IF starts = {} THEN 0 ELSE CHOOSE i \in starts : \A j \in starts : j <= i

(* withKeyProperties. *)
WithKeyProperties(held, start) ==
    CHOOSE i \in 1 .. start :
        LET property(j) == /\ held[j].line = held[j+1].line
                           /\ held[j].group = "anchorName" \/ held[j].type = "tag"
        IN  /\ \A j \in i .. start - 1 : property(j)
            /\ i > 1 => ~property(i - 1)

InsideAFlowMapping(w) == w.openers # <<>> /\ ~Last(w.openers).seq

-----------------------------------------------------------------------------
(* Filling it. *)

(* Broken: an entry of a flow mapping is bounded like any other key. *)
SpanALineOfAll(w, u) ==
    LET over(o) == \/ w.held[o.at].line # u.line
                   \/ u.col - w.held[o.at].col > ImplicitKeyLimit
    IN  [w EXCEPT !.openers = [i \in DOMAIN @ |->
            IF @[i].canKey /\ over(@[i]) THEN [@[i] EXCEPT !.canKey = FALSE] ELSE @[i]]]

(* spanALine: a collection still open that spans lines, or runs past the   *)
(* limit, is no implicit key any more, unless it is exempt.                *)
SpanALine(w, u) ==
    LET over(o) == \/ w.held[o.at].line # u.line
                   \/ u.col - w.held[o.at].col > ImplicitKeyLimit
    IN  [w EXCEPT !.openers = [i \in DOMAIN @ |->
            IF @[i].canKey /\ ~@[i].exempt /\ over(@[i]) THEN [@[i] EXCEPT !.canKey = FALSE]
            ELSE @[i]]]

Holding(w, u) == [w EXCEPT !.held = Append(@, u)]

(* open: a collection where a value begins, on the line of its ':', is     *)
(* that value and no key.                                                  *)
Open(w, u) ==
    LET spanned == SpanALine(w, u)
        last == LastContent(w.held)
        opener == [at |-> Len(w.held) + 1,
                   seq |-> u.type = "seqStart",
                   canKey |-> ~(w.valueNext /\ u.line = w.valueLine),
                   exempt |-> \/ InsideAFlowMapping(w)
                              \/ last > 0 /\ w.held[last].type = "question"]
    IN  Holding([spanned EXCEPT !.openers = Append(@, opener), !.valueNext = FALSE], u)

(* close *)
Close(w, u) ==
    LET spanned == SpanALine(w, u)
    IN  Holding([spanned EXCEPT !.openers = IF @ = <<>> THEN @ ELSE Front(@),
                                !.valueNext = FALSE], u)

(* hold: a comment does not part a ':' from its value. *)
Hold(w, u) == Holding([SpanALine(w, u) EXCEPT !.valueNext = @ /\ Comment(u)], u)

(* keyed *)
Keyed(w, colon) == [w EXCEPT !.valueNext = TRUE, !.valueLine = colon.line]

-----------------------------------------------------------------------------
(* Making a key. *)

(* hasNoKey *)
HasNoKey(w, last, colon) ==
    \/ last = 0
    \/ /\ last > 0
       /\ \/ PrecedesAbsentKey(w.held[last])
          \/ /\ ~PrecedesAbsentKey(w.held[last])
             /\ w.openers = <<>>
             /\ IF w.held[last].type = "question" THEN colon.col # w.held[last].col
                ELSE w.held[last].end # colon.line

Refused == [held |-> <<>>, err |-> TRUE]
Made(held) == [held |-> held, err |-> FALSE]

(* The key is the collection that has just closed. *)
CollectionKey(w, last, colon) ==
    LET start == CollectionStart(SubSeq(w.held, 1, last))
        from == WithKeyProperties(w.held, start)
        closing == w.held[last].line
    IN  IF \/ start = 0
           \/ start > 0 /\ ~InsideAFlowMapping(w) /\ w.held[from].line # closing
           \/ w.openers # <<>> /\ Last(w.openers).seq /\ closing # colon.line
        THEN Refused
        ELSE Made(Append(SubSeq(w.held, 1, from - 1),
                         KeyGroup(SubSeq(w.held, from, Len(w.held)), colon)))

(* keyBefore: the key goes back to the window where it stood, so that the  *)
(* comments between it and its ':' stay behind it.                         *)
KeyBefore(w, colon) ==
    LET last == LastContent(w.held)
    IN  IF HasNoKey(w, last, colon)
        THEN Made(Append(w.held, KeyGroup(<<ImplicitNull(colon)>>, colon)))
        ELSE IF Closes(w.held[last]) THEN CollectionKey(w, last, colon)
        ELSE IF NotMapKeyType(w.held[last]) THEN Refused
        ELSE Made([w.held EXCEPT ![last] = KeyGroup(<<@>>, colon)])

-----------------------------------------------------------------------------
(* Letting go of it. *)

(* keepFrom: the first unit the window keeps.  The outermost collection    *)
(* that may yet be a key pins it.                                          *)
KeepFrom(w) ==
    LET pinning == {i \in DOMAIN w.openers : w.openers[i].canKey}
        last == LastContent(w.held)
    IN  IF pinning # {}
        THEN WithKeyProperties(w.held, w.openers[CHOOSE i \in pinning : \A j \in pinning : i <= j].at)
        ELSE IF last = 0 THEN Len(w.held) + 1
        ELSE IF Closes(w.held[last]) /\ CollectionStart(SubSeq(w.held, 1, last)) > 0
        THEN WithKeyProperties(w.held, CollectionStart(SubSeq(w.held, 1, last)))
        ELSE last

(* release and shiftOut: what the window hands on leaves it. *)
Release(w) ==
    LET gone == KeepFrom(w) - 1
    IN  [w |-> [w EXCEPT !.held = SubSeq(@, gone + 1, Len(@)),
                         !.openers = [i \in DOMAIN @ |-> [@[i] EXCEPT !.at = @ - gone]]],
         out |-> SubSeq(w.held, 1, gone), err |-> FALSE]

(* A unit reaches the window. *)
Reached(w, u) ==
    LET made == KeyBefore(w, u)
    IN  IF u.type = "colon" /\ made.err THEN [w |-> w, out |-> <<>>, err |-> TRUE]
        ELSE Release(IF u.type = "colon" THEN Keyed([w EXCEPT !.held = made.held], u)
                     ELSE IF Opens(u) THEN Open(w, u)
                     ELSE IF Closes(u) THEN Close(w, u)
                     ELSE Hold(w, u))
=============================================================================
