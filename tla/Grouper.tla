------------------------------ MODULE Grouper -------------------------------
(***************************************************************************)
(* parser/group: the stages a token walks.  A stage hands on what it has   *)
(* settled to the stage after it and keeps what a later token decides.     *)
(*                                                                         *)
(* A stage takes one unit and adds what it hands on to out, in [g, out].   *)
(* No stage reads what another keeps, so that a stage can be run over all  *)
(* the stage before it hands on for a unit, where the code calls the next  *)
(* stage for each.  A refusal is final: the reader returns it and no more  *)
(* than one unit after it.  Messages and cells are left out; WalkTape has  *)
(* the cells.                                                              *)
(***************************************************************************)
EXTENDS KeyWindow

NoKey == [key |-> <<>>, col |-> 0, inFlow |-> FALSE, depth |-> 0, body |-> <<>>,
          comments |-> <<>>, flowDepth |-> 0]
NoDirective == [head |-> <<>>, values |-> <<>>, comments |-> <<>>]

(* Grouper: line is that of the token a comment may close, 0 for none, and *)
(* closing the comments that closed one; prop is the properties read, in   *)
(* order, and what is expected after them.                                 *)
NewGrouper ==
    [line |-> 0, closing |-> {}, block |-> <<>>,
     prop |-> [state |-> "none", read |-> <<>>],
     explicit |-> NoKey, window |-> NewWindow, directive |-> NoDirective, err |-> FALSE]

Handed(g, out) == [g |-> g, out |-> out]
Fail(h) == [h EXCEPT !.g.err = TRUE]

(* pass *)
Pass(h, u) == [h EXCEPT !.out = Append(@, u)]
PassAll(h, units) == [h EXCEPT !.out = @ \o units]

(* A stage over what the stage before it hands on. *)
Through(Stage(_, _), h) == FoldLeft(Stage, Handed(h.g, <<>>), h.out)

-----------------------------------------------------------------------------
(* The last stages: directives and keys. *)

(* emitDirective *)
Emitted(d) ==
    <<IF d.values = <<>> THEN d.head[1] ELSE Group("directive", d.head \o d.values)>> \o d.comments

(* stageDirectives: head is the '%' until its name is read, and the two    *)
(* as one group from there on.                                             *)
ToDirectives(h, u) ==
    LET d == h.g.directive
        read(x) == IF u.type = "directive" THEN [x EXCEPT !.g.directive.head = <<u>>] ELSE Pass(x, u)
    IN  IF d.head = <<>> THEN read(h)
        ELSE IF d.head[1].group # "directiveName"
        THEN [h EXCEPT !.g.directive.head = <<Group("directiveName", <<@[1], u>>)>>]
        ELSE IF u.line = d.head[1].line THEN [h EXCEPT !.g.directive.values = Append(@, u)]
        ELSE IF Comment(u) THEN [h EXCEPT !.g.directive.comments = Append(@, u)]
        ELSE IF u.type \in {"header", "directive"}
        THEN read(PassAll([h EXCEPT !.g.directive = NoDirective], Emitted(d)))
        ELSE Fail(h)

(* stageMapKeysByValue and releaseWindow. *)
LettingGo(h, reached) ==
    IF reached.err THEN Fail(h) ELSE PassAll([h EXCEPT !.g.window = reached.w], reached.out)
ToKeys(h, u) == LettingGo(h, Reached(h.g.window, u))

-----------------------------------------------------------------------------
(* Explicit keys. *)

(* Broken: the flow collections inside the body are not counted. *)
EndsBodyAtAnyBracket(k, u) ==
    IF k.inFlow THEN Closes(u) \/ u.type \in {"colon", "comma"} ELSE u.col <= k.col

(* endsExplicitKeyBody: past the body of the key k.  In block context it   *)
(* is all that is indented deeper than the '?', or one sequence written at *)
(* its column; in flow context it ends at the punctuation that does.       *)
EndsBody(k, u) ==
    LET zeroIndented == /\ k.body = <<>> \/ (k.body # <<>> /\ k.body[1].type = "entry"
                                                           /\ k.body[1].col = k.col)
                        /\ u.type = "entry" /\ u.col = k.col
    IN  IF k.inFlow THEN k.depth = 0 /\ (Closes(u) \/ u.type \in {"colon", "comma"})
        ELSE ~zeroIndented /\ u.col <= k.col

(* The flow collections open inside the body, once u is part of it. *)
Counted(k, u) ==
    [k EXCEPT !.depth = IF ~k.inFlow THEN @
                        ELSE IF Opens(u) THEN @ + 1 ELSE IF Closes(u) THEN @ - 1 ELSE @]

(* groupMapKeysByValue over a body, in a window of its own. *)
KeysByValue(body) ==
    LET gone(s, reached) ==
            [w |-> reached.w, out |-> s.out \o reached.out, err |-> s.err \/ reached.err]
        emptied(s) == [units |-> s.out \o s.w.held, err |-> s.err]
    IN  emptied(FoldLeft(LAMBDA s, u : gone(s, Reached(s.w, u)),
                         [w |-> NewWindow, out |-> <<>>, err |-> FALSE], body))

(* keyedValue *)
IsValueOf(key, u) ==
    /\ key.group = "mapKey"
    /\ key.line = u.line /\ u.group # "anchorName"
    /\ u.type = "tag" => u.group = "scalarTag"
    /\ ScalarType(u) \/ u.type = "tag"

(* groupMapKeyValues *)
KeyValues(body) ==
    LET read(s, u) ==
            IF s # <<>> /\ IsValueOf(Last(s), u)
            THEN Append(Front(s), Group("mapKeyValue", <<Last(s), u>>))
            ELSE Append(s, u)
    IN  FoldLeft(read, <<>>, body)

Body(k) == [key |-> k.key[1].toks[1],
            of |-> FlattenSeq([i \in DOMAIN k.body |-> k.body[i].toks])]

(* inFlowMapping: a '?' directly inside the flow mapping another '?' is a  *)
(* key of is left as it stands.                                            *)
DirectlyInFlow(open, run, flowDepth) ==
    IF open # <<>> THEN Last(open).inFlow /\ flowDepth = Last(open).flowDepth
    ELSE run.inFlow /\ flowDepth = 0

HoldIn(s, u) ==
    IF s.open = <<>> THEN [s EXCEPT !.out = Append(@, u)]
    ELSE [s EXCEPT !.open[Len(s.open)].body = Append(@, u)]

RECURSIVE BuildExplicit(_), CloseEnded(_, _), CloseAll(_), ReadNested(_, _, _)

(* buildExplicitKey, with groupExplicitKeyBody and groupExplicitKeysIn: a  *)
(* body is grouped as the stages around it would group it.                 *)
BuildExplicit(k) ==
    LET unit(values) ==
            Group("mapKey", k.key \o (IF values = <<>> THEN <<ImplicitNull(k.key[1])>> ELSE values))
        grouped(keyed) ==
            [unit |-> [unit(KeyValues(keyed.units)) EXCEPT !.bodies = @ \cup {Body(k)}], err |-> keyed.err]
        body(nested) == IF nested.err THEN [unit |-> k.key[1], err |-> TRUE]
                        ELSE grouped(KeysByValue(nested.out))
    IN  body(CloseAll(ReadNested([out |-> <<>>, open |-> <<>>, flowDepth |-> 0, err |-> FALSE],
                                 k.body, k)))

(* closeKey *)
CloseInnermost(s) ==
    LET closed(under, built) == IF built.err THEN [under EXCEPT !.err = TRUE] ELSE HoldIn(under, built.unit)
    IN  closed([s EXCEPT !.open = Front(@)], BuildExplicit(Last(s.open)))

CloseAll(s) == IF s.open = <<>> \/ s.err THEN s ELSE CloseAll(CloseInnermost(s))

(* The '?'s whose bodies end before u, innermost first. *)
CloseEnded(s, u) ==
    IF s.open = <<>> \/ s.err THEN s
    ELSE IF EndsBody(Last(s.open), u) THEN CloseEnded(CloseInnermost(s), u)
    ELSE [s EXCEPT !.open[Len(s.open)] = Counted(@, u)]

(* The loop of groupExplicitKeysIn; run is the '?' whose body this is. *)
ReadNested(start, body, run) ==
    LET count(s, u) == [s EXCEPT !.flowDepth =
            IF Opens(u) THEN @ + 1 ELSE IF Closes(u) /\ @ > 0 THEN @ - 1 ELSE @]
        begun(s, u) == [NoKey EXCEPT !.key = <<u>>, !.col = u.col, !.inFlow = s.flowDepth > 0,
                                     !.flowDepth = s.flowDepth]
        read(x, u) ==
            IF x.err THEN x
            ELSE IF u.group # "none" THEN HoldIn(x, u)
            ELSE IF u.type = "question" /\ ~DirectlyInFlow(x.open, run, x.flowDepth)
            THEN [x EXCEPT !.open = Append(@, begun(x, u))]
            ELSE HoldIn(count(x, u), u)
    IN  FoldLeft(LAMBDA s, u : read(CloseEnded(s, u), u), start, body)

(* emitExplicitKey: the comments the key ended on go after it. *)
EmitExplicit(h) ==
    LET emitted(built) ==
            IF built.err THEN Fail(h)
            ELSE PassAll([h EXCEPT !.g.explicit.key = <<>>, !.g.explicit.body = <<>>,
                                   !.g.explicit.comments = <<>>],
                         <<built.unit>> \o h.g.explicit.comments)
    IN  IF h.g.explicit.key = <<>> THEN h ELSE emitted(BuildExplicit(h.g.explicit))

(* A token of the body; comments wait to see whether more of it follows. *)
ToBody(h, u) ==
    LET k == Counted(h.g.explicit, u)
    IN  [h EXCEPT !.g.explicit =
            IF Comment(u) THEN [k EXCEPT !.comments = Append(@, u)]
            ELSE [k EXCEPT !.body = @ \o k.comments \o <<u>>, !.comments = <<>>]]

(* stageExplicitKeys *)
ToExplicit(h, u) ==
    LET around(depth) ==
            IF Opens(u) THEN depth + 1 ELSE IF Closes(u) /\ depth > 0 THEN depth - 1 ELSE depth
        past(x) ==
            IF x.g.err THEN x
            ELSE IF u.type = "question"
            THEN [x EXCEPT !.g.explicit = [@ EXCEPT !.key = <<u>>, !.col = u.col,
                                                    !.inFlow = x.g.explicit.flowDepth > 0,
                                                    !.depth = 0]]
            ELSE Pass([x EXCEPT !.g.explicit.flowDepth = around(@)], u)
    IN  IF h.g.explicit.key # <<>> /\ ~EndsBody(h.g.explicit, u) THEN ToBody(h, u)
        ELSE past(EmitExplicit(h))

-----------------------------------------------------------------------------
(* The properties before a node. *)

(* taggedScalar: joined with what follows, alone, or refused. *)
Tagging(tag, u) ==
    IF tag.line # u.line \/ u.group = "anchorName" THEN "alone"
    ELSE CASE tag.tag = "own" -> IF FlowType(u) THEN "alone" ELSE "joined"
           [] tag.tag = "scalar" -> IF ScalarType(u) THEN "joined" ELSE "alone"
           [] tag.tag = "merge" -> IF u.type = "mergeKey" THEN "joined" ELSE "refused"
           [] tag.tag = "collection" -> "alone"

Expect(h, state, read) == [h EXCEPT !.g.prop = [state |-> state, read |-> read]]

(* property, where no property has been read. *)
FromNone(h, u) ==
    CASE u.type = "anchor" -> Expect(h, "sawAnchor", <<u>>)
      [] u.type = "alias" -> Expect(h, "sawAlias", <<u>>)
      [] u.type = "tag" -> Expect(h, "sawTag", <<u>>)
      [] OTHER -> Pass(h, u)

(* What was read is handed on as it stands, and u is read afresh. *)
LetGo(h, u) == FromNone(PassAll(Expect(h, "none", <<>>), h.g.prop.read), u)

Settle(h, u) == Pass(Expect(h, "none", <<>>), u)

(* tagOrLetGo *)
AfterTag(h, tag, u) ==
    IF u.line = tag.line /\ u.type = "entry" THEN Fail(h)
    ELSE IF u.line = tag.line /\ u.type = "anchor" THEN Expect(h, "tagSawAnchor", <<tag, u>>)
    ELSE CASE Tagging(tag, u) = "refused" -> Fail(h)
           [] Tagging(tag, u) = "joined" -> Settle(h, Group("scalarTag", <<tag, u>>))
           [] Tagging(tag, u) = "alone" -> LetGo(h, u)

(* anchorNames *)
AfterAnchor(h, name, u) ==
    IF u.line # name.line THEN LetGo(h, u)
    ELSE CASE u.type = "entry" -> Fail(h)
           [] u.type = "tag" -> Expect(h, "anchorAndTag", <<name, u>>)
           [] u.type \notin {"entry", "tag"} /\ ScalarType(u) -> Settle(h, Group("anchored", <<name, u>>))
           [] u.type \notin {"entry", "tag"} /\ ~ScalarType(u) -> LetGo(h, u)

(* anchorNamesTagged *)
AfterAnchorAndTag(h, name, tag, u) ==
    CASE Tagging(tag, u) = "refused" -> Fail(h)
      [] Tagging(tag, u) = "joined" ->
            Settle(h, Group("anchored", <<name, Group("scalarTag", <<tag, u>>)>>))
      [] Tagging(tag, u) = "alone" -> LetGo(h, u)

(* Broken: the anchor is handed on before the tag written before it. *)
AfterTagAndAnchorSwapped(h, tag, name, u) ==
    IF u.line # name.line
    THEN FromNone(PassAll(Expect(h, "none", <<>>), <<name, tag>>), u)
    ELSE IF u.type = "entry" THEN Fail(h)
    ELSE LetGo(h, u)

(* taggedAnchorNames *)
AfterTagAndAnchor(h, tag, name, u) ==
    LET named == Group("anchored", <<name, u>>)
    IN  IF u.line = name.line /\ u.type = "entry" THEN Fail(h)
        ELSE IF u.line # name.line \/ ~ScalarType(u) THEN LetGo(h, u)
        ELSE CASE Tagging(tag, named) = "refused" -> Fail(h)
               [] Tagging(tag, named) = "joined" -> Settle(h, Group("scalarTag", <<tag, named>>))
               [] Tagging(tag, named) = "alone" ->
                    PassAll(Expect(h, "none", <<>>), <<tag, named>>)

(* stageProperties: whatever follows '&' or '*' is the name. *)
ToProperties(h, u) ==
    LET read == h.g.prop.read
        name == Group("anchorName", <<Last(read), u>>)
    IN  CASE h.g.prop.state = "none" -> FromNone(h, u)
          [] h.g.prop.state = "sawAnchor" -> Expect(h, "haveAnchor", <<name>>)
          [] h.g.prop.state = "sawAlias" -> Settle(h, Group("alias", <<read[1], u>>))
          [] h.g.prop.state = "sawTag" -> AfterTag(h, read[1], u)
          [] h.g.prop.state = "haveAnchor" -> AfterAnchor(h, read[1], u)
          [] h.g.prop.state = "anchorAndTag" -> AfterAnchorAndTag(h, read[1], read[2], u)
          [] h.g.prop.state = "tagSawAnchor" -> Expect(h, "tagHaveAnchor", <<read[1], name>>)
          [] h.g.prop.state = "tagHaveAnchor" -> AfterTagAndAnchor(h, read[1], read[2], u)

-----------------------------------------------------------------------------
(* The first stages, and the whole chain. *)

(* stageBlockScalars: whatever follows the header is its content. *)
ToBlocks(h, u) ==
    IF h.g.block # <<>>
    THEN Pass([h EXCEPT !.g.block = <<>>], Group("literal", <<h.g.block[1], u>>))
    ELSE IF u.type = "literal" THEN [h EXCEPT !.g.block = <<u>>]
    ELSE Pass(h, u)

(* stageLineComments *)
ToLineComments(h, u) ==
    IF Comment(u) /\ h.g.line = u.line
    THEN [h EXCEPT !.g.closing = @ \cup {u.toks[1]}]
    ELSE Pass([h EXCEPT !.g.line = u.line], u)

(* Broken: a block scalar's header still waits for its content. *)
SettledButBlocks(g) ==
    g.prop.state = "none" /\ g.explicit.key = <<>> /\ g.directive.head = <<>>

(* settled *)
Settled(g) ==
    /\ g.block = <<>> /\ g.prop.state = "none"
    /\ g.explicit.key = <<>> /\ g.directive.head = <<>>

(* readsByAStage *)
ReadsByAStage(u) == u.type \in {"comment", "literal", "anchor", "alias", "entry", "tag"}

(* The stages up to the explicit keys, and the ones from there on. *)
Leading(g, u) ==
    Through(ToProperties, Through(ToBlocks, Through(ToLineComments, Handed(g, <<u>>))))
Trailing(h) == Through(ToDirectives, Through(ToKeys, Through(ToExplicit, h)))

(* The whole chain. *)
Chain(g, u) == Trailing(Leading(g, u))

(* Feed: the short way rejoins the chain at the explicit keys. *)
Feed(g, u) ==
    Trailing(IF Settled(g) /\ ~ReadsByAStage(u) THEN Handed([g EXCEPT !.line = u.line], <<u>>)
             ELSE Leading(g, u))

(* flushProperties: a '&' or '*' without a name is refused, and what was   *)
(* read goes on in its order.                                              *)
FlushProperties(h) ==
    IF h.g.prop.state \in {"sawAnchor", "sawAlias", "tagSawAnchor"}
    THEN Fail(Expect(h, "none", <<>>))
    ELSE PassAll(Expect(h, "none", <<>>), h.g.prop.read)

(* Finish: each stage's leavings walk the stages after it, and a directive *)
(* the stream ended on is refused.                                         *)
FlushBlocks(h) ==
    IF h.g.block = <<>> THEN h
    ELSE Pass([h EXCEPT !.g.block = <<>>], Group("literal", h.g.block))
FlushKeys(h) == PassAll([h EXCEPT !.g.window.held = <<>>], h.g.window.held)
FlushDirectives(h) == IF h.g.directive.head # <<>> THEN Fail(h) ELSE h
Finish(g) ==
    FlushDirectives(Through(ToDirectives,
        FlushKeys(Through(ToKeys,
            EmitExplicit(Through(ToExplicit,
                FlushProperties(Through(ToProperties,
                    FlushBlocks(Handed(g, <<>>))))))))))

(* What the stages still hold, the oldest first. *)
HeldBack(g) ==
    g.directive.head \o g.directive.values \o g.directive.comments \o g.window.held
    \o g.explicit.key \o g.explicit.body \o g.explicit.comments \o g.prop.read \o g.block
=============================================================================
