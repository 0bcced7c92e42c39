------------------------------ MODULE Grouping ------------------------------
(***************************************************************************)
(* The stages of parser/group that hold a token back: a block scalar's     *)
(* header until its content, the last content token until it is known that *)
(* no ":" makes a key of it, and a directive until the line that ends it.  *)
(*                                                                         *)
(* A unit is what the stages hand on: one token, or a group known by its   *)
(* first and last.  Keys, anchors, tags, "?" and flow collections are left *)
(* out: they hold more tokens back, and hand them on in order too.         *)
(***************************************************************************)
EXTENDS Integers, Sequences, SequencesExt

Unit(kind, line, at) == [kind |-> kind, line |-> line, first |-> at, last |-> at, version |-> "none"]

NoDirective == [line |-> 0, first |-> 0, name |-> 0, last |-> 0, version |-> "none", comments |-> <<>>]

(* The grouper before its first token: "header" is the block scalar's, and *)
(* "window" what a ":" arriving next might make a key of.                  *)
NewGrouper == [header |-> <<>>, window |-> <<>>, directive |-> NoDirective, err |-> FALSE]

(* What has left the chain: the grouper, and the units handed on. *)
Handed(g, out) == [g |-> g, out |-> out]

(* emitDirective. *)
Emitted(d) == <<[kind |-> "directive", line |-> d.line, first |-> d.first, last |-> d.last,
                 version |-> d.version]>> \o d.comments

(* stageDirectives, for a unit the window has let go of. *)
ToDirectives(handed, u) ==
    LET d == handed.g.directive
        begun == [NoDirective EXCEPT !.line = u.line, !.first = u.first, !.last = u.last]
        version == IF u.kind \in {"1.1", "1.2"} THEN u.kind ELSE d.version
        holds(next, out) == Handed([handed.g EXCEPT !.directive = next], out)
        passed(out) == IF u.kind = "percent" THEN holds(begun, out)
                       ELSE holds(NoDirective, Append(out, u))
    IN  IF d.first = 0 THEN passed(handed.out)
        ELSE CASE d.name = 0 ->
                    holds([d EXCEPT !.name = u.first, !.last = u.last], handed.out)
               [] d.name # 0 /\ u.line = d.line ->
                    holds([d EXCEPT !.last = u.last, !.version = version], handed.out)
               [] d.name # 0 /\ u.line # d.line /\ u.kind = "comment" ->
                    holds([d EXCEPT !.comments = Append(@, u)], handed.out)
               [] d.name # 0 /\ u.line # d.line /\ u.kind \in {"header", "percent"} ->
                    passed(handed.out \o Emitted(d))
               [] OTHER -> Handed([handed.g EXCEPT !.err = TRUE], handed.out)

(* What each of the units a stage lets go of leaves behind it, in turn.    *)
Through(g, units, out) ==
    LET through[n \in 0 .. Len(units)] ==
            IF n = 0 THEN Handed(g, out) ELSE ToDirectives(through[n-1], units[n])
    IN  through

LetGo(g, units, out) == Through(g, units, out)[Len(units)]

(* keepFrom: the window keeps its last content and the comments after it.  *)
KeepFrom(window) ==
    LET content == {i \in DOMAIN window : window[i].kind # "comment"}
    IN  IF content = {} THEN Len(window) + 1 ELSE Max(content)

(* stageMapKeysByValue and releaseWindow. *)
ToWindow(g, u, out) ==
    LET window == Append(g.window, u)
        keep == KeepFrom(window)
    IN  LetGo([g EXCEPT !.window = SubSeq(window, keep, Len(window))],
              SubSeq(window, 1, keep - 1), out)

(* Feed, from stageBlockScalars on. *)
Feed(g, u, out) ==
    IF g.header # <<>>
    THEN ToWindow([g EXCEPT !.header = <<>>],
                  [g.header[1] EXCEPT !.kind = "literal", !.last = u.last], out)
    ELSE IF u.kind = "block" THEN Handed([g EXCEPT !.header = <<u>>], out)
    ELSE ToWindow(g, u, out)

(* Finish: each stage's leavings walk the stages after it; a directive the *)
(* stream ended on is refused.                                             *)
Finish(g, out) ==
    LET literal == IF g.header = <<>> THEN Handed(g, out)
                   ELSE ToWindow([g EXCEPT !.header = <<>>],
                                 [g.header[1] EXCEPT !.kind = "literal"], out)
        flushed == LetGo([literal.g EXCEPT !.window = <<>>], literal.g.window, literal.out)
    IN  Handed([flushed.g EXCEPT !.err = @ \/ flushed.g.directive.first # 0], flushed.out)
=============================================================================
