------------------------------- MODULE Stream -------------------------------
(***************************************************************************)
(* A stream of documents: the reader, which scans and groups no further    *)
(* than it is asked to, and the parse above it, which reads one document   *)
(* after another and scopes a "%YAML" version to the document below it.    *)
(*                                                                         *)
(* The scanner runs ahead of the parse, and resolves a plain scalar as it  *)
(* cuts it.  A token is a kind and a line; a scalar also has the schema it *)
(* was resolved under.  The source is open, up to its length.  Of a body   *)
(* only the order of its tokens matters, so the descent takes any, and may *)
(* refuse anywhere; what it must refuse is a second node after a directive.*)
(* Comments are those a parse WithComments keeps, on lines of their own.   *)
(***************************************************************************)
EXTENDS Grouping, FiniteSets

CONSTANTS
    Options,    \* bound: the versions a caller sets
    MaxTokens   \* bound: tokens in a stream

ASSUME StreamAssumption == Options \subseteq {"1.1", "1.2"} /\ MaxTokens \in Nat

VARIABLES
    tape,       \* the tokens cut so far
    schema,     \* the scanner's, for the next scalar
    scanErr,    \* the scanner has refused the source
    g,          \* the grouper: see Grouping
    reader,     \* the reader's own fields
    phase,      \* what the parse does next
    option,     \* WithYAMLVersion
    version,    \* yamlVersion: what the document's "%YAML" line names
    doc,        \* the document being read
    docs        \* the documents read

vars == <<tape, schema, scanErr, g, reader, phase, option, version, doc, docs>>

-----------------------------------------------------------------------------
Schemas == {"1.1", "1.2"}
Kinds == {"header", "end", "percent", "name", "1.1", "1.2", "scalar", "entry", "block", "content",
          "comment"}

NewReader == [out |-> <<>>, drained |-> FALSE, taken |-> FALSE, tail |-> FALSE,
              tookDirective |-> FALSE, afterHeader |-> 0, afterEnd |-> 0, err |-> FALSE]

(* A document as history keeps it: its first and last token, how many      *)
(* directives the descent was given, its scalars as they were when taken,  *)
(* whether "..." ended it, and the schema its node got.                    *)
NewDoc(from) == [from |-> from, to |-> from, directives |-> 0, content |-> FALSE, read |-> {},
                 ended |-> FALSE, schema |-> "none"]
NoDoc == NewDoc(-1)

Head1 == reader.out[1]

(* peek has something to return, or nothing is left. *)
Peeked == reader.out # <<>> \/ reader.drained
AtEnd == reader.out = <<>>
NextKind == IF AtEnd THEN "none" ELSE Head1.kind
Next1(kinds) == Peeked /\ NextKind \in kinds

(* Broken: a token taken is not remembered. *)
TakeUnnoted(r) == [r EXCEPT !.out = Tail(@)]

(* take. *)
Take(r) == [r EXCEPT !.out = Tail(@), !.taken = TRUE]

(* schemaInForce. *)
InForce == IF version = "none" THEN option ELSE version

(* retypeAhead: the scalars cut after "from" are resolved again; the       *)
(* content of a block scalar is not, where its header is ahead too.        *)
Retype(tokens, to, from) ==
    LET resolved(i) == \/ tokens[i].kind = "scalar"
                       \/ tokens[i].kind = "content" /\ i - 1 <= from
    IN  [i \in DOMAIN tokens |->
            IF i > from /\ resolved(i) THEN [tokens[i] EXCEPT !.schema = to] ELSE tokens[i]]

Init ==
    /\ option \in Options /\ schema = option /\ version = "none"
    /\ tape = <<>> /\ scanErr = FALSE /\ g = NewGrouper /\ reader = NewReader
    /\ phase = "open" /\ doc = NoDoc /\ docs = <<>>

-----------------------------------------------------------------------------
(* Filling the reader: the caller waits for peek. *)

Filling == /\ phase \in {"open", "judge", "body", "close"}
           /\ ~Peeked /\ ~reader.err

FillsWell(failed, out) == ~failed

(* fill's answer, which bodyToken keeps and every other caller returns. *)
FillReturns(next, failed) ==
    /\ reader' = [next EXCEPT !.err = phase = "body" /\ ~FillsWell(failed, next.out)]
    /\ phase' = IF FillsWell(failed, next.out) \/ phase = "body" THEN phase ELSE "refused"

(* What the scanner may cut after the last token, and whether it may stand *)
(* on that token's line.  A "%" has its name beside it, or nothing after.  *)
Follows(kind, sameLine) ==
    LET last == IF tape = <<>> THEN "none" ELSE tape[Len(tape)].kind
    IN  \/ kind = "name" /\ last = "percent" /\ sameLine
        \/ kind \in Schemas /\ last = "name" /\ sameLine
        \/ kind = "content" /\ last = "block" /\ ~sameLine
        \/ /\ kind \in {"scalar", "entry", "block"} /\ last \notin {"percent", "block"}
           /\ sameLine => last \in {"header", "end", "entry"}
        \/ kind \in {"header", "end", "percent", "comment"} /\ last \notin {"percent", "block"} /\ ~sameLine

ScanToken(kind, sameLine) ==
    /\ Filling /\ Len(tape) < MaxTokens /\ Follows(kind, sameLine)
    /\ LET last == IF tape = <<>> THEN 0 ELSE tape[Len(tape)].line
           line == IF sameLine THEN last ELSE last + 1
       IN
       \E fed \in {Feed(g, Unit(kind, line, Len(tape) + 1), <<>>)} :
           /\ tape' = Append(tape, [kind |-> kind, line |-> line,
                                    schema |-> IF kind = "scalar" THEN schema ELSE "none"])
           /\ g' = fed.g
           /\ FillReturns([reader EXCEPT !.out = fed.out], fed.out # <<>> /\ fed.g.err)
    /\ UNCHANGED <<schema, scanErr, option, version, doc, docs>>

(* The scanner has no more tokens, or has refused the source. *)
ScanEnd(failed) ==
    /\ Filling
    /\ \E finished \in {Finish(g, <<>>)} :
           /\ g' = finished.g
           /\ FillReturns([reader EXCEPT !.out = finished.out, !.drained = TRUE],
                          failed \/ finished.g.err)
    /\ scanErr' = failed
    /\ UNCHANGED <<tape, schema, option, version, doc, docs>>

-----------------------------------------------------------------------------
(* openDocument. *)

(* A "..." where no document is open closes nothing. *)
SkipEnd ==
    /\ phase = "open" /\ Next1({"end"})
    /\ reader' = [Take(reader) EXCEPT !.afterEnd = Head1.line]
    /\ phase' = "judge"
    /\ UNCHANGED <<tape, schema, scanErr, g, option, version, doc, docs>>

OpenHeader ==
    /\ phase = "open" /\ Next1({"header"})
    /\ doc' = NewDoc(Head1.first)
    /\ reader' = [Take(reader) EXCEPT !.afterHeader = Head1.line, !.tookDirective = FALSE]
    /\ phase' = "judge"
    /\ UNCHANGED <<tape, schema, scanErr, g, option, version, docs>>

OpenBare ==
    /\ phase = "open" /\ Next1((Kinds \cup {"directive", "literal"}) \ {"header", "end"})
    /\ doc' = NewDoc(Head1.first)
    /\ reader' = [reader EXCEPT !.tookDirective = FALSE]
    /\ phase' = "body"
    /\ UNCHANGED <<tape, schema, scanErr, g, option, version, docs>>

(* Broken: the empty document is opened again, here once more. *)
OpenEmptyAgain ==
    /\ phase = "open" /\ Peeked /\ AtEnd /\ ~reader.taken /\ Len(docs) < 2
    /\ doc' = NewDoc(0)
    /\ reader' = [reader EXCEPT !.tookDirective = FALSE]
    /\ phase' = "body"
    /\ UNCHANGED <<tape, schema, scanErr, g, option, version, docs>>

(* The stream holds one last, empty document unless a token was read. *)
OpenEmpty ==
    /\ phase = "open" /\ Peeked /\ AtEnd /\ ~reader.taken /\ ~reader.tail
    /\ doc' = NewDoc(0)
    /\ reader' = [reader EXCEPT !.tail = TRUE, !.tookDirective = FALSE]
    /\ phase' = "body"
    /\ UNCHANGED <<tape, schema, scanErr, g, option, version, docs>>

StreamEnds ==
    /\ phase = "open" /\ Peeked /\ AtEnd /\ (reader.taken \/ reader.tail)
    /\ phase' = "done"
    /\ UNCHANGED <<tape, schema, scanErr, g, reader, option, version, doc, docs>>

(* Broken: the token after a "..." is never judged. *)
MisplacedHeaderOnly(u) == reader.afterHeader = u.line /\ u.kind = "entry"

(* judgeNext's verdict on the token after a marker. *)
Misplaced(u) == \/ reader.afterHeader = u.line /\ u.kind = "entry"
                \/ reader.afterEnd = u.line

(* judgeNext. *)
Judge ==
    /\ phase = "judge" /\ Peeked
    /\ IF ~AtEnd /\ Misplaced(Head1)
       THEN phase' = "refused" /\ UNCHANGED reader
       ELSE /\ reader' = [reader EXCEPT !.afterHeader = 0, !.afterEnd = 0]
            /\ phase' = CASE reader.afterHeader # 0 -> "body"
                          [] doc # NoDoc /\ reader.afterHeader = 0 -> "scope"
                          [] OTHER -> "open"
    /\ UNCHANGED <<tape, schema, scanErr, g, option, version, doc, docs>>

-----------------------------------------------------------------------------
(* The body. *)

(* bodyToken has nothing to return. *)
EndsBody == \/ NextKind \in {"none", "header", "end"}
            \/ reader.tookDirective /\ NextKind = "directive"

(* What the descent refuses on sight: a version given twice, and any node  *)
(* after a directive.                                                      *)
Second(u) ==
    CASE u.kind = "comment" -> FALSE
      [] u.kind = "directive" -> \/ doc.directives > 0 \/ doc.content
                                 \/ u.version # "none" /\ version # "none"
      [] OTHER -> doc.directives > 0

Scalars(u) == {i \in u.first .. u.last : tape[i].kind \in {"scalar", "content"}}

(* bodyToken and the descent, for one unit; parseDirective for a directive.*)
TakeBody ==
    /\ phase = "body" /\ ~reader.err /\ Peeked /\ ~EndsBody
    /\ LET u == Head1 IN
        /\ reader' = [Take(reader) EXCEPT !.tookDirective = (u.kind = "directive")]
        /\ doc' = [doc EXCEPT
               !.to = u.last,
               !.directives = IF u.kind = "directive" THEN @ + 1 ELSE @,
               !.content = @ \/ u.kind \notin {"directive", "comment"},
               !.read = @ \cup {[at |-> i, schema |-> tape[i].schema] : i \in Scalars(u)}]
        /\ phase' = IF Second(u) THEN "refused" ELSE phase
        /\ IF u.kind = "directive" /\ u.version # "none" /\ ~Second(u)
           THEN /\ version' = u.version /\ schema' = u.version
                /\ tape' = Retype(tape, u.version, u.last)
           ELSE UNCHANGED <<version, schema, tape>>
    /\ UNCHANGED <<scanErr, g, option, docs>>

(* The descent has read its node, and looks whether the reader kept an     *)
(* error from it.                                                          *)
BodyEnds ==
    /\ phase = "body" /\ (reader.err \/ (Peeked /\ EndsBody))
    /\ phase' = IF reader.err THEN "refused" ELSE "close"
    /\ UNCHANGED <<tape, schema, scanErr, g, reader, option, version, doc, docs>>

(* The descent refuses the body, for a reason of its own. *)
Refuse ==
    /\ phase = "body"
    /\ phase' = "refused"
    /\ UNCHANGED <<tape, schema, scanErr, g, reader, option, version, doc, docs>>

(* closeDocument. *)
CloseDocument ==
    /\ phase = "close" /\ Peeked
    /\ IF Next1({"end"})
       THEN /\ reader' = [Take(reader) EXCEPT !.afterEnd = Head1.line]
            /\ doc' = [doc EXCEPT !.ended = TRUE]
            /\ phase' = "judge"
       ELSE phase' = "scope" /\ UNCHANGED <<reader, doc>>
    /\ UNCHANGED <<tape, schema, scanErr, g, option, version, docs>>

(* Broken: only the scanner's schema is put back. *)
RetypeNothing == tape

(* The tokens once the version's scope has ended: those cut ahead of the   *)
(* first token not taken are resolved again.                               *)
Unscoped == Retype(tape, option, IF AtEnd THEN Len(tape) ELSE Head1.first - 1)

(* parseDocument's end, and endVersionScope: a directive is a document of  *)
(* its own, and its scope is the document after it.                        *)
EndScope ==
    /\ phase = "scope"
    /\ docs' = Append(docs, [doc EXCEPT !.schema = InForce])
    /\ doc' = NoDoc /\ phase' = "open"
    /\ IF doc.directives > 0 \/ version = "none"
       THEN UNCHANGED <<version, schema, tape>>
       ELSE version' = "none" /\ schema' = option /\ tape' = Unscoped
    /\ UNCHANGED <<scanErr, g, reader, option>>

Next ==
    \/ \E kind \in Kinds, sameLine \in BOOLEAN : ScanToken(kind, sameLine)
    \/ \E failed \in BOOLEAN : ScanEnd(failed)
    \/ SkipEnd
    \/ OpenHeader
    \/ OpenBare
    \/ OpenEmpty
    \/ StreamEnds
    \/ Judge
    \/ TakeBody
    \/ BodyEnds
    \/ Refuse
    \/ CloseDocument
    \/ EndScope

(* One goroutine runs until Parse returns: a step that can be made is. *)
Spec == Init /\ [][Next]_vars /\ WF_vars(Next)

-----------------------------------------------------------------------------
(* The documents of a stream, read off its tokens. *)

Cut == DOMAIN tape
LastBefore(i) == {j \in 1..i-1 : tape[j].kind # "comment" /\ \A k \in j+1..i-1 : tape[k].kind = "comment"}

(* A document begins at a "---", where none is open, and at a directive,   *)
(* unless nothing but comments stands between it and a marker.             *)
Begins(i) ==
    \/ tape[i].kind = "header"
    \/ tape[i].kind # "end" /\ (i = 1 \/ tape[i-1].kind = "end")
    \/ /\ tape[i].kind = "percent"
       /\ \E j \in LastBefore(i) : tape[j].kind \notin {"header", "end"}

Beginnings == {i \in Cut : Begins(i)}
Stops(i) == {j \in i+1 .. Len(tape) : tape[j].kind = "end" \/ Begins(j)}
StopOf(i) == Min(Stops(i) \cup {Len(tape) + 1})
Ends(i) == StopOf(i) \in Cut /\ tape[StopOf(i)].kind = "end"
InDirective(i) == i # 0 /\ \E j \in i .. StopOf(i)-1 : tape[j].kind = "percent"

(* The version the directives above document n name. *)
Named(n) ==
    LET above == {k \in 1..n-1 : \A m \in k..n-1 : InDirective(docs[m].from)}
    IN  {tape[i].kind : i \in {j \in UNION {docs[k].from .. docs[k].to : k \in above} :
                                   tape[j].kind \in Schemas}}

(* openDocument, bodyToken and closeDocument: the documents read are those *)
(* of the stream's tokens, each with its own tokens and its own "...", and *)
(* none is added or lost at the end -- whatever the grouping held back     *)
(* while they were told apart.                                             *)
DocumentsMatch ==
    LET made(i) == [from |-> i, to |-> StopOf(i) - 1, ended |-> Ends(i)]
        read(d) == [from |-> d.from, to |-> d.to, ended |-> d.ended]
        matches(n) == LET i == docs[n].from
                      IN  /\ i \in Beginnings /\ read(docs[n]) = made(i)
                          /\ n = Cardinality({j \in Beginnings : j <= i})
    IN  IF tape = <<>> THEN Len(docs) \in {0, 1} /\ (phase = "done" => Len(docs) = 1)
        ELSE /\ \A n \in DOMAIN docs : matches(n)
             /\ phase = "done" => Len(docs) = Cardinality(Beginnings)

(* endVersionScope and retypeAhead: every scalar reaches the descent as    *)
(* resolved under the version its own document's directives name, or under *)
(* the option, however far ahead it was cut -- and the content of a block  *)
(* scalar not resolved at all.                                             *)
SchemasMatch ==
    \A n \in DOMAIN docs : ~InDirective(docs[n].from) =>
        LET named == Named(n) IN
        /\ docs[n].schema = IF named = {} THEN option ELSE CHOOSE s \in named : TRUE
        /\ \A r \in docs[n].read :
            r.schema = IF tape[r.at].kind = "content" THEN "none" ELSE docs[n].schema

(* fill, bodyToken and judgeNext: a stream is accepted only if the scanner *)
(* was done with it, every directive is followed by a "---" or by one more,*)
(* nothing stands on the line of a "..." and no sequence entry on that of a*)
(* "---" -- though a marker's line is judged one token ahead of what is    *)
(* taken, and the error may be found while the descent is fed.             *)
AcceptedIsSound ==
    phase = "done" =>
        /\ ~scanErr
        /\ \A i \in Cut : tape[i].kind = "percent" =>
            \E j \in Cut : /\ j > i /\ tape[j].kind \in {"header", "percent"}
                           /\ \A k \in i+1..j-1 : \/ tape[k].line = tape[i].line
                                                  \/ tape[k].kind = "comment"
        /\ \A i \in Cut : i + 1 \in Cut /\ tape[i].line = tape[i+1].line =>
            /\ tape[i].kind # "end"
            /\ tape[i].kind = "header" => tape[i+1].kind # "entry"

(* parse: the loop over the documents of a finite stream ends. *)
ParseEnds == <>(phase \in {"done", "refused"})
=============================================================================
