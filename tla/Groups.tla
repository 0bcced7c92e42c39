------------------------------- MODULE Groups -------------------------------
(***************************************************************************)
(* The grouping of one stream, token by token, over the token sequences    *)
(* the scanner can produce: balanced brackets, a plain scalar ended by     *)
(* what follows it, a name after '&' and '*', a content after '|'.         *)
(*                                                                         *)
(* A profile is the set of tokens a stream is written with, so that each   *)
(* stage is reached by streams as long as they are telling.                *)
(***************************************************************************)
EXTENDS Grouper

CONSTANTS
    Profile,    \* the profiles explored
    MaxLength,  \* bound: tokens in a stream of each profile
    MaxLines    \* bound: lines in a stream

VARIABLES
    profile, g, out,
    fed,   \* the tokens the grouper was given
    done   \* whether the stream has ended

vars == <<profile, g, out, fed, done>>

Plain(types) == {[type |-> t, tag |-> "none"] : t \in types}
Tags(tags) == {[type |-> "tag", tag |-> t] : t \in tags}

(* The tokens of each profile, and where one may begin a line. *)
Tokens(p) ==
    CASE p = "keys" -> Plain({"scalar", "mapStart", "mapEnd", "seqStart", "seqEnd", "colon", "comment"})
      [] p = "tagged" -> Plain({"scalar", "seqStart", "seqEnd", "colon"}) \cup Tags({"collection"})
      [] p = "bodies" -> Plain({"question", "colon", "scalar", "entry", "mapStart", "mapEnd"})
      [] p = "notes" -> Plain({"question", "colon", "scalar", "comment", "literal"})
      [] p = "properties" -> Plain({"anchor", "alias", "scalar", "mergeKey", "entry", "seqStart", "literal"})
                             \cup Tags({"own", "scalar", "merge", "collection"})
      [] p = "prelude" -> Plain({"directive", "header", "scalar", "comment", "colon"})
Columns(p) == IF p \in {"bodies", "notes"} THEN {1, 2} ELSE {1}

-----------------------------------------------------------------------------
(* What the scanner can produce. *)

Before(i) == 1 .. i - 1
Count(P(_), i, j) == Cardinality({k \in i .. j : P(fed[k])})

(* The collections open before the token numbered j, innermost the largest. *)
Unclosed(j) == {i \in Before(j) :
    Opens(fed[i]) /\ \A k \in i .. j - 1 : Count(Opens, i, k) > Count(Closes, i, k)}
Innermost(j) == CHOOSE i \in Unclosed(j) : \A k \in Unclosed(j) : k <= i
InFlow(j) == Unclosed(j) # {}

(* The last token before j that is no comment, 0 for none. *)
Prev(j) ==
    IF \A i \in Before(j) : Comment(fed[i]) THEN 0
    ELSE CHOOSE i \in Before(j) : ~Comment(fed[i]) /\ \A k \in i+1 .. j-1 : Comment(fed[k])

Named(i) == i > 0 /\ fed[i].type \in {"anchor", "alias"}
Name(i) == i > 1 /\ Named(i - 1)
Next1 == Len(fed) + 1

(* Whether t may be the next token, on a new line or not. *)
MayFollow(t, newLine) ==
    LET prev == Prev(Next1)
        last == IF fed = <<>> THEN "none" ELSE fed[Len(fed)].type
        before == IF prev = 0 THEN "none" ELSE fed[prev].type
    IN  /\ last \in {"none", "comment"} => newLine
        /\ Named(Len(fed)) => t.type = "scalar" /\ ~newLine
        /\ Closes(t) => /\ InFlow(Next1)
                        /\ t.type = "seqEnd" <=> fed[Innermost(Next1)].type = "seqStart"
        /\ before = "literal" => (t.type = "scalar" /\ newLine) \/ t.type = "comment"
        /\ t.type = "literal" => ~InFlow(Next1)
        /\ t.type = "scalar" => \/ before \notin {"scalar", "mapEnd", "seqEnd"}
                                \/ Named(Len(fed)) \/ Name(Len(fed))
                                \/ newLine /\ ~InFlow(Next1)
        /\ t.type = "colon" => before # "colon" \/ (newLine /\ ~InFlow(Next1))
        /\ t.type \in {"entry", "question"} =>
                \/ newLine
                \/ before \in {"entry", "question", "tag"} \/ Name(prev)
                \/ t.type = "question" /\ before \in {"mapStart", "seqStart"}
        /\ t.type \in {"directive", "header"} => newLine /\ ~InFlow(Next1)
        /\ t.type = "tag" => last # "tag"
        /\ profile = "bodies" /\ InFlow(Next1) => ~newLine

At(t, newLine, column) ==
    LET line == IF fed = <<>> THEN 1 ELSE fed[Len(fed)].line + (IF newLine THEN 1 ELSE 0)
    IN  [type |-> t.type, tag |-> t.tag, group |-> "none", line |-> line, end |-> line,
         col |-> IF newLine THEN column ELSE fed[Len(fed)].col + 1,
         toks |-> <<Next1>>, keys |-> {}, bodies |-> {}]

-----------------------------------------------------------------------------
Init ==
    /\ profile \in Profile
    /\ g = NewGrouper /\ out = <<>>
    /\ fed = <<>> /\ done = FALSE

Leaves(h) == g' = h.g /\ out' = out \o h.out

FeedNext(t, newLine, column) ==
    /\ ~done /\ ~g.err
    /\ Len(fed) < MaxLength[profile]
    /\ MayFollow(t, newLine)
    /\ LET u == At(t, newLine, column)
       IN  /\ u.line <= MaxLines
           /\ fed' = Append(fed, u)
           /\ Leaves(Feed(g, u))
    /\ UNCHANGED <<profile, done>>

FinishStream ==
    /\ ~done /\ ~g.err
    /\ ~InFlow(Next1)
    /\ Leaves(Finish(g))
    /\ done' = TRUE
    /\ UNCHANGED <<profile, fed>>

Next ==
    \/ \E t \in Tokens(profile), newLine \in BOOLEAN, column \in Columns(profile) :
            /\ ~newLine => column = 1
            /\ FeedNext(t, newLine, column)
    \/ FinishStream

Spec == Init /\ [][Next]_vars

-----------------------------------------------------------------------------
(* Properties. *)

Units == out \o HeldBack(g)
Toks(units) == FlattenSeq([i \in DOMAIN units |-> units[i].toks])
Content(toks) == SelectSeq(toks, LAMBDA i : ~Comment(fed[i]))

(* Between what has left the chain and what its stages hold, every token   *)
(* of the stream stands once, and all but the comments in the order they   *)
(* were written, whatever groups they are in (pass, releaseWindow, LetGo,  *)
(* Finish).                                                                *)
OrderKept ==
    ~g.err =>
        LET toks == Toks(Units)
        IN  /\ Content(toks) = Content([i \in DOMAIN fed |-> i])
            /\ ToSet(toks) \cup g.closing = DOMAIN fed
            /\ Len(toks) + Cardinality(g.closing) = Len(fed)
            /\ done => HeldBack(g) = <<>>

(* The short way through the chain leads where the chain does: a token no  *)
(* stage reads, past stages that hold nothing (Feed, settled,              *)
(* readsByAStage, alwaysLooking).                                          *)
ShortWayIsTheChain ==
    [][fed' # fed => Leaves(Chain(g, Last(fed')))]_vars

(* The key of the ':' numbered j, told from the whole stream before it:    *)
(* nothing, the collection that closes there with the properties on its    *)
(* line, or one token.                                                     *)
Match(p) == CHOOSE i \in Before(p) : Opens(fed[i]) /\ Unclosed(p) \ {i} = Unclosed(i) /\ i \in Unclosed(p)
KeyStart(p) ==
    LET property(i) == fed[i].type = "tag" /\ fed[i].line = fed[i+1].line
    IN  CHOOSE i \in 1 .. Match(p) :
            (\A k \in i .. Match(p) - 1 : property(k)) /\ (i > 1 => ~property(i - 1))
Absent(j) ==
    LET p == Prev(j)
    IN  \/ p = 0
        \/ p > 0 /\ (PrecedesAbsentKey(fed[p]) \/ (~InFlow(j) /\ fed[p].line # fed[j].line))
IsCollection(j) == ~Absent(j) /\ Closes(fed[Prev(j)])
KeyOf(j) ==
    IF Absent(j) THEN <<>>
    ELSE Content([i \in 1 .. Prev(j) - (IF IsCollection(j) THEN KeyStart(Prev(j)) ELSE Prev(j)) + 1 |->
                    i - 1 + (IF IsCollection(j) THEN KeyStart(Prev(j)) ELSE Prev(j))])

(* An implicit key holds one line, its ':' included where it is an entry   *)
(* of a sequence; an entry of a flow mapping may span lines.               *)
InMapping(j) == InFlow(j) /\ fed[Innermost(j)].type = "mapStart"
SpansLines(j) ==
    IsCollection(j) /\
        \/ ~InMapping(j) /\ fed[KeyStart(Prev(j))].line # fed[Prev(j)].line
        \/ InFlow(j) /\ ~InMapping(j) /\ fed[Prev(j)].line # fed[j].line

(* It runs past the limit.                                                 *)
PastLimit(j) ==
    IsCollection(j) /\
        LET start == Match(Prev(j))
        IN  ~InMapping(start) /\ fed[Prev(j)].col - fed[start].col > ImplicitKeyLimit

(* It is the value of the entry before it, and the document is malformed.  *)
Valued(j) ==
    IsCollection(j) /\
        LET start == KeyStart(Prev(j))
            before == Prev(start)
        IN  before > 0 /\ fed[before].type = "colon" /\ fed[before].line = fed[start].line

Colons == {j \in DOMAIN fed : fed[j].type = "colon"}
MadeKeys == UNION {Units[i].keys : i \in DOMAIN Units}

(* What the window keeps is enough: the key of every ':' is the one an     *)
(* unbounded lookahead finds, and one is refused only where it spans       *)
(* lines, and then always, or runs past the limit (keepFrom, spanALine,    *)
(* opensAValue, keyBefore).                                                *)
KeysExact ==
    profile \in {"keys", "tagged"} /\ (\A j \in Colons : ~Valued(j)) =>
        IF g.err THEN \E j \in Colons : j = Len(fed) /\ (SpansLines(j) \/ PastLimit(j))
        ELSE /\ \A j \in Colons : ~SpansLines(j)
             /\ {[key |-> Content(k.key), colon |-> k.colon] : k \in MadeKeys} =
                {[key |-> KeyOf(j), colon |-> j] : j \in Colons}

(* The body of the '?' numbered i: in block context what is indented       *)
(* deeper, or one sequence at its column; in flow context all up to its    *)
(* ':' or the bracket that closes what it stands in.                       *)
PastBody(i, e) ==
    IF ~InFlow(i)
    THEN /\ fed[e].col <= fed[i].col
         /\ ~ \A k \in {i + 1, e} : fed[k].type = "entry" /\ fed[k].col = fed[i].col
    ELSE \/ fed[e].type = "colon" /\ Unclosed(e) = Unclosed(i)
         \/ Closes(fed[e]) /\ Unclosed(e) = Unclosed(i)
BodyEnd(i) ==
    IF \A e \in i+1 .. Len(fed) : ~PastBody(i, e) THEN Len(fed)
    ELSE (CHOOSE e \in i+1 .. Len(fed) : PastBody(i, e) /\ \A k \in i+1 .. e-1 : ~PastBody(i, k)) - 1
Questions == {i \in DOMAIN fed : fed[i].type = "question"}
LeftAlone(i) == \E q \in Questions : q < i /\ i <= BodyEnd(q) /\ InFlow(i) /\ Unclosed(q) = Unclosed(i)

(* Every '?' has the body its column and its brackets give it, however     *)
(* many '?'s stand inside one another: the one pass over the open ones     *)
(* ends each where a reading of its own would (endsExplicitKeyBody,        *)
(* groupExplicitKeysIn, stageExplicitKeys).                                *)
BodiesExact ==
    profile = "bodies" /\ done /\ ~g.err =>
        UNION {Units[i].bodies : i \in DOMAIN Units} =
        {[key |-> i, of |-> [k \in 1 .. BodyEnd(i) - i |-> i + k]] :
            i \in {q \in Questions : ~LeftAlone(q)}}
=============================================================================
