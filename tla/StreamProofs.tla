---------------------------- MODULE StreamProofs ----------------------------
(***************************************************************************)
(* Proofs about Stream.  The scanner is ahead of the parse by the tokens   *)
(* that are out of the grouper and by those it holds back, so the          *)
(* invariant says of each token where it is: taken, handed on, kept by the *)
(* directives' stage, in the window, or a block scalar's header.  What the *)
(* parse knows of the documents is related to the tokens taken, and what   *)
(* is resolved is related to the others.                                   *)
(***************************************************************************)
EXTENDS Stream, TLAPS, WellFoundedInduction, FiniteSetTheorems, SequenceTheorems

(***************************************************************************)
(* The vocabulary of the invariant, about any tokens t.                    *)
(***************************************************************************)
Token == [kind : Kinds, line : Nat \ {0}, schema : Schemas \cup {"none"}]
UnitType == [kind : Kinds \cup {"literal", "directive"}, line : Nat, first : Nat, last : Nat,
             version : Schemas \cup {"none"}]
DirectiveType == [line : Nat, first : Nat, name : Nat, last : Nat,
                  version : Schemas \cup {"none"}, comments : Seq(UnitType)]
Name == {"name", "1.1", "1.2"}

(* What the scanner cuts: a directive on a line of its own, its name at    *)
(* its "%" and a version at its name, the content of a block scalar below  *)
(* its header, a comment on a line of its own.                             *)
Beside(a, b) ==
    /\ a.line <= b.line
    /\ a.kind = "percent" => b.kind = "name"
    /\ b.kind = "name" => a.kind = "percent" /\ a.line = b.line
    /\ b.kind \in Schemas => a.kind = "name" /\ a.line = b.line
    /\ a.kind \in Name /\ a.line = b.line => b.kind \in Schemas
    /\ a.kind = "block" <=> b.kind = "content"
    /\ b.kind = "comment" => a.line # b.line
TapeOK(t) ==
    /\ t \in Seq(Token)
    /\ t # <<>> => t[1].kind \notin Name \cup {"content"}
    /\ \A i, j \in DOMAIN t : i < j => t[i].line <= t[j].line
    /\ \A i \in 1 .. Len(t)-1 : Beside(t[i], t[i+1])

VersionsIn(t, a, b) == {t[i].kind : i \in {j \in a .. b : t[j].kind \in Schemas}}
VersionIs(v, named) == IF v = "none" THEN named = {} ELSE v \in Schemas /\ named = {v}

(* A unit before the directives' stage, one after it, and units in a row.  *)
IsSingle(t, u) == u.last = u.first /\ u.kind = t[u.first].kind /\ u.kind \notin {"block", "content"}
IsLiteral(t, u) ==
    /\ u.kind = "literal" /\ t[u.first].kind = "block"
    /\ \/ u.last = u.first
       \/ u.last = u.first + 1 /\ u.last \in DOMAIN t /\ t[u.last].kind = "content"
InUnit(t, u) ==
    /\ u \in UnitType /\ u.first \in DOMAIN t /\ u.line = t[u.first].line /\ u.version = "none"
    /\ IsSingle(t, u) \/ IsLiteral(t, u)
IsDirective(t, u) ==
    /\ u \in UnitType /\ u.kind = "directive"
    /\ u.first \in DOMAIN t /\ u.last \in DOMAIN t /\ u.first < u.last
    /\ t[u.first].kind = "percent" /\ u.line = t[u.first].line
    /\ \A i \in u.first+1 .. u.last : t[i].kind \in Name
    /\ VersionIs(u.version, VersionsIn(t, u.first, u.last))
OutUnit(t, u) == IsDirective(t, u) \/ (InUnit(t, u) /\ u.kind \notin Name \cup {"percent"})

Chain(units, a, b) ==
    /\ units = <<>> => a = b
    /\ units # <<>> => units[1].first = a /\ units[Len(units)].last = b - 1
    /\ \A i \in DOMAIN units :
           a <= units[i].first /\ units[i].first <= units[i].last /\ units[i].last < b
    /\ \A i, j \in DOMAIN units : i < j => units[i].last < units[j].first
    /\ \A i \in DOMAIN units : i + 1 \in DOMAIN units => units[i+1].first = units[i].last + 1

(* The directives' stage, once r tokens went through it of which p were    *)
(* taken.                                                                  *)
FollowedAt(t, i) ==
    \E j \in DOMAIN t : /\ j > i /\ t[j].kind \in {"header", "percent"}
                        /\ \A k \in i+1 .. j-1 : \/ t[k].line = t[i].line
                                                 \/ t[k].kind = "comment"
NoneHeld(t, d, out, p, r) ==
    /\ d = NoDirective /\ Chain(out, p + 1, r + 1)
    /\ r > 0 => t[r].kind \notin {"percent", "name"}
Unnamed(t, d, out, p, r) ==
    /\ r > 0 /\ d = [NoDirective EXCEPT !.line = t[r].line, !.first = r, !.last = r]
    /\ Chain(out, p + 1, r)
    /\ t[r].kind = "percent"
AtName(t, d, out, p, r) ==
    /\ Chain(out, p + 1, d.first) /\ 0 < d.first /\ d.name = d.first + 1 /\ d.name <= d.last /\ d.last <= r
    /\ t[d.first].kind = "percent" /\ t[d.first].line = d.line
    /\ \A i \in d.name .. d.last : t[i].kind \in Name /\ t[i].line = d.line
    /\ VersionIs(d.version, VersionsIn(t, d.first, d.last))
    /\ Chain(d.comments, d.last + 1, r + 1)
    /\ \A i \in DOMAIN d.comments : InUnit(t, d.comments[i]) /\ d.comments[i].kind = "comment"
    /\ \A i \in d.last+1 .. r : t[i].kind = "comment"
Passed(t, d, out, p, r) ==
    /\ p \in Nat /\ r \in Nat /\ p <= r /\ r <= Len(t)
    /\ d \in DirectiveType /\ out \in Seq(UnitType)
    /\ \A i \in DOMAIN out : OutUnit(t, out[i])
    /\ NoneHeld(t, d, out, p, r) \/ Unnamed(t, d, out, p, r) \/ AtName(t, d, out, p, r)
    /\ \A i \in 1 .. r : t[i].kind = "percent" /\ i # d.first => FollowedAt(t, i)

(* What has passed while no directive is held. *)
Settled(t, out, p, r) ==
    /\ p \in Nat /\ r \in Nat /\ p <= r /\ r <= Len(t) /\ out \in Seq(UnitType)
    /\ \A i \in DOMAIN out : OutUnit(t, out[i])
    /\ Chain(out, p + 1, r + 1)
    /\ \A i \in 1 .. r : t[i].kind = "percent" => FollowedAt(t, i)

(* The grouper, once m tokens were fed to it.                              *)
Held(t, window, r, s) ==
    /\ window \in Seq(UnitType) /\ Chain(window, r + 1, s + 1) /\ s \in Nat /\ r <= s
    /\ \A i \in DOMAIN window : InUnit(t, window[i])
Opened(t, header, s, m) ==
    \/ header = <<>> /\ s = m /\ (m > 0 => t[m].kind # "block")
    \/ /\ s + 1 = m /\ t[m].kind = "block"
       /\ header = <<Unit("block", t[m].line, m)>>
Grouped(t, x, out, p, m) ==
    \E r, s \in 0 .. m : Passed(t, x.directive, out, p, r) /\ Held(t, x.window, r, s) /\ Opened(t, x.header, s, m)
Ahead(t, x, out, drained, p) ==
    IF drained THEN Settled(t, out, p, Len(t)) ELSE Grouped(t, x, out, p, Len(t))

(* The documents of t: StopOf and InDirective where the document's end is  *)
(* known.                                                                  *)
BeginsIn(t, i) ==
    \/ t[i].kind = "header"
    \/ t[i].kind # "end" /\ (i = 1 \/ t[i-1].kind = "end")
    \/ /\ t[i].kind = "percent"
       /\ \E j \in 1..i-1 : /\ t[j].kind \notin {"comment", "header", "end"}
                            /\ \A k \in j+1..i-1 : t[k].kind = "comment"
StopIn(t, i) == t[i].kind = "end" \/ BeginsIn(t, i)
Count(t, p) == Cardinality({j \in 1 .. p : BeginsIn(t, j)})
NoStops(t, a, b) == \A k \in a .. b : ~StopIn(t, k)
HasPercent(t, a, b) == a # 0 /\ \E j \in a .. b : t[j].kind = "percent"
Prefaced(t, p) ==
    \A j \in 1 .. p : (\A k \in j+1 .. p : t[k].kind = "comment") => t[j].kind \in {"comment", "header", "end"}

DocType == [from : Int, to : Int, directives : Nat, content : BOOLEAN,
            read : SUBSET [at : Int, schema : Schemas \cup {"none"}], ended : BOOLEAN,
            schema : Schemas \cup {"none"}]

DocOK(t, d, n, drained) ==
    /\ d.from \in DOMAIN t /\ d.to \in DOMAIN t /\ d.from <= d.to
    /\ BeginsIn(t, d.from) /\ n = Count(t, d.from)
    /\ NoStops(t, d.from + 1, d.to)
    /\ d.to < Len(t) => StopIn(t, d.to + 1)
    /\ d.to < Len(t) \/ drained
    /\ d.ended <=> d.to < Len(t) /\ t[d.to + 1].kind = "end"
DocsOK(t, ds, drained) ==
    /\ ds \in Seq(DocType)
    /\ IF t = <<>> THEN ds = <<>> \/ (Len(ds) = 1 /\ ds[1].from = 0 /\ drained)
       ELSE \A n \in DOMAIN ds : DocOK(t, ds[n], n, drained)

NamedIn(t, ds, n) ==
    LET above == {k \in 1..n-1 : \A m \in k..n-1 : HasPercent(t, ds[m].from, ds[m].to)}
    IN  UNION {VersionsIn(t, ds[k].from, ds[k].to) : k \in above}
ReadOK(t, r, s) == r.schema = IF t[r.at].kind = "content" THEN "none" ELSE s
SchemaOK(t, ds, n, o) ==
    /\ \A r \in ds[n].read : r.at \in DOMAIN t
    /\ ~HasPercent(t, ds[n].from, ds[n].to) =>
        /\ ds[n].schema \in Schemas
        /\ VersionIs(ds[n].schema, NamedIn(t, ds, n)) \/ (NamedIn(t, ds, n) = {} /\ ds[n].schema = o)
        /\ \A r \in ds[n].read : ReadOK(t, r, ds[n].schema)
SchemasOK(t, ds, o) == \A n \in DOMAIN ds : SchemaOK(t, ds, n, o)

(***************************************************************************)
(* Where the parse is: p tokens are taken.                                 *)
(***************************************************************************)
Fresh(t, p, rd) == \/ p = 0 \/ t[p].kind = "end"
                   \/ rd.out = <<>> /\ rd.drained
                   \/ rd.out # <<>> /\ BeginsIn(t, p + 1)
(* The body of dc is read up to p. *)
Reading(t, p, dc, rd) ==
    /\ dc.from \in 1 .. p /\ dc.to = p /\ ~dc.ended
    /\ BeginsIn(t, dc.from) /\ NoStops(t, dc.from + 1, p)
    /\ dc.directives > 0 <=> HasPercent(t, dc.from, p)
    /\ dc.directives = 0 => VersionsIn(t, dc.from, p) = {}
    /\ dc.directives = 0 /\ ~dc.content => Prefaced(t, p)
    /\ rd.tookDirective => t[p].kind \in Name
    /\ t[p].kind # "end"
(* It is over. *)
Over(t, p, dc) ==
    /\ dc.from \in 1 .. p /\ dc.to \in {p, p - 1} /\ dc.from <= dc.to
    /\ BeginsIn(t, dc.from) /\ NoStops(t, dc.from + 1, dc.to)
    /\ dc.directives > 0 <=> HasPercent(t, dc.from, dc.to)
    /\ dc.directives = 0 => VersionsIn(t, dc.from, dc.to) = {}
    /\ dc.ended => dc.to = p - 1 /\ t[p].kind = "end"
    /\ ~dc.ended => dc.to = p /\ t[p].kind # "end"
Closing(t, p, rd) == \/ rd.out = <<>> /\ rd.drained
                     \/ rd.out # <<>> /\ (t[p + 1].kind = "end" \/ BeginsIn(t, p + 1))

Place(t, p, ph, dc, ds, rd) ==
    \/ /\ ph = "open" /\ dc = NoDoc /\ Count(t, p) = Len(ds) /\ Fresh(t, p, rd)
    \/ /\ ph = "done" /\ dc = NoDoc /\ Count(t, p) = Len(ds) /\ p > 0
    \/ /\ ph = "judge" /\ dc = NoDoc /\ Count(t, p) = Len(ds)
       /\ p > 0 /\ t[p].kind = "end"
    \/ /\ ph = "judge" /\ dc = NewDoc(p) /\ Count(t, p) = Len(ds) + 1 /\ ~rd.tookDirective
       /\ p > 0 /\ t[p].kind = "header"
    \/ /\ ph = "judge" /\ Over(t, p, dc) /\ dc.ended /\ Count(t, p) = Len(ds) + 1
       /\ p > 0 /\ t[p].kind = "end"
    \/ /\ ph = "body" /\ dc = NewDoc(p + 1) /\ Count(t, p) = Len(ds) /\ ~rd.tookDirective
       /\ rd.out # <<>> /\ BeginsIn(t, p + 1) /\ t[p + 1].kind \notin {"header", "end"}
    \/ /\ ph = "body" /\ Reading(t, p, dc, rd) /\ Count(t, p) = Len(ds) + 1
    \/ /\ ph = "close" /\ Reading(t, p, dc, rd) /\ Count(t, p) = Len(ds) + 1 /\ Closing(t, p, rd)
    \/ /\ ph = "scope" /\ Over(t, p, dc) /\ Count(t, p) = Len(ds) + 1
       /\ (~dc.ended => Closing(t, p, rd) /\ (rd.out # <<>> => t[p+1].kind # "end"))

(* The tokens on a marker's line. *)
Judged(t, p, ph, rd) ==
    /\ \A i \in 1 .. p : i + 1 \in DOMAIN t /\ t[i].line = t[i+1].line /\ (i < p \/ ph # "judge") =>
           /\ t[i].kind # "end"
           /\ t[i].kind = "header" => t[i+1].kind # "entry"
    /\ ph # "judge" => rd.afterHeader = 0 /\ rd.afterEnd = 0
    /\ ph # "judge" /\ p > 0 /\ t[p].kind \in {"header", "end"} => rd.out # <<>> \/ rd.drained
Marked(t, p, ph, rd) ==
    ph = "judge" =>
        /\ p > 0
        /\ \/ t[p].kind = "end" /\ rd.afterEnd = t[p].line /\ rd.afterHeader = 0
           \/ t[p].kind = "header" /\ rd.afterHeader = t[p].line /\ rd.afterEnd = 0

(* The version in force, and what is resolved under it. *)
SchemaUnder(v, o) == IF v = "none" THEN o ELSE v
Here(t, p, dc) == IF dc.from > 0 THEN VersionsIn(t, dc.from, p) ELSE {}
Scoped(t, p, dc, ds, v, o, sc) ==
    /\ sc = SchemaUnder(v, o)
    /\ \A i \in p+1 .. Len(t) : t[i].schema = IF t[i].kind = "scalar" THEN sc ELSE "none"
    /\ VersionIs(v, NamedIn(t, ds, Len(ds) + 1) \cup Here(t, p, dc))
    /\ \A r \in dc.read : r.at \in 1 .. p
    /\ dc.directives = 0 => \A r \in dc.read : ReadOK(t, r, sc)

(* The stream of no tokens. *)
Tailed(t, rd, ph, dc, ds) ==
    /\ t = <<>> /\ rd.out = <<>> /\ rd.drained /\ ~rd.taken
    /\ \/ ph \in {"body", "close", "scope"} /\ dc = NewDoc(0) /\ ds = <<>>
       \/ ph \in {"open", "done"} /\ dc = NoDoc /\ Len(ds) = 1

(* Of what a refused parse leaves behind little is known but its fields.   *)
GrouperShape(x) ==
    /\ x = [header |-> x.header, window |-> x.window, directive |-> x.directive, err |-> x.err]
    /\ x.header \in Seq(UnitType) /\ x.window \in Seq(UnitType) /\ x.err \in BOOLEAN
ReaderShape(rd) ==
    /\ rd = [out |-> rd.out, drained |-> rd.drained, taken |-> rd.taken, tail |-> rd.tail,
             tookDirective |-> rd.tookDirective, afterHeader |-> rd.afterHeader,
             afterEnd |-> rd.afterEnd, err |-> rd.err]
    /\ \A b \in {rd.drained, rd.taken, rd.tail, rd.tookDirective, rd.err} : b \in BOOLEAN
Phases == {"open", "judge", "body", "close", "scope", "done", "refused"}
Types ==
    /\ option \in Schemas /\ schema \in Schemas /\ version \in Schemas \cup {"none"}
    /\ scanErr \in BOOLEAN /\ phase \in Phases
    /\ TapeOK(tape) /\ doc \in DocType
    /\ GrouperShape(g) /\ ReaderShape(reader)
Errors ==
    /\ g.err => reader.err \/ phase = "refused" \/ (reader.out = <<>> /\ ~reader.drained)
    /\ scanErr => reader.err \/ phase = "refused"
    /\ reader.err => phase \in {"body", "refused"}
    /\ phase \in {"scope", "done"} => reader.out # <<>> \/ reader.drained
    /\ phase = "done" => reader.out = <<>>

Live == ~g.err /\ ~reader.err /\ phase # "refused"
(* p tokens are taken, ... *)
TakenTo(p) ==
    /\ Ahead(tape, g, reader.out, reader.drained, p)
    /\ reader.taken <=> p > 0
    /\ Judged(tape, p, phase, reader) /\ Marked(tape, p, phase, reader)
(* ... they are those of the documents, ... *)
Stands(p) == IF reader.tail THEN Tailed(tape, reader, phase, doc, docs)
             ELSE Place(tape, p, phase, doc, docs, reader)
(* ... and the others are resolved under the version in force. *)
Resolved(p) == Scoped(tape, p, doc, docs, version, option, schema)

IInv ==
    /\ Types /\ Errors /\ DocsOK(tape, docs, reader.drained)
    /\ SchemasOK(tape, docs, option)
    /\ Live => \E p \in 0 .. Len(tape) : TakenTo(p) /\ Stands(p) /\ Resolved(p)

-----------------------------------------------------------------------------
(* Units in a row. *)

LEMMA UnitFields ==
    ASSUME NEW u \in UnitType
    PROVE  /\ u.line \in Nat /\ u.first \in Nat /\ u.last \in Nat
           /\ u.kind \in Kinds \cup {"literal", "directive"} /\ u.version \in Schemas \cup {"none"}
BY DEF UnitType

LEMMA UnitsOf ==
    ASSUME NEW us \in Seq(UnitType)
    PROVE  /\ Len(us) \in Nat /\ DOMAIN us = 1 .. Len(us) /\ (us = <<>> <=> Len(us) = 0)
           /\ \A i \in 1 .. Len(us) : us[i] \in UnitType
           /\ \A i \in 1 .. Len(us) : us[i].first \in Nat /\ us[i].last \in Nat
<1>1. /\ Len(us) \in Nat /\ DOMAIN us = 1 .. Len(us) /\ (us = <<>> <=> Len(us) = 0)
      /\ \A i \in 1 .. Len(us) : us[i] \in UnitType
  OBVIOUS
<1>2. QED  BY <1>1, UnitFields

LEMMA ChainEmpty ==
    ASSUME NEW a \in Nat
    PROVE  Chain(<<>>, a, a) /\ <<>> \in Seq(UnitType)
BY DEF Chain

LEMMA ChainAppend ==
    ASSUME NEW us \in Seq(UnitType), NEW u \in UnitType, NEW a \in Nat, NEW b \in Nat,
           Chain(us, a, b), a <= b, u.first = b, u.first <= u.last
    PROVE  Append(us, u) \in Seq(UnitType) /\ Chain(Append(us, u), a, u.last + 1)
<1> DEFINE v == Append(us, u)
           m == Len(us)
<1>1. /\ v \in Seq(UnitType) /\ Len(v) = m + 1 /\ m \in Nat
      /\ \A i \in 1 .. m : v[i] = us[i]
      /\ v[m + 1] = u
  OBVIOUS
<1>2. DOMAIN v = 1 .. m + 1 /\ DOMAIN us = 1 .. m /\ (us = <<>> <=> m = 0)  BY <1>1
<1>3. \A i \in 1 .. m : us[i].first \in Nat /\ us[i].last \in Nat  BY UnitsOf
<1>4. u.first \in Nat /\ u.last \in Nat  BY UnitFields
<1>5. /\ \A i \in 1 .. m : a <= us[i].first /\ us[i].first <= us[i].last /\ us[i].last < b
      /\ \A i, j \in 1 .. m : i < j => us[i].last < us[j].first
      /\ \A i \in 1 .. m : i + 1 \in 1 .. m => us[i+1].first = us[i].last + 1
  BY <1>2 DEF Chain
<1>6. (m = 0 => a = b) /\ (m # 0 => us[1].first = a /\ us[m].last = b - 1)
  BY <1>2 DEF Chain
<1> HIDE DEF v, m
<1>7. v[1].first = a  BY <1>1, <1>6
<1>8. \A i \in 1 .. m + 1 : a <= v[i].first /\ v[i].first <= v[i].last /\ v[i].last < u.last + 1
  <2> SUFFICES ASSUME NEW i \in 1 .. m + 1
               PROVE  a <= v[i].first /\ v[i].first <= v[i].last /\ v[i].last < u.last + 1
    OBVIOUS
  <2>1. CASE i = m + 1  BY <2>1, <1>1, <1>4
  <2>2. CASE i # m + 1
    <3>1. i \in 1 .. m /\ v[i] = us[i]  BY <2>2, <1>1
    <3> QED  BY <3>1, <1>3, <1>4, <1>5
  <2> QED  BY <2>1, <2>2
<1>9. \A i, j \in 1 .. m + 1 : i < j => v[i].last < v[j].first
  <2> SUFFICES ASSUME NEW i \in 1 .. m + 1, NEW j \in 1 .. m + 1, i < j
               PROVE  v[i].last < v[j].first
    OBVIOUS
  <2>1. i \in 1 .. m /\ v[i] = us[i]  BY <1>1
  <2>2. CASE j = m + 1  BY <2>1, <2>2, <1>1, <1>3, <1>4, <1>5
  <2>3. CASE j # m + 1
    <3>1. j \in 1 .. m /\ v[j] = us[j]  BY <2>3, <1>1
    <3> QED  BY <3>1, <2>1, <1>5
  <2> QED  BY <2>2, <2>3
<1>10. \A i \in 1 .. m + 1 : i + 1 \in 1 .. m + 1 => v[i+1].first = v[i].last + 1
  <2> SUFFICES ASSUME NEW i \in 1 .. m + 1, i + 1 \in 1 .. m + 1
               PROVE  v[i+1].first = v[i].last + 1
    OBVIOUS
  <2>1. i \in 1 .. m /\ v[i] = us[i]  BY <1>1
  <2>2. CASE i = m  BY <2>1, <2>2, <1>1, <1>3, <1>6
  <2>3. CASE i # m
    <3>1. i + 1 \in 1 .. m /\ v[i+1] = us[i+1]  BY <2>3, <2>1, <1>1
    <3> QED  BY <3>1, <2>1, <1>5
  <2> QED  BY <2>2, <2>3
<1>11. v # <<>>  BY <1>1
<1>12. Chain(v, a, u.last + 1)
  <2>1. Len(v) = m + 1 /\ DOMAIN v = 1 .. m + 1  BY <1>1, <1>2
  <2> DEFINE c == u.last + 1
  <2>2. v[m + 1].last = c - 1  BY <1>1, <1>4
  <2>3. \A i \in 1 .. m + 1 : a <= v[i].first /\ v[i].first <= v[i].last /\ v[i].last < c  BY <1>8
  <2> HIDE DEF c
  <2>4. Chain(v, a, c)  BY <2>1, <2>2, <2>3, <1>7, <1>9, <1>10, <1>11, Zenon DEF Chain
  <2> QED  BY <2>4 DEF c
<1>13. QED  BY <1>1, <1>12 DEF v

LEMMA ChainConcat ==
    ASSUME NEW x \in Seq(UnitType), NEW y \in Seq(UnitType),
           NEW a \in Nat, NEW b \in Nat, NEW c \in Nat,
           Chain(x, a, b), Chain(y, b, c), a <= b, b <= c
    PROVE  x \o y \in Seq(UnitType) /\ Chain(x \o y, a, c)
<1> DEFINE z == x \o y
           m == Len(x)
           n == Len(y)
<1>1. /\ z \in Seq(UnitType) /\ Len(z) = m + n /\ m \in Nat /\ n \in Nat
      /\ \A i \in 1 .. m + n : z[i] = IF i <= m THEN x[i] ELSE y[i - m]
  BY ConcatProperties
<1>2. DOMAIN z = 1 .. m + n /\ DOMAIN x = 1 .. m /\ DOMAIN y = 1 .. n  BY <1>1
<1>3. /\ \A i \in 1 .. m : x[i].first \in Nat /\ x[i].last \in Nat
      /\ \A i \in 1 .. n : y[i].first \in Nat /\ y[i].last \in Nat
  BY UnitsOf
<1>4. (x = <<>> <=> m = 0) /\ (y = <<>> <=> n = 0) /\ (z = <<>> <=> m + n = 0)  BY <1>1
<1> HIDE DEF z, m, n
<1>5. m + n = 0 => a = c  BY <1>1, <1>4 DEF Chain
<1>6. m + n # 0 => z[1].first = a /\ z[m + n].last = c - 1
  <2> SUFFICES ASSUME m + n # 0 PROVE z[1].first = a /\ z[m + n].last = c - 1  OBVIOUS
  <2>1. z[1].first = a
    <3>1. CASE m = 0  BY <3>1, <1>1, <1>4 DEF Chain
    <3>2. CASE m # 0  BY <3>2, <1>1, <1>4 DEF Chain
    <3> QED  BY <3>1, <3>2
  <2>2. z[m + n].last = c - 1
    <3>1. CASE n = 0
      <4>1. m + n = m /\ m # 0 /\ b = c  BY <3>1, <1>1, <1>4 DEF Chain
      <4>2. x[m].last = b - 1  BY <4>1, <1>4 DEF Chain, m
      <4> QED  BY <4>1, <4>2, <1>1
    <3>2. CASE n # 0
      <4>1. y[n].last = c - 1  BY <3>2, <1>4 DEF Chain, n
      <4>2. z[m + n] = y[n]  BY <3>2, <1>1
      <4> QED  BY <4>1, <4>2
    <3> QED  BY <3>1, <3>2
  <2> QED  BY <2>1, <2>2
<1>7. \A i \in 1 .. m : a <= x[i].first /\ x[i].first <= x[i].last /\ x[i].last < b
  BY <1>2 DEF Chain
<1>8. \A i \in 1 .. n : b <= y[i].first /\ y[i].first <= y[i].last /\ y[i].last < c
  BY <1>2 DEF Chain
<1>9. \A i \in 1 .. m + n : a <= z[i].first /\ z[i].first <= z[i].last /\ z[i].last < c
  <2> SUFFICES ASSUME NEW i \in 1 .. m + n
               PROVE  a <= z[i].first /\ z[i].first <= z[i].last /\ z[i].last < c
    OBVIOUS
  <2>1. CASE i <= m
    <3>1. i \in 1 .. m /\ z[i] = x[i]  BY <2>1, <1>1
    <3> QED  BY <3>1, <1>3, <1>7
  <2>2. CASE i > m
    <3>1. i - m \in 1 .. n /\ z[i] = y[i - m]  BY <2>2, <1>1
    <3> QED  BY <3>1, <1>3, <1>8
  <2> QED  BY <2>1, <2>2, <1>1
<1>10. \A i, j \in 1 .. m + n : i < j => z[i].last < z[j].first
  <2> SUFFICES ASSUME NEW i \in 1 .. m + n, NEW j \in 1 .. m + n, i < j
               PROVE  z[i].last < z[j].first
    OBVIOUS
  <2>1. CASE j <= m
    <3>1. i \in 1 .. m /\ j \in 1 .. m /\ z[i] = x[i] /\ z[j] = x[j]  BY <2>1, <1>1
    <3> QED  BY <3>1, <1>2 DEF Chain
  <2>2. CASE i <= m /\ m < j
    <3>1. i \in 1 .. m /\ j - m \in 1 .. n /\ z[i] = x[i] /\ z[j] = y[j - m]  BY <2>2, <1>1
    <3> QED  BY <3>1, <1>7, <1>8, <1>3
  <2>3. CASE m < i
    <3>1. i - m \in 1 .. n /\ j - m \in 1 .. n /\ z[i] = y[i - m] /\ z[j] = y[j - m] /\ i - m < j - m
      BY <2>3, <1>1
    <3> QED  BY <3>1, <1>2 DEF Chain
  <2> QED  BY <2>1, <2>2, <2>3, <1>1
<1>11. \A i \in 1 .. m + n : i + 1 \in 1 .. m + n => z[i+1].first = z[i].last + 1
  <2> SUFFICES ASSUME NEW i \in 1 .. m + n, i + 1 \in 1 .. m + n
               PROVE  z[i+1].first = z[i].last + 1
    OBVIOUS
  <2>1. CASE i + 1 <= m
    <3>1. i \in 1 .. m /\ i + 1 \in 1 .. m /\ z[i] = x[i] /\ z[i+1] = x[i+1]  BY <2>1, <1>1
    <3> QED  BY <3>1, <1>2 DEF Chain
  <2>2. CASE i = m
    <3>1. m # 0 /\ n # 0 /\ z[i] = x[m] /\ z[i+1] = y[1]  BY <2>2, <1>1
    <3>2. x[m].last = b - 1 /\ y[1].first = b  BY <3>1, <1>4 DEF Chain, m
    <3> QED  BY <3>1, <3>2
  <2>3. CASE m < i
    <3>1. i - m \in 1 .. n /\ (i - m) + 1 \in 1 .. n /\ z[i] = y[i - m] /\ z[i+1] = y[(i - m) + 1]
      BY <2>3, <1>1
    <3> QED  BY <3>1, <1>2 DEF Chain
  <2> QED  BY <2>1, <2>2, <2>3, <1>1
<1>12. Chain(z, a, c)  BY <1>1, <1>2, <1>4, <1>5, <1>6, <1>9, <1>10, <1>11 DEF Chain
<1>13. QED  BY <1>1, <1>12 DEF z

LEMMA ChainTail ==
    ASSUME NEW us \in Seq(UnitType), NEW a \in Nat, NEW b \in Nat, Chain(us, a, b), us # <<>>
    PROVE  /\ us[1] \in UnitType /\ us[1].first = a /\ a <= us[1].last /\ us[1].last < b
           /\ Tail(us) \in Seq(UnitType) /\ Chain(Tail(us), us[1].last + 1, b)
           /\ \A i \in DOMAIN Tail(us) : i + 1 \in DOMAIN us /\ Tail(us)[i] = us[i+1]
<1> DEFINE v == Tail(us)
           m == Len(us)
           c == us[1].last + 1
<1>1. /\ v \in Seq(UnitType) /\ m \in Nat \ {0} /\ Len(v) = m - 1
      /\ \A i \in 1 .. m - 1 : v[i] = us[i+1]
      /\ us[1] \in UnitType
  BY HeadTailProperties
<1> HIDE DEF v
<1>2. DOMAIN v = 1 .. m - 1 /\ DOMAIN us = 1 .. m /\ (v = <<>> <=> m = 1)
  <2>1. DOMAIN v = 1 .. Len(v) /\ (v = <<>> <=> Len(v) = 0)  BY <1>1, UnitsOf
  <2> QED  BY <2>1, <1>1
<1>3. \A i \in 1 .. m : us[i].first \in Nat /\ us[i].last \in Nat  BY UnitsOf
<1>4. /\ \A i \in 1 .. m : a <= us[i].first /\ us[i].first <= us[i].last /\ us[i].last < b
      /\ \A i, j \in 1 .. m : i < j => us[i].last < us[j].first
      /\ \A i \in 1 .. m : i + 1 \in 1 .. m => us[i+1].first = us[i].last + 1
      /\ us[1].first = a /\ us[m].last = b - 1
  BY <1>2 DEF Chain
<1>5. c \in Nat /\ a <= us[1].last /\ us[1].last < b  BY <1>1, <1>3, <1>4
<1>6. \A i \in 1 .. m - 1 : i + 1 \in 1 .. m  BY <1>1
<1> HIDE DEF v, m
<1>7. m = 1 => c = b
  <2> SUFFICES ASSUME m = 1 PROVE c = b  OBVIOUS
  <2>1. us[1].last = b - 1 /\ us[1].last \in Nat  BY <1>4, <1>3
  <2> QED  BY <2>1
<1>8. m # 1 => v[1].first = c /\ v[m - 1].last = b - 1
  <2> SUFFICES ASSUME m # 1 PROVE v[1].first = c /\ v[m - 1].last = b - 1  OBVIOUS
  <2>1. 1 \in 1 .. m - 1 /\ m - 1 \in 1 .. m - 1 /\ 1 \in 1 .. m /\ 1 + 1 \in 1 .. m  BY <1>1
  <2>2. v[1] = us[1 + 1] /\ v[m - 1] = us[(m - 1) + 1] /\ (m - 1) + 1 = m  BY <1>1, <2>1
  <2> QED  BY <2>1, <2>2, <1>4
<1>9. \A i \in 1 .. m - 1 : c <= v[i].first /\ v[i].first <= v[i].last /\ v[i].last < b
  <2> SUFFICES ASSUME NEW i \in 1 .. m - 1
               PROVE  c <= v[i].first /\ v[i].first <= v[i].last /\ v[i].last < b
    OBVIOUS
  <2>1. 1 \in 1 .. m /\ i + 1 \in 1 .. m /\ 1 < i + 1 /\ v[i] = us[i+1]  BY <1>1
  <2>2. us[1].last < us[i+1].first  BY <2>1, <1>4
  <2> QED  BY <2>1, <2>2, <1>3, <1>4
<1>10. \A i, j \in 1 .. m - 1 : i < j => v[i].last < v[j].first
  <2> SUFFICES ASSUME NEW i \in 1 .. m - 1, NEW j \in 1 .. m - 1, i < j
               PROVE  v[i].last < v[j].first
    OBVIOUS
  <2>1. i + 1 \in 1 .. m /\ j + 1 \in 1 .. m /\ i + 1 < j + 1 /\ v[i] = us[i+1] /\ v[j] = us[j+1]
    BY <1>1
  <2> QED  BY <2>1, <1>4
<1>11. \A i \in 1 .. m - 1 : i + 1 \in 1 .. m - 1 => v[i+1].first = v[i].last + 1
  <2> SUFFICES ASSUME NEW i \in 1 .. m - 1, i + 1 \in 1 .. m - 1
               PROVE  v[i+1].first = v[i].last + 1
    OBVIOUS
  <2>1. i + 1 \in 1 .. m /\ (i + 1) + 1 \in 1 .. m /\ v[i] = us[i+1] /\ v[i+1] = us[(i+1)+1]
    BY <1>1
  <2> QED  BY <2>1, <1>4
<1> HIDE DEF c
<1>12. Chain(v, c, b)
  <2>1. Len(v) = m - 1 /\ DOMAIN v = 1 .. m - 1 /\ (v = <<>> <=> m = 1)  BY <1>1, <1>2
  <2> QED  BY <2>1, <1>7, <1>8, <1>9, <1>10, <1>11, Zenon DEF Chain
<1>13. QED  BY <1>1, <1>2, <1>4, <1>5, <1>6, <1>12 DEF v, c

(* A row of units cut in two. *)
LEMMA ChainSplit ==
    ASSUME NEW us \in Seq(UnitType), NEW a \in Nat, NEW b \in Nat, Chain(us, a, b), a <= b,
           NEW k \in 1 .. Len(us) + 1
    PROVE  \E c \in a .. b :
              /\ SubSeq(us, 1, k - 1) \in Seq(UnitType) /\ Chain(SubSeq(us, 1, k - 1), a, c)
              /\ SubSeq(us, k, Len(us)) \in Seq(UnitType) /\ Chain(SubSeq(us, k, Len(us)), c, b)
<1> DEFINE m == Len(us)
           x == SubSeq(us, 1, k - 1)
           y == SubSeq(us, k, m)
<1>1. m \in Nat /\ DOMAIN us = 1 .. m /\ (us = <<>> <=> m = 0)  OBVIOUS
<1>2. \A i \in 1 .. m : us[i] \in UnitType /\ us[i].first \in Nat /\ us[i].last \in Nat  BY UnitsOf
<1>3. /\ \A i \in 1 .. m : a <= us[i].first /\ us[i].first <= us[i].last /\ us[i].last < b
      /\ \A i, j \in 1 .. m : i < j => us[i].last < us[j].first
      /\ \A i \in 1 .. m : i + 1 \in 1 .. m => us[i+1].first = us[i].last + 1
  BY <1>1 DEF Chain
<1>4. (m = 0 => a = b) /\ (m # 0 => us[1].first = a /\ us[m].last = b - 1)
  BY <1>1 DEF Chain
<1>5. /\ x \in Seq(UnitType) /\ Len(x) = k - 1 /\ \A i \in 1 .. k - 1 : x[i] = us[i]
  <2>1. k - 1 \in Int /\ \A i \in 1 .. k - 1 : us[i] \in UnitType  BY <1>1, <1>2
  <2> QED  BY <2>1, SubSeqProperties
<1>6. /\ y \in Seq(UnitType) /\ Len(y) = m - k + 1
      /\ \A i \in 1 .. m - k + 1 : y[i] = us[k + i - 1]
  <2>1. k \in Int /\ \A i \in k .. m : us[i] \in UnitType  BY <1>1, <1>2
  <2> QED  BY <2>1, <1>1, SubSeqProperties
<1> HIDE DEF x, y
<1>7. /\ DOMAIN x = 1 .. k - 1 /\ (x = <<>> <=> k = 1)
      /\ DOMAIN y = 1 .. m - k + 1 /\ (y = <<>> <=> m - k + 1 = 0)
  <2>1. DOMAIN x = 1 .. Len(x) /\ (x = <<>> <=> Len(x) = 0)  BY <1>5, UnitsOf
  <2>2. DOMAIN y = 1 .. Len(y) /\ (y = <<>> <=> Len(y) = 0)  BY <1>6, UnitsOf
  <2> QED  BY <2>1, <2>2, <1>5, <1>6
<1> HIDE DEF m
<1>8. PICK c \in a .. b : /\ k = 1 => c = a
                          /\ k = m + 1 => c = b
                          /\ k > 1 => c = us[k - 1].last + 1
                          /\ k < m + 1 => c = us[k].first
  <2>1. CASE k = m + 1  BY <2>1, <1>1, <1>2, <1>3, <1>4
  <2>2. CASE k # m + 1
    <3>1. k \in 1 .. m  BY <2>2, <1>1 DEF m
    <3>2. us[k].first \in a .. b  BY <3>1, <1>2, <1>3
    <3>3. k = 1 => us[k].first = a  BY <3>1, <1>4
    <3>4. k > 1 => us[k].first = us[k - 1].last + 1
      <4> SUFFICES ASSUME k > 1 PROVE us[k].first = us[k - 1].last + 1  OBVIOUS
      <4>1. k - 1 \in 1 .. m /\ (k - 1) + 1 \in 1 .. m /\ (k - 1) + 1 = k  BY <3>1, <1>1
      <4> QED  BY <4>1, <1>3
    <3> QED  BY <3>1, <3>2, <3>3, <3>4, <2>2
  <2> QED  BY <2>1, <2>2
<1>9. Chain(x, a, c)
  <2>1. \A i \in 1 .. k - 1 : i \in 1 .. m  BY <1>1 DEF m
  <2>2. \A i \in 1 .. k - 1 : a <= x[i].first /\ x[i].first <= x[i].last /\ x[i].last < c
    <3> SUFFICES ASSUME NEW i \in 1 .. k - 1
                 PROVE  a <= x[i].first /\ x[i].first <= x[i].last /\ x[i].last < c
      OBVIOUS
    <3>1. i \in 1 .. m /\ x[i] = us[i] /\ k > 1 /\ k - 1 \in 1 .. m  BY <2>1, <1>5, <1>1 DEF m
    <3>2. us[i].last <= us[k - 1].last
      <4>1. CASE i = k - 1  BY <4>1, <3>1, <1>2
      <4>2. CASE i < k - 1
        <5>1. us[i].last < us[k - 1].first /\ us[k - 1].first <= us[k - 1].last  BY <3>1, <4>2, <1>3
        <5> QED  BY <5>1, <3>1, <1>2
      <4> QED  BY <4>1, <4>2
    <3> QED  BY <3>1, <3>2, <1>2, <1>3, <1>8
  <2>3. \A i, j \in 1 .. k - 1 : i < j => x[i].last < x[j].first  BY <2>1, <1>5, <1>3
  <2>4. \A i \in 1 .. k - 1 : i + 1 \in 1 .. k - 1 => x[i+1].first = x[i].last + 1
    BY <2>1, <1>5, <1>3
  <2>5. k # 1 => x[1].first = a /\ x[k - 1].last = c - 1
    <3> SUFFICES ASSUME k # 1 PROVE x[1].first = a /\ x[k - 1].last = c - 1  OBVIOUS
    <3>1. 1 \in 1 .. k - 1 /\ k - 1 \in 1 .. k - 1 /\ k > 1 /\ k - 1 \in 1 .. m /\ m # 0
      BY <1>1 DEF m
    <3>2. x[1] = us[1] /\ x[k - 1] = us[k - 1] /\ us[k - 1].last \in Nat  BY <3>1, <1>5, <1>2
    <3> QED  BY <3>1, <3>2, <1>4, <1>8
  <2>6. k = 1 => a = c  BY <1>8
  <2> QED  BY <1>5, <1>7, <2>2, <2>3, <2>4, <2>5, <2>6, Zenon DEF Chain
<1>10. Chain(y, c, b)
  <2> DEFINE n == m - k + 1
  <2>1. n \in Nat /\ \A i \in 1 .. n : k + i - 1 \in 1 .. m /\ k \in 1 .. m  BY <1>1 DEF m
  <2>2. \A i \in 1 .. n : c <= y[i].first /\ y[i].first <= y[i].last /\ y[i].last < b
    <3> SUFFICES ASSUME NEW i \in 1 .. n
                 PROVE  c <= y[i].first /\ y[i].first <= y[i].last /\ y[i].last < b
      OBVIOUS
    <3>1. k + i - 1 \in 1 .. m /\ y[i] = us[k + i - 1] /\ k < m + 1 /\ k \in 1 .. m  BY <2>1, <1>6, <1>1
    <3>2. us[k].first <= us[k + i - 1].first
      <4>1. CASE i = 1  BY <4>1, <3>1, <1>2
      <4>2. CASE i # 1
        <5>1. k < k + i - 1  BY <4>2, <3>1
        <5>2. us[k].last < us[k + i - 1].first /\ us[k].first <= us[k].last  BY <3>1, <5>1, <1>3
        <5> QED  BY <5>2, <3>1, <1>2
      <4> QED  BY <4>1, <4>2
    <3> QED  BY <3>1, <3>2, <1>3, <1>8
  <2>3. \A i, j \in 1 .. n : i < j => y[i].last < y[j].first
    <3> SUFFICES ASSUME NEW i \in 1 .. n, NEW j \in 1 .. n, i < j PROVE y[i].last < y[j].first
      OBVIOUS
    <3>1. /\ k + i - 1 \in 1 .. m /\ k + j - 1 \in 1 .. m /\ k + i - 1 < k + j - 1
          /\ y[i] = us[k + i - 1] /\ y[j] = us[k + j - 1]
      BY <2>1, <1>6
    <3> QED  BY <3>1, <1>3
  <2>4. \A i \in 1 .. n : i + 1 \in 1 .. n => y[i+1].first = y[i].last + 1
    <3> SUFFICES ASSUME NEW i \in 1 .. n, i + 1 \in 1 .. n PROVE y[i+1].first = y[i].last + 1
      OBVIOUS
    <3>1. /\ k + i - 1 \in 1 .. m /\ (k + i - 1) + 1 \in 1 .. m
          /\ y[i] = us[k + i - 1] /\ y[i + 1] = us[k + (i + 1) - 1] /\ k + (i + 1) - 1 = (k + i - 1) + 1
      BY <2>1, <1>6, <1>1
    <3> QED  BY <3>1, <1>3
  <2>5. n # 0 => y[1].first = c /\ y[n].last = b - 1
    <3> SUFFICES ASSUME n # 0 PROVE y[1].first = c /\ y[n].last = b - 1  OBVIOUS
    <3>1. 1 \in 1 .. n /\ n \in 1 .. n /\ k + 1 - 1 = k /\ k + n - 1 = m /\ k < m + 1 /\ m # 0
      BY <2>1, <1>1
    <3>2. y[1] = us[k] /\ y[n] = us[m]  BY <3>1, <1>6
    <3> QED  BY <3>1, <3>2, <1>4, <1>8
  <2>6. n = 0 => c = b  BY <1>8, <1>1
  <2> HIDE DEF n
  <2>7. Len(y) = n /\ DOMAIN y = 1 .. n /\ (y = <<>> <=> n = 0)  BY <1>6, <1>7 DEF n
  <2> QED  BY <2>7, <2>2, <2>3, <2>4, <2>5, <2>6, Zenon DEF Chain
<1>11. QED  BY <1>5, <1>6, <1>9, <1>10 DEF x, y, m

-----------------------------------------------------------------------------
(* Tokens that have the kinds and the lines of t, and may have more.       *)

Same(t, w) ==
    /\ Len(t) <= Len(w)
    /\ \A i \in 1 .. Len(t) : w[i].kind = t[i].kind /\ w[i].line = t[i].line

LEMMA TapeFacts ==
    ASSUME NEW t, TapeOK(t)
    PROVE  /\ Len(t) \in Nat /\ DOMAIN t = 1 .. Len(t) /\ (t = <<>> <=> Len(t) = 0)
           /\ \A i \in 1 .. Len(t) : t[i] \in Token
           /\ \A i \in 1 .. Len(t) : t[i].kind \in Kinds /\ t[i].line \in Nat /\ t[i].line > 0
<1>1. t \in Seq(Token)  BY DEF TapeOK
<1>2. /\ Len(t) \in Nat /\ DOMAIN t = 1 .. Len(t) /\ (t = <<>> <=> Len(t) = 0)
      /\ \A i \in 1 .. Len(t) : t[i] \in Token
  BY <1>1
<1>3. \A x \in Token : x.kind \in Kinds /\ x.line \in Nat /\ x.line > 0  BY DEF Token
<1>4. QED  BY <1>2, <1>3

LEMMA SameVersions ==
    ASSUME NEW t, NEW w, Same(t, w), NEW a, NEW b, \A i \in a .. b : i \in 1 .. Len(t)
    PROVE  VersionsIn(w, a, b) = VersionsIn(t, a, b)
<1>1. \A i \in a .. b : w[i].kind = t[i].kind  BY DEF Same
<1>2. {j \in a .. b : w[j].kind \in Schemas} = {j \in a .. b : t[j].kind \in Schemas}  BY <1>1
<1>3. \A j \in {j \in a .. b : t[j].kind \in Schemas} : w[j].kind = t[j].kind  BY <1>1
<1> DEFINE S == {j \in a .. b : t[j].kind \in Schemas}
<1> HIDE DEF S
<1>4. {w[i].kind : i \in S} = {t[i].kind : i \in S}  BY <1>3 DEF S
<1>5. QED  BY <1>2, <1>4 DEF VersionsIn, S

LEMMA UnitAfter ==
    ASSUME NEW t, NEW w, TapeOK(t), TapeOK(w), Same(t, w), NEW u
    PROVE  (InUnit(t, u) => InUnit(w, u)) /\ (OutUnit(t, u) => OutUnit(w, u))
<1>1. /\ Len(t) \in Nat /\ Len(w) \in Nat /\ DOMAIN t = 1 .. Len(t) /\ DOMAIN w = 1 .. Len(w)
  BY TapeFacts
<1>2. \A i \in DOMAIN t : i \in DOMAIN w /\ w[i].kind = t[i].kind /\ w[i].line = t[i].line
  BY <1>1 DEF Same
<1>3. InUnit(t, u) => InUnit(w, u)  BY <1>2 DEF InUnit, IsSingle, IsLiteral
<1>4. IsDirective(t, u) => IsDirective(w, u)
  <2> SUFFICES ASSUME IsDirective(t, u) PROVE IsDirective(w, u)  OBVIOUS
  <2>1. u.first \in DOMAIN t /\ u.last \in DOMAIN t  BY DEF IsDirective
  <2>2. \A i \in u.first .. u.last : i \in 1 .. Len(t)  BY <2>1, <1>1
  <2>3. VersionsIn(w, u.first, u.last) = VersionsIn(t, u.first, u.last)  BY <2>2, SameVersions
  <2>4. \A i \in u.first+1 .. u.last : i \in DOMAIN t  BY <2>1, <1>1
  <2> QED  BY <1>2, <2>1, <2>3, <2>4 DEF IsDirective
<1>5. QED  BY <1>3, <1>4 DEF OutUnit

LEMMA FollowedAfter ==
    ASSUME NEW t, NEW w, TapeOK(t), TapeOK(w), Same(t, w), NEW i \in 1 .. Len(t), FollowedAt(t, i)
    PROVE  FollowedAt(w, i)
<1>1. /\ Len(t) \in Nat /\ Len(w) \in Nat /\ DOMAIN t = 1 .. Len(t) /\ DOMAIN w = 1 .. Len(w)
  BY TapeFacts
<1>2. \A j \in DOMAIN t : j \in DOMAIN w /\ w[j].kind = t[j].kind /\ w[j].line = t[j].line
  BY <1>1 DEF Same
<1>3. PICK j \in DOMAIN t : /\ j > i /\ t[j].kind \in {"header", "percent"}
                            /\ \A k \in i+1 .. j-1 : \/ t[k].line = t[i].line
                                                     \/ t[k].kind = "comment"
  BY DEF FollowedAt
<1>4. \A k \in i+1 .. j-1 : k \in DOMAIN t  BY <1>1, <1>3
<1>5. QED  BY <1>1, <1>2, <1>3, <1>4 DEF FollowedAt

LEMMA PassedAfter ==
    ASSUME NEW t, NEW w, TapeOK(t), TapeOK(w), Same(t, w),
           NEW d, NEW out, NEW p, NEW r, Passed(t, d, out, p, r)
    PROVE  Passed(w, d, out, p, r)
<1>1. /\ Len(t) \in Nat /\ Len(w) \in Nat /\ DOMAIN t = 1 .. Len(t) /\ DOMAIN w = 1 .. Len(w)
  BY TapeFacts
<1>2. \A i \in 1 .. Len(t) : w[i].kind = t[i].kind /\ w[i].line = t[i].line  BY DEF Same
<1>3. p \in Nat /\ r \in Nat /\ p <= r /\ r <= Len(t) /\ r <= Len(w)  BY <1>1 DEF Passed, Same
<1>4. \A i \in DOMAIN out : OutUnit(w, out[i])  BY UnitAfter DEF Passed
<1>5. NoneHeld(t, d, out, p, r) => NoneHeld(w, d, out, p, r)  BY <1>2, <1>3 DEF NoneHeld
<1>6. Unnamed(t, d, out, p, r) => Unnamed(w, d, out, p, r)
  <2> SUFFICES ASSUME Unnamed(t, d, out, p, r) PROVE Unnamed(w, d, out, p, r)  OBVIOUS
  <2>1. r > 0  BY DEF Unnamed
  <2>2. w[r].kind = t[r].kind /\ w[r].line = t[r].line  BY <2>1, <1>2, <1>3
  <2> QED  BY <2>2 DEF Unnamed
<1>7. AtName(t, d, out, p, r) => AtName(w, d, out, p, r)
  <2> SUFFICES ASSUME AtName(t, d, out, p, r) PROVE AtName(w, d, out, p, r)  OBVIOUS
  <2>1. d.first \in Nat /\ d.name \in Nat /\ d.last \in Nat  BY DEF Passed, DirectiveType
  <2>2. 0 < d.first /\ d.name = d.first + 1 /\ d.name <= d.last /\ d.last <= r  BY DEF AtName
  <2>3. d.first \in 1 .. Len(t) /\ \A i \in d.first .. d.last : i \in 1 .. Len(t)
    BY <2>1, <2>2, <1>3
  <2>4. VersionsIn(w, d.first, d.last) = VersionsIn(t, d.first, d.last)  BY <2>3, SameVersions
  <2>5. \A i \in d.name .. d.last : i \in 1 .. Len(t)  BY <2>1, <2>2, <1>3
  <2>6. \A i \in d.last + 1 .. r : i \in 1 .. Len(t)  BY <2>1, <2>2, <1>3
  <2>7. \A i \in DOMAIN d.comments : InUnit(w, d.comments[i])  BY UnitAfter DEF AtName
  <2> QED  BY <1>2, <2>2, <2>3, <2>4, <2>5, <2>6, <2>7 DEF AtName
<1>8. \A i \in 1 .. r : w[i].kind = "percent" /\ i # d.first => FollowedAt(w, i)
  <2> SUFFICES ASSUME NEW i \in 1 .. r, w[i].kind = "percent", i # d.first
               PROVE  FollowedAt(w, i)
    OBVIOUS
  <2>1. i \in 1 .. Len(t)  BY <1>3
  <2>2. FollowedAt(t, i)  BY <1>2, <2>1 DEF Passed
  <2> QED  BY <2>1, <2>2, FollowedAfter
<1>9. QED  BY <1>3, <1>4, <1>5, <1>6, <1>7, <1>8 DEF Passed

LEMMA GroupedAfter ==
    ASSUME NEW t, NEW w, TapeOK(t), TapeOK(w), Same(t, w),
           NEW x, NEW out, NEW p, NEW m \in 0 .. Len(t), Grouped(t, x, out, p, m)
    PROVE  Grouped(w, x, out, p, m)
<1>1. PICK r \in 0 .. m, s \in 0 .. m :
        Passed(t, x.directive, out, p, r) /\ Held(t, x.window, r, s) /\ Opened(t, x.header, s, m)
  BY DEF Grouped
<1>2. Passed(w, x.directive, out, p, r)  BY <1>1, PassedAfter
<1>3. Held(w, x.window, r, s)  BY <1>1, UnitAfter DEF Held
<1>4. Opened(w, x.header, s, m)
  <2>1. CASE x.header = <<>>
    <3>1. s = m /\ (m > 0 => t[m].kind # "block")  BY <1>1, <2>1 DEF Opened
    <3>2. m > 0 => m \in 1 .. Len(t)  OBVIOUS
    <3> QED  BY <2>1, <3>1, <3>2 DEF Opened, Same
  <2>2. CASE x.header # <<>>
    <3>1. s + 1 = m /\ t[m].kind = "block" /\ x.header = <<Unit("block", t[m].line, m)>>
      BY <1>1, <2>2 DEF Opened
    <3>2. m \in 1 .. Len(t)  BY <3>1
    <3> QED  BY <3>1, <3>2 DEF Opened, Same
  <2> QED  BY <2>1, <2>2
<1>5. QED  BY <1>2, <1>3, <1>4 DEF Grouped

-----------------------------------------------------------------------------
(* The directives' stage, a unit at a time. *)

HandedShape(h) == h = Handed(h.g, h.out) /\ GrouperShape(h.g)

(* What a unit does to the stage. *)
Becomes(h, d, out, n) == n = Handed([h.g EXCEPT !.directive = d], out)
Begun(u) == [NoDirective EXCEPT !.line = u.line, !.first = u.first, !.last = u.last]
VersionBy(u, d) == IF u.kind \in {"1.1", "1.2"} THEN u.kind ELSE d.version

LEMMA StepCases ==
    ASSUME NEW h, NEW u
    PROVE  LET d == h.g.directive
               n == ToDirectives(h, u)
           IN  /\ d.first = 0 /\ u.kind = "percent" => Becomes(h, Begun(u), h.out, n)
               /\ d.first = 0 /\ u.kind # "percent" => Becomes(h, NoDirective, Append(h.out, u), n)
               /\ d.first # 0 /\ d.name = 0 =>
                      Becomes(h, [d EXCEPT !.name = u.first, !.last = u.last], h.out, n)
               /\ d.first # 0 /\ d.name # 0 /\ u.line = d.line =>
                      Becomes(h, [d EXCEPT !.last = u.last, !.version = VersionBy(u, d)], h.out, n)
               /\ d.first # 0 /\ d.name # 0 /\ u.line # d.line /\ u.kind = "comment" =>
                      Becomes(h, [d EXCEPT !.comments = Append(d.comments, u)], h.out, n)
               /\ d.first # 0 /\ d.name # 0 /\ u.line # d.line /\ u.kind = "percent" =>
                      Becomes(h, Begun(u), h.out \o Emitted(d), n)
               /\ d.first # 0 /\ d.name # 0 /\ u.line # d.line /\ u.kind = "header" =>
                      Becomes(h, NoDirective, Append(h.out \o Emitted(d), u), n)
               /\ d.first # 0 /\ d.name # 0 /\ u.line # d.line
                     /\ u.kind \notin {"comment", "header", "percent"} =>
                      n = Handed([h.g EXCEPT !.err = TRUE], h.out)
<1> DEFINE d == h.g.directive
<1>1. CASE d.first = 0  BY <1>1 DEF ToDirectives, Becomes, Begun
<1>2. CASE d.first # 0 /\ d.name = 0  BY <1>2 DEF ToDirectives, Becomes
<1>3. CASE d.first # 0 /\ d.name # 0 /\ u.line = d.line
  BY <1>3 DEF ToDirectives, Becomes, VersionBy
<1>4. CASE d.first # 0 /\ d.name # 0 /\ u.line # d.line /\ u.kind = "comment"
  BY <1>4 DEF ToDirectives, Becomes
<1>5. CASE d.first # 0 /\ d.name # 0 /\ u.line # d.line /\ u.kind = "percent"
  BY <1>5 DEF ToDirectives, Becomes, Begun
<1>6. CASE d.first # 0 /\ d.name # 0 /\ u.line # d.line /\ u.kind = "header"
  BY <1>6 DEF ToDirectives, Becomes
<1>7. CASE d.first # 0 /\ d.name # 0 /\ u.line # d.line /\ u.kind \notin {"comment", "header", "percent"}
  BY <1>7 DEF ToDirectives
<1>8. QED  BY <1>1, <1>2, <1>3, <1>4, <1>5, <1>6, <1>7

LEMMA BecomesShape ==
    ASSUME NEW h, HandedShape(h), NEW d, NEW out, NEW n, Becomes(h, d, out, n)
    PROVE  /\ HandedShape(n) /\ n.g.header = h.g.header /\ n.g.window = h.g.window
           /\ n.g.directive = d /\ n.out = out /\ (n.g.err <=> h.g.err)
BY DEF HandedShape, GrouperShape, Handed, Becomes

LEMMA FailsShape ==
    ASSUME NEW h, HandedShape(h), NEW n, n = Handed([h.g EXCEPT !.err = TRUE], h.out)
    PROVE  /\ HandedShape(n) /\ n.g.header = h.g.header /\ n.g.window = h.g.window
           /\ n.g.err = TRUE
BY DEF HandedShape, GrouperShape, Handed

(* The fields stay, and so does an error. *)
StaysShaped(h, n) ==
    /\ HandedShape(n) /\ n.g.header = h.g.header /\ n.g.window = h.g.window
    /\ h.g.err => n.g.err

LEMMA StepShape ==
    ASSUME NEW h, HandedShape(h), NEW u
    PROVE  StaysShaped(h, ToDirectives(h, u))
<1> DEFINE d == h.g.directive
           n == ToDirectives(h, u)
<1>1. \/ \E x, out : Becomes(h, x, out, n)
      \/ n = Handed([h.g EXCEPT !.err = TRUE], h.out)
  <2> HIDE DEF n
  <2>1. CASE d.first = 0  BY <2>1, StepCases DEF n
  <2>2. CASE d.first # 0 /\ d.name = 0  BY <2>2, StepCases DEF n
  <2>3. CASE d.first # 0 /\ d.name # 0 /\ u.line = d.line  BY <2>3, StepCases DEF n
  <2>4. CASE d.first # 0 /\ d.name # 0 /\ u.line # d.line /\ u.kind \in {"comment", "percent", "header"}
    BY <2>4, StepCases DEF n
  <2>5. CASE d.first # 0 /\ d.name # 0 /\ u.line # d.line /\ u.kind \notin {"comment", "header", "percent"}
    BY <2>5, StepCases DEF n
  <2> QED  BY <2>1, <2>2, <2>3, <2>4, <2>5
<1> HIDE DEF n
<1>2. ASSUME NEW x, NEW out, Becomes(h, x, out, n) PROVE StaysShaped(h, n)
  BY <1>2, BecomesShape DEF StaysShaped
<1>3. ASSUME n = Handed([h.g EXCEPT !.err = TRUE], h.out) PROVE StaysShaped(h, n)
  BY <1>3, FailsShape DEF StaysShaped
<1>4. QED  BY <1>1, <1>2, <1>3 DEF n

LEMMA BesideFacts ==
    ASSUME NEW t, TapeOK(t), NEW i \in Nat, i > 0, i + 1 <= Len(t)
    PROVE  /\ i \in 1 .. Len(t) /\ i + 1 \in 1 .. Len(t)
           /\ t[i].line <= t[i+1].line
           /\ t[i].kind = "percent" => t[i+1].kind = "name"
           /\ t[i+1].kind = "name" => t[i].kind = "percent" /\ t[i].line = t[i+1].line
           /\ t[i+1].kind \in Schemas => t[i].kind = "name" /\ t[i].line = t[i+1].line
           /\ t[i].kind \in Name /\ t[i].line = t[i+1].line => t[i+1].kind \in Schemas
           /\ t[i].kind = "block" <=> t[i+1].kind = "content"
           /\ t[i+1].kind = "comment" => t[i].line # t[i+1].line
<1>1. Len(t) \in Nat  BY TapeFacts
<1>2. i \in 1 .. Len(t) - 1 /\ i \in 1 .. Len(t) /\ i + 1 \in 1 .. Len(t)  BY <1>1
<1>3. QED  BY <1>2 DEF TapeOK, Beside

LEMMA UnitBounds ==
    ASSUME NEW t, TapeOK(t), NEW u, InUnit(t, u)
    PROVE  /\ u \in UnitType /\ u.first \in 1 .. Len(t) /\ u.last \in 1 .. Len(t)
           /\ u.first <= u.last /\ u.last <= u.first + 1
           /\ u.kind \in {"percent", "comment", "header", "end", "scalar", "entry"} \cup Name
                 => u.last = u.first /\ t[u.first].kind = u.kind
           /\ \A i \in u.first .. u.last : t[i].kind \in Name \cup {"percent", "header", "end", "comment"}
                 => i = u.first /\ u.last = u.first /\ u.kind = t[i].kind
           /\ u.kind # "comment" => t[u.last].kind # "comment"
<1>1. Len(t) \in Nat /\ DOMAIN t = 1 .. Len(t)  BY TapeFacts
<1>2. u \in UnitType /\ u.first \in DOMAIN t  BY DEF InUnit
<1>3. u.first \in Nat /\ u.last \in Nat  BY <1>2, UnitFields
<1>4. CASE IsSingle(t, u)  BY <1>1, <1>2, <1>3, <1>4 DEF IsSingle
<1>5. CASE IsLiteral(t, u)
  <2>1. \A i \in u.first .. u.last : t[i].kind \in {"block", "content"}
    BY <1>3, <1>5 DEF IsLiteral
  <2>2. /\ u.first <= u.last /\ u.last <= u.first + 1 /\ u.last \in DOMAIN t /\ u.kind = "literal"
        /\ t[u.last].kind \in {"block", "content"}
    BY <1>2, <1>3, <1>5 DEF IsLiteral
  <2> QED  BY <1>1, <1>2, <2>1, <2>2 DEF Name
<1>6. QED  BY <1>4, <1>5 DEF InUnit

LEMMA VersionsMore ==
    ASSUME NEW t, NEW a \in Nat, NEW b \in Nat, a <= b + 1
    PROVE  VersionsIn(t, a, b + 1) =
              VersionsIn(t, a, b) \cup (IF t[b + 1].kind \in Schemas THEN {t[b + 1].kind} ELSE {})
<1>1. a .. b + 1 = (a .. b) \cup {b + 1}  OBVIOUS
<1>2. QED  BY <1>1 DEF VersionsIn

LEMMA VersionsNone ==
    ASSUME NEW t, NEW a, NEW b, \A i \in a .. b : t[i].kind \notin Schemas
    PROVE  VersionsIn(t, a, b) = {}
BY DEF VersionsIn

LEMMA AppendedUnits ==
    ASSUME NEW us \in Seq(UnitType), NEW u \in UnitType
    PROVE  \A i \in DOMAIN Append(us, u) : Append(us, u)[i] = u \/ (i \in DOMAIN us /\ Append(us, u)[i] = us[i])
OBVIOUS

LEMMA SettledPasses ==
    ASSUME NEW t, TapeOK(t), NEW out, NEW p, NEW r, Settled(t, out, p, r),
           NEW u, InUnit(t, u), u.first = r + 1, u.kind \notin Name \cup {"percent"}
    PROVE  Passed(t, NoDirective, Append(out, u), p, u.last)
<1>1. /\ u \in UnitType /\ u.first \in 1 .. Len(t) /\ u.last \in 1 .. Len(t)
      /\ u.first <= u.last /\ Len(t) \in Nat
      /\ \A i \in u.first .. u.last : t[i].kind \notin Name \cup {"percent"}
  BY UnitBounds, TapeFacts
<1>2. p \in Nat /\ r \in Nat /\ p <= r /\ out \in Seq(UnitType) /\ Chain(out, p + 1, r + 1)  BY DEF Settled
<1>3. Append(out, u) \in Seq(UnitType) /\ Chain(Append(out, u), p + 1, u.last + 1)
  <2>1. p + 1 \in Nat /\ r + 1 \in Nat /\ p + 1 <= r + 1  BY <1>2
  <2> QED  BY <2>1, <1>1, <1>2, ChainAppend
<1>4. OutUnit(t, u)  BY DEF OutUnit
<1>5. \A i \in DOMAIN Append(out, u) : OutUnit(t, Append(out, u)[i])
  BY <1>1, <1>2, <1>4, AppendedUnits DEF Settled
<1>6. \A i \in 1 .. u.last : t[i].kind = "percent" => FollowedAt(t, i)
  <2> SUFFICES ASSUME NEW i \in 1 .. u.last, t[i].kind = "percent" PROVE FollowedAt(t, i)  OBVIOUS
  <2>1. i \notin u.first .. u.last  BY <1>1
  <2>2. i \in 1 .. r  BY <2>1, <1>1, <1>2
  <2> QED  BY <2>2 DEF Settled
<1>7. NoDirective \in DirectiveType  BY DEF NoDirective, DirectiveType
<1>8. u.last \in u.first .. u.last  BY <1>1
<1>9. NoneHeld(t, NoDirective, Append(out, u), p, u.last)  BY <1>3, <1>1, <1>8 DEF NoneHeld, Name
<1>10. u.last \in Nat /\ p <= u.last /\ u.last <= Len(t)  BY <1>1, <1>2
<1>11. QED  BY <1>2, <1>3, <1>5, <1>6, <1>7, <1>9, <1>10 DEF Passed

LEMMA SettledBegins ==
    ASSUME NEW t, TapeOK(t), NEW out, NEW p, NEW r, Settled(t, out, p, r),
           NEW u, InUnit(t, u), u.first = r + 1, u.kind = "percent"
    PROVE  Passed(t, Begun(u), out, p, u.last)
<1>1. /\ u \in UnitType /\ u.first \in 1 .. Len(t) /\ u.last = u.first /\ t[u.first].kind = "percent"
      /\ u.line = t[u.first].line /\ Len(t) \in Nat /\ u.line \in Nat
  BY UnitBounds, TapeFacts, UnitFields DEF InUnit
<1>2. p \in Nat /\ r \in Nat /\ p <= r /\ out \in Seq(UnitType) /\ Chain(out, p + 1, r + 1)  BY DEF Settled
<1>3. \A i \in 1 .. u.last : t[i].kind = "percent" /\ i # u.first => FollowedAt(t, i)
  <2> SUFFICES ASSUME NEW i \in 1 .. u.last, t[i].kind = "percent", i # u.first PROVE FollowedAt(t, i)
    OBVIOUS
  <2>1. i \in 1 .. r  BY <1>1, <1>2
  <2> QED  BY <2>1 DEF Settled
<1>4. /\ Begun(u) \in DirectiveType /\ Begun(u).first = u.first
      /\ Begun(u) = [NoDirective EXCEPT !.line = t[u.last].line, !.first = u.last, !.last = u.last]
  <2>1. <<>> \in Seq(UnitType) /\ u.first \in Nat  BY <1>1
  <2> QED  BY <1>1, <2>1 DEF Begun, NoDirective, DirectiveType
<1>5. Unnamed(t, Begun(u), out, p, u.last)  BY <1>1, <1>2, <1>4 DEF Unnamed
<1>6. u.last \in Nat /\ p <= u.last /\ u.last <= Len(t)  BY <1>1, <1>2
<1>7. \A i \in DOMAIN out : OutUnit(t, out[i])  BY DEF Settled
<1>8. QED  BY <1>2, <1>3, <1>4, <1>5, <1>6, <1>7 DEF Passed

LEMMA NamesIt ==
    ASSUME NEW t, TapeOK(t), NEW d, NEW out, NEW p, NEW r,
           Passed(t, d, out, p, r), Unnamed(t, d, out, p, r),
           NEW u, InUnit(t, u), u.first = r + 1
    PROVE  Passed(t, [d EXCEPT !.name = u.first, !.last = u.last], out, p, u.last)
<1>1. /\ u \in UnitType /\ u.first \in 1 .. Len(t) /\ u.last \in 1 .. Len(t) /\ Len(t) \in Nat
      /\ u.first <= u.last
  BY UnitBounds, TapeFacts
<1>2. p \in Nat /\ r \in Nat /\ p <= r /\ r > 0 /\ t[r].kind = "percent" /\ r + 1 <= Len(t)
  BY <1>1 DEF Passed, Unnamed
<1>3. t[r+1].kind = "name" /\ t[r].line = t[r+1].line  BY <1>2, BesideFacts
<1>4. u.last = r + 1
  <2>1. u.first \in u.first .. u.last  BY <1>1
  <2> QED  BY <2>1, <1>1, <1>3, UnitBounds DEF Name
<1> DEFINE e == [d EXCEPT !.name = u.first, !.last = u.last]
<1>5. /\ e \in DirectiveType /\ e.first = r /\ e.name = r + 1 /\ e.last = r + 1 /\ e.line = t[r].line
      /\ e.version = "none" /\ e.comments = <<>>
  <2>1. d = [NoDirective EXCEPT !.line = t[r].line, !.first = r, !.last = r]  BY DEF Unnamed
  <2>2. <<>> \in Seq(UnitType) /\ r + 1 \in Nat /\ t[r].line \in Nat  BY <1>2, TapeFacts
  <2> QED  BY <2>1, <2>2, <1>2, <1>4 DEF NoDirective, DirectiveType
<1> HIDE DEF e
<1>6. Chain(<<>>, e.last + 1, r + 1 + 1)  BY <1>5, <1>2, ChainEmpty
<1>7. VersionsIn(t, r, r + 1) = {}
  <2>1. \A i \in r .. r + 1 : i = r \/ i = r + 1  BY <1>2
  <2> QED  BY <2>1, <1>2, <1>3, VersionsNone DEF Schemas
<1>8. AtName(t, e, out, p, r + 1)
  <2>1. Chain(out, p + 1, r)  BY DEF Unnamed
  <2>2. \A i \in e.name .. e.last : t[i].kind \in Name /\ t[i].line = e.line
    BY <1>2, <1>3, <1>5 DEF Name
  <2>3. \A i \in e.last + 1 .. r + 1 : t[i].kind = "comment"  BY <1>5, <1>2
  <2>4. VersionIs(e.version, VersionsIn(t, e.first, e.last))  BY <1>5, <1>7 DEF VersionIs
  <2>5. \A i \in DOMAIN e.comments : InUnit(t, e.comments[i]) /\ e.comments[i].kind = "comment"
    BY <1>5
  <2>6. Chain(e.comments, e.last + 1, r + 1 + 1)  BY <1>5, <1>6
  <2>7. /\ e.first = r /\ r > 0 /\ e.name = e.first + 1 /\ e.name <= e.last /\ e.last <= r + 1
        /\ t[e.first].kind = "percent" /\ t[e.first].line = e.line
    BY <1>2, <1>5
  <2> QED  BY <2>1, <2>2, <2>3, <2>4, <2>5, <2>6, <2>7, Zenon DEF AtName
<1>9. \A i \in 1 .. r + 1 : t[i].kind = "percent" /\ i # e.first => FollowedAt(t, i)
  <2> SUFFICES ASSUME NEW i \in 1 .. r + 1, t[i].kind = "percent", i # r PROVE FollowedAt(t, i)
    BY <1>5
  <2>1. i \in 1 .. r /\ i # d.first  BY <1>2, <1>3, <1>5 DEF Unnamed, NoDirective
  <2> QED  BY <2>1 DEF Passed
<1>10. out \in Seq(UnitType) /\ \A i \in DOMAIN out : OutUnit(t, out[i])  BY DEF Passed
<1>11. r + 1 \in Nat /\ p <= r + 1 /\ r + 1 <= Len(t)  BY <1>2
<1>12. Passed(t, e, out, p, r + 1)  BY <1>2, <1>5, <1>8, <1>9, <1>10, <1>11 DEF Passed
<1>13. QED  BY <1>12, <1>4 DEF e

LEMMA ConcatUnits ==
    ASSUME NEW t, NEW x \in Seq(UnitType), NEW y \in Seq(UnitType),
           \A i \in DOMAIN x : OutUnit(t, x[i]), \A i \in DOMAIN y : OutUnit(t, y[i])
    PROVE  \A i \in DOMAIN (x \o y) : OutUnit(t, (x \o y)[i])
<1> SUFFICES ASSUME NEW i \in DOMAIN (x \o y) PROVE OutUnit(t, (x \o y)[i])  OBVIOUS
<1>1. /\ i \in 1 .. Len(x) + Len(y) /\ Len(x) \in Nat /\ Len(y) \in Nat
      /\ (x \o y)[i] = IF i <= Len(x) THEN x[i] ELSE y[i - Len(x)]
  BY ConcatProperties
<1>2. CASE i <= Len(x)  BY <1>1, <1>2
<1>3. CASE i > Len(x)
  <2>1. i - Len(x) \in DOMAIN y  BY <1>1, <1>3
  <2> QED  BY <1>1, <1>3, <2>1
<1>4. QED  BY <1>1, <1>2, <1>3

(* What a named directive holds. *)
LEMMA AtNameFacts ==
    ASSUME NEW t, TapeOK(t), NEW d, NEW out, NEW p, NEW r,
           Passed(t, d, out, p, r), AtName(t, d, out, p, r)
    PROVE  /\ p \in Nat /\ r \in Nat /\ p <= r /\ r <= Len(t) /\ Len(t) \in Nat
           /\ d.first \in Nat /\ d.name \in Nat /\ d.last \in Nat /\ d.line \in Nat
           /\ d.comments \in Seq(UnitType) /\ out \in Seq(UnitType)
           /\ 0 < d.first /\ d.first < d.last /\ d.last <= r /\ p + 1 <= d.first
           /\ d.name = d.first + 1
           /\ \A i \in d.first .. d.last : i \in 1 .. Len(t)
           /\ \A i \in d.last + 1 .. r : i \in 1 .. Len(t) /\ t[i].kind = "comment" /\ d.line < t[i].line
           /\ t[d.last].line = d.line /\ t[d.last].kind \in Name
<1>1. /\ p \in Nat /\ r \in Nat /\ p <= r /\ r <= Len(t) /\ Len(t) \in Nat
      /\ d \in DirectiveType /\ out \in Seq(UnitType)
  BY TapeFacts DEF Passed
<1>2. /\ d.first \in Nat /\ d.name \in Nat /\ d.last \in Nat /\ d.line \in Nat
      /\ d.comments \in Seq(UnitType)
  BY <1>1 DEF DirectiveType
<1>3. 0 < d.first /\ d.first < d.last /\ d.last <= r /\ d.last \in d.name .. d.last /\ d.name = d.first + 1
  BY <1>2 DEF AtName
<1>4. \A i \in d.first .. d.last : i \in 1 .. Len(t)  BY <1>1, <1>2, <1>3
<1>5. t[d.last].line = d.line /\ t[d.last].kind \in Name  BY <1>3 DEF AtName
<1>6. p + 1 <= d.first
  <2>1. CASE out = <<>>  BY <2>1, <1>1, <1>2 DEF AtName, Chain
  <2>2. CASE out # <<>>
    <3>1. 1 \in DOMAIN out /\ out[1].first \in Nat /\ out[1].last \in Nat  BY <2>2, <1>1, UnitsOf
    <3>2. p + 1 <= out[1].first /\ out[1].first <= out[1].last /\ out[1].last < d.first
      BY <3>1 DEF AtName, Chain
    <3> QED  BY <3>1, <3>2, <1>1, <1>2
  <2> QED  BY <2>1, <2>2
<1>7. ASSUME NEW i \in d.last + 1 .. r
      PROVE  i \in 1 .. Len(t) /\ t[i].kind = "comment" /\ d.line < t[i].line
  <2>1. i \in 1 .. Len(t) /\ t[i].kind = "comment" /\ d.last < i  BY <1>1, <1>2, <1>3 DEF AtName
  <2>2. i - 1 \in Nat /\ i - 1 > 0 /\ (i - 1) + 1 = i /\ i <= Len(t)  BY <2>1, <1>2, <1>3
  <2>3. t[i - 1].line # t[i].line /\ t[i - 1].line <= t[i].line /\ i - 1 \in 1 .. Len(t)
    BY <2>1, <2>2, BesideFacts
  <2>4. t[d.last].line <= t[i - 1].line
    <3>1. CASE i - 1 = d.last  BY <3>1, <2>3, TapeFacts
    <3>2. CASE i - 1 # d.last
      <4>1. d.last < i - 1 /\ d.last \in DOMAIN t /\ i - 1 \in DOMAIN t
        BY <3>2, <2>1, <2>3, <1>2, <1>3, <1>4, TapeFacts
      <4> QED  BY <4>1 DEF TapeOK
    <3> QED  BY <3>1, <3>2
  <2>5. t[i].line \in Nat /\ t[i - 1].line \in Nat  BY <2>1, <2>3, TapeFacts
  <2> QED  BY <2>1, <2>3, <2>4, <2>5, <1>5, <1>2
<1>8. QED  BY <1>1, <1>2, <1>3, <1>4, <1>5, <1>6, <1>7

(* A unit on its line is its version. *)
LEMMA VersionsIt ==
    ASSUME NEW t, TapeOK(t), NEW d, NEW out, NEW p, NEW r,
           Passed(t, d, out, p, r), AtName(t, d, out, p, r),
           NEW u, InUnit(t, u), u.first = r + 1, u.line = d.line
    PROVE  Passed(t, [d EXCEPT !.last = u.last, !.version = VersionBy(u, d)], out, p, u.last)
<1>1. /\ p \in Nat /\ r \in Nat /\ p <= r /\ r <= Len(t) /\ Len(t) \in Nat
      /\ d.first \in Nat /\ d.name \in Nat /\ d.last \in Nat /\ d.line \in Nat
      /\ d.comments \in Seq(UnitType) /\ out \in Seq(UnitType)
      /\ 0 < d.first /\ d.first < d.last /\ d.last <= r /\ d.name = d.first + 1
      /\ \A i \in d.first .. d.last : i \in 1 .. Len(t)
      /\ \A i \in d.last + 1 .. r : i \in 1 .. Len(t) /\ t[i].kind = "comment" /\ d.line < t[i].line
      /\ t[d.last].line = d.line /\ t[d.last].kind \in Name
  BY AtNameFacts
<1>2. /\ u \in UnitType /\ u.first \in 1 .. Len(t) /\ u.last \in 1 .. Len(t) /\ u.first <= u.last
      /\ u.line = t[u.first].line
  BY UnitBounds DEF InUnit
<1>3. r + 1 <= Len(t) /\ r > 0 /\ t[r + 1].line = d.line  BY <1>1, <1>2
<1>4. r = d.last
  <2> SUFFICES ASSUME r # d.last PROVE FALSE  OBVIOUS
  <2>1. r \in d.last + 1 .. r  BY <1>1
  <2>2. d.line < t[r].line /\ t[r].line <= t[r + 1].line /\ r \in 1 .. Len(t) /\ r + 1 \in 1 .. Len(t)
    BY <2>1, <1>1, <1>3, BesideFacts
  <2>3. PICK a : a = t[r].line  OBVIOUS
  <2>4. a \in Nat  BY <2>2, <2>3, TapeFacts
  <2>5. d.line < a /\ a <= d.line /\ d.line \in Nat  BY <2>2, <2>3, <1>1, <1>3
  <2> QED  BY <2>4, <2>5
<1>5. t[r + 1].kind \in Schemas  BY <1>1, <1>3, <1>4, BesideFacts
<1>6. t[r].kind = "name"  BY <1>1, <1>3, <1>5, BesideFacts
<1>7. d.last = d.name
  <2> SUFFICES ASSUME d.last # d.name PROVE FALSE  OBVIOUS
  <2>1. r - 1 \in Nat /\ r - 1 > 0 /\ (r - 1) + 1 = r /\ r - 1 \in d.name .. d.last
    <3>1. PICK a, b : a = d.name /\ b = d.last  OBVIOUS
    <3>2. a \in Nat /\ a > 1 /\ b = r /\ a # b /\ a <= b /\ r \in Nat
      <4>1. d.name \in Nat /\ d.first \in Nat /\ d.last \in Nat /\ r \in Nat  BY <1>1
      <4>2. 0 < d.first /\ d.first < d.last /\ d.name = d.first + 1 /\ d.last # d.name /\ r = d.last
        BY <1>1, <1>4
      <4> QED  BY <3>1, <4>1, <4>2
    <3> QED  BY <3>1, <3>2
  <2>2. t[r - 1].kind = "percent"  BY <2>1, <1>1, <1>6, BesideFacts
  <2>3. t[r - 1].kind \in Name  BY <2>1 DEF AtName
  <2> QED  BY <2>2, <2>3 DEF Name
<1>8. u.last = r + 1 /\ u.kind = t[r + 1].kind
  <2>1. u.first \in u.first .. u.last  BY <1>2
  <2> QED  BY <2>1, <1>2, <1>5, UnitBounds DEF Name, Schemas
<1> DEFINE e == [d EXCEPT !.last = u.last, !.version = VersionBy(u, d)]
<1>9. /\ e \in DirectiveType /\ e.first = d.first /\ e.name = d.name /\ e.last = r + 1 /\ e.line = d.line
      /\ e.version = t[r + 1].kind /\ e.comments = d.comments
  <2>1. d \in DirectiveType  BY DEF Passed
  <2>2. VersionBy(u, d) = t[r + 1].kind  BY <1>5, <1>8 DEF VersionBy, Schemas
  <2>3. u.last \in Nat /\ VersionBy(u, d) \in Schemas \cup {"none"}  BY <1>2, <1>5, <2>2
  <2>4. /\ e \in DirectiveType /\ e.first = d.first /\ e.name = d.name /\ e.last = u.last
        /\ e.line = d.line /\ e.version = VersionBy(u, d) /\ e.comments = d.comments
    <3>1. PICK l, v : l = u.last /\ v = VersionBy(u, d)  OBVIOUS
    <3>2. e = [d EXCEPT !.last = l, !.version = v] /\ l \in Nat /\ v \in Schemas \cup {"none"}
      BY <3>1, <2>3
    <3>3. LET f == [d EXCEPT !.last = l, !.version = v]
          IN  /\ f \in DirectiveType /\ f.first = d.first /\ f.name = d.name /\ f.last = l
              /\ f.line = d.line /\ f.version = v /\ f.comments = d.comments
      BY <2>1, <3>2 DEF DirectiveType
    <3> HIDE DEF e
    <3> QED  BY <3>1, <3>2, <3>3
  <2> QED  BY <2>4, <2>2, <1>8
<1> HIDE DEF e
<1>10. VersionsIn(t, d.first, d.last) = {}
  <2>1. \A i \in d.first .. d.last : i = d.first \/ i = r  BY <1>1, <1>4, <1>7
  <2>2. t[d.first].kind = "percent"  BY DEF AtName
  <2> QED  BY <2>1, <2>2, <1>6, VersionsNone DEF Schemas
<1>11. VersionsIn(t, d.first, r + 1) = {t[r + 1].kind}
  <2>1. VersionsIn(t, d.first, r + 1) = VersionsIn(t, d.first, r) \cup {t[r + 1].kind}
    <3>1. d.first \in Nat /\ r \in Nat /\ d.first <= r + 1  BY <1>1
    <3>2. VersionsIn(t, d.first, r + 1) =
            VersionsIn(t, d.first, r) \cup (IF t[r + 1].kind \in Schemas THEN {t[r + 1].kind} ELSE {})
      BY <3>1, VersionsMore
    <3> QED  BY <3>2, <1>5
  <2> QED  BY <2>1, <1>10, <1>4
<1>12. d.comments = <<>>
  <2>1. Chain(d.comments, r + 1, r + 1)  BY <1>4 DEF AtName
  <2> SUFFICES ASSUME d.comments # <<>> PROVE FALSE  OBVIOUS
  <2>2. 1 \in DOMAIN d.comments /\ d.comments[1].first \in Nat /\ d.comments[1].last \in Nat
    BY <1>1, UnitsOf
  <2>3. /\ r + 1 <= d.comments[1].first /\ d.comments[1].first <= d.comments[1].last
        /\ d.comments[1].last < r + 1
    BY <2>1, <2>2 DEF Chain
  <2> QED  BY <2>2, <2>3, <1>1
<1>13. AtName(t, e, out, p, r + 1)
  <2>1. Chain(out, p + 1, e.first)  BY <1>9 DEF AtName
  <2>2. \A i \in e.name .. e.last : t[i].kind \in Name /\ t[i].line = e.line
    <3> SUFFICES ASSUME NEW i \in e.name .. e.last PROVE t[i].kind \in Name /\ t[i].line = e.line
      OBVIOUS
    <3>1. CASE i = r + 1  BY <3>1, <1>3, <1>5, <1>9 DEF Name, Schemas
    <3>2. CASE i # r + 1
      <4>1. i \in d.name .. d.last  BY <3>2, <1>1, <1>4, <1>9
      <4> QED  BY <4>1, <1>9 DEF AtName
    <3> QED  BY <3>1, <3>2
  <2>3. \A i \in e.last + 1 .. r + 1 : t[i].kind = "comment"  BY <1>9, <1>1
  <2>4. VersionIs(e.version, VersionsIn(t, e.first, e.last))  BY <1>5, <1>9, <1>11 DEF VersionIs, Schemas
  <2>5. \A i \in DOMAIN e.comments : InUnit(t, e.comments[i]) /\ e.comments[i].kind = "comment"
    BY <1>9 DEF AtName
  <2>6. Chain(e.comments, e.last + 1, r + 1 + 1)  BY <1>9, <1>12, <1>1, ChainEmpty
  <2>7. /\ 0 < e.first /\ e.name = e.first + 1 /\ e.name <= e.last /\ e.last <= r + 1
        /\ t[e.first].kind = "percent" /\ t[e.first].line = e.line
    BY <1>1, <1>4, <1>9 DEF AtName
  <2> QED  BY <2>1, <2>2, <2>3, <2>4, <2>5, <2>6, <2>7, Zenon DEF AtName
<1>14. \A i \in 1 .. r + 1 : t[i].kind = "percent" /\ i # e.first => FollowedAt(t, i)
  <2> SUFFICES ASSUME NEW i \in 1 .. r + 1, t[i].kind = "percent", i # d.first PROVE FollowedAt(t, i)
    BY <1>9
  <2>1. i \in 1 .. r  BY <1>1, <1>5 DEF Schemas
  <2> QED  BY <2>1 DEF Passed
<1>15. \A i \in DOMAIN out : OutUnit(t, out[i])  BY DEF Passed
<1>16. r + 1 \in Nat /\ p <= r + 1  BY <1>1
<1>17. Passed(t, e, out, p, r + 1)  BY <1>1, <1>3, <1>9, <1>13, <1>14, <1>15, <1>16 DEF Passed
<1>18. QED  BY <1>17, <1>8 DEF e

(* A comment below it is kept with it. *)
LEMMA CommentsIt ==
    ASSUME NEW t, TapeOK(t), NEW d, NEW out, NEW p, NEW r,
           Passed(t, d, out, p, r), AtName(t, d, out, p, r),
           NEW u, InUnit(t, u), u.first = r + 1, u.kind = "comment"
    PROVE  Passed(t, [d EXCEPT !.comments = Append(d.comments, u)], out, p, u.last)
<1>1. /\ p \in Nat /\ r \in Nat /\ p <= r /\ r <= Len(t) /\ Len(t) \in Nat
      /\ d.first \in Nat /\ d.name \in Nat /\ d.last \in Nat /\ d.line \in Nat
      /\ d.comments \in Seq(UnitType) /\ out \in Seq(UnitType)
      /\ 0 < d.first /\ d.first < d.last /\ d.last <= r
  BY AtNameFacts
<1>2. /\ u \in UnitType /\ u.first \in 1 .. Len(t) /\ u.last = u.first /\ t[u.first].kind = "comment"
  BY UnitBounds
<1> DEFINE more == Append(d.comments, u)
           e == [d EXCEPT !.comments = more]
<1>3. more \in Seq(UnitType) /\ Chain(more, d.last + 1, u.last + 1)
  <2>1. Chain(d.comments, d.last + 1, r + 1)  BY DEF AtName
  <2>2. d.last + 1 \in Nat /\ r + 1 \in Nat /\ d.last + 1 <= r + 1  BY <1>1
  <2>3. u.first = r + 1 /\ u.first <= u.last  BY <1>2, <2>2
  <2> QED  BY <2>1, <2>2, <2>3, <1>1, <1>2, ChainAppend
<1>4. \A i \in DOMAIN more : InUnit(t, more[i]) /\ more[i].kind = "comment"
  <2> SUFFICES ASSUME NEW i \in DOMAIN more PROVE InUnit(t, more[i]) /\ more[i].kind = "comment"
    OBVIOUS
  <2>1. more[i] = u \/ (i \in DOMAIN d.comments /\ more[i] = d.comments[i])
    BY <1>1, <1>2, AppendedUnits
  <2> QED  BY <2>1 DEF AtName
<1> HIDE DEF more
<1>5. /\ e \in DirectiveType /\ e.first = d.first /\ e.name = d.name /\ e.last = d.last /\ e.line = d.line
      /\ e.version = d.version /\ e.comments = more
  <2>1. d \in DirectiveType  BY DEF Passed
  <2> QED  BY <2>1, <1>3 DEF DirectiveType
<1> HIDE DEF e
<1>6. u.last \in Nat /\ p <= u.last /\ u.last <= Len(t) /\ u.last = r + 1  BY <1>1, <1>2
<1>7. AtName(t, e, out, p, u.last)
  <2>1. \A i \in e.last + 1 .. u.last : t[i].kind = "comment"
    <3> SUFFICES ASSUME NEW i \in d.last + 1 .. u.last PROVE t[i].kind = "comment"  BY <1>5
    <3>1. i = r + 1 \/ i \in d.last + 1 .. r  BY <1>1, <1>6
    <3> QED  BY <3>1, <1>2 DEF AtName
  <2>2. \A i \in e.name .. e.last : t[i].kind \in Name /\ t[i].line = e.line  BY <1>5 DEF AtName
  <2>3. /\ Chain(out, p + 1, e.first) /\ 0 < e.first /\ e.name = e.first + 1 /\ e.name <= e.last
        /\ t[e.first].kind = "percent" /\ t[e.first].line = e.line
        /\ VersionIs(e.version, VersionsIn(t, e.first, e.last))
    BY <1>5 DEF AtName
  <2>4. e.last <= u.last  BY <1>1, <1>5, <1>6
  <2>5. Chain(e.comments, e.last + 1, u.last + 1)  BY <1>3, <1>5
  <2>6. \A i \in DOMAIN e.comments : InUnit(t, e.comments[i]) /\ e.comments[i].kind = "comment"
    BY <1>4, <1>5
  <2> QED  BY <2>1, <2>2, <2>3, <2>4, <2>5, <2>6, Zenon DEF AtName
<1>8. \A i \in 1 .. u.last : t[i].kind = "percent" /\ i # e.first => FollowedAt(t, i)
  <2> SUFFICES ASSUME NEW i \in 1 .. u.last, t[i].kind = "percent", i # d.first PROVE FollowedAt(t, i)
    BY <1>5
  <2>1. i \in 1 .. r  BY <1>1, <1>2, <1>6
  <2> QED  BY <2>1 DEF Passed
<1>9. \A i \in DOMAIN out : OutUnit(t, out[i])  BY DEF Passed
<1>10. Passed(t, e, out, p, u.last)  BY <1>1, <1>5, <1>6, <1>7, <1>8, <1>9 DEF Passed
<1>11. QED  BY <1>10 DEF e, more

(* A "---" or a "%" lets go of it. *)
LEMMA EmitsIt ==
    ASSUME NEW t, TapeOK(t), NEW d, NEW out, NEW p, NEW r,
           Passed(t, d, out, p, r), AtName(t, d, out, p, r),
           NEW u, InUnit(t, u), u.first = r + 1, u.kind \in {"header", "percent"}
    PROVE  Settled(t, out \o Emitted(d), p, r)
<1>1. /\ p \in Nat /\ r \in Nat /\ p <= r /\ r <= Len(t) /\ Len(t) \in Nat
      /\ d.first \in Nat /\ d.name \in Nat /\ d.last \in Nat /\ d.line \in Nat
      /\ d.comments \in Seq(UnitType) /\ out \in Seq(UnitType)
      /\ 0 < d.first /\ d.first < d.last /\ d.last <= r /\ p + 1 <= d.first /\ d.name = d.first + 1
      /\ \A i \in d.first .. d.last : i \in 1 .. Len(t)
  BY AtNameFacts
<1>2. u.first \in 1 .. Len(t) /\ t[u.first].kind = u.kind  BY UnitBounds
<1> DEFINE e == [kind |-> "directive", line |-> d.line, first |-> d.first, last |-> d.last,
                 version |-> d.version]
           mid == <<e>>
           all == out \o (mid \o d.comments)
<1>3. e \in UnitType
  <2>1. d.version \in Schemas \cup {"none"}  BY DEF Passed, DirectiveType
  <2> QED  BY <2>1, <1>1 DEF UnitType
<1>4. OutUnit(t, e)
  <2>1. d.first \in DOMAIN t /\ d.last \in DOMAIN t  BY <1>1, TapeFacts
  <2>2. \A i \in d.first + 1 .. d.last : t[i].kind \in Name  BY <1>1 DEF AtName
  <2> QED  BY <2>1, <2>2, <1>1, <1>3 DEF OutUnit, IsDirective, AtName
<1>5. e.first = d.first /\ e.last = d.last  OBVIOUS
<1> HIDE DEF e
<1>6. mid \in Seq(UnitType) /\ Chain(mid, d.first, d.last + 1)
  <2>1. mid = Append(<<>>, e)  OBVIOUS
  <2>2. Chain(<<>>, d.first, d.first) /\ <<>> \in Seq(UnitType)  BY <1>1, ChainEmpty
  <2>3. e.first <= e.last /\ e.first = d.first /\ d.first <= d.first  BY <1>1, <1>5
  <2>4. Append(<<>>, e) \in Seq(UnitType) /\ Chain(Append(<<>>, e), d.first, e.last + 1)
    BY <2>2, <2>3, <1>1, <1>3, ChainAppend
  <2> QED  BY <2>1, <2>4, <1>5
<1>7. \A i \in DOMAIN mid : mid[i] = e  OBVIOUS
<1> HIDE DEF mid
<1>8. mid \o d.comments \in Seq(UnitType) /\ Chain(mid \o d.comments, d.first, r + 1)
  <2>1. Chain(d.comments, d.last + 1, r + 1) /\ d.comments \in Seq(UnitType)  BY <1>1 DEF AtName
  <2>2. /\ d.first \in Nat /\ d.last + 1 \in Nat /\ r + 1 \in Nat
        /\ d.first <= d.last + 1 /\ d.last + 1 <= r + 1
    BY <1>1
  <2> QED  BY <2>1, <2>2, <1>6, ChainConcat
<1>9. all \in Seq(UnitType) /\ Chain(all, p + 1, r + 1)
  <2>1. Chain(out, p + 1, d.first)  BY DEF AtName
  <2>2. p + 1 \in Nat /\ r + 1 \in Nat /\ p + 1 <= d.first /\ d.first <= r + 1  BY <1>1
  <2> QED  BY <2>1, <2>2, <1>1, <1>8, ChainConcat
<1>10. \A i \in DOMAIN d.comments : OutUnit(t, d.comments[i])
  BY DEF AtName, OutUnit, Name
<1>11. \A i \in DOMAIN (mid \o d.comments) : OutUnit(t, (mid \o d.comments)[i])
  BY <1>1, <1>4, <1>6, <1>7, <1>10, ConcatUnits
<1>12. \A i \in DOMAIN all : OutUnit(t, all[i])
  BY <1>1, <1>8, <1>11, ConcatUnits DEF Passed
<1>13. FollowedAt(t, d.first)
  <2>1. \A k \in d.first + 1 .. u.first - 1 : t[k].line = t[d.first].line \/ t[k].kind = "comment"
    <3> SUFFICES ASSUME NEW k \in d.first + 1 .. u.first - 1
                 PROVE  t[k].line = t[d.first].line \/ t[k].kind = "comment"
      OBVIOUS
    <3>1. k \in d.name .. d.last \/ k \in d.last + 1 .. r  BY <1>1
    <3> QED  BY <3>1 DEF AtName
  <2>2. u.first \in DOMAIN t /\ u.first > d.first  BY <1>1, <1>2, TapeFacts
  <2> QED  BY <2>1, <2>2, <1>2 DEF FollowedAt
<1>14. \A i \in 1 .. r : t[i].kind = "percent" => FollowedAt(t, i)  BY <1>13 DEF Passed
<1>15. out \o Emitted(d) = all  BY DEF Emitted, e, mid
<1> HIDE DEF all
<1>16. QED  BY <1>1, <1>9, <1>12, <1>14, <1>15 DEF Settled

LEMMA StepPasses ==
    ASSUME NEW t, TapeOK(t), NEW h, HandedShape(h), NEW u, InUnit(t, u), NEW p, NEW r,
           Passed(t, h.g.directive, h.out, p, r), u.first = r + 1,
           ~ToDirectives(h, u).g.err
    PROVE  Passed(t, ToDirectives(h, u).g.directive, ToDirectives(h, u).out, p, u.last)
<1> DEFINE d == h.g.directive
           n == ToDirectives(h, u)
<1>1. r \in Nat /\ r <= Len(t) /\ Len(t) \in Nat /\ d \in DirectiveType  BY TapeFacts DEF Passed
<1>2. u.first \in 1 .. Len(t) /\ r + 1 <= Len(t) /\ u.first <= u.last  BY <1>1, UnitBounds
<1>0. Passed(t, d, h.out, p, r) /\ ~n.g.err  OBVIOUS
<1> SUFFICES Passed(t, n.g.directive, n.out, p, u.last)  OBVIOUS
<1> HIDE DEF n, d
<1>3. CASE NoneHeld(t, d, h.out, p, r)
  <2>1. d = NoDirective /\ d.first = 0  BY <1>3 DEF NoneHeld, NoDirective
  <2>2. \A i \in 1 .. r : t[i].kind = "percent" => FollowedAt(t, i)
    BY <2>1, <1>0 DEF Passed
  <2>3. Settled(t, h.out, p, r)  BY <1>0, <1>3, <2>2 DEF Settled, Passed, NoneHeld
  <2>4. CASE u.kind = "percent"
    <3>1. Becomes(h, Begun(u), h.out, n)  BY <2>1, <2>4, StepCases DEF n, d
    <3>2. n.g.directive = Begun(u) /\ n.out = h.out  BY <3>1, BecomesShape
    <3> QED  BY <3>2, <2>3, <2>4, SettledBegins
  <2>5. CASE u.kind # "percent"
    <3>1. Becomes(h, NoDirective, Append(h.out, u), n)  BY <2>1, <2>5, StepCases DEF n, d
    <3>2. n.g.directive = NoDirective /\ n.out = Append(h.out, u)  BY <3>1, BecomesShape
    <3>3. t[r + 1].kind \notin Name
      <4>1. CASE r = 0  BY <4>1, <1>2, TapeFacts DEF TapeOK
      <4>2. CASE r > 0
        <5>1. t[r].kind \notin {"percent", "name"}  BY <4>2, <1>3 DEF NoneHeld
        <5> QED  BY <5>1, <4>2, <1>1, <1>2, BesideFacts DEF Name, Schemas
      <4> QED  BY <4>1, <4>2, <1>1
    <3>4. u.kind \notin Name  BY <3>3, UnitBounds
    <3> QED  BY <3>2, <3>4, <2>3, <2>5, SettledPasses
  <2> QED  BY <2>4, <2>5
<1>4. CASE Unnamed(t, d, h.out, p, r)
  <2>1. d.first # 0 /\ d.name = 0  BY <1>4, <1>1 DEF Unnamed, NoDirective
  <2>2. Becomes(h, [d EXCEPT !.name = u.first, !.last = u.last], h.out, n)  BY <2>1, StepCases DEF n, d
  <2>3. n.g.directive = [d EXCEPT !.name = u.first, !.last = u.last] /\ n.out = h.out
    BY <2>2, BecomesShape
  <2>4. Passed(t, [d EXCEPT !.name = u.first, !.last = u.last], h.out, p, u.last)
    BY <1>0, <1>4, NamesIt
  <2> QED  BY <2>3, <2>4, Zenon
<1>5. CASE AtName(t, d, h.out, p, r)
  <2>1. d.first # 0 /\ d.name # 0  BY <1>0, <1>5, AtNameFacts
  <2>2. CASE u.line = d.line
    <3>1. Becomes(h, [d EXCEPT !.last = u.last, !.version = VersionBy(u, d)], h.out, n)
      BY <2>1, <2>2, StepCases DEF n, d
    <3>2. /\ n.g.directive = [d EXCEPT !.last = u.last, !.version = VersionBy(u, d)]
          /\ n.out = h.out
      BY <3>1, BecomesShape
    <3>3. Passed(t, [d EXCEPT !.last = u.last, !.version = VersionBy(u, d)], h.out, p, u.last)
      BY <1>0, <1>5, <2>2, VersionsIt
    <3> QED  BY <3>2, <3>3, Zenon
  <2>3. CASE u.line # d.line /\ u.kind = "comment"
    <3>1. Becomes(h, [d EXCEPT !.comments = Append(d.comments, u)], h.out, n)
      BY <2>1, <2>3, StepCases DEF n, d
    <3>2. n.g.directive = [d EXCEPT !.comments = Append(d.comments, u)] /\ n.out = h.out
      BY <3>1, BecomesShape
    <3> QED  BY <1>0, <3>2, <1>5, <2>3, CommentsIt
  <2>4. CASE u.line # d.line /\ u.kind = "percent"
    <3>1. Becomes(h, Begun(u), h.out \o Emitted(d), n)  BY <2>1, <2>4, StepCases DEF n, d
    <3>2. PICK o : o = h.out \o Emitted(d)  OBVIOUS
    <3>5. Becomes(h, Begun(u), o, n)  BY <3>1, <3>2, Zenon
    <3>4. n.g.directive = Begun(u) /\ n.out = o  BY <3>5, BecomesShape
    <3>3. Settled(t, o, p, r)  BY <1>0, <1>5, <2>4, <3>2, EmitsIt
    <3> QED  BY <3>4, <3>3, <2>4, SettledBegins
  <2>5. CASE u.line # d.line /\ u.kind = "header"
    <3>1. Becomes(h, NoDirective, Append(h.out \o Emitted(d), u), n)  BY <2>1, <2>5, StepCases DEF n, d
    <3>2. PICK o : o = h.out \o Emitted(d)  OBVIOUS
    <3>4. PICK o2 : o2 = Append(o, u)  OBVIOUS
    <3>6. Becomes(h, NoDirective, o2, n)  BY <3>1, <3>2, <3>4, Zenon
    <3>5. n.g.directive = NoDirective /\ n.out = o2  BY <3>6, BecomesShape
    <3>3. Settled(t, o, p, r)  BY <1>0, <1>5, <2>5, <3>2, EmitsIt
    <3> QED  BY <3>3, <3>4, <3>5, <2>5, SettledPasses DEF Name
  <2>6. CASE u.line # d.line /\ u.kind \notin {"comment", "header", "percent"}
    <3>1. n = Handed([h.g EXCEPT !.err = TRUE], h.out)  BY <2>1, <2>6, StepCases DEF n, d
    <3>2. n.g.err = TRUE  BY <3>1, FailsShape
    <3> QED  BY <3>2, <1>0
  <2> QED  BY <2>2, <2>3, <2>4, <2>5, <2>6
<1>6. QED  BY <1>0, <1>3, <1>4, <1>5 DEF Passed

-----------------------------------------------------------------------------
(* The units a stage lets go of, one after the other. *)

LEMMA LeastExists ==
    ASSUME NEW S \in SUBSET Nat, S # {}
    PROVE  \E m \in S : \A n \in S : m <= n
<1> DEFINE R == OpToRel(<, Nat)
<1>1. IsWellFoundedOn(R, Nat)  BY NatLessThanWellFounded, Zenon
<1>2. \A x, y \in Nat : <<y, x>> \in R <=> y < x  BY DEF OpToRel
<1> HIDE DEF R
<1>3. PICK m \in S : \A n \in S : ~(<<n, m>> \in R)  BY <1>1, WFMin
<1>4. ASSUME NEW n \in S PROVE m <= n
  <2>1. m \in Nat /\ n \in Nat  OBVIOUS
  <2>2. ~(n < m)  BY <2>1, <1>2, <1>3
  <2> QED  BY <2>1, <2>2
<1>5. QED  BY <1>4

Walks(f, h, units, k) ==
    f = [n \in 0 .. k |-> IF n = 0 THEN h ELSE ToDirectives(f[n-1], units[n])]

LEMMA WalkExists ==
    ASSUME NEW h, NEW units, NEW k \in Nat
    PROVE  \E f : Walks(f, h, units, k)
<1> DEFINE S == {n \in Nat : ~ \E f : Walks(f, h, units, n)}
<1> SUFFICES ASSUME S # {} PROVE FALSE  BY DEF Walks
<1>1. PICK m \in S : \A n \in S : m <= n  BY LeastExists
<1>2. m # 0
  <2>1. Walks([n \in 0 .. 0 |-> h], h, units, 0)  BY DEF Walks
  <2> QED  BY <2>1, Zenon
<1>3. m - 1 \in Nat /\ m - 1 \notin S  BY <1>1, <1>2
<1>4. PICK f : Walks(f, h, units, m - 1)  BY <1>3
<1> DEFINE e == [n \in 0 .. m |-> IF n = m THEN ToDirectives(f[m-1], units[m]) ELSE f[n]]
<1>5. Walks(e, h, units, m)
  <2>1. ASSUME NEW n \in 0 .. m
        PROVE  e[n] = IF n = 0 THEN h ELSE ToDirectives(e[n-1], units[n])
    <3>1. CASE n = m
      <4>1. e[n-1] = f[m-1]  BY <3>1, <1>2, <1>3
      <4> QED  BY <4>1, <3>1, <1>2
    <3>2. CASE n # m
      <4>1. n \in 0 .. (m - 1)  BY <3>2
      <4>2. f[n] = IF n = 0 THEN h ELSE ToDirectives(f[n-1], units[n])
        BY <1>4, <4>1, Zenon DEF Walks
      <4>3. n # 0 => e[n-1] = f[n-1]  BY <4>1
      <4> QED  BY <4>2, <4>3, <3>2
    <3> QED  BY <3>1, <3>2
  <2> QED  BY <2>1, Zenon DEF Walks
<1> QED  BY <1>5, <1>1

LEMMA Walked ==
    ASSUME NEW x, NEW units, Len(units) \in Nat, NEW out
    PROVE  Walks(Through(x, units, out), Handed(x, out), units, Len(units))
<1>1. \E f : Walks(f, Handed(x, out), units, Len(units))  BY WalkExists
<1>2. Through(x, units, out) = CHOOSE f : Walks(f, Handed(x, out), units, Len(units))
  BY Zenon DEF Through, Walks
<1> QED  BY <1>1, <1>2, Zenon

(* Where the stage is after n of the units. *)
At(units, r, n) == IF n = 0 THEN r ELSE units[n].last

LEMMA LetGoShape ==
    ASSUME NEW x, GrouperShape(x), NEW units \in Seq(UnitType), NEW out
    PROVE  LET n == LetGo(x, units, out)
           IN  HandedShape(n) /\ n.g.header = x.header /\ n.g.window = x.window /\ (x.err => n.g.err)
<1> DEFINE f == Through(x, units, out)
           h == Handed(x, out)
           k == Len(units)
           S == {n \in 0 .. k : ~StaysShaped(h, f[n])}
<1>1. k \in Nat  OBVIOUS
<1>2. Walks(f, h, units, k)  BY <1>1, Walked
<1> HIDE DEF f
<1>3. h.g = x /\ HandedShape(h)  BY DEF Handed, HandedShape
<1> HIDE DEF h, k
<1>4. f[0] = h
  <2>1. 0 \in 0 .. k  BY <1>1
  <2> QED  BY <2>1, <1>2 DEF Walks
<1>5. \A n \in 1 .. k : f[n] = ToDirectives(f[n-1], units[n])
  <2> SUFFICES ASSUME NEW n \in 1 .. k PROVE f[n] = ToDirectives(f[n-1], units[n])  OBVIOUS
  <2>1. n \in 0 .. k /\ n # 0  BY <1>1
  <2> QED  BY <2>1, <1>2, Zenon DEF Walks
<1>6. S = {}
  <2> SUFFICES ASSUME S # {} PROVE FALSE  OBVIOUS
  <2>0. S \in SUBSET Nat  OBVIOUS
  <2>1. PICK m \in S : \A n \in S : m <= n
    <3> HIDE DEF S
    <3> QED  BY <2>0, LeastExists
  <2>2. m # 0  BY <2>1, <1>3, <1>4 DEF StaysShaped
  <2>3. m \in 1 .. k /\ m - 1 \in 0 .. k /\ m - 1 \notin S  BY <2>1, <2>2, <1>1
  <2>4. StaysShaped(h, f[m-1])  BY <2>3
  <2>5. StaysShaped(f[m-1], f[m])  BY <2>3, <2>4, <1>5, StepShape DEF StaysShaped
  <2>6. StaysShaped(h, f[m])  BY <2>4, <2>5 DEF StaysShaped
  <2> QED  BY <2>1, <2>6
<1>7. k \in 0 .. k  BY <1>1
<1>8. StaysShaped(h, f[k])  BY <1>6, <1>7
<1>9. LetGo(x, units, out) = f[k]  BY DEF LetGo, f, k
<1>10. QED  BY <1>3, <1>8, <1>9 DEF StaysShaped

LEMMA LetGoPasses ==
    ASSUME NEW t, TapeOK(t), NEW x, GrouperShape(x), NEW units \in Seq(UnitType), NEW out,
           \A i \in DOMAIN units : InUnit(t, units[i]),
           NEW p, NEW r, NEW s \in Nat, r <= s, Chain(units, r + 1, s + 1),
           Passed(t, x.directive, out, p, r), ~LetGo(x, units, out).g.err
    PROVE  Passed(t, LetGo(x, units, out).g.directive, LetGo(x, units, out).out, p, s)
<1> DEFINE f == Through(x, units, out)
           h == Handed(x, out)
           k == Len(units)
           Good(n) == /\ HandedShape(f[n])
                      /\ ~f[n].g.err => Passed(t, f[n].g.directive, f[n].out, p, At(units, r, n))
           S == {n \in 0 .. k : ~Good(n)}
<1>1. k \in Nat /\ r \in Nat /\ DOMAIN units = 1 .. k  BY DEF Passed
<1>2. Walks(f, h, units, k)  BY <1>1, Walked
<1>3. LetGo(x, units, out) = f[k]  BY DEF LetGo
<1> HIDE DEF f
<1>4. h.g = x /\ h.out = out /\ HandedShape(h)  BY DEF Handed, HandedShape
<1> HIDE DEF h, k
<1>5. f[0] = h
  <2>1. 0 \in 0 .. k  BY <1>1
  <2> QED  BY <2>1, <1>2 DEF Walks
<1>6. \A n \in 1 .. k : f[n] = ToDirectives(f[n-1], units[n])
  <2> SUFFICES ASSUME NEW n \in 1 .. k PROVE f[n] = ToDirectives(f[n-1], units[n])  OBVIOUS
  <2>1. n \in 0 .. k /\ n # 0  BY <1>1
  <2> QED  BY <2>1, <1>2, Zenon DEF Walks
<1>7. S = {}
  <2> SUFFICES ASSUME S # {} PROVE FALSE  OBVIOUS
  <2>0. S \in SUBSET Nat  OBVIOUS
  <2>1. PICK m \in S : \A n \in S : m <= n
    <3> HIDE DEF S
    <3> QED  BY <2>0, LeastExists
  <2>2. m # 0  BY <2>1, <1>4, <1>5 DEF At
  <2>3. m \in 1 .. k /\ m - 1 \in 0 .. k /\ m - 1 \notin S  BY <2>1, <2>2, <1>1
  <2>4. Good(m - 1)  BY <2>3
  <2>5. InUnit(t, units[m])  BY <2>3, <1>1
  <2>6. units[m].first = At(units, r, m - 1) + 1
    <3>1. CASE m = 1
      <4>1. units # <<>>  BY <2>3, <1>1 DEF k
      <4>2. units[1].first = r + 1  BY <4>1 DEF Chain
      <4> QED  BY <3>1, <4>2 DEF At
    <3>2. CASE m # 1
      <4>1. m - 1 \in DOMAIN units /\ (m - 1) + 1 \in DOMAIN units /\ (m - 1) + 1 = m /\ m - 1 # 0
        BY <3>2, <2>3, <1>1
      <4>2. units[(m - 1) + 1].first = units[m - 1].last + 1  BY <4>1 DEF Chain
      <4> QED  BY <4>1, <4>2 DEF At
    <3> QED  BY <3>1, <3>2
  <2>7. f[m] = ToDirectives(f[m-1], units[m]) /\ At(units, r, m) = units[m].last
    BY <2>2, <2>3, <1>6 DEF At
  <2>8. StaysShaped(f[m-1], f[m])  BY <2>4, <2>7, StepShape
  <2>9. ~f[m].g.err => Passed(t, f[m].g.directive, f[m].out, p, units[m].last)
    <3> SUFFICES ASSUME ~f[m].g.err PROVE Passed(t, f[m].g.directive, f[m].out, p, units[m].last)
      OBVIOUS
    <3>1. ~f[m-1].g.err  BY <2>8 DEF StaysShaped
    <3> DEFINE b == f[m-1]
               u == units[m]
               q == At(units, r, m - 1)
    <3>2. HandedShape(b) /\ Passed(t, b.g.directive, b.out, p, q) /\ InUnit(t, u) /\ u.first = q + 1
          /\ f[m] = ToDirectives(b, u)
      BY <3>1, <2>4, <2>5, <2>6, <2>7
    <3> HIDE DEF b, u, q
    <3>3. Passed(t, f[m].g.directive, f[m].out, p, u.last)  BY <3>2, StepPasses
    <3> QED  BY <3>3 DEF u
  <2>10. Good(m)  BY <2>7, <2>8, <2>9 DEF StaysShaped
  <2> QED  BY <2>1, <2>10
<1>8. Good(k)  BY <1>1, <1>7
<1>9. At(units, r, k) = s
  <2>1. CASE k = 0
    <3>1. units = <<>>  BY <2>1, <1>1 DEF k
    <3> QED  BY <3>1, <2>1, <1>1 DEF Chain, At
  <2>2. CASE k # 0
    <3>1. units # <<>>  BY <2>2, <1>1 DEF k
    <3>2. units[k].last = s + 1 - 1  BY <3>1 DEF Chain, k
    <3> QED  BY <3>2, <2>2 DEF At
  <2> QED  BY <2>1, <2>2
<1>10. QED  BY <1>3, <1>8, <1>9


LEMMA MaxIn ==
    ASSUME NEW n \in Nat, NEW S \in SUBSET (1 .. n), S # {}
    PROVE  Max(S) \in S /\ \A i \in S : i <= Max(S)
<1> DEFINE R == {n - i : i \in S}
<1>1. R \in SUBSET Nat /\ R # {}  OBVIOUS
<1>2. PICK m \in R : \A k \in R : m <= k
  <2> HIDE DEF R
  <2> QED  BY <1>1, LeastExists
<1>3. PICK i \in S : m = n - i  BY <1>2
<1>4. \A k \in S : i >= k
  <2> SUFFICES ASSUME NEW k \in S PROVE i >= k  OBVIOUS
  <2>1. n - k \in R  OBVIOUS
  <2>2. n - i <= n - k /\ i \in 1 .. n /\ k \in 1 .. n  BY <2>1, <1>2, <1>3
  <2> QED  BY <2>2
<1>5. Max(S) \in S /\ \A k \in S : Max(S) >= k  BY <1>3, <1>4, Zenon DEF Max
<1>6. QED
  <2> SUFFICES ASSUME NEW k \in S PROVE k <= Max(S)  BY <1>5
  <2>1. Max(S) >= k /\ Max(S) \in 1 .. n /\ k \in 1 .. n  BY <1>5
  <2> QED  BY <2>1

LEMMA KeepsFrom ==
    ASSUME NEW window \in Seq(UnitType)
    PROVE  KeepFrom(window) \in 1 .. Len(window) + 1
<1> DEFINE content == {i \in DOMAIN window : window[i].kind # "comment"}
<1>1. Len(window) \in Nat /\ content \in SUBSET (1 .. Len(window))  OBVIOUS
<1>2. KeepFrom(window) = IF content = {} THEN Len(window) + 1 ELSE Max(content)  BY DEF KeepFrom
<1> HIDE DEF content
<1>3. CASE content = {}  BY <1>1, <1>2, <1>3
<1>4. CASE content # {}
  <2>1. PICK m \in Nat : m = Len(window)  BY <1>1
  <2>2. content \in SUBSET (1 .. m)  BY <1>1, <2>1
  <2>3. Max(content) \in content  BY <2>2, <1>4, MaxIn
  <2>4. Max(content) \in 1 .. Len(window) /\ KeepFrom(window) = Max(content)
    BY <2>3, <1>1, <1>2, <1>4, Zenon
  <2> QED  BY <2>4, <1>1
<1>5. QED  BY <1>3, <1>4

LEMMA WindowShape ==
    ASSUME NEW x, GrouperShape(x), NEW u \in UnitType, NEW out
    PROVE  LET n == ToWindow(x, u, out)
           IN  HandedShape(n) /\ n.g.header = x.header /\ (x.err => n.g.err)
<1> DEFINE window == Append(x.window, u)
           keep == KeepFrom(window)
           front == SubSeq(window, 1, keep - 1)
           back == SubSeq(window, keep, Len(window))
           y == [x EXCEPT !.window = back]
<1>1. window \in Seq(UnitType)  BY DEF GrouperShape
<1> HIDE DEF window
<1>2. keep \in 1 .. Len(window) + 1 /\ Len(window) \in Nat  BY <1>1, KeepsFrom
<1> HIDE DEF keep
<1>3. front \in Seq(UnitType)
  <2>1. 1 \in Int /\ keep - 1 \in Int /\ \A i \in 1 .. keep - 1 : window[i] \in UnitType
    BY <1>1, <1>2
  <2> QED  BY <2>1, SubSeqProperties
<1>4. back \in Seq(UnitType)
  <2>1. keep \in Int /\ Len(window) \in Int /\ \A i \in keep .. Len(window) : window[i] \in UnitType
    BY <1>1, <1>2
  <2> QED  BY <2>1, SubSeqProperties
<1> HIDE DEF front, back
<1>5. GrouperShape(y) /\ y.header = x.header /\ (x.err <=> y.err)  BY <1>4 DEF GrouperShape
<1>6. ToWindow(x, u, out) = LetGo(y, front, out)
  BY Zenon DEF ToWindow, window, keep, front, back, y
<1> HIDE DEF y
<1>7. QED  BY <1>3, <1>5, <1>6, LetGoShape

(* The window: what it lets go of passes, and the rest is held. *)
LEMMA WindowHolds ==
    ASSUME NEW t, TapeOK(t), NEW x, GrouperShape(x), NEW u, InUnit(t, u), NEW out,
           NEW p, NEW r, NEW s, Passed(t, x.directive, out, p, r), Held(t, x.window, r, s),
           u.first = s + 1, ~ToWindow(x, u, out).g.err
    PROVE  LET n == ToWindow(x, u, out)
           IN  \E q \in r .. u.last : Passed(t, n.g.directive, n.out, p, q) /\ Held(t, n.g.window, q, u.last)
<1> DEFINE window == Append(x.window, u)
           keep == KeepFrom(window)
           front == SubSeq(window, 1, keep - 1)
           back == SubSeq(window, keep, Len(window))
           y == [x EXCEPT !.window = back]
           n == ToWindow(x, u, out)
<1>1. /\ u \in UnitType /\ u.first \in 1 .. Len(t) /\ u.last \in 1 .. Len(t) /\ u.first <= u.last
      /\ Len(t) \in Nat
  BY UnitBounds, TapeFacts
<1>2. r \in Nat /\ s \in Nat /\ r <= s /\ x.window \in Seq(UnitType) /\ Chain(x.window, r + 1, s + 1)
  BY DEF Passed, Held
<1>3. r + 1 \in Nat /\ s + 1 \in Nat /\ r + 1 <= s + 1 /\ u.last + 1 \in Nat /\ r + 1 <= u.last + 1
  BY <1>1, <1>2
<1>4. window \in Seq(UnitType) /\ Chain(window, r + 1, u.last + 1)
  BY <1>1, <1>2, <1>3, ChainAppend
<1>5. \A i \in DOMAIN window : InUnit(t, window[i])
  <2> SUFFICES ASSUME NEW i \in DOMAIN window PROVE InUnit(t, window[i])  OBVIOUS
  <2>1. window[i] = u \/ (i \in DOMAIN x.window /\ window[i] = x.window[i])
    BY <1>1, <1>2, AppendedUnits
  <2> QED  BY <2>1 DEF Held
<1> HIDE DEF window
<1>6. keep \in 1 .. Len(window) + 1 /\ Len(window) \in Nat  BY <1>4, KeepsFrom
<1> HIDE DEF keep
<1>7. PICK c \in r + 1 .. u.last + 1 : /\ front \in Seq(UnitType) /\ Chain(front, r + 1, c)
                                       /\ back \in Seq(UnitType) /\ Chain(back, c, u.last + 1)
  BY <1>3, <1>4, <1>6, ChainSplit
<1>8. \A i \in DOMAIN front : InUnit(t, front[i])
  <2>1. /\ 1 \in Int /\ keep - 1 \in Int /\ \A i \in 1 .. keep - 1 : window[i] \in UnitType
        /\ \A i \in 1 .. keep - 1 : i \in DOMAIN window
    BY <1>4, <1>6
  <2>2. /\ Len(front) = keep - 1 /\ \A i \in 1 .. keep - 1 : front[i] = window[i]
    BY <2>1, <1>6, SubSeqProperties
  <2>3. DOMAIN front = 1 .. keep - 1  BY <2>2, <1>7, UnitsOf
  <2> HIDE DEF front
  <2> QED  BY <2>1, <2>2, <2>3, <1>5
<1>9. \A i \in DOMAIN back : InUnit(t, back[i])
  <2>1. /\ keep \in Int /\ Len(window) \in Int /\ \A i \in keep .. Len(window) : window[i] \in UnitType
    BY <1>4, <1>6
  <2>2. /\ Len(back) = Len(window) - keep + 1
        /\ \A i \in 1 .. Len(window) - keep + 1 : back[i] = window[keep + i - 1]
    BY <2>1, <1>6, SubSeqProperties
  <2>3. DOMAIN back = 1 .. Len(window) - keep + 1  BY <2>2, <1>7, UnitsOf
  <2>4. \A i \in 1 .. Len(window) - keep + 1 : keep + i - 1 \in DOMAIN window  BY <1>4, <1>6
  <2> HIDE DEF back
  <2> QED  BY <2>2, <2>3, <2>4, <1>5
<1> HIDE DEF front, back
<1>10. GrouperShape(y) /\ y.directive = x.directive /\ y.window = back
  BY <1>7 DEF GrouperShape
<1>11. n = LetGo(y, front, out)
  BY Zenon DEF ToWindow, window, keep, front, back, y, n
<1>0. ~n.g.err  OBVIOUS
<1> HIDE DEF y, n
<1>12. n.g.window = back  BY <1>7, <1>10, <1>11, LetGoShape
<1> DEFINE q == c - 1
<1>13. q \in r .. u.last /\ q \in Nat /\ q + 1 = c /\ r <= q /\ q <= u.last  BY <1>1, <1>2, <1>7
<1> HIDE DEF q
<1>14. Passed(t, n.g.directive, n.out, p, q)
  BY <1>0, <1>7, <1>8, <1>10, <1>11, <1>13, LetGoPasses
<1>15. Held(t, n.g.window, q, u.last)  BY <1>1, <1>7, <1>9, <1>12, <1>13 DEF Held
<1>16. QED  BY <1>13, <1>14, <1>15 DEF n



LEMMA FeedShape ==
    ASSUME NEW x, GrouperShape(x), NEW u \in UnitType, NEW out
    PROVE  LET n == Feed(x, u, out) IN HandedShape(n) /\ (x.err => n.g.err)
<1> DEFINE n == Feed(x, u, out)
<1>1. CASE x.header # <<>>
  <2> DEFINE y == [x EXCEPT !.header = <<>>]
             lit == [x.header[1] EXCEPT !.kind = "literal", !.last = u.last]
  <2>1. GrouperShape(y) /\ (y.err <=> x.err)
    <3>1. <<>> \in Seq(UnitType)  OBVIOUS
    <3> QED  BY <3>1 DEF GrouperShape
  <2>2. lit \in UnitType
    <3>1. x.header[1] \in UnitType /\ u.last \in Nat
      BY <1>1, UnitFields DEF GrouperShape
    <3> QED  BY <3>1 DEF UnitType
  <2>3. n = ToWindow(y, lit, out)  BY <1>1 DEF Feed
  <2> HIDE DEF y, lit, n
  <2>4. HandedShape(n) /\ (x.err => n.g.err)  BY <2>1, <2>2, <2>3, WindowShape
  <2> QED  BY <2>4 DEF n
<1>2. CASE x.header = <<>> /\ u.kind = "block"
  <2>0. <<u>> \in Seq(UnitType)  OBVIOUS
  <2>1. PICK hd \in Seq(UnitType) : hd = <<u>>  BY <2>0, Zenon
  <2>2. n = Handed([x EXCEPT !.header = hd], out)  BY <1>2, <2>1 DEF Feed
  <2> QED  BY <2>2 DEF GrouperShape, HandedShape, Handed
<1>3. CASE x.header = <<>> /\ u.kind # "block"
  <2>1. n = ToWindow(x, u, out)  BY <1>3 DEF Feed
  <2> QED  BY <2>1, WindowShape
<1>4. QED  BY <1>1, <1>2, <1>3

LEMMA UnitShape ==
    ASSUME NEW t, TapeOK(t), NEW m \in 1 .. Len(t)
    PROVE  LET u == Unit(t[m].kind, t[m].line, m)
           IN  /\ u \in UnitType /\ u.kind = t[m].kind /\ u.line = t[m].line
               /\ u.first = m /\ u.last = m /\ u.version = "none"
<1>1. t[m].kind \in Kinds /\ t[m].line \in Nat /\ m \in Nat  BY TapeFacts
<1>2. QED  BY <1>1 DEF Unit, UnitType

LEMMA FeedHolds ==
    ASSUME NEW t, TapeOK(t), NEW x, GrouperShape(x), NEW out, NEW p, NEW m \in Nat, Len(t) = m + 1,
           Grouped(t, x, out, p, m), NEW u, u = Unit(t[m + 1].kind, t[m + 1].line, m + 1),
           ~Feed(x, u, out).g.err
    PROVE  Grouped(t, Feed(x, u, out).g, Feed(x, u, out).out, p, m + 1)
<1> DEFINE n == Feed(x, u, out)
           k == m + 1
<1>1. PICK r \in 0 .. m, s \in 0 .. m :
        Passed(t, x.directive, out, p, r) /\ Held(t, x.window, r, s) /\ Opened(t, x.header, s, m)
  BY DEF Grouped
<1>2. k \in 1 .. Len(t) /\ k \in DOMAIN t /\ Len(t) \in Nat  BY TapeFacts
<1>3. /\ u \in UnitType /\ u.kind = t[k].kind /\ u.line = t[k].line /\ u.first = k /\ u.last = k
      /\ u.version = "none"
  BY <1>2, UnitShape
<1>4. m > 0 => (t[m].kind = "block" <=> t[k].kind = "content")  BY <1>2, BesideFacts
<1>0. ~n.g.err  OBVIOUS
<1>5. CASE x.header # <<>>
  <2>1. s + 1 = m /\ t[m].kind = "block" /\ x.header = <<Unit("block", t[m].line, m)>>
    BY <1>1, <1>5 DEF Opened
  <2>2. m \in 1 .. Len(t) /\ m > 0  BY <1>2, <2>1
  <2> DEFINE h == Unit("block", t[m].line, m)
             y == [x EXCEPT !.header = <<>>]
             lit == [x.header[1] EXCEPT !.kind = "literal", !.last = u.last]
  <2>3. x.header[1] = h  BY <2>1
  <2>4. /\ h \in UnitType /\ h.kind = "block" /\ h.line = t[m].line /\ h.first = m /\ h.last = m
        /\ h.version = "none"
    BY <2>1, <2>2, UnitShape
  <2> HIDE DEF h
  <2>5. /\ lit \in UnitType /\ lit.kind = "literal" /\ lit.line = t[m].line /\ lit.first = m
        /\ lit.last = k /\ lit.version = "none"
    <3>1. u.last \in Nat /\ u.last = k  BY <1>3
    <3> QED  BY <3>1, <2>3, <2>4 DEF UnitType
  <2>6. GrouperShape(y) /\ y.header = <<>> /\ y.directive = x.directive /\ y.window = x.window
    <3>1. <<>> \in Seq(UnitType)  OBVIOUS
    <3> QED  BY <3>1 DEF GrouperShape
  <2>7. n = ToWindow(y, lit, out)  BY <1>5 DEF Feed
  <2> HIDE DEF y, lit
  <2>8. InUnit(t, lit)  BY <1>2, <1>4, <2>1, <2>2, <2>5, TapeFacts DEF InUnit, IsLiteral
  <2>9. PICK q \in r .. k : Passed(t, n.g.directive, n.out, p, q) /\ Held(t, n.g.window, q, k)
    <3> HIDE DEF n
    <3>1. lit.first = s + 1 /\ ~ToWindow(y, lit, out).g.err  BY <2>1, <2>5, <2>7, <1>0
    <3> QED  BY <3>1, <1>1, <2>5, <2>6, <2>7, <2>8, WindowHolds
  <2>10. n.g.header = <<>>  BY <2>5, <2>6, <2>7, WindowShape
  <2>11. t[k].kind # "block"  BY <1>4, <2>1, <2>2
  <2>12. Opened(t, n.g.header, k, k)  BY <2>10, <2>11 DEF Opened
  <2>13. q \in 0 .. k /\ k \in 0 .. k  BY <1>1, <2>9
  <2> HIDE DEF n, k
  <2>14. Grouped(t, n.g, n.out, p, k)  BY <2>9, <2>12, <2>13 DEF Grouped
  <2> QED  BY <2>14 DEF n, k
<1>6. CASE x.header = <<>> /\ u.kind = "block"
  <2>1. n = Handed([x EXCEPT !.header = <<u>>], out)  BY <1>6 DEF Feed
  <2>2. /\ n.g.directive = x.directive /\ n.g.window = x.window /\ n.out = out
        /\ n.g.header = <<Unit("block", t[k].line, k)>>
    <3>1. u = Unit("block", t[k].line, k)  BY <1>3, <1>6
    <3> HIDE DEF k, n
    <3> QED  BY <3>1, <2>1 DEF Handed, GrouperShape
  <2>3. s = m  BY <1>1, <1>6 DEF Opened
  <2>4. Opened(t, n.g.header, m, k)  BY <2>2, <1>3, <1>6 DEF Opened
  <2>5. r \in 0 .. k /\ m \in 0 .. k  BY <1>1
  <2> HIDE DEF n, k
  <2>6. Grouped(t, n.g, n.out, p, k)  BY <1>1, <2>2, <2>3, <2>4, <2>5 DEF Grouped
  <2> QED  BY <2>6 DEF n, k
<1>7. CASE x.header = <<>> /\ u.kind # "block"
  <2>1. n = ToWindow(x, u, out)  BY <1>7 DEF Feed
  <2>2. s = m /\ (m > 0 => t[m].kind # "block")  BY <1>1, <1>7 DEF Opened
  <2>3. t[k].kind # "content"
    <3>1. CASE m = 0  BY <3>1, <1>2, TapeFacts DEF TapeOK
    <3>2. CASE m > 0  BY <3>2, <2>2, <1>4
    <3> QED  BY <3>1, <3>2
  <2>4. InUnit(t, u)  BY <1>2, <1>3, <1>7, <2>3 DEF InUnit, IsSingle
  <2>5. PICK q \in r .. k : Passed(t, n.g.directive, n.out, p, q) /\ Held(t, n.g.window, q, k)
    <3> HIDE DEF n
    <3>1. u.first = s + 1 /\ ~ToWindow(x, u, out).g.err  BY <2>1, <2>2, <1>3, <1>0
    <3> QED  BY <3>1, <1>1, <1>3, <2>1, <2>4, WindowHolds
  <2>6. n.g.header = <<>>  BY <2>1, <1>3, <1>7, WindowShape
  <2>7. Opened(t, n.g.header, k, k)  BY <2>6, <1>3, <1>7 DEF Opened
  <2>8. q \in 0 .. k /\ k \in 0 .. k  BY <1>1, <2>5
  <2> HIDE DEF n, k
  <2>9. Grouped(t, n.g, n.out, p, k)  BY <2>5, <2>7, <2>8 DEF Grouped
  <2> QED  BY <2>9 DEF n, k
<1>8. QED  BY <1>5, <1>6, <1>7


LEMMA FinishShape ==
    ASSUME NEW x, GrouperShape(x), NEW out
    PROVE  LET n == Finish(x, out) IN HandedShape(n) /\ (x.err => n.g.err)
<1> DEFINE literal == IF x.header = <<>> THEN Handed(x, out)
                      ELSE ToWindow([x EXCEPT !.header = <<>>],
                                    [x.header[1] EXCEPT !.kind = "literal"], out)
           y == [literal.g EXCEPT !.window = <<>>]
           flushed == LetGo(y, literal.g.window, literal.out)
           n == Finish(x, out)
<1>1. HandedShape(literal) /\ (x.err => literal.g.err)
  <2>1. CASE x.header = <<>>  BY <2>1 DEF HandedShape, Handed
  <2>2. CASE x.header # <<>>
    <3> DEFINE z == [x EXCEPT !.header = <<>>]
               lit == [x.header[1] EXCEPT !.kind = "literal"]
    <3>1. GrouperShape(z) /\ (z.err <=> x.err)
      <4>1. <<>> \in Seq(UnitType)  OBVIOUS
      <4> QED  BY <4>1 DEF GrouperShape
    <3>2. lit \in UnitType
      <4>1. x.header[1] \in UnitType  BY <2>2 DEF GrouperShape
      <4> QED  BY <4>1 DEF UnitType
    <3>3. literal = ToWindow(z, lit, out)  BY <2>2
    <3> HIDE DEF z, lit, literal
    <3> QED  BY <3>1, <3>2, <3>3, WindowShape
  <2> QED  BY <2>1, <2>2
<1> HIDE DEF literal
<1>2. GrouperShape(y) /\ (y.err <=> literal.g.err) /\ literal.g.window \in Seq(UnitType)
  <2>1. <<>> \in Seq(UnitType)  OBVIOUS
  <2> QED  BY <1>1, <2>1 DEF HandedShape, GrouperShape
<1>3. HandedShape(flushed) /\ (y.err => flushed.g.err)
  <2> HIDE DEF y
  <2> QED  BY <1>2, LetGoShape
<1>4. n = Handed([flushed.g EXCEPT !.err = flushed.g.err \/ flushed.g.directive.first # 0], flushed.out)
  BY DEF Finish, literal, flushed, y
<1> HIDE DEF flushed, y
<1>5. (flushed.g.err \/ flushed.g.directive.first # 0) \in BOOLEAN  OBVIOUS
<1>6. PICK b \in BOOLEAN : b = (flushed.g.err \/ flushed.g.directive.first # 0)  BY <1>5, Zenon
<1>7. n = Handed([flushed.g EXCEPT !.err = b], flushed.out)  BY <1>4, <1>6, Zenon
<1> HIDE DEF n
<1>8. HandedShape(n) /\ (n.g.err <=> b)  BY <1>3, <1>7 DEF HandedShape, GrouperShape, Handed
<1>9. (x.err => n.g.err)  BY <1>1, <1>2, <1>3, <1>6, <1>8
<1>10. QED  BY <1>8, <1>9 DEF n

LEMMA FinishSettles ==
    ASSUME NEW t, TapeOK(t), NEW x, GrouperShape(x), NEW out, NEW p,
           Grouped(t, x, out, p, Len(t)), ~Finish(x, out).g.err
    PROVE  Settled(t, Finish(x, out).out, p, Len(t))
<1> DEFINE literal == IF x.header = <<>> THEN Handed(x, out)
                      ELSE ToWindow([x EXCEPT !.header = <<>>],
                                    [x.header[1] EXCEPT !.kind = "literal"], out)
           y == [literal.g EXCEPT !.window = <<>>]
           flushed == LetGo(y, literal.g.window, literal.out)
           n == Finish(x, out)
           m == Len(t)
<1>0. ~n.g.err /\ m \in Nat /\ Len(t) = m  BY TapeFacts
<1>1. PICK r \in 0 .. m, s \in 0 .. m :
        Passed(t, x.directive, out, p, r) /\ Held(t, x.window, r, s) /\ Opened(t, x.header, s, m)
  BY DEF Grouped
<1>2. n = Handed([flushed.g EXCEPT !.err = flushed.g.err \/ flushed.g.directive.first # 0], flushed.out)
  BY DEF Finish, literal, flushed, y
<1> HIDE DEF n, literal, m
<1>3. /\ HandedShape(literal)
      /\ ~literal.g.err =>
            \E q \in 0 .. m : Passed(t, literal.g.directive, literal.out, p, q) /\ Held(t, literal.g.window, q, m)
  <2>1. CASE x.header = <<>>
    <3>1. literal.g = x /\ literal.out = out /\ HandedShape(literal)
      BY <2>1 DEF HandedShape, Handed, literal
    <3>2. s = m  BY <1>1, <2>1 DEF Opened
    <3> QED  BY <3>1, <3>2, <1>1
  <2>2. CASE x.header # <<>>
    <3> DEFINE z == [x EXCEPT !.header = <<>>]
               lit == [x.header[1] EXCEPT !.kind = "literal"]
               h == Unit("block", t[m].line, m)
    <3>1. s + 1 = m /\ t[m].kind = "block" /\ x.header = <<h>>  BY <1>1, <2>2 DEF Opened
    <3>2. m \in 1 .. Len(t) /\ m \in DOMAIN t  BY <1>0, <3>1, TapeFacts
    <3>3. x.header[1] = h  BY <3>1
    <3>4. /\ h \in UnitType /\ h.kind = "block" /\ h.line = t[m].line /\ h.first = m /\ h.last = m
          /\ h.version = "none"
      BY <3>1, <3>2, UnitShape
    <3> HIDE DEF h
    <3>5. /\ lit \in UnitType /\ lit.kind = "literal" /\ lit.line = t[m].line /\ lit.first = m
          /\ lit.last = m /\ lit.version = "none"
      BY <3>3, <3>4 DEF UnitType
    <3>6. GrouperShape(z) /\ z.directive = x.directive /\ z.window = x.window
      <4>1. <<>> \in Seq(UnitType)  OBVIOUS
      <4> QED  BY <4>1 DEF GrouperShape
    <3>7. literal = ToWindow(z, lit, out)  BY <2>2 DEF literal
    <3> HIDE DEF z, lit
    <3>8. InUnit(t, lit)  BY <3>1, <3>2, <3>5 DEF InUnit, IsLiteral
    <3>9. HandedShape(literal)  BY <3>5, <3>6, <3>7, WindowShape
    <3>10. ASSUME ~literal.g.err
           PROVE  \E q \in 0 .. m : /\ Passed(t, literal.g.directive, literal.out, p, q)
                                    /\ Held(t, literal.g.window, q, m)
      <4>1. lit.first = s + 1 /\ ~ToWindow(z, lit, out).g.err  BY <3>1, <3>5, <3>7, <3>10
      <4>2. PICK q \in r .. m : /\ Passed(t, literal.g.directive, literal.out, p, q)
                                /\ Held(t, literal.g.window, q, m)
        BY <4>1, <1>1, <3>5, <3>6, <3>7, <3>8, WindowHolds
      <4>3. q \in 0 .. m  BY <1>1, <4>2
      <4> QED  BY <4>2, <4>3
    <3> QED  BY <3>9, <3>10
  <2> QED  BY <2>1, <2>2
<1>4. /\ GrouperShape(y) /\ (y.err <=> literal.g.err) /\ literal.g.window \in Seq(UnitType)
      /\ y.directive = literal.g.directive
  <2>1. <<>> \in Seq(UnitType)  OBVIOUS
  <2> QED  BY <1>3, <2>1 DEF HandedShape, GrouperShape
<1> HIDE DEF y
<1>5. HandedShape(flushed) /\ (y.err => flushed.g.err)  BY <1>4, LetGoShape
<1>6. PICK b \in BOOLEAN : b = (flushed.g.err \/ flushed.g.directive.first # 0)  BY Zenon
<1>7. n = Handed([flushed.g EXCEPT !.err = b], flushed.out)
  <2> HIDE DEF flushed
  <2> QED  BY <1>2, <1>6, Zenon
<1>8. (n.g.err <=> b) /\ n.out = flushed.out
  <2> HIDE DEF flushed
  <2> QED  BY <1>5, <1>7 DEF HandedShape, GrouperShape, Handed
<1>9. ~flushed.g.err /\ flushed.g.directive.first = 0
  <2> HIDE DEF flushed
  <2> QED  BY <1>0, <1>6, <1>8
<1>10. PICK q \in 0 .. m : /\ Passed(t, literal.g.directive, literal.out, p, q)
                           /\ Held(t, literal.g.window, q, m)
  <2> HIDE DEF flushed
  <2> QED  BY <1>3, <1>4, <1>5, <1>9
<1>11. Passed(t, flushed.g.directive, flushed.out, p, m)
  <2>1. /\ q \in Nat /\ q <= m /\ Chain(literal.g.window, q + 1, m + 1)
        /\ \A i \in DOMAIN literal.g.window : InUnit(t, literal.g.window[i])
        /\ Passed(t, y.directive, literal.out, p, q)
    BY <1>0, <1>4, <1>10 DEF Held
  <2> QED  BY <2>1, <1>0, <1>4, <1>9, LetGoPasses
<1> HIDE DEF flushed
<1>12. Settled(t, flushed.out, p, m)
  <2> DEFINE d == flushed.g.directive
  <2>1. d.first = 0  BY <1>9
  <2> HIDE DEF d
  <2>2. NoneHeld(t, d, flushed.out, p, m)
    <3>1. ~Unnamed(t, d, flushed.out, p, m)
      <4> SUFFICES ASSUME Unnamed(t, d, flushed.out, p, m) PROVE FALSE  OBVIOUS
      <4>1. m > 0 /\ d = [NoDirective EXCEPT !.line = t[m].line, !.first = m, !.last = m]
        BY DEF Unnamed
      <4>2. d.first = m  BY <4>1 DEF NoDirective
      <4> QED  BY <4>1, <4>2, <2>1, <1>0
    <3>2. ~AtName(t, d, flushed.out, p, m)  BY <2>1 DEF AtName
    <3> QED  BY <1>11, <3>1, <3>2 DEF Passed, d
  <2>3. Chain(flushed.out, p + 1, m + 1)  BY <2>2 DEF NoneHeld
  <2>4. \A i \in 1 .. m : t[i].kind = "percent" => FollowedAt(t, i)
    <3> SUFFICES ASSUME NEW i \in 1 .. m, t[i].kind = "percent" PROVE FollowedAt(t, i)  OBVIOUS
    <3>1. i # d.first  BY <2>1
    <3> QED  BY <3>1, <1>11 DEF Passed, d
  <2> QED  BY <1>11, <2>3, <2>4 DEF Settled, Passed
<1>13. QED  BY <1>8, <1>12 DEF n, m


-----------------------------------------------------------------------------
(* The tokens: the scanner adds one, and a version's scope resolves again. *)

LineOf(sameLine) ==
    LET last == IF tape = <<>> THEN 0 ELSE tape[Len(tape)].line
    IN  IF sameLine THEN last ELSE last + 1

LEMMA FollowsBeside ==
    ASSUME TapeOK(tape), tape # <<>>, NEW kind \in Kinds, NEW sameLine \in BOOLEAN,
           Follows(kind, sameLine), NEW x, x.kind = kind, x.line = LineOf(sameLine)
    PROVE  Beside(tape[Len(tape)], x) /\ x.line \in Nat \ {0} /\ tape[Len(tape)].line <= x.line
<1> DEFINE a == tape[Len(tape)]
<1>1. a.kind \in Kinds /\ a.line \in Nat /\ a.line > 0  BY TapeFacts
<1>2. /\ x.line = IF sameLine THEN a.line ELSE a.line + 1
  BY DEF LineOf
<1>3. kind = "name" => a.kind = "percent" /\ sameLine  BY DEF Follows, Schemas
<1>4. kind \in {"1.1", "1.2"} => a.kind = "name" /\ sameLine  BY DEF Follows, Schemas
<1>5. kind = "content" => a.kind = "block" /\ ~sameLine  BY DEF Follows, Schemas
<1>6. kind \in {"scalar", "entry", "block"} =>
        a.kind \notin {"percent", "block"} /\ (a.kind \in {"header", "end", "entry"} \/ ~sameLine)
  BY DEF Follows, Schemas
<1>7. kind \in {"header", "end", "percent", "comment"} => a.kind \notin {"percent", "block"} /\ ~sameLine
  BY DEF Follows, Schemas
<1> HIDE DEF a
<1>8. x.line = a.line \/ x.line = a.line + 1  BY <1>2
<1>9. (sameLine => x.line = a.line) /\ (~sameLine => x.line # a.line)  BY <1>1, <1>2
<1>10. x.line \in Nat /\ x.line > 0 /\ a.line <= x.line  BY <1>1, <1>8
<1>11. Beside(a, x)
  <2>1. a.kind = "percent" => x.kind = "name"  BY <1>4, <1>5, <1>6, <1>7 DEF Kinds
  <2>2. x.kind = "name" => a.kind = "percent" /\ a.line = x.line  BY <1>3, <1>9
  <2>3. x.kind \in Schemas => a.kind = "name" /\ a.line = x.line  BY <1>4, <1>9 DEF Schemas
  <2>4. a.kind \in Name /\ a.line = x.line => x.kind \in Schemas
    BY <1>3, <1>5, <1>6, <1>7, <1>9 DEF Schemas, Name, Kinds
  <2>5. a.kind = "block" <=> x.kind = "content"
    BY <1>3, <1>4, <1>5, <1>6, <1>7 DEF Kinds
  <2>6. x.kind = "comment" => a.line # x.line  BY <1>7, <1>9
  <2> QED  BY <2>1, <2>2, <2>3, <2>4, <2>5, <2>6, <1>10 DEF Beside
<1>12. QED  BY <1>10, <1>11 DEF a

LEMMA ScannedTape ==
    ASSUME TapeOK(tape), NEW kind \in Kinds, NEW sameLine \in BOOLEAN, Follows(kind, sameLine),
           NEW x \in Token, x.kind = kind, x.line = LineOf(sameLine)
    PROVE  TapeOK(Append(tape, x)) /\ Same(tape, Append(tape, x))
<1> DEFINE w == Append(tape, x)
           m == Len(tape)
<1>1. /\ m \in Nat /\ DOMAIN tape = 1 .. m /\ (tape = <<>> <=> m = 0)
      /\ \A i \in 1 .. m : tape[i].line \in Nat
  BY TapeFacts
<1>2. tape \in Seq(Token)  BY DEF TapeOK
<1>3. /\ w \in Seq(Token) /\ Len(w) = m + 1 /\ \A i \in 1 .. m : w[i] = tape[i]
      /\ w[m + 1] = x
  BY <1>2
<1>4. DOMAIN w = 1 .. m + 1  BY <1>1, <1>3
<1> HIDE DEF w, m
<1>5. Same(tape, w)  BY <1>1, <1>3 DEF Same, m
<1>6. w[1].kind \notin Name \cup {"content"}
  <2>1. CASE m = 0
    <3>1. w[1].kind = kind /\ tape = <<>>  BY <2>1, <1>1, <1>3
    <3>2. kind \notin {"name", "1.1", "1.2", "content"}
      <4>1. kind # "name"  BY <3>1 DEF Follows, Schemas
      <4>2. kind \notin {"1.1", "1.2"}  BY <3>1 DEF Follows, Schemas
      <4>3. kind # "content"  BY <3>1 DEF Follows, Schemas
      <4> QED  BY <4>1, <4>2, <4>3
    <3> QED  BY <3>1, <3>2 DEF Name
  <2>2. CASE m # 0
    <3>1. w[1] = tape[1] /\ tape # <<>>  BY <2>2, <1>1, <1>3
    <3> QED  BY <3>1 DEF TapeOK
  <2> QED  BY <2>1, <2>2
<1>7. m # 0 => Beside(tape[m], x) /\ tape[m].line <= x.line /\ x.line \in Nat
  BY <1>1, FollowsBeside DEF m
<1>8. \A i, j \in 1 .. m + 1 : i < j => w[i].line <= w[j].line
  <2> SUFFICES ASSUME NEW i \in 1 .. m + 1, NEW j \in 1 .. m + 1, i < j
               PROVE  w[i].line <= w[j].line
    OBVIOUS
  <2>1. i \in 1 .. m /\ w[i] = tape[i]  BY <1>1, <1>3
  <2>2. CASE j \in 1 .. m
    <3>1. w[j] = tape[j]  BY <2>2, <1>3
    <3> QED  BY <2>1, <2>2, <3>1, <1>1 DEF TapeOK
  <2>3. CASE j = m + 1
    <3>1. m # 0 /\ m \in 1 .. m /\ w[j] = x  BY <2>1, <2>3, <1>1, <1>3
    <3>2. tape[i].line <= tape[m].line
      <4>1. CASE i = m  BY <4>1, <3>1, <1>1
      <4>2. CASE i # m
        <5>1. i < m  BY <4>2, <2>1, <1>1
        <5> QED  BY <5>1, <2>1, <3>1, <1>1 DEF TapeOK
      <4> QED  BY <4>1, <4>2
    <3> QED  BY <2>1, <3>1, <3>2, <1>1, <1>7
  <2> QED  BY <2>2, <2>3, <1>1
<1>9. \A i \in 1 .. m : Beside(w[i], w[i+1])
  <2> SUFFICES ASSUME NEW i \in 1 .. m PROVE Beside(w[i], w[i+1])  OBVIOUS
  <2>1. CASE i = m  BY <2>1, <1>1, <1>3, <1>7
  <2>2. CASE i # m
    <3>1. i \in 1 .. Len(tape) - 1 /\ w[i] = tape[i] /\ w[i+1] = tape[i+1]
      BY <2>2, <1>1, <1>3 DEF m
    <3> QED  BY <3>1 DEF TapeOK
  <2> QED  BY <2>1, <2>2
<1>10. Len(w) - 1 = m  BY <1>1, <1>3
<1>11. TapeOK(w)  BY <1>3, <1>4, <1>6, <1>8, <1>9, <1>10 DEF TapeOK
<1>12. QED  BY <1>5, <1>11 DEF w

(* What is resolved again. *)
Again(t, i, from) ==
    i > from /\ (t[i].kind = "scalar" \/ (t[i].kind = "content" /\ i - 1 <= from))

LEMMA RetypedTape ==
    ASSUME NEW t, TapeOK(t), NEW to \in Schemas, NEW from \in Int
    PROVE  LET w == Retype(t, to, from)
           IN  /\ TapeOK(w) /\ Len(w) = Len(t) /\ Same(t, w) /\ Same(w, t)
               /\ \A i \in 1 .. Len(t) :
                     /\ w[i].kind = t[i].kind /\ w[i].line = t[i].line
                     /\ w[i].schema = IF Again(t, i, from) THEN to ELSE t[i].schema
<1> DEFINE w == Retype(t, to, from)
           m == Len(t)
<1>1. /\ m \in Nat /\ DOMAIN t = 1 .. m /\ (t = <<>> <=> m = 0) /\ \A i \in 1 .. m : t[i] \in Token
  BY TapeFacts
<1>2. w = [i \in 1 .. m |-> IF Again(t, i, from) THEN [t[i] EXCEPT !.schema = to] ELSE t[i]]
  BY <1>1 DEF Retype, Again
<1> HIDE DEF w, m
<1>3. \A i \in 1 .. m :
        /\ w[i] \in Token /\ w[i].kind = t[i].kind /\ w[i].line = t[i].line
        /\ w[i].schema = IF Again(t, i, from) THEN to ELSE t[i].schema
  <2> SUFFICES ASSUME NEW i \in 1 .. m
               PROVE  /\ w[i] \in Token /\ w[i].kind = t[i].kind /\ w[i].line = t[i].line
                      /\ w[i].schema = IF Again(t, i, from) THEN to ELSE t[i].schema
    OBVIOUS
  <2>1. w[i] = IF Again(t, i, from) THEN [t[i] EXCEPT !.schema = to] ELSE t[i]  BY <1>2
  <2>2. t[i] \in Token  BY <1>1
  <2>3. CASE Again(t, i, from)  BY <2>1, <2>2, <2>3 DEF Token
  <2>4. CASE ~Again(t, i, from)  BY <2>1, <2>2, <2>4
  <2> QED  BY <2>3, <2>4
<1>4. w \in Seq(Token) /\ Len(w) = m /\ DOMAIN w = 1 .. m  BY <1>1, <1>2, <1>3
<1>5. TapeOK(w)
  <2>1. w # <<>> => w[1].kind \notin Name \cup {"content"}
    <3> SUFFICES ASSUME w # <<>> PROVE w[1].kind \notin Name \cup {"content"}  OBVIOUS
    <3>1. t # <<>> /\ 1 \in 1 .. m  BY <1>1, <1>4
    <3> QED  BY <3>1, <1>3 DEF TapeOK
  <2>2. \A i, j \in DOMAIN w : i < j => w[i].line <= w[j].line  BY <1>1, <1>3, <1>4 DEF TapeOK
  <2>3. \A i \in 1 .. Len(w)-1 : Beside(w[i], w[i+1])
    <3> SUFFICES ASSUME NEW i \in 1 .. m - 1 PROVE Beside(w[i], w[i+1])  BY <1>4
    <3>1. i \in 1 .. m /\ i + 1 \in 1 .. m /\ Beside(t[i], t[i+1])  BY <1>1 DEF TapeOK, m
    <3> QED  BY <3>1, <1>3 DEF Beside
  <2> QED  BY <2>1, <2>2, <2>3, <1>4 DEF TapeOK
<1>6. Same(t, w) /\ Same(w, t)  BY <1>1, <1>3, <1>4 DEF Same, m
<1>7. QED  BY <1>3, <1>4, <1>5, <1>6 DEF w, m


-----------------------------------------------------------------------------
(* What is ahead of the parse. *)

LEMMA OutFacts ==
    ASSUME NEW t, TapeOK(t), NEW u, OutUnit(t, u)
    PROVE  /\ u \in UnitType /\ u.first \in 1 .. Len(t) /\ u.last \in 1 .. Len(t) /\ u.first <= u.last
           /\ u.line = t[u.first].line
           /\ \A k \in {"header", "end", "comment", "entry"} :
                 /\ u.kind = k <=> t[u.first].kind = k
                 /\ u.kind = k => u.last = u.first
           /\ u.kind \notin {"header", "end"} => \A i \in u.first .. u.last : t[i].kind \notin {"header", "end"}
<1>1. CASE IsDirective(t, u)
  <2>1. /\ u \in UnitType /\ u.first \in 1 .. Len(t) /\ u.last \in 1 .. Len(t) /\ u.first < u.last
        /\ u.line = t[u.first].line /\ u.kind = "directive" /\ t[u.first].kind = "percent"
        /\ u.first \in Nat /\ u.last \in Nat
    BY <1>1, TapeFacts, UnitFields DEF IsDirective
  <2>2. \A i \in u.first .. u.last : t[i].kind \in Name \cup {"percent"}
    <3> SUFFICES ASSUME NEW i \in u.first .. u.last PROVE t[i].kind \in Name \cup {"percent"}
      OBVIOUS
    <3>1. i = u.first \/ i \in u.first + 1 .. u.last  BY <2>1
    <3> QED  BY <3>1, <2>1, <1>1 DEF IsDirective
  <2> QED  BY <2>1, <2>2 DEF Name
<1>2. CASE InUnit(t, u)
  <2>1. /\ u \in UnitType /\ u.first \in 1 .. Len(t) /\ u.last \in 1 .. Len(t) /\ u.first <= u.last
        /\ u.line = t[u.first].line
    BY <1>2, UnitBounds DEF InUnit
  <2>2. u.first \in u.first .. u.last  BY <2>1
  <2>3. \A i \in u.first .. u.last : t[i].kind \in {"header", "end"} => u.kind = t[i].kind
    BY <1>2, UnitBounds
  <2>4. ASSUME NEW k \in {"header", "end", "comment", "entry"}
        PROVE  (u.kind = k <=> t[u.first].kind = k) /\ (u.kind = k => u.last = u.first)
    <3>1. u.kind = k => u.last = u.first /\ t[u.first].kind = k  BY <1>2, UnitBounds
    <3>2. t[u.first].kind = k => u.kind = k
      BY <1>2 DEF InUnit, IsSingle, IsLiteral
    <3> QED  BY <3>1, <3>2
  <2> QED  BY <2>1, <2>3, <2>4
<1>3. QED  BY <1>1, <1>2 DEF OutUnit

LEMMA PassedTail ==
    ASSUME NEW t, TapeOK(t), NEW d, NEW out, NEW p, NEW r, Passed(t, d, out, p, r), out # <<>>
    PROVE  /\ OutUnit(t, out[1]) /\ out[1].first = p + 1 /\ p < out[1].last /\ out[1].last <= r
           /\ Passed(t, d, Tail(out), out[1].last, r)
<1> DEFINE u == out[1]
           o == Tail(out)
<1>1. /\ p \in Nat /\ r \in Nat /\ p <= r /\ r <= Len(t) /\ out \in Seq(UnitType)
      /\ \A i \in DOMAIN out : OutUnit(t, out[i])
      /\ d \in DirectiveType
  BY DEF Passed
<1>2. 1 \in DOMAIN out /\ OutUnit(t, u) /\ u \in UnitType /\ u.first \in Nat /\ u.last \in Nat
  BY <1>1, UnitsOf, UnitFields
<1>3. /\ o \in Seq(UnitType)
      /\ \A b \in Nat : Chain(out, p + 1, b) =>
            u.first = p + 1 /\ p + 1 <= u.last /\ u.last < b /\ Chain(o, u.last + 1, b)
      /\ \A i \in DOMAIN o : i + 1 \in DOMAIN out /\ o[i] = out[i+1]
  <2>1. ASSUME NEW b \in Nat, Chain(out, p + 1, b)
        PROVE  /\ u.first = p + 1 /\ p + 1 <= u.last /\ u.last < b /\ Chain(o, u.last + 1, b)
               /\ o \in Seq(UnitType)
               /\ \A i \in DOMAIN o : i + 1 \in DOMAIN out /\ o[i] = out[i+1]
    <3>1. p + 1 \in Nat  BY <1>1
    <3> QED  BY <3>1, <2>1, <1>1, ChainTail
  <2>2. \E b \in Nat : Chain(out, p + 1, b)
    <3>1. d.first \in Nat /\ r + 1 \in Nat  BY <1>1 DEF DirectiveType
    <3> QED  BY <3>1, <1>1 DEF Passed, NoneHeld, Unnamed, AtName
  <2> QED  BY <2>1, <2>2
<1>4. \A i \in DOMAIN o : OutUnit(t, o[i])  BY <1>1, <1>3
<1> HIDE DEF u, o
<1>5. ASSUME NEW b \in Nat, Chain(out, p + 1, b), b <= r + 1
      PROVE  u.first = p + 1 /\ p < u.last /\ u.last <= r
  <2>1. u.first = p + 1 /\ p + 1 <= u.last /\ u.last < b  BY <1>3, <1>5
  <2> QED  BY <2>1, <1>1, <1>2, <1>5
<1>6. \A i \in 1 .. r : t[i].kind = "percent" /\ i # d.first => FollowedAt(t, i)  BY DEF Passed
<1>7. CASE NoneHeld(t, d, out, p, r)
  <2>1. Chain(out, p + 1, r + 1) /\ r + 1 \in Nat /\ r + 1 <= r + 1  BY <1>1, <1>7 DEF NoneHeld
  <2>2. u.first = p + 1 /\ p < u.last /\ u.last <= r  BY <2>1, <1>5
  <2>3. NoneHeld(t, d, o, u.last, r)  BY <2>1, <1>3, <1>7 DEF NoneHeld
  <2>4. Passed(t, d, o, u.last, r)  BY <2>2, <2>3, <1>1, <1>2, <1>3, <1>4, <1>6 DEF Passed
  <2> QED  BY <2>2, <2>4, <1>2 DEF u, o
<1>8. CASE Unnamed(t, d, out, p, r)
  <2>1. Chain(out, p + 1, r) /\ r \in Nat /\ r <= r + 1  BY <1>1, <1>8 DEF Unnamed
  <2>2. u.first = p + 1 /\ p < u.last /\ u.last <= r  BY <2>1, <1>5
  <2>3. Unnamed(t, d, o, u.last, r)  BY <2>1, <1>3, <1>8 DEF Unnamed
  <2>4. Passed(t, d, o, u.last, r)  BY <2>2, <2>3, <1>1, <1>2, <1>3, <1>4, <1>6 DEF Passed
  <2> QED  BY <2>2, <2>4, <1>2 DEF u, o
<1>9. CASE AtName(t, d, out, p, r)
  <2>1. Chain(out, p + 1, d.first) /\ d.first \in Nat /\ d.first <= r + 1
    BY <1>9, AtNameFacts DEF AtName
  <2>2. u.first = p + 1 /\ p < u.last /\ u.last <= r  BY <2>1, <1>5
  <2>3. Chain(o, u.last + 1, d.first)  BY <2>1, <1>3
  <2>4. AtName(t, d, o, u.last, r)  BY <2>3, <1>9, Zenon DEF AtName
  <2>5. Passed(t, d, o, u.last, r)  BY <2>2, <2>4, <1>1, <1>2, <1>3, <1>4, <1>6 DEF Passed
  <2> QED  BY <2>2, <2>5, <1>2 DEF u, o
<1>10. QED  BY <1>7, <1>8, <1>9 DEF Passed

LEMMA SettledTail ==
    ASSUME NEW t, TapeOK(t), NEW out, NEW p, NEW r, Settled(t, out, p, r), out # <<>>
    PROVE  /\ OutUnit(t, out[1]) /\ out[1].first = p + 1 /\ p < out[1].last /\ out[1].last <= r
           /\ Settled(t, Tail(out), out[1].last, r)
<1> DEFINE u == out[1]
           o == Tail(out)
<1>1. /\ p \in Nat /\ r \in Nat /\ p <= r /\ r <= Len(t) /\ out \in Seq(UnitType)
      /\ \A i \in DOMAIN out : OutUnit(t, out[i])
      /\ Chain(out, p + 1, r + 1) /\ p + 1 \in Nat /\ r + 1 \in Nat
      /\ \A i \in 1 .. r : t[i].kind = "percent" => FollowedAt(t, i)
  BY DEF Settled
<1>2. 1 \in DOMAIN out /\ OutUnit(t, u) /\ u \in UnitType /\ u.first \in Nat /\ u.last \in Nat
  BY <1>1, UnitsOf, UnitFields
<1>3. /\ u.first = p + 1 /\ p + 1 <= u.last /\ u.last < r + 1 /\ Chain(o, u.last + 1, r + 1)
      /\ o \in Seq(UnitType)
      /\ \A i \in DOMAIN o : i + 1 \in DOMAIN out /\ o[i] = out[i+1]
  BY <1>1, ChainTail
<1> HIDE DEF u, o
<1>4. \A i \in DOMAIN o : OutUnit(t, o[i])  BY <1>1, <1>3
<1>5. p < u.last /\ u.last <= r  BY <1>1, <1>2, <1>3
<1>6. Settled(t, o, u.last, r)  BY <1>1, <1>2, <1>3, <1>4, <1>5 DEF Settled
<1>7. QED  BY <1>2, <1>3, <1>5, <1>6 DEF u, o

LEMMA AheadTail ==
    ASSUME NEW t, TapeOK(t), NEW x, NEW out, NEW drained, NEW p, Ahead(t, x, out, drained, p), out # <<>>
    PROVE  /\ OutUnit(t, out[1]) /\ out[1].first = p + 1 /\ p < out[1].last /\ out[1].last <= Len(t)
           /\ Ahead(t, x, Tail(out), drained, out[1].last)
<1>0. Len(t) \in Nat  BY TapeFacts
<1>1. CASE drained  BY <1>1, SettledTail DEF Ahead
<1>2. CASE ~drained
  <2>1. PICK r \in 0 .. Len(t), s \in 0 .. Len(t) :
          /\ Passed(t, x.directive, out, p, r) /\ Held(t, x.window, r, s)
          /\ Opened(t, x.header, s, Len(t))
    BY <1>2 DEF Ahead, Grouped
  <2>2. /\ OutUnit(t, out[1]) /\ out[1].first = p + 1 /\ p < out[1].last /\ out[1].last <= r
        /\ Passed(t, x.directive, Tail(out), out[1].last, r)
    BY <2>1, PassedTail
  <2>3. Grouped(t, x, Tail(out), out[1].last, Len(t))  BY <2>1, <2>2 DEF Grouped
  <2>4. out[1].last \in Nat  BY <2>2, OutFacts
  <2>5. out[1].last <= Len(t)  BY <2>1, <2>2, <2>4, <1>0
  <2> QED  BY <1>2, <2>2, <2>3, <2>5 DEF Ahead
<1>3. QED  BY <1>1, <1>2

LEMMA AheadBounds ==
    ASSUME NEW t, TapeOK(t), NEW x, NEW out, NEW drained, NEW p, Ahead(t, x, out, drained, p)
    PROVE  /\ p \in 0 .. Len(t) /\ out \in Seq(UnitType)
           /\ drained /\ out = <<>> => p = Len(t)
<1>0. Len(t) \in Nat  BY TapeFacts
<1>1. CASE drained
  <2>1. p \in Nat /\ p <= Len(t) /\ out \in Seq(UnitType) /\ Chain(out, p + 1, Len(t) + 1)
    BY <1>1, <1>0 DEF Ahead, Settled
  <2>2. out = <<>> => p + 1 = Len(t) + 1  BY <2>1 DEF Chain
  <2> QED  BY <2>1, <2>2, <1>0
<1>2. CASE ~drained
  <2>1. PICK r \in 0 .. Len(t) : Passed(t, x.directive, out, p, r)  BY <1>2 DEF Ahead, Grouped
  <2>2. p \in Nat /\ p <= r /\ out \in Seq(UnitType)  BY <2>1 DEF Passed
  <2> QED  BY <2>1, <2>2, <1>0, <1>2
<1>3. QED  BY <1>1, <1>2

LEMMA AheadAfter ==
    ASSUME NEW t, NEW w, TapeOK(t), TapeOK(w), Same(t, w), Len(w) = Len(t),
           NEW x, NEW out, NEW drained, NEW p, Ahead(t, x, out, drained, p)
    PROVE  Ahead(w, x, out, drained, p)
<1>0. Len(t) \in Nat /\ Len(t) \in 0 .. Len(t)  BY TapeFacts
<1>1. CASE drained
  <2>1. Settled(t, out, p, Len(t))  BY <1>1 DEF Ahead
  <2>2. \A i \in DOMAIN out : OutUnit(w, out[i])  BY <2>1, UnitAfter DEF Settled
  <2>3. \A i \in 1 .. Len(t) : w[i].kind = "percent" => FollowedAt(w, i)
    <3> SUFFICES ASSUME NEW i \in 1 .. Len(t), w[i].kind = "percent" PROVE FollowedAt(w, i)
      OBVIOUS
    <3>1. t[i].kind = "percent"  BY DEF Same
    <3> QED  BY <3>1, <2>1, FollowedAfter DEF Settled
  <2> QED  BY <1>1, <2>1, <2>2, <2>3 DEF Ahead, Settled
<1>2. CASE ~drained  BY <1>0, <1>2, GroupedAfter DEF Ahead
<1>3. QED  BY <1>1, <1>2


-----------------------------------------------------------------------------
(* The steps: first what is taken, and judged. *)

LEMMA PeekedLive ==
    ASSUME Errors, Peeked, phase # "refused", ~reader.err
    PROVE  Live
BY DEF Errors, Peeked, Live

LEMMA HeadFacts ==
    ASSUME Types, NEW p, TakenTo(p), reader.out # <<>>
    PROVE  LET u == Head1
           IN  /\ u \in UnitType /\ u.first = p + 1 /\ p < u.last /\ u.last <= Len(tape)
               /\ p \in Nat /\ u.first \in 1 .. Len(tape) /\ u.last \in 1 .. Len(tape)
               /\ OutUnit(tape, u) /\ u.line = tape[p + 1].line /\ u.line \in Nat
               /\ \A k \in {"header", "end", "comment", "entry"} :
                     /\ u.kind = k <=> tape[p + 1].kind = k
                     /\ u.kind = k => u.last = p + 1
               /\ u.kind \notin {"header", "end"} =>
                     \A i \in p + 1 .. u.last : tape[i].kind \notin {"header", "end"}
               /\ Ahead(tape, g, Tail(reader.out), reader.drained, u.last)
<1> DEFINE u == Head1
<1>1. TapeOK(tape) /\ Ahead(tape, g, reader.out, reader.drained, p)  BY DEF Types, TakenTo
<1>2. p \in Nat  BY <1>1, AheadBounds
<1>3. /\ OutUnit(tape, u) /\ u.first = p + 1 /\ p < u.last /\ u.last <= Len(tape)
      /\ Ahead(tape, g, Tail(reader.out), reader.drained, u.last)
  BY <1>1, AheadTail DEF Head1
<1> HIDE DEF u
<1>4. /\ u \in UnitType /\ u.first \in 1 .. Len(tape) /\ u.last \in 1 .. Len(tape)
      /\ u.line = tape[u.first].line
      /\ \A k \in {"header", "end", "comment", "entry"} :
            /\ u.kind = k <=> tape[u.first].kind = k
            /\ u.kind = k => u.last = u.first
      /\ u.kind \notin {"header", "end"} =>
            \A i \in u.first .. u.last : tape[i].kind \notin {"header", "end"}
  BY <1>1, <1>3, OutFacts
<1>5. u.line \in Nat  BY <1>4, UnitFields
<1>6. QED  BY <1>2, <1>3, <1>4, <1>5 DEF u

LEMMA FillKeeps ==
    ASSUME Types, Errors, Filling, NEW out, NEW drained \in BOOLEAN, NEW failed \in BOOLEAN,
           NEW h, GrouperShape(h), g' = h, h.err => failed \/ (out = <<>> /\ ~drained),
           scanErr' \in BOOLEAN, scanErr' => failed, tape' = tape \/ TapeOK(tape'),
           FillReturns([reader EXCEPT !.out = out, !.drained = drained], failed),
           UNCHANGED <<schema, option, version, doc, docs>>
    PROVE  /\ Types' /\ Errors'
           /\ reader'.out = out /\ reader'.drained = drained /\ reader'.taken = reader.taken
           /\ reader'.afterHeader = reader.afterHeader /\ reader'.afterEnd = reader.afterEnd
           /\ reader'.tail = reader.tail /\ reader'.tookDirective = reader.tookDirective
           /\ ~failed => phase' = phase
           /\ failed => ~Live'
<1> DEFINE b == phase = "body" /\ failed
<1>1. /\ ~reader.err /\ phase \in {"open", "judge", "body", "close"}
      /\ ReaderShape(reader) /\ b \in BOOLEAN
  BY DEF Filling, Types
<1>2. PICK e \in BOOLEAN : e = (phase = "body" /\ ~FillsWell(failed, out))  BY Zenon
<1>3. e <=> b  BY <1>2 DEF FillsWell
<1>4. /\ reader' = [reader EXCEPT !.out = out, !.drained = drained, !.err = e]
  <2>1. reader' = [[reader EXCEPT !.out = out, !.drained = drained] EXCEPT
                      !.err = (phase = "body" /\ ~FillsWell(failed, out))]
    BY <1>1 DEF FillReturns, FillsWell
  <2>2. reader' = [[reader EXCEPT !.out = out, !.drained = drained] EXCEPT !.err = e]
    BY <2>1, <1>2, Zenon
  <2> QED  BY <2>2, Zenon
<1>5. phase' = IF ~failed \/ phase = "body" THEN phase ELSE "refused"
  BY DEF FillReturns, FillsWell
<1> HIDE DEF b
<1>6. /\ ReaderShape(reader') /\ reader'.out = out /\ reader'.drained = drained
      /\ reader'.taken = reader.taken
      /\ reader'.afterHeader = reader.afterHeader /\ reader'.afterEnd = reader.afterEnd
      /\ reader'.tail = reader.tail /\ reader'.tookDirective = reader.tookDirective
      /\ reader'.err = e
  <2>1. reader = [out |-> reader.out, drained |-> reader.drained, taken |-> reader.taken,
                  tail |-> reader.tail, tookDirective |-> reader.tookDirective,
                  afterHeader |-> reader.afterHeader, afterEnd |-> reader.afterEnd, err |-> reader.err]
    BY <1>1 DEF ReaderShape
  <2>2. reader' = [out |-> out, drained |-> drained, taken |-> reader.taken,
                   tail |-> reader.tail, tookDirective |-> reader.tookDirective,
                   afterHeader |-> reader.afterHeader, afterEnd |-> reader.afterEnd, err |-> e]
    BY <1>4, <2>1
  <2>3. reader.taken \in BOOLEAN /\ reader.tail \in BOOLEAN /\ reader.tookDirective \in BOOLEAN
    BY <1>1 DEF ReaderShape
  <2>4. ReaderShape(reader')  BY <2>2, <2>3 DEF ReaderShape
  <2> QED  BY <2>2, <2>4
<1>7. Types'  BY <1>1, <1>5, <1>6 DEF Types, Phases
<1>8. failed => phase' = "refused" \/ reader'.err  BY <1>3, <1>5, <1>6 DEF b
<1>9. ~failed => ~reader'.err  BY <1>3, <1>6 DEF b
<1>10. Errors'
  <2>1. g'.err => reader'.err \/ phase' = "refused" \/ (reader'.out = <<>> /\ ~reader'.drained)
    BY <1>6, <1>8
  <2>2. scanErr' => reader'.err \/ phase' = "refused"  BY <1>8
  <2>3. reader'.err => phase' \in {"body", "refused"}  BY <1>3, <1>5, <1>6 DEF b
  <2>4. phase' \notin {"scope", "done"}  BY <1>1, <1>5
  <2> QED  BY <2>1, <2>2, <2>3, <2>4 DEF Errors
<1>11. QED  BY <1>5, <1>6, <1>7, <1>8, <1>10 DEF Live


LEMMA ScanTokenMoves ==
    ASSUME Types, Errors, NEW kind \in Kinds, NEW sameLine \in BOOLEAN, ScanToken(kind, sameLine)
    PROVE  /\ Types' /\ Errors'
           /\ \E x \in Token : /\ tape' = Append(tape, x) /\ x.kind = kind
                               /\ x.schema = IF kind = "scalar" THEN schema ELSE "none"
           /\ Same(tape, tape') /\ Len(tape') = Len(tape) + 1
           /\ reader.out = <<>> /\ ~reader.drained
           /\ ~reader'.drained /\ reader'.taken = reader.taken
           /\ reader'.afterHeader = reader.afterHeader /\ reader'.afterEnd = reader.afterEnd
           /\ reader'.tail = reader.tail /\ reader'.tookDirective = reader.tookDirective
           /\ Live' => Live
           /\ Live' => phase' = phase
           /\ \A p : Live' /\ Ahead(tape, g, reader.out, FALSE, p) => Ahead(tape', g', reader'.out, FALSE, p)
<1> DEFINE m == Len(tape)
           line == LineOf(sameLine)
           x == [kind |-> kind, line |-> line, schema |-> IF kind = "scalar" THEN schema ELSE "none"]
           u == Unit(kind, line, m + 1)
           fed == Feed(g, u, <<>>)
           failed == fed.out # <<>> /\ fed.g.err
           w == Append(tape, x)
<1>1. /\ Filling /\ Follows(kind, sameLine) /\ tape' = w /\ g' = fed.g
      /\ FillReturns([reader EXCEPT !.out = fed.out], failed)
      /\ UNCHANGED <<schema, scanErr, option, version, doc, docs>>
  BY DEF ScanToken, LineOf
<1>2. TapeOK(tape) /\ m \in Nat /\ tape \in Seq(Token) /\ GrouperShape(g) /\ ReaderShape(reader)
  BY TapeFacts DEF Types, TapeOK
<1>3. reader.out = <<>> /\ ~reader.drained /\ ~reader.err /\ phase # "refused"
  BY <1>1 DEF Filling, Peeked
<1>4. line \in Nat /\ line > 0
  <2>1. CASE tape = <<>>
    <3>1. sameLine = FALSE
      <4> SUFFICES ASSUME sameLine PROVE FALSE  OBVIOUS
      <4> QED  BY <2>1, <1>1 DEF Follows, Schemas
    <3> QED  BY <2>1, <3>1 DEF LineOf
  <2>2. CASE tape # <<>>
    <3>1. m \in 1 .. Len(tape)  BY <2>2, <1>2, TapeFacts
    <3>2. tape[m].line \in Nat /\ tape[m].line > 0  BY <1>2, <3>1, TapeFacts
    <3>3. line = tape[m].line \/ line = tape[m].line + 1  BY <2>2 DEF LineOf
    <3> QED  BY <3>2, <3>3
  <2> QED  BY <2>1, <2>2
<1>5. x \in Token /\ x.kind = kind /\ x.line = line /\ x.schema = IF kind = "scalar" THEN schema ELSE "none"
  <2>1. schema \in Schemas  BY DEF Types
  <2> QED  BY <2>1, <1>4 DEF Token
<1> HIDE DEF x
<1>6. TapeOK(w) /\ Same(tape, w)  BY <1>1, <1>2, <1>5, ScannedTape
<1>7. Len(w) = m + 1 /\ w[m + 1] = x  BY <1>2, <1>5
<1> HIDE DEF w
<1>8. u = Unit(w[m + 1].kind, w[m + 1].line, m + 1)  BY <1>5, <1>7
<1>9. u \in UnitType
  <2>1. m + 1 \in 1 .. Len(w)  BY <1>2, <1>7
  <2> QED  BY <2>1, <1>6, <1>8, UnitShape
<1> HIDE DEF u, line
<1>10. HandedShape(fed) /\ (g.err => fed.g.err)  BY <1>2, <1>9, FeedShape
<1>11. ASSUME NEW p, ~fed.g.err, Ahead(tape, g, reader.out, FALSE, p)
       PROVE  Ahead(w, fed.g, fed.out, FALSE, p)
  <2>1. Grouped(tape, g, <<>>, p, m)  BY <1>3, <1>11 DEF Ahead
  <2>2. m \in 0 .. Len(tape)  BY <1>2
  <2> HIDE DEF m
  <2>3. Grouped(w, g, <<>>, p, m)  BY <2>1, <2>2, <1>2, <1>6, GroupedAfter
  <2> HIDE DEF fed
  <2>4. Grouped(w, fed.g, fed.out, p, m + 1)
    <3> USE DEF fed
    <3> QED  BY <2>3, <1>2, <1>6, <1>7, <1>8, <1>11, FeedHolds
  <2> QED  BY <2>4, <1>7 DEF Ahead
<1> HIDE DEF fed
<1>12. PICK o, h : o = fed.out /\ h = fed.g  OBVIOUS
<1>21. PICK b \in BOOLEAN : b = (fed.out # <<>> /\ fed.g.err)  BY Zenon
<1>13. /\ GrouperShape(h) /\ g' = h /\ (h.err => b \/ (o = <<>> /\ ~FALSE))
  BY <1>1, <1>10, <1>12, <1>21 DEF HandedShape
<1>14. FillReturns([reader EXCEPT !.out = o, !.drained = FALSE], b)
  <2>1. [reader EXCEPT !.out = o, !.drained = FALSE] = [reader EXCEPT !.out = o]
    BY <1>2, <1>3 DEF ReaderShape
  <2>2. FillReturns([reader EXCEPT !.out = o], b)  BY <1>1, <1>12, <1>21, Zenon
  <2> QED  BY <2>1, <2>2, Zenon
<1>15. ~scanErr /\ scanErr' = scanErr /\ scanErr' \in BOOLEAN  BY <1>1, <1>3 DEF Errors, Types
<1>16. /\ Types' /\ Errors'
       /\ reader'.out = o /\ reader'.drained = FALSE /\ reader'.taken = reader.taken
       /\ reader'.afterHeader = reader.afterHeader /\ reader'.afterEnd = reader.afterEnd
       /\ reader'.tail = reader.tail /\ reader'.tookDirective = reader.tookDirective
       /\ ~b => phase' = phase
       /\ b => ~Live'
  <2>1. UNCHANGED <<schema, option, version, doc, docs>> /\ Filling  BY <1>1
  <2>2. tape' = tape \/ TapeOK(tape')  BY <1>1, <1>6
  <2>3. scanErr' \in BOOLEAN /\ (scanErr' => b)  BY <1>15
  <2> QED  BY <2>1, <2>2, <2>3, <1>13, <1>14, FillKeeps
<1>17. (Live' => ~fed.g.err) /\ (Live' => ~b)  BY <1>1, <1>16 DEF Live
<1>18. Live' => Live  BY <1>3, <1>10, <1>17 DEF Live
<1>19. ASSUME NEW p, Live', Ahead(tape, g, reader.out, FALSE, p)
       PROVE  Ahead(tape', g', reader'.out, FALSE, p)
  <2>1. Ahead(w, fed.g, fed.out, FALSE, p)  BY <1>11, <1>17, <1>19
  <2>2. tape' = w /\ g' = fed.g /\ reader'.out = fed.out  BY <1>1, <1>12, <1>16
  <2> QED  BY <2>1, <2>2
<1>22. \E y \in Token : /\ tape' = Append(tape, y) /\ y.kind = kind
                        /\ y.schema = IF kind = "scalar" THEN schema ELSE "none"
  BY <1>1, <1>5, Zenon DEF w
<1>23. Same(tape, tape') /\ Len(tape') = Len(tape) + 1  BY <1>1, <1>6, <1>7
<1>24. phase' = phase \/ ~Live'  BY <1>16
<1>20. QED  BY <1>3, <1>16, <1>18, <1>19, <1>22, <1>23, <1>24

LEMMA ScanTokenSound ==
    ASSUME Types, Errors, NEW kind \in Kinds, NEW sameLine \in BOOLEAN, ScanToken(kind, sameLine),
           NEW p, Live => TakenTo(p)
    PROVE  Types' /\ Errors' /\ (Live' => TakenTo(p)')
<1>1. /\ Types' /\ Errors' /\ Same(tape, tape') /\ Len(tape') = Len(tape) + 1
      /\ reader.out = <<>> /\ ~reader.drained
      /\ ~reader'.drained /\ reader'.taken = reader.taken
      /\ reader'.afterHeader = reader.afterHeader /\ reader'.afterEnd = reader.afterEnd
      /\ Live' => Live
      /\ Live' => phase' = phase
      /\ Live' /\ Ahead(tape, g, reader.out, FALSE, p) => Ahead(tape', g', reader'.out, FALSE, p)
  BY ScanTokenMoves
<1> SUFFICES ASSUME Live' PROVE TakenTo(p)'  BY <1>1
<1>2. TakenTo(p) /\ phase' = phase  BY <1>1
<1>3. Ahead(tape, g, reader.out, FALSE, p)  BY <1>1, <1>2 DEF TakenTo, Ahead
<1>4. Ahead(tape', g', reader'.out, reader'.drained, p)  BY <1>1, <1>3 DEF Ahead
<1>5. p \in 0 .. Len(tape) /\ Len(tape) \in Nat /\ DOMAIN tape = 1 .. Len(tape) /\ DOMAIN tape' = 1 .. Len(tape')
  <2>1. TapeOK(tape) /\ TapeOK(tape)'  BY <1>1 DEF Types
  <2> QED  BY <2>1, <1>3, AheadBounds, TapeFacts
<1>6. \A i \in 1 .. Len(tape) : tape'[i].kind = tape[i].kind /\ tape'[i].line = tape[i].line
  BY <1>1 DEF Same
<1>7. Judged(tape, p, phase, reader) /\ Marked(tape, p, phase, reader)  BY <1>2 DEF TakenTo
<1>8. Judged(tape', p, phase', reader')
  <2>1. ASSUME NEW i \in 1 .. p, i + 1 \in DOMAIN tape', tape'[i].line = tape'[i+1].line,
               i < p \/ phase # "judge"
        PROVE  tape'[i].kind # "end" /\ (tape'[i].kind = "header" => tape'[i+1].kind # "entry")
    <3>1. CASE i + 1 \in 1 .. Len(tape)
      <4>1. i \in 1 .. Len(tape)  BY <3>1, <1>5
      <4> QED  BY <3>1, <4>1, <2>1, <1>5, <1>6, <1>7 DEF Judged
    <3>2. CASE i + 1 \notin 1 .. Len(tape)
      <4>0. i \in Nat /\ i > 0 /\ p \in Nat /\ i <= p /\ p <= Len(tape) /\ Len(tape) \in Nat
        BY <1>5
      <4>3. i = Len(tape) /\ i = p /\ p > 0  BY <4>0, <3>2
      <4>1. i = Len(tape) /\ i = p /\ p > 0 /\ phase # "judge"  BY <4>0, <4>3, <2>1
      <4>2. tape[p].kind \notin {"header", "end"}  BY <4>1, <1>1, <1>7 DEF Judged
      <4> QED  BY <4>1, <4>2, <1>5, <1>6
    <3> QED  BY <3>1, <3>2
  <2>2. phase # "judge" /\ p > 0 => tape'[p].kind \notin {"header", "end"}
    <3> SUFFICES ASSUME phase # "judge", p > 0 PROVE tape'[p].kind \notin {"header", "end"}  OBVIOUS
    <3>1. tape[p].kind \notin {"header", "end"}  BY <1>1, <1>7 DEF Judged
    <3> QED  BY <3>1, <1>5, <1>6
  <2> QED  BY <2>1, <2>2, <1>1, <1>2, <1>7 DEF Judged
<1>9. Marked(tape', p, phase', reader')
  <2> SUFFICES ASSUME phase = "judge" PROVE Marked(tape', p, phase', reader')
    BY <1>2 DEF Marked
  <2>1. p > 0 /\ p \in 1 .. Len(tape)  BY <1>5, <1>7 DEF Marked
  <2>2. tape'[p].kind = tape[p].kind /\ tape'[p].line = tape[p].line  BY <2>1, <1>6
  <2> QED  BY <2>1, <2>2, <1>1, <1>7 DEF Marked
<1>10. QED  BY <1>1, <1>2, <1>4, <1>8, <1>9 DEF TakenTo


LEMMA ScanEndMoves ==
    ASSUME Types, Errors, NEW failed \in BOOLEAN, ScanEnd(failed)
    PROVE  /\ Types' /\ Errors' /\ tape' = tape
           /\ reader.out = <<>> /\ ~reader.drained
           /\ reader'.drained /\ reader'.taken = reader.taken
           /\ reader'.afterHeader = reader.afterHeader /\ reader'.afterEnd = reader.afterEnd
           /\ reader'.tail = reader.tail /\ reader'.tookDirective = reader.tookDirective
           /\ Live' => Live
           /\ Live' => phase' = phase
           /\ \A p : Live' /\ Ahead(tape, g, reader.out, FALSE, p) => Ahead(tape', g', reader'.out, TRUE, p)
<1> DEFINE m == Len(tape)
           finished == Finish(g, <<>>)
<1>1. /\ Filling /\ tape' = tape /\ g' = finished.g /\ scanErr' = failed
      /\ FillReturns([reader EXCEPT !.out = finished.out, !.drained = TRUE], failed \/ finished.g.err)
      /\ UNCHANGED <<schema, option, version, doc, docs>>
  BY DEF ScanEnd
<1>2. TapeOK(tape) /\ m \in Nat /\ GrouperShape(g) /\ ReaderShape(reader)
  BY TapeFacts DEF Types
<1>3. reader.out = <<>> /\ ~reader.drained /\ ~reader.err /\ phase # "refused"
  BY <1>1 DEF Filling, Peeked
<1>4. HandedShape(finished) /\ (g.err => finished.g.err)  BY <1>2, FinishShape
<1>5. ASSUME NEW p, ~finished.g.err, Ahead(tape, g, reader.out, FALSE, p)
      PROVE  Ahead(tape, finished.g, finished.out, TRUE, p)
  <2>1. Grouped(tape, g, <<>>, p, Len(tape))  BY <1>3, <1>5 DEF Ahead
  <2>2. Settled(tape, finished.out, p, Len(tape))  BY <2>1, <1>2, <1>5, FinishSettles
  <2> QED  BY <2>2 DEF Ahead
<1> HIDE DEF finished
<1>6. PICK o, h : o = finished.out /\ h = finished.g  OBVIOUS
<1>7. PICK b \in BOOLEAN : b = (failed \/ finished.g.err)  BY Zenon
<1>8. GrouperShape(h) /\ g' = h /\ (h.err => b \/ (o = <<>> /\ ~TRUE))
  BY <1>1, <1>4, <1>6, <1>7 DEF HandedShape
<1>9. FillReturns([reader EXCEPT !.out = o, !.drained = TRUE], b)  BY <1>1, <1>6, <1>7, Zenon
<1>10. /\ Types' /\ Errors'
       /\ reader'.out = o /\ reader'.drained = TRUE /\ reader'.taken = reader.taken
       /\ reader'.afterHeader = reader.afterHeader /\ reader'.afterEnd = reader.afterEnd
       /\ reader'.tail = reader.tail /\ reader'.tookDirective = reader.tookDirective
       /\ ~b => phase' = phase
       /\ b => ~Live'
  <2>1. UNCHANGED <<schema, option, version, doc, docs>> /\ Filling  BY <1>1
  <2>2. tape' = tape \/ TapeOK(tape')  BY <1>1
  <2>3. scanErr' \in BOOLEAN /\ (scanErr' => b)  BY <1>1, <1>7
  <2> QED  BY <2>1, <2>2, <2>3, <1>8, <1>9, FillKeeps
<1>11. (Live' => ~finished.g.err) /\ (Live' => ~b)  BY <1>1, <1>10 DEF Live
<1>12. Live' => Live  BY <1>3, <1>4, <1>11 DEF Live
<1>13. ASSUME NEW p, Live', Ahead(tape, g, reader.out, FALSE, p)
       PROVE  Ahead(tape', g', reader'.out, TRUE, p)
  <2>1. Ahead(tape, finished.g, finished.out, TRUE, p)  BY <1>5, <1>11, <1>13
  <2>2. tape' = tape /\ g' = finished.g /\ reader'.out = finished.out  BY <1>1, <1>6, <1>10
  <2> QED  BY <2>1, <2>2
<1>14. phase' = phase \/ ~Live'  BY <1>10, <1>11
<1>15. QED  BY <1>1, <1>3, <1>10, <1>12, <1>13, <1>14

LEMMA ScanEndSound ==
    ASSUME Types, Errors, NEW failed \in BOOLEAN, ScanEnd(failed), NEW p, Live => TakenTo(p)
    PROVE  Types' /\ Errors' /\ (Live' => TakenTo(p)')
<1>1. /\ Types' /\ Errors' /\ tape' = tape
      /\ reader.out = <<>> /\ ~reader.drained
      /\ reader'.drained /\ reader'.taken = reader.taken
      /\ reader'.afterHeader = reader.afterHeader /\ reader'.afterEnd = reader.afterEnd
      /\ Live' => Live
      /\ Live' => phase' = phase
      /\ Live' /\ Ahead(tape, g, reader.out, FALSE, p) => Ahead(tape', g', reader'.out, TRUE, p)
  BY ScanEndMoves
<1> SUFFICES ASSUME Live' PROVE TakenTo(p)'  BY <1>1
<1>2. TakenTo(p) /\ phase' = phase  BY <1>1
<1>3. Ahead(tape, g, reader.out, FALSE, p)  BY <1>1, <1>2 DEF TakenTo, Ahead
<1>4. Ahead(tape', g', reader'.out, reader'.drained, p)  BY <1>1, <1>3 DEF Ahead
<1>5. Judged(tape, p, phase, reader) /\ Marked(tape, p, phase, reader)  BY <1>2 DEF TakenTo
<1>6. Judged(tape', p, phase', reader')  BY <1>1, <1>2, <1>5 DEF Judged
<1>7. Marked(tape', p, phase', reader')  BY <1>1, <1>2, <1>5 DEF Marked
<1>8. QED  BY <1>1, <1>2, <1>4, <1>6, <1>7 DEF TakenTo

(* Taking a marker, which the token after it is judged by. *)
LEMMA MarkerTaken ==
    ASSUME Types, Errors, NEW p, TakenTo(p), phase # "judge", reader.out # <<>>,
           NEW k \in {"header", "end"}, Head1.kind = k, phase' = "judge",
           reader'.out = Tail(reader.out), reader'.drained = reader.drained, reader'.taken,
           reader'.afterHeader = (IF k = "header" THEN Head1.line ELSE reader.afterHeader),
           reader'.afterEnd = (IF k = "end" THEN Head1.line ELSE reader.afterEnd),
           UNCHANGED <<tape, g>>
    PROVE  TakenTo(p + 1)'
<1> DEFINE u == Head1
<1>1. /\ p \in Nat /\ u.kind = k /\ u.last = p + 1 /\ u.line = tape[p + 1].line /\ tape[p + 1].kind = k
      /\ Ahead(tape, g, Tail(reader.out), reader.drained, u.last)
  BY HeadFacts
<1>2. Ahead(tape', g', reader'.out, reader'.drained, p + 1)  BY <1>1
<1> HIDE DEF u
<1>3. reader'.taken <=> p + 1 > 0  BY <1>1
<1>4. Judged(tape, p, phase, reader)  BY DEF TakenTo
<1>5. Judged(tape', p + 1, phase', reader')
  <2>1. ASSUME NEW i \in 1 .. p + 1, i + 1 \in DOMAIN tape, tape[i].line = tape[i+1].line, i < p + 1
        PROVE  tape[i].kind # "end" /\ (tape[i].kind = "header" => tape[i+1].kind # "entry")
    <3>1. i \in 1 .. p  BY <2>1, <1>1
    <3> QED  BY <3>1, <2>1, <1>4 DEF Judged
  <2> QED  BY <2>1 DEF Judged
<1>6. reader.afterHeader = 0 /\ reader.afterEnd = 0  BY <1>4 DEF Judged
<1>7. Marked(tape', p + 1, phase', reader')
  <2>1. p + 1 > 0 /\ tape' = tape  BY <1>1
  <2>2. CASE k = "header"  BY <2>1, <2>2, <1>1, <1>6 DEF Marked, u
  <2>3. CASE k = "end"  BY <2>1, <2>3, <1>1, <1>6 DEF Marked, u
  <2> QED  BY <2>2, <2>3
<1>8. QED  BY <1>2, <1>3, <1>5, <1>7 DEF TakenTo

(* What leaves the tokens taken as they are, outside "judge". *)
LEMMA TakenStays ==
    ASSUME NEW p, TakenTo(p), phase # "judge", phase' # "judge",
           reader'.out = reader.out, reader'.drained = reader.drained, reader'.taken = reader.taken,
           reader'.afterHeader = reader.afterHeader, reader'.afterEnd = reader.afterEnd,
           UNCHANGED <<tape, g>>
    PROVE  TakenTo(p)'
<1>1. Ahead(tape', g', reader'.out, reader'.drained, p)  BY DEF TakenTo
<1>2. Judged(tape', p, phase', reader')  BY DEF TakenTo, Judged
<1>3. Marked(tape', p, phase', reader')  BY DEF Marked
<1>4. QED  BY <1>1, <1>2, <1>3 DEF TakenTo

LEMMA TakeShape ==
    ASSUME ReaderShape(reader)
    PROVE  LET r == Take(reader)
           IN  /\ ReaderShape(r) /\ r.out = Tail(reader.out) /\ r.taken = TRUE
               /\ r.drained = reader.drained /\ r.tail = reader.tail /\ r.err = reader.err
               /\ r.tookDirective = reader.tookDirective
               /\ r.afterHeader = reader.afterHeader /\ r.afterEnd = reader.afterEnd
<1>1. PICK o : o = Tail(reader.out)  OBVIOUS
<1>2. Take(reader) = [reader EXCEPT !.out = o, !.taken = TRUE]  BY <1>1 DEF Take
<1>3. QED  BY <1>1, <1>2 DEF ReaderShape


LEMMA OpenIsLive ==
    ASSUME Errors, Peeked, phase \in {"open", "judge", "close"}
    PROVE  Live /\ ~reader.err
<1>1. ~reader.err /\ phase # "refused"  BY DEF Errors
<1>2. QED  BY <1>1, PeekedLive

LEMMA SkipEndSound ==
    ASSUME Types, Errors, NEW p, TakenTo(p), Live, SkipEnd
    PROVE  /\ Types' /\ Errors' /\ TakenTo(p + 1)'
           /\ reader'.tail = reader.tail /\ reader'.out = Tail(reader.out)
           /\ reader'.drained = reader.drained /\ reader'.tookDirective = reader.tookDirective
<1>1. /\ phase = "open" /\ Peeked /\ NextKind = "end" /\ phase' = "judge"
      /\ reader' = [Take(reader) EXCEPT !.afterEnd = Head1.line]
      /\ UNCHANGED <<tape, schema, scanErr, g, option, version, doc, docs>>
  BY DEF SkipEnd, Next1
<1>2. reader.out # <<>> /\ Head1.kind = "end"  BY <1>1 DEF NextKind, AtEnd
<1>3. ReaderShape(reader)  BY DEF Types
<1>4. PICK l, r : l = Head1.line /\ r = Take(reader)  OBVIOUS
<1>5. reader' = [r EXCEPT !.afterEnd = l]  BY <1>1, <1>4
<1>6. /\ ReaderShape(r) /\ r.out = Tail(reader.out) /\ r.taken = TRUE
      /\ r.drained = reader.drained /\ r.tail = reader.tail /\ r.err = reader.err
      /\ r.tookDirective = reader.tookDirective
      /\ r.afterHeader = reader.afterHeader /\ r.afterEnd = reader.afterEnd
  BY <1>3, <1>4, TakeShape
<1>7. /\ ReaderShape(reader') /\ reader'.out = Tail(reader.out) /\ reader'.taken = TRUE
      /\ reader'.drained = reader.drained /\ reader'.tail = reader.tail /\ reader'.err = reader.err
      /\ reader'.tookDirective = reader.tookDirective
      /\ reader'.afterHeader = reader.afterHeader /\ reader'.afterEnd = l
  BY <1>5, <1>6 DEF ReaderShape
<1>8. ~reader.err /\ ~g.err /\ ~scanErr  BY <1>1 DEF Live, Errors
<1>9. Types'  BY <1>1, <1>7 DEF Types, Phases
<1>10. Errors'  BY <1>1, <1>7, <1>8 DEF Errors
<1>11. TakenTo(p + 1)'
  <2>1. phase # "judge" /\ UNCHANGED <<tape, g>>  BY <1>1
  <2>2. /\ reader'.afterHeader = (IF "end" = "header" THEN Head1.line ELSE reader.afterHeader)
        /\ reader'.afterEnd = (IF "end" = "end" THEN Head1.line ELSE reader.afterEnd)
    BY <1>4, <1>7
  <2> QED  BY <2>1, <2>2, <1>1, <1>2, <1>7, MarkerTaken
<1>12. QED  BY <1>7, <1>9, <1>10, <1>11

LEMMA HeadInt ==
    ASSUME Types, NEW p, TakenTo(p), reader.out # <<>>
    PROVE  NewDoc(Head1.first) \in DocType /\ Head1.first = p + 1
<1>1. Head1.first = p + 1 /\ p \in Nat  BY HeadFacts
<1>2. QED  BY <1>1 DEF NewDoc, DocType

LEMMA OpenHeaderSound ==
    ASSUME Types, Errors, NEW p, TakenTo(p), Live, OpenHeader
    PROVE  /\ Types' /\ Errors' /\ TakenTo(p + 1)'
           /\ reader'.tail = reader.tail /\ reader'.out = Tail(reader.out)
           /\ reader'.drained = reader.drained /\ ~reader'.tookDirective
<1>1. /\ phase = "open" /\ Peeked /\ NextKind = "header" /\ phase' = "judge"
      /\ reader' = [Take(reader) EXCEPT !.afterHeader = Head1.line, !.tookDirective = FALSE]
      /\ doc' = NewDoc(Head1.first)
      /\ UNCHANGED <<tape, schema, scanErr, g, option, version, docs>>
  BY DEF OpenHeader, Next1
<1>2. reader.out # <<>> /\ Head1.kind = "header"  BY <1>1 DEF NextKind, AtEnd
<1>3. ReaderShape(reader)  BY DEF Types
<1>4. PICK l, r : l = Head1.line /\ r = Take(reader)  OBVIOUS
<1>5. reader' = [r EXCEPT !.afterHeader = l, !.tookDirective = FALSE]  BY <1>1, <1>4
<1>6. /\ ReaderShape(r) /\ r.out = Tail(reader.out) /\ r.taken = TRUE
      /\ r.drained = reader.drained /\ r.tail = reader.tail /\ r.err = reader.err
      /\ r.afterHeader = reader.afterHeader /\ r.afterEnd = reader.afterEnd
  BY <1>3, <1>4, TakeShape
<1>7. /\ ReaderShape(reader') /\ reader'.out = Tail(reader.out) /\ reader'.taken = TRUE
      /\ reader'.drained = reader.drained /\ reader'.tail = reader.tail /\ reader'.err = reader.err
      /\ reader'.tookDirective = FALSE
      /\ reader'.afterHeader = l /\ reader'.afterEnd = reader.afterEnd
  BY <1>5, <1>6 DEF ReaderShape
<1>8. ~reader.err /\ ~g.err /\ ~scanErr  BY <1>1 DEF Live, Errors
<1>9. Types'
  <2>1. doc' \in DocType  BY <1>1, <1>2, HeadInt
  <2> QED  BY <2>1, <1>1, <1>7 DEF Types, Phases
<1>10. Errors'  BY <1>1, <1>7, <1>8 DEF Errors
<1>11. TakenTo(p + 1)'
  <2>1. phase # "judge" /\ UNCHANGED <<tape, g>>  BY <1>1
  <2>2. /\ reader'.afterHeader = (IF "header" = "header" THEN Head1.line ELSE reader.afterHeader)
        /\ reader'.afterEnd = (IF "header" = "end" THEN Head1.line ELSE reader.afterEnd)
    BY <1>4, <1>7
  <2> QED  BY <2>1, <2>2, <1>1, <1>2, <1>7, MarkerTaken
<1>12. QED  BY <1>7, <1>9, <1>10, <1>11

LEMMA OpenBareSound ==
    ASSUME Types, Errors, NEW p, TakenTo(p), Live, OpenBare
    PROVE  /\ Types' /\ Errors' /\ TakenTo(p)'
           /\ reader'.tail = reader.tail /\ reader'.out = reader.out
           /\ reader'.drained = reader.drained /\ ~reader'.tookDirective
<1>1. /\ phase = "open" /\ Peeked /\ phase' = "body"
      /\ NextKind \in (Kinds \cup {"directive", "literal"}) \ {"header", "end"}
      /\ reader' = [reader EXCEPT !.tookDirective = FALSE]
      /\ doc' = NewDoc(Head1.first)
      /\ UNCHANGED <<tape, schema, scanErr, g, option, version, docs>>
  BY DEF OpenBare, Next1
<1>2. reader.out # <<>>  BY <1>1 DEF NextKind, AtEnd, Kinds
<1>3. ReaderShape(reader)  BY DEF Types
<1>4. /\ ReaderShape(reader') /\ reader'.out = reader.out /\ reader'.taken = reader.taken
      /\ reader'.drained = reader.drained /\ reader'.tail = reader.tail /\ reader'.err = reader.err
      /\ reader'.tookDirective = FALSE
      /\ reader'.afterHeader = reader.afterHeader /\ reader'.afterEnd = reader.afterEnd
  BY <1>1, <1>3 DEF ReaderShape
<1>5. ~reader.err /\ ~g.err /\ ~scanErr  BY <1>1 DEF Live, Errors
<1>6. Types'
  <2>1. doc' \in DocType  BY <1>1, <1>2, HeadInt
  <2> QED  BY <2>1, <1>1, <1>4 DEF Types, Phases
<1>7. Errors'  BY <1>1, <1>4, <1>5 DEF Errors
<1>8. TakenTo(p)'
  <2>1. phase # "judge" /\ phase' # "judge" /\ UNCHANGED <<tape, g>>  BY <1>1
  <2> QED  BY <2>1, <1>4, TakenStays
<1>9. QED  BY <1>4, <1>6, <1>7, <1>8

LEMMA OpenEmptySound ==
    ASSUME Types, Errors, NEW p, TakenTo(p), Live, OpenEmpty
    PROVE  /\ Types' /\ Errors' /\ TakenTo(p)'
           /\ reader'.tail = TRUE /\ reader'.out = reader.out /\ reader'.taken = reader.taken
           /\ reader'.drained = reader.drained /\ ~reader'.tookDirective
<1>1. /\ phase = "open" /\ phase' = "body"
      /\ reader' = [reader EXCEPT !.tail = TRUE, !.tookDirective = FALSE]
      /\ doc' = NewDoc(0)
      /\ UNCHANGED <<tape, schema, scanErr, g, option, version, docs>>
  BY DEF OpenEmpty
<1>3. ReaderShape(reader)  BY DEF Types
<1>4. /\ ReaderShape(reader') /\ reader'.out = reader.out /\ reader'.taken = reader.taken
      /\ reader'.drained = reader.drained /\ reader'.tail = TRUE /\ reader'.err = reader.err
      /\ reader'.tookDirective = FALSE
      /\ reader'.afterHeader = reader.afterHeader /\ reader'.afterEnd = reader.afterEnd
  BY <1>1, <1>3 DEF ReaderShape
<1>5. ~reader.err /\ ~g.err /\ ~scanErr  BY <1>1 DEF Live, Errors
<1>6. Types'
  <2>1. doc' \in DocType  BY <1>1 DEF NewDoc, DocType
  <2> QED  BY <2>1, <1>1, <1>4 DEF Types, Phases
<1>7. Errors'  BY <1>1, <1>4, <1>5 DEF Errors
<1>8. TakenTo(p)'
  <2>1. phase # "judge" /\ phase' # "judge" /\ UNCHANGED <<tape, g>>  BY <1>1
  <2> QED  BY <2>1, <1>4, TakenStays
<1>9. QED  BY <1>4, <1>6, <1>7, <1>8

LEMMA StreamEndsSound ==
    ASSUME Types, Errors, NEW p, TakenTo(p), Live, StreamEnds
    PROVE  Types' /\ Errors' /\ TakenTo(p)'
<1>1. /\ phase = "open" /\ phase' = "done" /\ Peeked /\ AtEnd
      /\ UNCHANGED <<tape, schema, scanErr, g, reader, option, version, doc, docs>>
  BY DEF StreamEnds
<1>2. ~reader.err /\ ~g.err /\ ~scanErr  BY <1>1 DEF Live, Errors
<1>3. Types'  BY <1>1 DEF Types, Phases
<1>4. Errors'  BY <1>1, <1>2 DEF Errors, AtEnd, Peeked
<1>5. TakenTo(p)'
  <2>1. phase # "judge" /\ phase' # "judge" /\ UNCHANGED <<tape, g>>  BY <1>1
  <2> QED  BY <2>1, <1>1, TakenStays
<1>6. QED  BY <1>3, <1>4, <1>5


LEMMA JudgeSound ==
    ASSUME Types, Errors, NEW p, TakenTo(p), Live, Judge
    PROVE  /\ Types' /\ Errors' /\ (Live' => TakenTo(p)')
           /\ reader'.tail = reader.tail /\ reader'.out = reader.out
           /\ reader'.drained = reader.drained /\ reader'.tookDirective = reader.tookDirective
           /\ Live' => phase' = CASE reader.afterHeader # 0 -> "body"
                                  [] doc # NoDoc /\ reader.afterHeader = 0 -> "scope"
                                  [] OTHER -> "open"
<1>1. /\ phase = "judge" /\ Peeked
      /\ UNCHANGED <<tape, schema, scanErr, g, option, version, doc, docs>>
  BY DEF Judge
<1>2. ~reader.err /\ ~g.err /\ ~scanErr  BY <1>1 DEF Live, Errors
<1>3. ReaderShape(reader)  BY DEF Types
<1>4. CASE ~AtEnd /\ Misplaced(Head1)
  <2>1. phase' = "refused" /\ reader' = reader  BY <1>4 DEF Judge
  <2>2. Types'  BY <2>1, <1>1 DEF Types, Phases
  <2>3. Errors'  BY <2>1, <1>2 DEF Errors
  <2> QED  BY <2>1, <2>2, <2>3 DEF Live
<1>5. CASE ~(~AtEnd /\ Misplaced(Head1))
  <2>1. /\ reader' = [reader EXCEPT !.afterHeader = 0, !.afterEnd = 0]
        /\ phase' = CASE reader.afterHeader # 0 -> "body"
                      [] doc # NoDoc /\ reader.afterHeader = 0 -> "scope"
                      [] OTHER -> "open"
    BY <1>5, Zenon DEF Judge
  <2>2. phase' \in {"body", "scope", "open"}  BY <2>1
  <2>3. /\ ReaderShape(reader') /\ reader'.out = reader.out /\ reader'.taken = reader.taken
        /\ reader'.drained = reader.drained /\ reader'.tail = reader.tail /\ reader'.err = reader.err
        /\ reader'.tookDirective = reader.tookDirective
        /\ reader'.afterHeader = 0 /\ reader'.afterEnd = 0
    BY <2>1, <1>3 DEF ReaderShape
  <2>4. Types'  BY <2>2, <2>3, <1>1 DEF Types, Phases
  <2>5. Errors'  BY <2>2, <2>3, <1>1, <1>2 DEF Errors, Peeked
  <2>6. Ahead(tape', g', reader'.out, reader'.drained, p)  BY <2>3, <1>1 DEF TakenTo
  <2>7. Judged(tape, p, phase, reader) /\ Marked(tape, p, phase, reader)  BY DEF TakenTo
  <2>8. ASSUME NEW i \in 1 .. p, i + 1 \in DOMAIN tape, tape[i].line = tape[i+1].line
        PROVE  tape[i].kind # "end" /\ (tape[i].kind = "header" => tape[i+1].kind # "entry")
    <3>1. CASE i # p
      <4>0. p \in Nat
        <5>1. TapeOK(tape) /\ Ahead(tape, g, reader.out, reader.drained, p)  BY DEF Types, TakenTo
        <5> QED  BY <5>1, AheadBounds
      <4>1. i < p  BY <3>1, <4>0
      <4> QED  BY <4>1, <2>7, <2>8 DEF Judged
    <3>2. CASE i = p
      <4>1. reader.out # <<>>
        <5> SUFFICES ASSUME reader.out = <<>> PROVE FALSE  OBVIOUS
        <5>1. TapeOK(tape) /\ Ahead(tape, g, reader.out, reader.drained, p) /\ reader.drained
          BY <1>1 DEF Types, TakenTo, Peeked
        <5>2. p = Len(tape) /\ DOMAIN tape = 1 .. Len(tape) /\ Len(tape) \in Nat
          BY <5>1, AheadBounds, TapeFacts
        <5> QED  BY <5>2, <2>8, <3>2
      <4>2. /\ Head1.line = tape[p + 1].line /\ (Head1.kind = "entry" <=> tape[p + 1].kind = "entry")
        BY <4>1, HeadFacts
      <4>3. ~Misplaced(Head1)  BY <4>1, <1>5 DEF AtEnd
      <4>4. tape[p].line = Head1.line  BY <4>2, <2>8, <3>2
      <4>5. tape[p].kind # "end"  BY <4>3, <4>4, <2>7, <1>1 DEF Marked, Misplaced
      <4>6. tape[p].kind = "header" => tape[p + 1].kind # "entry"
        BY <4>2, <4>3, <4>4, <2>7, <1>1 DEF Marked, Misplaced
      <4> QED  BY <4>5, <4>6, <3>2
    <3> QED  BY <3>1, <3>2
  <2>9. Judged(tape', p, phase', reader')
    <3>1. reader'.out # <<>> \/ reader'.drained  BY <2>3, <1>1 DEF Peeked
    <3>2. tape' = tape  BY <1>1
    <3> QED  BY <2>2, <2>3, <2>8, <3>1, <3>2 DEF Judged
  <2>10. Marked(tape', p, phase', reader')  BY <2>2 DEF Marked
  <2>11. reader'.taken <=> p > 0  BY <2>3 DEF TakenTo
  <2>12. TakenTo(p)'  BY <2>6, <2>9, <2>10, <2>11 DEF TakenTo
  <2> QED  BY <2>1, <2>3, <2>4, <2>5, <2>12
<1>6. QED  BY <1>4, <1>5

LEMMA BodyEndsSound ==
    ASSUME Types, Errors, NEW p, Live => TakenTo(p), BodyEnds
    PROVE  /\ Types' /\ Errors' /\ (Live' => TakenTo(p)')
           /\ Live' => Live /\ phase' = "close" /\ Peeked /\ EndsBody
<1>1. /\ phase = "body" /\ (reader.err \/ (Peeked /\ EndsBody))
      /\ phase' = IF reader.err THEN "refused" ELSE "close"
      /\ UNCHANGED <<tape, schema, scanErr, g, reader, option, version, doc, docs>>
  BY DEF BodyEnds
<1>2. Types'  BY <1>1 DEF Types, Phases
<1>3. Errors'  BY <1>1 DEF Errors
<1>4. Live' => Live /\ phase' = "close" /\ Peeked /\ EndsBody  BY <1>1 DEF Live
<1>5. Live' => TakenTo(p)'
  <2> SUFFICES ASSUME Live' PROVE TakenTo(p)'  OBVIOUS
  <2>1. phase # "judge" /\ phase' # "judge" /\ UNCHANGED <<tape, g>> /\ TakenTo(p)  BY <1>1, <1>4
  <2> QED  BY <2>1, <1>1, TakenStays
<1>6. QED  BY <1>2, <1>3, <1>4, <1>5

LEMMA RefuseSound ==
    ASSUME Types, Errors, Refuse
    PROVE  Types' /\ Errors' /\ ~Live'
<1>1. /\ phase = "body" /\ phase' = "refused"
      /\ UNCHANGED <<tape, schema, scanErr, g, reader, option, version, doc, docs>>
  BY DEF Refuse
<1>2. QED  BY <1>1 DEF Types, Phases, Errors, Live

LEMMA CloseSound ==
    ASSUME Types, Errors, NEW p, TakenTo(p), Live, CloseDocument
    PROVE  /\ Types' /\ Errors'
           /\ NextKind = "end" => TakenTo(p + 1)' /\ reader'.out = Tail(reader.out) /\ phase' = "judge"
           /\ NextKind # "end" => TakenTo(p)' /\ reader' = reader /\ phase' = "scope" /\ doc' = doc
           /\ reader'.tail = reader.tail
           /\ reader'.drained = reader.drained /\ reader'.tookDirective = reader.tookDirective
<1>1. /\ phase = "close" /\ Peeked
      /\ UNCHANGED <<tape, schema, scanErr, g, option, version, docs>>
  BY DEF CloseDocument
<1>2. ~reader.err /\ ~g.err /\ ~scanErr  BY <1>1 DEF Live, Errors
<1>3. ReaderShape(reader)  BY DEF Types
<1>4. CASE NextKind = "end"
  <2>1. /\ reader' = [Take(reader) EXCEPT !.afterEnd = Head1.line]
        /\ doc' = [doc EXCEPT !.ended = TRUE] /\ phase' = "judge"
    BY <1>1, <1>4 DEF CloseDocument, Next1
  <2>2. reader.out # <<>> /\ Head1.kind = "end"  BY <1>4 DEF NextKind, AtEnd
  <2>3. PICK l, r : l = Head1.line /\ r = Take(reader)  OBVIOUS
  <2>4. reader' = [r EXCEPT !.afterEnd = l]  BY <2>1, <2>3
  <2>5. /\ ReaderShape(r) /\ r.out = Tail(reader.out) /\ r.taken = TRUE
        /\ r.drained = reader.drained /\ r.tail = reader.tail /\ r.err = reader.err
        /\ r.tookDirective = reader.tookDirective
        /\ r.afterHeader = reader.afterHeader /\ r.afterEnd = reader.afterEnd
    BY <1>3, <2>3, TakeShape
  <2>6. /\ ReaderShape(reader') /\ reader'.out = Tail(reader.out) /\ reader'.taken = TRUE
        /\ reader'.drained = reader.drained /\ reader'.tail = reader.tail /\ reader'.err = reader.err
        /\ reader'.tookDirective = reader.tookDirective
        /\ reader'.afterHeader = reader.afterHeader /\ reader'.afterEnd = l
    BY <2>4, <2>5 DEF ReaderShape
  <2>7. Types'
    <3>1. doc' \in DocType  BY <2>1 DEF Types, DocType
    <3> QED  BY <3>1, <1>1, <2>1, <2>6 DEF Types, Phases
  <2>8. Errors'  BY <1>1, <1>2, <2>1, <2>6 DEF Errors
  <2>9. TakenTo(p + 1)'
    <3>1. phase # "judge" /\ UNCHANGED <<tape, g>>  BY <1>1
    <3>2. /\ reader'.afterHeader = (IF "end" = "header" THEN Head1.line ELSE reader.afterHeader)
          /\ reader'.afterEnd = (IF "end" = "end" THEN Head1.line ELSE reader.afterEnd)
      BY <2>3, <2>6
    <3> QED  BY <3>1, <3>2, <2>1, <2>2, <2>6, MarkerTaken
  <2> QED  BY <1>4, <2>1, <2>6, <2>7, <2>8, <2>9
<1>5. CASE NextKind # "end"
  <2>1. reader' = reader /\ doc' = doc /\ phase' = "scope"
    BY <1>1, <1>5 DEF CloseDocument, Next1
  <2>2. Types'  BY <2>1, <1>1 DEF Types, Phases
  <2>3. Errors'  BY <2>1, <1>1, <1>2 DEF Errors, Peeked
  <2>4. TakenTo(p)'
    <3>1. phase # "judge" /\ phase' # "judge" /\ UNCHANGED <<tape, g>>  BY <1>1, <2>1
    <3> QED  BY <3>1, <2>1, TakenStays
  <2> QED  BY <1>5, <2>1, <2>2, <2>3, <2>4
<1>6. QED  BY <1>4, <1>5


LEMMA TakeBodyDoc ==
    ASSUME Types, NEW p, TakenTo(p), TakeBody
    PROVE  LET u == Head1
           IN  /\ reader.out # <<>> /\ doc' \in DocType /\ doc'.from = doc.from /\ doc'.to = u.last
               /\ u.kind = "directive" => doc'.directives = doc.directives + 1
               /\ u.kind # "directive" => doc'.directives = doc.directives
               /\ doc'.content <=> doc.content \/ u.kind \notin {"directive", "comment"}
               /\ doc'.read = doc.read \cup {[at |-> i, schema |-> tape[i].schema] : i \in Scalars(u)}
               /\ doc'.ended = doc.ended /\ doc'.schema = doc.schema
<1> DEFINE u == Head1
           more == {[at |-> i, schema |-> tape[i].schema] : i \in Scalars(u)}
<1>1. reader.out # <<>>  BY DEF TakeBody, EndsBody, NextKind, AtEnd
<1>2. /\ u \in UnitType /\ u.last \in 1 .. Len(tape) /\ u.first \in 1 .. Len(tape) /\ TapeOK(tape)
  BY <1>1, HeadFacts DEF Types
<1>3. more \in SUBSET [at : Int, schema : Schemas \cup {"none"}]
  <2> SUFFICES ASSUME NEW i \in Scalars(u)
               PROVE  i \in Int /\ tape[i].schema \in Schemas \cup {"none"}
    OBVIOUS
  <2>1. i \in 1 .. Len(tape)
    <3>1. Len(tape) \in Nat /\ i \in u.first .. u.last  BY <1>2, TapeFacts DEF Scalars
    <3> QED  BY <3>1, <1>2
  <2>2. tape[i] \in Token  BY <2>1, <1>2, TapeFacts
  <2> QED  BY <2>1, <2>2 DEF Token
<1>4. doc' = [doc EXCEPT !.to = u.last,
                         !.directives = IF u.kind = "directive" THEN doc.directives + 1 ELSE doc.directives,
                         !.content = doc.content \/ u.kind \notin {"directive", "comment"},
                         !.read = doc.read \cup more]
  BY DEF TakeBody, more
<1> HIDE DEF more
<1>5. PICK a \in Int : a = u.last  BY <1>2
<1>6. doc \in DocType /\ doc.directives \in Nat  BY DEF Types, DocType
<1>7. PICK b \in Nat : b = IF u.kind = "directive" THEN doc.directives + 1 ELSE doc.directives
  BY <1>6
<1>8. PICK c \in BOOLEAN : c = (doc.content \/ u.kind \notin {"directive", "comment"})  BY Zenon
<1>9. PICK r \in SUBSET [at : Int, schema : Schemas \cup {"none"}] : r = doc.read \cup more
  <2>1. doc.read \in SUBSET [at : Int, schema : Schemas \cup {"none"}]  BY <1>6 DEF DocType
  <2> QED  BY <2>1, <1>3
<1> HIDE DEF u
<1>10. doc' = [doc EXCEPT !.to = a, !.directives = b, !.content = c, !.read = r]
  BY <1>4, <1>5, <1>7, <1>8, <1>9, Zenon
<1>11. /\ doc' \in DocType /\ doc'.from = doc.from /\ doc'.to = a /\ doc'.directives = b
       /\ doc'.content = c /\ doc'.read = r /\ doc'.ended = doc.ended /\ doc'.schema = doc.schema
  BY <1>6, <1>10 DEF DocType
<1>12. doc'.content <=> doc.content \/ u.kind \notin {"directive", "comment"}  BY <1>8, <1>11
<1>13. QED  BY <1>1, <1>5, <1>7, <1>9, <1>11, <1>12 DEF u, more

LEMMA TakeBodySound ==
    ASSUME Types, Errors, NEW p, TakenTo(p), Live, TakeBody, NEW q, q = Head1.last
    PROVE  /\ Types' /\ Errors' /\ (Live' => TakenTo(q)')
           /\ reader'.tail = reader.tail /\ reader'.out = Tail(reader.out)
           /\ reader'.drained = reader.drained
           /\ reader'.tookDirective <=> Head1.kind = "directive"
           /\ Same(tape, tape') /\ Len(tape') = Len(tape)
<1> DEFINE u == Head1
<1>1. /\ phase = "body" /\ ~reader.err /\ Peeked /\ ~EndsBody
      /\ reader' = [Take(reader) EXCEPT !.tookDirective = (u.kind = "directive")]
      /\ phase' = IF Second(u) THEN "refused" ELSE phase
      /\ IF u.kind = "directive" /\ u.version # "none" /\ ~Second(u)
         THEN version' = u.version /\ schema' = u.version /\ tape' = Retype(tape, u.version, u.last)
         ELSE UNCHANGED <<version, schema, tape>>
      /\ UNCHANGED <<scanErr, g, option, docs>>
  BY DEF TakeBody
<1>2. reader.out # <<>>  BY <1>1 DEF EndsBody, NextKind, AtEnd
<1>3. /\ u \in UnitType /\ u.first = p + 1 /\ p < q /\ q <= Len(tape) /\ p \in Nat /\ q \in 1 .. Len(tape)
      /\ u.kind \notin {"header", "end"} => \A i \in p + 1 .. q : tape[i].kind \notin {"header", "end"}
      /\ Ahead(tape, g, Tail(reader.out), reader.drained, q)
  BY <1>2, HeadFacts
<1>4. u.kind \notin {"header", "end"}  BY <1>1, <1>2 DEF EndsBody, NextKind, AtEnd
<1>5. u.version \in Schemas \cup {"none"} /\ q \in Int /\ TapeOK(tape) /\ ReaderShape(reader)
  BY <1>3, UnitFields DEF Types
<1>6. ~reader.err /\ ~g.err /\ ~scanErr  BY <1>1 DEF Live, Errors
<1>7. doc' \in DocType  BY TakeBodyDoc
<1>8. q = u.last  OBVIOUS
<1> HIDE DEF u
<1>9. TapeOK(tape') /\ Len(tape') = Len(tape) /\ Same(tape, tape')
  <2>1. CASE u.kind = "directive" /\ u.version # "none" /\ ~Second(u)
    <3>1. tape' = Retype(tape, u.version, q) /\ u.version \in Schemas  BY <2>1, <1>1, <1>5, <1>8
    <3> QED  BY <3>1, <1>5, RetypedTape
  <2>2. CASE ~(u.kind = "directive" /\ u.version # "none" /\ ~Second(u))
    <3>1. tape' = tape  BY <2>2, <1>1
    <3>2. Len(tape) \in Nat  BY <1>5, TapeFacts
    <3> QED  BY <3>1, <3>2, <1>5 DEF Same
  <2> QED  BY <2>1, <2>2
<1>10. PICK b \in BOOLEAN : b = (u.kind = "directive")  BY Zenon
<1>11. PICK r : r = Take(reader)  OBVIOUS
<1>12. reader' = [r EXCEPT !.tookDirective = b]  BY <1>1, <1>10, <1>11
<1>13. /\ ReaderShape(r) /\ r.out = Tail(reader.out) /\ r.taken = TRUE
       /\ r.drained = reader.drained /\ r.tail = reader.tail /\ r.err = reader.err
       /\ r.afterHeader = reader.afterHeader /\ r.afterEnd = reader.afterEnd
  BY <1>5, <1>11, TakeShape
<1>14. /\ ReaderShape(reader') /\ reader'.out = Tail(reader.out) /\ reader'.taken = TRUE
       /\ reader'.drained = reader.drained /\ reader'.tail = reader.tail /\ reader'.err = reader.err
       /\ reader'.tookDirective = b
       /\ reader'.afterHeader = reader.afterHeader /\ reader'.afterEnd = reader.afterEnd
  BY <1>12, <1>13 DEF ReaderShape
<1>15. Types'
  <2>1. version' \in Schemas \cup {"none"} /\ schema' \in Schemas  BY <1>1, <1>5 DEF Types
  <2>2. phase' \in Phases /\ option' \in Schemas /\ scanErr' \in BOOLEAN /\ GrouperShape(g')
    BY <1>1 DEF Types, Phases
  <2> QED  BY <2>1, <2>2, <1>7, <1>9, <1>14 DEF Types
<1>16. Errors'  BY <1>1, <1>6, <1>14 DEF Errors
<1>17. ASSUME Live' PROVE TakenTo(q)'
  <2>1. phase' = "body" /\ phase = "body"  BY <1>1, <1>17 DEF Live
  <2>2. Ahead(tape', g', reader'.out, reader'.drained, q)
    BY <1>1, <1>3, <1>5, <1>9, <1>14, AheadAfter
  <2>3. Judged(tape, p, phase, reader)  BY DEF TakenTo
  <2>4. /\ \A i \in 1 .. Len(tape) : tape'[i].kind = tape[i].kind /\ tape'[i].line = tape[i].line
        /\ DOMAIN tape' = DOMAIN tape /\ DOMAIN tape = 1 .. Len(tape) /\ Len(tape) \in Nat
    BY <1>5, <1>9, TapeFacts DEF Same
  <2>5. \A i \in p + 1 .. q : tape[i].kind \notin {"header", "end"}  BY <1>3, <1>4
  <2>6. ASSUME NEW i \in 1 .. q, i + 1 \in DOMAIN tape', tape'[i].line = tape'[i+1].line
        PROVE  tape'[i].kind # "end" /\ (tape'[i].kind = "header" => tape'[i+1].kind # "entry")
    <3>0. /\ i \in 1 .. Len(tape) /\ i + 1 \in 1 .. Len(tape)
          /\ tape'[i].kind = tape[i].kind /\ tape'[i].line = tape[i].line
          /\ tape'[i+1].kind = tape[i+1].kind /\ tape'[i+1].line = tape[i+1].line
      BY <2>4, <2>6, <1>3
    <3>1. CASE i \in 1 .. p  BY <3>0, <3>1, <2>1, <2>3, <2>4, <2>6 DEF Judged
    <3>2. CASE i \notin 1 .. p
      <4>1. i \in p + 1 .. q  BY <3>2, <1>3
      <4> QED  BY <4>1, <3>0, <2>5
    <3> QED  BY <3>1, <3>2
  <2>7. tape'[q].kind \notin {"header", "end"}
    <3>1. q \in p + 1 .. q  BY <1>3
    <3> QED  BY <3>1, <2>4, <2>5, <1>3
  <2>8. Judged(tape', q, phase', reader')  BY <2>1, <2>3, <2>6, <2>7, <1>14 DEF Judged
  <2>9. Marked(tape', q, phase', reader')  BY <2>1 DEF Marked
  <2>10. reader'.taken <=> q > 0  BY <1>3, <1>14
  <2> QED  BY <2>2, <2>8, <2>9, <2>10 DEF TakenTo
<1>18. QED  BY <1>9, <1>10, <1>14, <1>15, <1>16, <1>17 DEF u

LEMMA EndScopeSound ==
    ASSUME Types, Errors, NEW p, TakenTo(p), Live, EndScope
    PROVE  /\ Types' /\ Errors' /\ TakenTo(p)'
           /\ Same(tape, tape') /\ Same(tape', tape) /\ Len(tape') = Len(tape)
<1>1. /\ phase = "scope" /\ phase' = "open" /\ doc' = NoDoc
      /\ IF doc.directives > 0 \/ version = "none"
         THEN UNCHANGED <<version, schema, tape>>
         ELSE version' = "none" /\ schema' = option /\ tape' = Unscoped
      /\ UNCHANGED <<scanErr, g, reader, option>>
  BY DEF EndScope
<1>2. ~reader.err /\ ~g.err /\ ~scanErr  BY <1>1 DEF Live, Errors
<1>3. TapeOK(tape) /\ option \in Schemas /\ Len(tape) \in Nat  BY TapeFacts DEF Types
<1>4. TapeOK(tape') /\ Len(tape') = Len(tape) /\ Same(tape, tape') /\ Same(tape', tape)
  <2>1. CASE doc.directives > 0 \/ version = "none"
    <3>1. tape' = tape  BY <2>1, <1>1
    <3> QED  BY <3>1, <1>3 DEF Same
  <2>2. CASE ~(doc.directives > 0 \/ version = "none")
    <3> DEFINE from == IF AtEnd THEN Len(tape) ELSE Head1.first - 1
    <3>1. tape' = Retype(tape, option, from)  BY <2>2, <1>1 DEF Unscoped
    <3>2. from \in Int
      <4>1. CASE AtEnd  BY <4>1, <1>3
      <4>2. CASE ~AtEnd
        <5>1. Head1.first = p + 1 /\ p \in Nat  BY <4>2, HeadFacts DEF AtEnd
        <5> QED  BY <4>2, <5>1
      <4> QED  BY <4>1, <4>2
    <3> HIDE DEF from
    <3> QED  BY <3>1, <3>2, <1>3, RetypedTape
  <2> QED  BY <2>1, <2>2
<1>5. Types'
  <2>1. NoDoc \in DocType  BY DEF NoDoc, NewDoc, DocType
  <2> QED  BY <2>1, <1>1, <1>4 DEF Types, Phases
<1>6. Errors'  BY <1>1, <1>2 DEF Errors
<1>7. TakenTo(p)'
  <2>1. Ahead(tape', g', reader'.out, reader'.drained, p)
    <3>1. Ahead(tape, g, reader.out, reader.drained, p)  BY DEF TakenTo
    <3> QED  BY <3>1, <1>1, <1>3, <1>4, AheadAfter
  <2>2. Judged(tape, p, phase, reader)  BY DEF TakenTo
  <2>3. p \in 0 .. Len(tape)
    <3>1. Ahead(tape, g, reader.out, reader.drained, p)  BY DEF TakenTo
    <3> QED  BY <3>1, <1>3, AheadBounds
  <2>4. /\ \A i \in 1 .. Len(tape) : tape'[i].kind = tape[i].kind /\ tape'[i].line = tape[i].line
        /\ DOMAIN tape' = DOMAIN tape /\ DOMAIN tape = 1 .. Len(tape)
    BY <1>3, <1>4, TapeFacts DEF Same
  <2>5. ASSUME NEW i \in 1 .. p, i + 1 \in DOMAIN tape', tape'[i].line = tape'[i+1].line
        PROVE  tape'[i].kind # "end" /\ (tape'[i].kind = "header" => tape'[i+1].kind # "entry")
    <3>0. /\ i \in 1 .. Len(tape) /\ i + 1 \in 1 .. Len(tape)
          /\ tape'[i].kind = tape[i].kind /\ tape'[i].line = tape[i].line
          /\ tape'[i+1].kind = tape[i+1].kind /\ tape'[i+1].line = tape[i+1].line
      BY <2>3, <2>4, <2>5, <1>3
    <3> QED  BY <3>0, <2>2, <2>4, <2>5, <1>1 DEF Judged
  <2>6. p > 0 => tape'[p].kind = tape[p].kind  BY <2>3, <2>4
  <2>7. Judged(tape', p, phase', reader')  BY <2>2, <2>5, <2>6, <1>1 DEF Judged
  <2>8. Marked(tape', p, phase', reader')  BY <1>1 DEF Marked
  <2> QED  BY <2>1, <2>7, <2>8, <1>1 DEF TakenTo
<1>8. QED  BY <1>4, <1>5, <1>6, <1>7


LEMMA PeekingIsLive ==
    ASSUME Errors
    PROVE  SkipEnd \/ OpenHeader \/ OpenBare \/ OpenEmpty \/ StreamEnds \/ Judge
              \/ TakeBody \/ CloseDocument \/ EndScope => Live
<1>1. SkipEnd \/ OpenHeader \/ OpenBare \/ OpenEmpty \/ StreamEnds \/ Judge \/ CloseDocument =>
        Peeked /\ phase \in {"open", "judge", "close"}
  BY DEF SkipEnd, OpenHeader, OpenBare, OpenEmpty, StreamEnds, Judge, CloseDocument, Next1
<1>2. TakeBody => Peeked /\ phase # "refused" /\ ~reader.err  BY DEF TakeBody
<1>3. EndScope => Peeked /\ phase # "refused" /\ ~reader.err  BY DEF EndScope, Errors, Peeked
<1>4. QED  BY <1>1, <1>2, <1>3, OpenIsLive, PeekedLive

LEMMA EmptyTape == TapeOK(<<>>) /\ Len(<<>>) = 0 /\ \A i \in 1 .. 0 : FALSE
<1>1. <<>> \in Seq(Token) /\ Len(<<>>) = 0 /\ DOMAIN <<>> = 1 .. 0  OBVIOUS
<1>2. \A i \in 1 .. 0 : FALSE  OBVIOUS
<1>3. \A i \in 1 .. Len(<<>>) - 1 : FALSE  BY <1>1
<1>4. QED  BY <1>1, <1>2, <1>3 DEF TapeOK

LEMMA InitSound ==
    ASSUME Init
    PROVE  Types /\ Errors /\ TakenTo(0) /\ Live
<1>1. /\ option \in Options /\ schema = option /\ version = "none"
      /\ tape = <<>> /\ scanErr = FALSE /\ g = NewGrouper /\ reader = NewReader
      /\ phase = "open" /\ doc = NoDoc /\ docs = <<>>
  BY DEF Init
<1>2. TapeOK(tape) /\ Len(tape) = 0 /\ 0 \in 0 .. 0  BY <1>1, EmptyTape
<1>3. /\ reader.out = <<>> /\ reader.drained = FALSE /\ reader.taken = FALSE /\ reader.err = FALSE
      /\ reader.afterHeader = 0 /\ reader.afterEnd = 0 /\ ReaderShape(reader)
  BY <1>1 DEF NewReader, ReaderShape
<1>4. /\ g.header = <<>> /\ g.window = <<>> /\ g.directive = NoDirective /\ g.err = FALSE
      /\ GrouperShape(g)
  <2>1. <<>> \in Seq(UnitType)  OBVIOUS
  <2> QED  BY <1>1, <2>1 DEF NewGrouper, GrouperShape
<1>5. Types
  <2>1. NoDoc \in DocType  BY DEF NoDoc, NewDoc, DocType
  <2>2. option \in Schemas  BY <1>1, StreamAssumption DEF Schemas
  <2> QED  BY <2>1, <2>2, <1>1, <1>2, <1>3, <1>4 DEF Types, Phases
<1>6. Errors  BY <1>1, <1>3, <1>4 DEF Errors
<1>7. TakenTo(0)
  <2>1. Chain(<<>>, 1, 1) /\ <<>> \in Seq(UnitType)  BY ChainEmpty
  <2>2. Passed(tape, NoDirective, <<>>, 0, 0)
    <3>1. NoDirective \in DirectiveType  BY <2>1 DEF NoDirective, DirectiveType
    <3>2. NoneHeld(tape, NoDirective, <<>>, 0, 0)  BY <2>1 DEF NoneHeld
    <3>3. \A i \in 1 .. 0 : FALSE  OBVIOUS
    <3> QED  BY <2>1, <3>1, <3>2, <3>3, <1>2 DEF Passed
  <2>3. Held(tape, <<>>, 0, 0)  BY <2>1 DEF Held
  <2>4. Opened(tape, <<>>, 0, 0)  BY DEF Opened
  <2>5. Grouped(tape, g, reader.out, 0, 0)  BY <2>2, <2>3, <2>4, <1>2, <1>3, <1>4 DEF Grouped
  <2>6. Ahead(tape, g, reader.out, reader.drained, 0)  BY <2>5, <1>2, <1>3 DEF Ahead
  <2>7. Judged(tape, 0, phase, reader)
    <3>1. \A i \in 1 .. 0 : FALSE  OBVIOUS
    <3> QED  BY <3>1, <1>3 DEF Judged
  <2>8. Marked(tape, 0, phase, reader)  BY <1>1 DEF Marked
  <2> QED  BY <2>6, <2>7, <2>8, <1>3 DEF TakenTo
<1>8. QED  BY <1>1, <1>3, <1>4, <1>5, <1>6, <1>7 DEF Live


LEMMA StutterSound ==
    ASSUME Types, Errors, NEW p, Live => TakenTo(p), UNCHANGED vars
    PROVE  Types' /\ Errors' /\ (Live' => TakenTo(p)')
<1>1. UNCHANGED <<tape, schema, scanErr, g, reader, phase, option, version, doc, docs>>
  BY DEF vars
<1>2. Types'  BY <1>1 DEF Types
<1>3. Errors'  BY <1>1 DEF Errors
<1>4. Live' => Live  BY <1>1 DEF Live
<1>5. TakenTo(p) => TakenTo(p)'  BY <1>1 DEF TakenTo
<1>6. QED  BY <1>2, <1>3, <1>4, <1>5

LEMMA TakenIn ==
    ASSUME Types, NEW p, TakenTo(p)
    PROVE  p \in 0 .. Len(tape)
<1>1. TapeOK(tape) /\ Ahead(tape, g, reader.out, reader.drained, p)  BY DEF Types, TakenTo
<1>2. QED  BY <1>1, AheadBounds

-----------------------------------------------------------------------------
(* The documents of tokens that are added to, or resolved again. *)

LEMMA BeginsSame ==
    ASSUME NEW t, NEW w, TapeOK(t), Same(t, w), NEW i \in 1 .. Len(t)
    PROVE  /\ BeginsIn(w, i) <=> BeginsIn(t, i)
           /\ StopIn(w, i) <=> StopIn(t, i)
<1>1. Len(t) \in Nat /\ \A j \in 1 .. Len(t) : w[j].kind = t[j].kind  BY TapeFacts DEF Same
<1>2. i = 1 \/ i - 1 \in 1 .. Len(t)  OBVIOUS
<1>3. w[i].kind = t[i].kind /\ (i = 1 \/ w[i-1].kind = t[i-1].kind)  BY <1>1, <1>2
<1>4. \A j \in 1 .. i-1 : w[j].kind = t[j].kind /\ \A k \in j+1 .. i-1 : w[k].kind = t[k].kind
  BY <1>1
<1>5. BeginsIn(w, i) <=> BeginsIn(t, i)  BY <1>3, <1>4 DEF BeginsIn
<1>6. QED  BY <1>3, <1>5 DEF StopIn

LEMMA SameDocs ==
    ASSUME NEW t, NEW w, TapeOK(t), Same(t, w), NEW p \in 0 .. Len(t)
    PROVE  /\ Count(w, p) = Count(t, p)
           /\ \A i \in 1 .. p : w[i].kind = t[i].kind /\ (BeginsIn(w, i) <=> BeginsIn(t, i))
           /\ Prefaced(w, p) <=> Prefaced(t, p)
           /\ \A a \in Nat : HasPercent(w, a, p) <=> HasPercent(t, a, p)
           /\ \A a \in Nat \ {0} : /\ NoStops(w, a, p) <=> NoStops(t, a, p)
                                   /\ VersionsIn(w, a, p) = VersionsIn(t, a, p)
<1>1. /\ Len(t) \in Nat /\ \A j \in 1 .. Len(t) : w[j].kind = t[j].kind
      /\ \A j \in 1 .. p : j \in 1 .. Len(t)
  BY TapeFacts DEF Same
<1>2. \A i \in 1 .. p : /\ w[i].kind = t[i].kind /\ (BeginsIn(w, i) <=> BeginsIn(t, i))
                        /\ StopIn(w, i) <=> StopIn(t, i)
  BY <1>1, BeginsSame
<1>3. Count(w, p) = Count(t, p)
  <2>1. {j \in 1 .. p : BeginsIn(w, j)} = {j \in 1 .. p : BeginsIn(t, j)}  BY <1>2
  <2> QED  BY <2>1 DEF Count
<1>4. Prefaced(w, p) <=> Prefaced(t, p)
  <2>1. \A j \in 1 .. p : \A k \in j+1 .. p : k \in 1 .. p  OBVIOUS
  <2> QED  BY <1>2, <2>1 DEF Prefaced
<1>5. ASSUME NEW a \in Nat PROVE HasPercent(w, a, p) <=> HasPercent(t, a, p)
  <2>1. a # 0 => \A j \in a .. p : j \in 1 .. p  OBVIOUS
  <2> QED  BY <1>2, <2>1 DEF HasPercent
<1>6. ASSUME NEW a \in Nat \ {0}
      PROVE  (NoStops(w, a, p) <=> NoStops(t, a, p)) /\ VersionsIn(w, a, p) = VersionsIn(t, a, p)
  <2>1. \A j \in a .. p : j \in 1 .. p  OBVIOUS
  <2>2. VersionsIn(w, a, p) = VersionsIn(t, a, p)  BY <2>1, <1>1, SameVersions
  <2> QED  BY <1>2, <2>1, <2>2 DEF NoStops
<1>7. QED  BY <1>2, <1>3, <1>4, <1>5, <1>6

LEMMA DocAfter ==
    ASSUME NEW t, NEW w, TapeOK(t), TapeOK(w), Same(t, w),
           NEW drained, NEW later, drained => later, drained => Len(w) = Len(t),
           NEW d, NEW n, DocOK(t, d, n, drained)
    PROVE  DocOK(w, d, n, later)
<1>1. /\ Len(t) \in Nat /\ Len(w) \in Nat /\ DOMAIN t = 1 .. Len(t) /\ DOMAIN w = 1 .. Len(w)
      /\ Len(t) <= Len(w) /\ \A i \in 1 .. Len(t) : w[i].kind = t[i].kind
  BY TapeFacts DEF Same
<1>2. /\ d.from \in 1 .. Len(t) /\ d.to \in 1 .. Len(t) /\ d.from <= d.to
      /\ BeginsIn(t, d.from) /\ n = Count(t, d.from) /\ NoStops(t, d.from + 1, d.to)
      /\ d.to < Len(t) => StopIn(t, d.to + 1)
      /\ d.to < Len(t) \/ drained
      /\ d.ended <=> d.to < Len(t) /\ t[d.to + 1].kind = "end"
  BY <1>1 DEF DocOK
<1>3. BeginsIn(w, d.from) /\ Count(w, d.from) = Count(t, d.from)
  <2>1. d.from \in 0 .. Len(t)  BY <1>2
  <2> QED  BY <2>1, <1>2, BeginsSame, SameDocs
<1>4. NoStops(w, d.from + 1, d.to)
  <2>1. d.to \in 0 .. Len(t) /\ d.from + 1 \in Nat \ {0}  BY <1>2
  <2> QED  BY <2>1, <1>2, SameDocs
<1>a. Len(t) \in Nat /\ Len(w) \in Nat /\ Len(t) <= Len(w)  BY <1>1
<1>b. d.from \in 1 .. Len(t) /\ d.to \in 1 .. Len(t) /\ (d.to < Len(t) \/ drained)  BY <1>2
<1>5. d.to < Len(t) <=> d.to < Len(w)  BY <1>a, <1>b
<1>6. d.to < Len(t) => d.to + 1 \in 1 .. Len(t)  BY <1>a, <1>b
<1>7. d.to < Len(t) => StopIn(w, d.to + 1) /\ w[d.to + 1].kind = t[d.to + 1].kind
  BY <1>1, <1>2, <1>6, BeginsSame
<1>8. d.from \in 1 .. Len(w) /\ d.to \in 1 .. Len(w)  BY <1>a, <1>b
<1>9. d.to < Len(w) \/ later  BY <1>2, <1>5
<1>10. QED  BY <1>1, <1>2, <1>3, <1>4, <1>5, <1>7, <1>8, <1>9 DEF DocOK

LEMMA DocsAfter ==
    ASSUME NEW t, NEW w, TapeOK(t), TapeOK(w), Same(t, w),
           NEW drained, NEW later, drained => later, drained => Len(w) = Len(t),
           NEW ds, DocsOK(t, ds, drained)
    PROVE  DocsOK(w, ds, later)
<1>1. /\ Len(t) \in Nat /\ Len(w) \in Nat /\ (t = <<>> <=> Len(t) = 0) /\ (w = <<>> <=> Len(w) = 0)
      /\ Len(t) <= Len(w)
  BY TapeFacts DEF Same
<1>2. ds \in Seq(DocType)  BY DEF DocsOK
<1>3. CASE t = <<>>
  <2>1. ds = <<>> \/ (Len(ds) = 1 /\ ds[1].from = 0 /\ drained)  BY <1>3 DEF DocsOK
  <2>2. CASE ds = <<>>  BY <1>2, <2>2 DEF DocsOK
  <2>3. CASE Len(ds) = 1 /\ ds[1].from = 0 /\ drained
    <3>1. w = <<>> /\ later  BY <1>1, <1>3, <2>3
    <3> QED  BY <3>1, <2>3, <1>2 DEF DocsOK
  <2> QED  BY <2>1, <2>2, <2>3
<1>4. CASE t # <<>>
  <2>1. w # <<>>  BY <1>1, <1>4
  <2>2. \A n \in DOMAIN ds : DocOK(t, ds[n], n, drained)  BY <1>4 DEF DocsOK
  <2>3. \A n \in DOMAIN ds : DocOK(w, ds[n], n, later)  BY <2>2, DocAfter
  <2> QED  BY <1>2, <2>1, <2>3 DEF DocsOK
<1>5. QED  BY <1>3, <1>4

LEMMA CountNext ==
    ASSUME NEW t, NEW p \in Nat
    PROVE  /\ Count(t, p) \in Nat
           /\ Count(t, p + 1) = IF BeginsIn(t, p + 1) THEN Count(t, p) + 1 ELSE Count(t, p)
<1> DEFINE S == {j \in 1 .. p : BeginsIn(t, j)}
           T == {j \in 1 .. p + 1 : BeginsIn(t, j)}
<1>1. IsFiniteSet(1 .. p)  BY FS_Interval
<1>2. IsFiniteSet(S) /\ p + 1 \notin S  BY <1>1, FS_Subset
<1>3. T = IF BeginsIn(t, p + 1) THEN S \cup {p + 1} ELSE S
  <2>1. 1 .. p + 1 = (1 .. p) \cup {p + 1}  OBVIOUS
  <2> QED  BY <2>1
<1> HIDE DEF S, T
<1>4. Cardinality(S) \in Nat /\ Cardinality(S \cup {p + 1}) = Cardinality(S) + 1
  BY <1>2, FS_AddElement, FS_CardinalityType
<1>5. Cardinality(S) = Count(t, p) /\ Cardinality(T) = Count(t, p + 1)  BY DEF Count, S, T
<1>6. QED  BY <1>3, <1>4, <1>5

LEMMA CountOver ==
    ASSUME NEW t, NEW a \in Nat, NEW b \in Nat, a <= b, \A i \in a+1 .. b : ~BeginsIn(t, i)
    PROVE  Count(t, b) = Count(t, a)
<1>1. {j \in 1 .. b : BeginsIn(t, j)} = {j \in 1 .. a : BeginsIn(t, j)}
  <2>1. \A j \in 1 .. b : j \in 1 .. a \/ j \in a+1 .. b  OBVIOUS
  <2>2. \A j \in 1 .. a : j \in 1 .. b  OBVIOUS
  <2> QED  BY <2>1, <2>2
<1>2. QED  BY <1>1 DEF Count

LEMMA NoneCounted == ASSUME NEW t PROVE Count(t, 0) = 0
<1>1. {j \in 1 .. 0 : BeginsIn(t, j)} = {}  OBVIOUS
<1>2. QED  BY <1>1, FS_EmptySet DEF Count

LEMMA ReadingAfter ==
    ASSUME NEW t, NEW w, TapeOK(t), Same(t, w), NEW p \in 0 .. Len(t), NEW dc, NEW rd, NEW rd2,
           Reading(t, p, dc, rd), rd2.tookDirective => rd.tookDirective
    PROVE  Reading(w, p, dc, rd2)
<1>1. dc.from \in 1 .. p /\ p \in 1 .. p /\ dc.from \in Nat /\ dc.from + 1 \in Nat \ {0} /\ dc.from \in Nat \ {0}
  BY TapeFacts DEF Reading
<1>2. /\ \A i \in 1 .. p : w[i].kind = t[i].kind /\ (BeginsIn(w, i) <=> BeginsIn(t, i))
      /\ Prefaced(w, p) <=> Prefaced(t, p)
      /\ HasPercent(w, dc.from, p) <=> HasPercent(t, dc.from, p)
      /\ NoStops(w, dc.from + 1, p) <=> NoStops(t, dc.from + 1, p)
      /\ VersionsIn(w, dc.from, p) = VersionsIn(t, dc.from, p)
  BY <1>1, SameDocs
<1>3. w[p].kind = t[p].kind /\ (BeginsIn(w, dc.from) <=> BeginsIn(t, dc.from))  BY <1>1, <1>2
<1>4. QED  BY <1>2, <1>3, Zenon DEF Reading

LEMMA OverAfter ==
    ASSUME NEW t, NEW w, TapeOK(t), Same(t, w), NEW p \in 0 .. Len(t), NEW dc, Over(t, p, dc)
    PROVE  Over(w, p, dc)
<1>0. p \in Nat /\ Len(t) \in Nat  BY TapeFacts
<1>1. /\ dc.from \in 1 .. p /\ dc.to \in {p, p - 1} /\ dc.from <= dc.to /\ p \in 1 .. p
      /\ dc.from \in Nat /\ dc.from + 1 \in Nat \ {0} /\ dc.from \in Nat \ {0}
      /\ dc.to \in 0 .. Len(t)
  BY <1>0 DEF Over
<1>2. /\ HasPercent(w, dc.from, dc.to) <=> HasPercent(t, dc.from, dc.to)
      /\ NoStops(w, dc.from + 1, dc.to) <=> NoStops(t, dc.from + 1, dc.to)
      /\ VersionsIn(w, dc.from, dc.to) = VersionsIn(t, dc.from, dc.to)
  BY <1>1, SameDocs
<1>3. w[p].kind = t[p].kind /\ (BeginsIn(w, dc.from) <=> BeginsIn(t, dc.from))
  BY <1>1, SameDocs
<1>4. QED  BY <1>2, <1>3, Zenon DEF Over

(* What the scanner cuts or the grouper hands on while the parse waits     *)
(* changes nothing of where it is.                                         *)
LEMMA PlaceFilled ==
    ASSUME NEW t, NEW w, TapeOK(t), Same(t, w), NEW p \in 0 .. Len(t), NEW ph, NEW dc, NEW ds,
           NEW rd, NEW rd2, Place(t, p, ph, dc, ds, rd), rd.out = <<>>, ~rd.drained,
           rd2.tookDirective = rd.tookDirective
    PROVE  Place(w, p, ph, dc, ds, rd2)
<1>1. Count(w, p) = Count(t, p) /\ (p > 0 => w[p].kind = t[p].kind)
  <2>1. p > 0 => p \in 1 .. p  OBVIOUS
  <2> QED  BY <2>1, SameDocs
<1>2. Reading(t, p, dc, rd) => Reading(w, p, dc, rd2)  BY ReadingAfter
<1>3. Over(t, p, dc) => Over(w, p, dc)  BY OverAfter
<1>4. ~Closing(t, p, rd)  BY DEF Closing
<1>5. Fresh(t, p, rd) => p = 0 \/ (p > 0 /\ t[p].kind = "end")  BY DEF Fresh
<1>6. Fresh(t, p, rd) => Fresh(w, p, rd2)  BY <1>1, <1>5 DEF Fresh
<1>7. CASE ph = "open" /\ dc = NoDoc /\ Count(t, p) = Len(ds) /\ Fresh(t, p, rd)
  BY <1>1, <1>6, <1>7 DEF Place
<1>8. CASE ph = "done" /\ dc = NoDoc /\ Count(t, p) = Len(ds) /\ p > 0  BY <1>1, <1>8 DEF Place
<1>9. CASE ph = "judge" /\ dc = NoDoc /\ Count(t, p) = Len(ds) /\ p > 0 /\ t[p].kind = "end"
  BY <1>1, <1>9 DEF Place
<1>10. CASE /\ ph = "judge" /\ dc = NewDoc(p) /\ Count(t, p) = Len(ds) + 1 /\ ~rd.tookDirective
            /\ p > 0 /\ t[p].kind = "header"
  BY <1>1, <1>10 DEF Place
<1>11. CASE /\ ph = "judge" /\ Over(t, p, dc) /\ dc.ended /\ Count(t, p) = Len(ds) + 1
            /\ p > 0 /\ t[p].kind = "end"
  BY <1>1, <1>3, <1>11 DEF Place
<1>12. CASE ph = "body" /\ Reading(t, p, dc, rd) /\ Count(t, p) = Len(ds) + 1
  BY <1>1, <1>2, <1>12 DEF Place
<1>13. CASE ph = "scope" /\ Over(t, p, dc) /\ Count(t, p) = Len(ds) + 1 /\ dc.ended
  BY <1>1, <1>3, <1>13 DEF Place
<1>14. QED  BY <1>4, <1>7, <1>8, <1>9, <1>10, <1>11, <1>12, <1>13 DEF Place

-----------------------------------------------------------------------------
(* The documents, action by action. *)

LEMMA EndBeginsNothing ==
    ASSUME NEW t, NEW i, t[i].kind = "end"
    PROVE  ~BeginsIn(t, i)
BY DEF BeginsIn

LEMMA ScanTokenStands ==
    ASSUME Types, Errors, DocsOK(tape, docs, reader.drained),
           NEW kind \in Kinds, NEW sameLine \in BOOLEAN, ScanToken(kind, sameLine),
           NEW p, Live => TakenTo(p) /\ Stands(p)
    PROVE  DocsOK(tape', docs', reader'.drained) /\ (Live' => Stands(p)')
<1>1. /\ Types' /\ Same(tape, tape') /\ reader.out = <<>> /\ ~reader.drained /\ ~reader'.drained
      /\ reader'.tail = reader.tail /\ reader'.tookDirective = reader.tookDirective
      /\ Live' => Live /\ phase' = phase
  BY ScanTokenMoves
<1>2. doc' = doc /\ docs' = docs  BY DEF ScanToken
<1>3. TapeOK(tape) /\ TapeOK(tape')  BY <1>1 DEF Types
<1>4. DocsOK(tape', docs', reader'.drained)  BY <1>1, <1>2, <1>3, DocsAfter
<1>5. ASSUME Live' PROVE Stands(p)'
  <2>1. TakenTo(p) /\ Stands(p)  BY <1>1, <1>5
  <2>2. ~reader.tail  BY <2>1, <1>1 DEF Stands, Tailed
  <2>3. Place(tape, p, phase, doc, docs, reader)  BY <2>1, <2>2 DEF Stands
  <2>4. p \in 0 .. Len(tape)  BY <2>1, TakenIn
  <2>5. Place(tape', p, phase, doc, docs, reader')  BY <2>3, <2>4, <1>1, <1>3, PlaceFilled
  <2> QED  BY <2>2, <2>5, <1>1, <1>2, <1>5 DEF Stands
<1>6. QED  BY <1>4, <1>5

LEMMA ScanEndStands ==
    ASSUME Types, Errors, DocsOK(tape, docs, reader.drained),
           NEW failed \in BOOLEAN, ScanEnd(failed), NEW p, Live => TakenTo(p) /\ Stands(p)
    PROVE  DocsOK(tape', docs', reader'.drained) /\ (Live' => Stands(p)')
<1>1. /\ tape' = tape /\ reader.out = <<>> /\ ~reader.drained /\ reader'.drained
      /\ reader'.tail = reader.tail /\ reader'.tookDirective = reader.tookDirective
      /\ Live' => Live /\ phase' = phase
  BY ScanEndMoves
<1>2. doc' = doc /\ docs' = docs  BY DEF ScanEnd
<1>3. TapeOK(tape) /\ Same(tape, tape)
  <2>1. TapeOK(tape) /\ Len(tape) \in Nat  BY TapeFacts DEF Types
  <2> QED  BY <2>1 DEF Same
<1>4. DocsOK(tape', docs', reader'.drained)  BY <1>1, <1>2, <1>3, DocsAfter
<1>5. ASSUME Live' PROVE Stands(p)'
  <2>1. TakenTo(p) /\ Stands(p)  BY <1>1, <1>5
  <2>2. ~reader.tail  BY <2>1, <1>1 DEF Stands, Tailed
  <2>3. Place(tape, p, phase, doc, docs, reader)  BY <2>1, <2>2 DEF Stands
  <2>4. p \in 0 .. Len(tape)  BY <2>1, TakenIn
  <2>5. Place(tape, p, phase, doc, docs, reader')  BY <2>3, <2>4, <1>1, <1>3, PlaceFilled
  <2> QED  BY <2>2, <2>5, <1>1, <1>2, <1>5 DEF Stands
<1>6. QED  BY <1>4, <1>5

(* Where the parse is, by its phase. *)
LEMMA PlaceOpen ==
    ASSUME NEW p, Stands(p), phase = "open", ~reader.tail
    PROVE  doc = NoDoc /\ Count(tape, p) = Len(docs) /\ Fresh(tape, p, reader)
BY DEF Stands, Place

LEMMA SkipEndStands ==
    ASSUME Types, Errors, DocsOK(tape, docs, reader.drained), NEW p, TakenTo(p), Live, Stands(p), SkipEnd
    PROVE  DocsOK(tape', docs', reader'.drained) /\ Stands(p + 1)'
<1>1. /\ phase = "open" /\ Peeked /\ NextKind = "end" /\ phase' = "judge"
      /\ UNCHANGED <<tape, schema, scanErr, g, option, version, doc, docs>>
  BY DEF SkipEnd, Next1
<1>2. reader.out # <<>> /\ Head1.kind = "end"  BY <1>1 DEF NextKind, AtEnd
<1>3. reader'.tail = reader.tail /\ reader'.drained = reader.drained  BY SkipEndSound
<1>4. ~reader.tail  BY <1>2 DEF Stands, Tailed
<1>5. doc = NoDoc /\ Count(tape, p) = Len(docs)  BY <1>1, <1>4, PlaceOpen
<1>6. p \in Nat /\ tape[p + 1].kind = "end"  BY <1>2, HeadFacts
<1>7. Count(tape, p + 1) = Len(docs)  BY <1>5, <1>6, CountNext, EndBeginsNothing
<1>8. p + 1 > 0  BY <1>6
<1>9. Place(tape', p + 1, phase', doc', docs', reader')  BY <1>1, <1>5, <1>6, <1>7, <1>8 DEF Place
<1>10. QED  BY <1>1, <1>3, <1>4, <1>9 DEF Stands

LEMMA OpenHeaderStands ==
    ASSUME Types, Errors, DocsOK(tape, docs, reader.drained), NEW p, TakenTo(p), Live, Stands(p), OpenHeader
    PROVE  DocsOK(tape', docs', reader'.drained) /\ Stands(p + 1)'
<1>1. /\ phase = "open" /\ Peeked /\ NextKind = "header" /\ phase' = "judge"
      /\ doc' = NewDoc(Head1.first)
      /\ UNCHANGED <<tape, schema, scanErr, g, option, version, docs>>
  BY DEF OpenHeader, Next1
<1>2. reader.out # <<>> /\ Head1.kind = "header"  BY <1>1 DEF NextKind, AtEnd
<1>3. reader'.tail = reader.tail /\ reader'.drained = reader.drained /\ ~reader'.tookDirective
  BY OpenHeaderSound
<1>4. ~reader.tail  BY <1>2 DEF Stands, Tailed
<1>5. doc = NoDoc /\ Count(tape, p) = Len(docs)  BY <1>1, <1>4, PlaceOpen
<1>6. p \in Nat /\ tape[p + 1].kind = "header" /\ Head1.first = p + 1  BY <1>2, HeadFacts
<1>7. BeginsIn(tape, p + 1)  BY <1>6 DEF BeginsIn
<1>8. Count(tape, p + 1) = Len(docs) + 1  BY <1>5, <1>6, <1>7, CountNext
<1>9. p + 1 > 0  BY <1>6
<1>10. Place(tape', p + 1, phase', doc', docs', reader')
  BY <1>1, <1>3, <1>6, <1>8, <1>9 DEF Place
<1>11. QED  BY <1>1, <1>3, <1>4, <1>10 DEF Stands

LEMMA OpenBareStands ==
    ASSUME Types, Errors, DocsOK(tape, docs, reader.drained), NEW p, TakenTo(p), Live, Stands(p), OpenBare
    PROVE  DocsOK(tape', docs', reader'.drained) /\ Stands(p)'
<1>1. /\ phase = "open" /\ Peeked /\ phase' = "body"
      /\ NextKind \in (Kinds \cup {"directive", "literal"}) \ {"header", "end"}
      /\ doc' = NewDoc(Head1.first)
      /\ UNCHANGED <<tape, schema, scanErr, g, option, version, docs>>
  BY DEF OpenBare, Next1
<1>2. reader.out # <<>> /\ Head1.kind \notin {"header", "end"}  BY <1>1 DEF NextKind, AtEnd, Kinds
<1>3. /\ reader'.tail = reader.tail /\ reader'.out = reader.out
      /\ reader'.drained = reader.drained /\ ~reader'.tookDirective
  BY OpenBareSound
<1>4. ~reader.tail  BY <1>2 DEF Stands, Tailed
<1>5. doc = NoDoc /\ Count(tape, p) = Len(docs) /\ Fresh(tape, p, reader)  BY <1>1, <1>4, PlaceOpen
<1>6. p \in Nat /\ tape[p + 1].kind \notin {"header", "end"} /\ Head1.first = p + 1
  BY <1>2, HeadFacts
<1>7. BeginsIn(tape, p + 1)
  <2>1. p + 1 = 1 \/ (p + 1) - 1 = p  BY <1>6
  <2>2. p = 0 \/ tape[p].kind = "end" \/ BeginsIn(tape, p + 1)  BY <1>2, <1>5 DEF Fresh
  <2>3. p = 0 => p + 1 = 1  OBVIOUS
  <2>4. (p + 1) - 1 = p  BY <1>6
  <2> QED  BY <2>2, <2>3, <2>4, <1>6 DEF BeginsIn
<1>8. Place(tape', p, phase', doc', docs', reader')
  BY <1>1, <1>2, <1>3, <1>5, <1>6, <1>7 DEF Place
<1>9. QED  BY <1>1, <1>3, <1>4, <1>8 DEF Stands

LEMMA OpenEmptyStands ==
    ASSUME Types, Errors, DocsOK(tape, docs, reader.drained), NEW p, TakenTo(p), Live, Stands(p), OpenEmpty
    PROVE  DocsOK(tape', docs', reader'.drained) /\ Stands(p)'
<1>1. /\ phase = "open" /\ Peeked /\ AtEnd /\ ~reader.taken /\ ~reader.tail /\ phase' = "body"
      /\ doc' = NewDoc(0)
      /\ UNCHANGED <<tape, schema, scanErr, g, option, version, docs>>
  BY DEF OpenEmpty
<1>2. reader.out = <<>> /\ reader.drained  BY <1>1 DEF AtEnd, Peeked
<1>3. /\ reader'.tail = TRUE /\ reader'.out = reader.out /\ reader'.taken = reader.taken
      /\ reader'.drained = reader.drained
  BY OpenEmptySound
<1>4. Count(tape, p) = Len(docs)  BY <1>1, PlaceOpen
<1>5. TapeOK(tape) /\ Ahead(tape, g, reader.out, reader.drained, p) /\ ~(p > 0)
  BY <1>1 DEF Types, TakenTo
<1>6. p = Len(tape) /\ p \in Nat
  <2>1. p \in 0 .. Len(tape) /\ (reader.drained /\ reader.out = <<>> => p = Len(tape))
    BY <1>5, AheadBounds
  <2>2. Len(tape) \in Nat  BY <1>5, TapeFacts
  <2> QED  BY <1>2, <2>1, <2>2
<1>7. tape = <<>> /\ p = 0
  <2>1. p = 0  BY <1>5, <1>6
  <2>2. Len(tape) = 0  BY <2>1, <1>6
  <2> QED  BY <2>1, <2>2, <1>5, TapeFacts
<1>8. docs = <<>>
  <2>1. docs \in Seq(DocType) /\ Len(docs) = 0  BY <1>4, <1>7, NoneCounted DEF DocsOK
  <2> QED  BY <2>1
<1>9. Tailed(tape', reader', phase', doc', docs')  BY <1>1, <1>2, <1>3, <1>7, <1>8 DEF Tailed
<1>10. QED  BY <1>1, <1>3, <1>9 DEF Stands

LEMMA StreamEndsStands ==
    ASSUME Types, Errors, DocsOK(tape, docs, reader.drained), NEW p, TakenTo(p), Live, Stands(p), StreamEnds
    PROVE  DocsOK(tape', docs', reader'.drained) /\ Stands(p)'
<1>1. /\ phase = "open" /\ phase' = "done" /\ (reader.taken \/ reader.tail)
      /\ UNCHANGED <<tape, schema, scanErr, g, reader, option, version, doc, docs>>
  BY DEF StreamEnds
<1>2. CASE reader.tail
  <2>1. Tailed(tape', reader', phase', doc', docs')  BY <1>1, <1>2 DEF Stands, Tailed
  <2> QED  BY <2>1, <1>1, <1>2 DEF Stands
<1>3. CASE ~reader.tail
  <2>1. doc = NoDoc /\ Count(tape, p) = Len(docs)  BY <1>1, <1>3, PlaceOpen
  <2>2. p > 0  BY <1>1, <1>3 DEF TakenTo
  <2>3. Place(tape', p, phase', doc', docs', reader')  BY <2>1, <2>2, <1>1 DEF Place
  <2> QED  BY <2>3, <1>1, <1>3 DEF Stands
<1>4. QED  BY <1>2, <1>3

LEMMA JudgeStands ==
    ASSUME Types, Errors, DocsOK(tape, docs, reader.drained), NEW p, TakenTo(p), Live, Stands(p), Judge
    PROVE  DocsOK(tape', docs', reader'.drained) /\ (Live' => Stands(p)')
<1>1. phase = "judge" /\ UNCHANGED <<tape, schema, scanErr, g, option, version, doc, docs>>
  BY DEF Judge
<1>2. /\ reader'.tail = reader.tail /\ reader'.out = reader.out
      /\ reader'.drained = reader.drained /\ reader'.tookDirective = reader.tookDirective
      /\ Live' => phase' = CASE reader.afterHeader # 0 -> "body"
                             [] doc # NoDoc /\ reader.afterHeader = 0 -> "scope"
                             [] OTHER -> "open"
  BY JudgeSound
<1>3. ~reader.tail  BY <1>1 DEF Stands, Tailed
<1>4. p > 0 /\ p \in 1 .. Len(tape) /\ p \in Nat /\ tape[p].line > 0
  <2>1. p > 0 /\ p \in 0 .. Len(tape)  BY <1>1, TakenIn DEF TakenTo, Marked
  <2>2. TapeOK(tape) /\ Len(tape) \in Nat  BY TapeFacts DEF Types
  <2>3. p \in 1 .. Len(tape)  BY <2>1, <2>2
  <2> QED  BY <2>1, <2>2, <2>3, TapeFacts
<1>5. /\ tape[p].kind = "end" => reader.afterHeader = 0
      /\ tape[p].kind = "header" => reader.afterHeader # 0
  BY <1>1, <1>4 DEF TakenTo, Marked
<1>6. Place(tape, p, phase, doc, docs, reader)  BY <1>3 DEF Stands
<1>7. ASSUME Live' PROVE Place(tape, p, phase', doc, docs, reader')
  <2>1. CASE doc = NoDoc /\ Count(tape, p) = Len(docs) /\ tape[p].kind = "end"
    <3>1. phase' = "open"  BY <1>2, <1>5, <1>7, <2>1
    <3>2. Fresh(tape, p, reader')  BY <2>1 DEF Fresh
    <3> QED  BY <2>1, <3>1, <3>2 DEF Place
  <2>2. CASE /\ doc = NewDoc(p) /\ Count(tape, p) = Len(docs) + 1 /\ ~reader.tookDirective
             /\ tape[p].kind = "header"
    <3>1. phase' = "body"  BY <1>2, <1>5, <1>7, <2>2
    <3>2. /\ doc.from = p /\ doc.to = p /\ ~doc.ended /\ doc.directives = 0 /\ ~doc.content
      BY <2>2 DEF NewDoc
    <3>3. BeginsIn(tape, p)  BY <2>2 DEF BeginsIn
    <3>4. NoStops(tape, p + 1, p)  BY <1>4 DEF NoStops
    <3>5. \A j \in p .. p : tape[j].kind = "header"  BY <1>4, <2>2
    <3>6. ~HasPercent(tape, p, p)  BY <3>5 DEF HasPercent
    <3>7. VersionsIn(tape, p, p) = {}  BY <3>5, <1>4, VersionsNone DEF Schemas
    <3>8. Prefaced(tape, p)
      <4> SUFFICES ASSUME NEW j \in 1 .. p, \A k \in j+1 .. p : tape[k].kind = "comment"
                   PROVE  tape[j].kind \in {"comment", "header", "end"}
        BY DEF Prefaced
      <4>1. j # p => p \in j+1 .. p  BY <1>4
      <4> QED  BY <4>1, <2>2
    <3>9. Reading(tape, p, doc, reader')
      BY <1>2, <1>4, <2>2, <3>2, <3>3, <3>4, <3>6, <3>7, <3>8 DEF Reading
    <3> QED  BY <2>2, <3>1, <3>9 DEF Place
  <2>3. CASE Over(tape, p, doc) /\ doc.ended /\ Count(tape, p) = Len(docs) + 1 /\ tape[p].kind = "end"
    <3>1. doc # NoDoc  BY <2>3, <1>4 DEF Over, NoDoc, NewDoc
    <3>2. phase' = "scope"  BY <1>2, <1>5, <1>7, <2>3, <3>1
    <3> QED  BY <2>3, <3>2 DEF Place
  <2> QED  BY <1>1, <1>6, <2>1, <2>2, <2>3 DEF Place
<1>8. QED  BY <1>1, <1>2, <1>3, <1>7 DEF Stands

LEMMA PlaceBody ==
    ASSUME NEW p, Stands(p), phase = "body", ~reader.tail
    PROVE  \/ /\ doc = NewDoc(p + 1) /\ Count(tape, p) = Len(docs) /\ ~reader.tookDirective
              /\ reader.out # <<>> /\ BeginsIn(tape, p + 1) /\ tape[p + 1].kind \notin {"header", "end"}
           \/ Reading(tape, p, doc, reader) /\ Count(tape, p) = Len(docs) + 1
BY DEF Stands, Place

(* A unit is a directive where its first token is a "%". *)
LEMMA DirectiveBegins ==
    ASSUME NEW t, TapeOK(t), NEW u, OutUnit(t, u)
    PROVE  u.kind = "directive" <=> t[u.first].kind = "percent"
<1>1. u.kind = "directive" => IsDirective(t, u)
  <2>1. InUnit(t, u) => u.kind # "directive"
    <3>1. IsLiteral(t, u) => u.kind # "directive"  BY DEF IsLiteral
    <3>2. IsSingle(t, u) /\ u \in UnitType /\ u.first \in DOMAIN t => u.kind # "directive"
      <4>1. IsSingle(t, u) /\ u.first \in DOMAIN t => u.kind \in Kinds  BY TapeFacts DEF IsSingle
      <4> QED  BY <4>1 DEF Kinds
    <3> QED  BY <3>1, <3>2 DEF InUnit
  <2> QED  BY <2>1 DEF OutUnit
<1>2. t[u.first].kind = "percent" => IsDirective(t, u)
  BY DEF OutUnit, InUnit, IsSingle, IsLiteral
<1>3. QED  BY <1>1, <1>2 DEF IsDirective

LEMMA BodyEndsStands ==
    ASSUME Types, Errors, DocsOK(tape, docs, reader.drained), BodyEnds,
           NEW p, Live => TakenTo(p) /\ Stands(p)
    PROVE  DocsOK(tape', docs', reader'.drained) /\ (Live' => Stands(p)')
<1>1. phase = "body" /\ UNCHANGED <<tape, schema, scanErr, g, reader, option, version, doc, docs>>
  BY DEF BodyEnds
<1>2. Live' => Live /\ phase' = "close" /\ Peeked /\ EndsBody  BY BodyEndsSound
<1>3. ASSUME Live' PROVE Stands(p)'
  <2>1. TakenTo(p) /\ Stands(p) /\ phase' = "close" /\ Peeked /\ EndsBody  BY <1>2, <1>3
  <2>2. CASE reader.tail
    <3>1. Tailed(tape', reader', phase', doc', docs')  BY <1>1, <2>1, <2>2 DEF Stands, Tailed
    <3> QED  BY <3>1, <1>1, <2>2 DEF Stands
  <2>3. CASE ~reader.tail
    <3>1. reader.out = <<>> => reader.drained  BY <2>1 DEF Peeked
    <3>2. reader.out # <<>> => /\ p \in Nat /\ (tape[p+1].kind = "header" <=> Head1.kind = "header")
                               /\ (tape[p+1].kind = "end" <=> Head1.kind = "end")
                               /\ (tape[p+1].kind = "percent" <=> Head1.kind = "directive")
      <4> SUFFICES ASSUME reader.out # <<>>
                   PROVE  /\ p \in Nat /\ (tape[p+1].kind = "header" <=> Head1.kind = "header")
                          /\ (tape[p+1].kind = "end" <=> Head1.kind = "end")
                          /\ (tape[p+1].kind = "percent" <=> Head1.kind = "directive")
        OBVIOUS
      <4>1. p \in Nat /\ OutUnit(tape, Head1) /\ Head1.first = p + 1  BY <2>1, HeadFacts
      <4>2. tape[p+1].kind = "percent" <=> Head1.kind = "directive"
        BY <4>1, DirectiveBegins DEF Types
      <4>3. /\ Head1.kind = "header" <=> tape[Head1.first].kind = "header"
            /\ Head1.kind = "end" <=> tape[Head1.first].kind = "end"
        BY <4>1, OutFacts DEF Types
      <4> QED  BY <4>1, <4>2, <4>3
    <3>3. reader.out # <<>> => Head1.kind \in {"header", "end"} \/ (reader.tookDirective /\ Head1.kind = "directive")
      <4> SUFFICES ASSUME reader.out # <<>>
                   PROVE  Head1.kind \in {"header", "end"} \/ (reader.tookDirective /\ Head1.kind = "directive")
        OBVIOUS
      <4>1. NextKind = Head1.kind  BY DEF NextKind, AtEnd
      <4>2. Head1.kind # "none"
        <5>1. OutUnit(tape, Head1) /\ TapeOK(tape)  BY <2>1, HeadFacts DEF Types
        <5>2. Head1.kind \in Kinds \cup {"literal", "directive"}  BY <5>1, OutFacts, UnitFields
        <5> QED  BY <5>2 DEF Kinds
      <4> QED  BY <2>1, <4>1, <4>2 DEF EndsBody
    <3>4. Reading(tape, p, doc, reader) /\ Count(tape, p) = Len(docs) + 1
      <4>1. CASE /\ ~reader.tookDirective /\ reader.out # <<>> /\ tape[p + 1].kind \notin {"header", "end"}
        BY <4>1, <3>2, <3>3
      <4> QED  BY <4>1, <1>1, <2>1, <2>3, PlaceBody
    <3>5. Closing(tape, p, reader)
      <4>1. CASE reader.out = <<>>  BY <4>1, <3>1 DEF Closing
      <4>2. CASE reader.out # <<>> /\ Head1.kind = "end"  BY <4>2, <3>2 DEF Closing
      <4>3. CASE reader.out # <<>> /\ Head1.kind = "header"  BY <4>3, <3>2 DEF Closing, BeginsIn
      <4>4. CASE reader.out # <<>> /\ reader.tookDirective /\ Head1.kind = "directive"
        <5>1. tape[p].kind \in Name /\ p \in 1 .. p /\ tape[p+1].kind = "percent"
          <6>1. doc.from \in 1 .. p /\ p \in Nat  BY <3>2, <3>4, <4>4 DEF Reading
          <6>2. p \in 1 .. p  BY <6>1
          <6> QED  BY <6>2, <3>2, <3>4, <4>4 DEF Reading
        <5>2. \A k \in p+1 .. (p+1)-1 : FALSE  BY <3>2, <4>4
        <5>3. p \in 1 .. (p+1)-1  BY <5>1
        <5>4. BeginsIn(tape, p + 1)  BY <5>1, <5>2, <5>3 DEF BeginsIn, Name
        <5> QED  BY <5>4, <4>4 DEF Closing
      <4> QED  BY <3>3, <4>1, <4>2, <4>3, <4>4
    <3>6. Place(tape', p, phase', doc', docs', reader')  BY <1>1, <2>1, <3>4, <3>5 DEF Place
    <3> QED  BY <3>6, <1>1, <2>3 DEF Stands
  <2> QED  BY <2>2, <2>3
<1>4. QED  BY <1>1, <1>3

LEMMA CloseStands ==
    ASSUME Types, Errors, DocsOK(tape, docs, reader.drained), NEW p, TakenTo(p), Live, Stands(p), CloseDocument
    PROVE  /\ DocsOK(tape', docs', reader'.drained)
           /\ NextKind = "end" => Stands(p + 1)'
           /\ NextKind # "end" => Stands(p)'
<1>1. /\ phase = "close" /\ Peeked
      /\ UNCHANGED <<tape, schema, scanErr, g, option, version, docs>>
  BY DEF CloseDocument
<1>2. /\ NextKind = "end" => phase' = "judge"
      /\ NextKind # "end" => reader' = reader /\ phase' = "scope" /\ doc' = doc
      /\ reader'.tail = reader.tail /\ reader'.drained = reader.drained
  BY CloseSound
<1>3. CASE NextKind = "end"
  <2>1. reader.out # <<>> /\ Head1.kind = "end"  BY <1>3 DEF NextKind, AtEnd
  <2>2. ~reader.tail  BY <2>1 DEF Stands, Tailed
  <2>3. Reading(tape, p, doc, reader) /\ Count(tape, p) = Len(docs) + 1
    BY <1>1, <2>2 DEF Stands, Place
  <2>4. p \in Nat /\ tape[p + 1].kind = "end"  BY <2>1, HeadFacts
  <2>5. Count(tape, p + 1) = Len(docs) + 1  BY <2>3, <2>4, CountNext, EndBeginsNothing
  <2>6. doc' = [doc EXCEPT !.ended = TRUE]  BY <1>3, <1>1 DEF CloseDocument, Next1
  <2>7. /\ doc'.from = doc.from /\ doc'.to = doc.to /\ doc'.directives = doc.directives /\ doc'.ended
    BY <2>6 DEF Types, DocType
  <2>8. /\ doc.from \in 1 .. p /\ doc.to = p /\ BeginsIn(tape, doc.from) /\ NoStops(tape, doc.from + 1, p)
        /\ doc.directives > 0 <=> HasPercent(tape, doc.from, p)
        /\ doc.directives = 0 => VersionsIn(tape, doc.from, p) = {}
    BY <2>3 DEF Reading
  <2>9. p = (p + 1) - 1 /\ doc.from \in 1 .. p + 1 /\ doc.from <= p /\ p + 1 > 0  BY <2>4, <2>8
  <2>10. Over(tape, p + 1, doc')  BY <2>4, <2>7, <2>8, <2>9, Zenon DEF Over
  <2>11. Place(tape', p + 1, phase', doc', docs', reader')
    BY <1>1, <1>2, <1>3, <2>4, <2>5, <2>7, <2>9, <2>10 DEF Place
  <2> QED  BY <1>1, <1>2, <1>3, <2>2, <2>11 DEF Stands
<1>4. CASE NextKind # "end"
  <2>1. CASE reader.tail
    <3>1. Tailed(tape', reader', phase', doc', docs')  BY <1>1, <1>2, <1>4, <2>1 DEF Stands, Tailed
    <3> QED  BY <1>1, <1>2, <1>4, <2>1, <3>1 DEF Stands
  <2>2. CASE ~reader.tail
    <3>1. Reading(tape, p, doc, reader) /\ Count(tape, p) = Len(docs) + 1 /\ Closing(tape, p, reader)
      BY <1>1, <2>2 DEF Stands, Place
    <3>2. Over(tape, p, doc) /\ ~doc.ended
      <4>1. /\ doc.from \in 1 .. p /\ doc.to = p /\ BeginsIn(tape, doc.from) /\ NoStops(tape, doc.from + 1, p)
            /\ doc.directives > 0 <=> HasPercent(tape, doc.from, p)
            /\ doc.directives = 0 => VersionsIn(tape, doc.from, p) = {}
            /\ ~doc.ended /\ tape[p].kind # "end"
        BY <3>1 DEF Reading
      <4>2. doc.from <= p /\ doc.to \in {p, p - 1}  BY <4>1
      <4> QED  BY <4>1, <4>2, Zenon DEF Over
    <3>3. reader.out # <<>> => tape[p + 1].kind # "end"
      <4>1. reader.out # <<>> => Head1.kind # "end"  BY <1>4 DEF NextKind, AtEnd
      <4> QED  BY <4>1, HeadFacts
    <3>4. Place(tape', p, phase', doc', docs', reader')
      BY <1>1, <1>2, <1>4, <3>1, <3>2, <3>3 DEF Place
    <3> QED  BY <1>1, <1>2, <1>4, <2>2, <3>4 DEF Stands
  <2> QED  BY <1>1, <1>2, <1>4, <2>1, <2>2
<1>5. QED  BY <1>3, <1>4

(* What the scope's end makes of the document it ends. *)
ReadDoc == [doc EXCEPT !.schema = InForce]

LEMMA EndScopeDocs ==
    ASSUME Types, DocsOK(tape, docs, reader.drained), EndScope
    PROVE  /\ phase = "scope" /\ phase' = "open" /\ doc' = NoDoc
           /\ UNCHANGED <<scanErr, g, reader, option>>
           /\ docs' \in Seq(DocType) /\ docs' = Append(docs, ReadDoc) /\ docs \in Seq(DocType)
           /\ Len(docs) \in Nat /\ Len(docs') = Len(docs) + 1
           /\ \A n \in 1 .. Len(docs) : docs'[n] = docs[n]
           /\ docs'[Len(docs) + 1] = ReadDoc
           /\ ReadDoc.from = doc.from /\ ReadDoc.to = doc.to /\ ReadDoc.ended = doc.ended
           /\ ReadDoc.read = doc.read /\ ReadDoc.schema = InForce
<1>1. /\ phase = "scope" /\ phase' = "open" /\ doc' = NoDoc
      /\ UNCHANGED <<scanErr, g, reader, option>> /\ docs' = Append(docs, ReadDoc)
  BY DEF EndScope, ReadDoc
<1>2. doc \in DocType /\ InForce \in Schemas \cup {"none"}  BY DEF Types, InForce
<1>3. /\ ReadDoc \in DocType /\ ReadDoc.from = doc.from /\ ReadDoc.to = doc.to /\ ReadDoc.ended = doc.ended
      /\ ReadDoc.read = doc.read /\ ReadDoc.schema = InForce
  BY <1>2 DEF ReadDoc, DocType
<1>4. docs \in Seq(DocType)  BY DEF DocsOK
<1>5. PICK d \in DocType : d = ReadDoc  BY <1>3
<1>6. /\ docs' \in Seq(DocType) /\ Len(docs) \in Nat /\ Len(docs') = Len(docs) + 1
      /\ \A n \in 1 .. Len(docs) : docs'[n] = docs[n]
      /\ docs'[Len(docs) + 1] = d
  <2>1. docs' = Append(docs, d)  BY <1>1, <1>5
  <2> QED  BY <2>1, <1>4
<1>7. QED  BY <1>1, <1>3, <1>4, <1>5, <1>6

LEMMA PlaceScope ==
    ASSUME NEW p, Stands(p), phase = "scope", ~reader.tail
    PROVE  /\ Over(tape, p, doc) /\ Count(tape, p) = Len(docs) + 1
           /\ ~doc.ended => Closing(tape, p, reader) /\ (reader.out # <<>> => tape[p+1].kind # "end")
BY DEF Stands, Place

(* The document that ends is one of the stream's. *)
LEMMA DocRead ==
    ASSUME Types, NEW p, TakenTo(p), Peeked, Over(tape, p, doc),
           ~doc.ended => Closing(tape, p, reader) /\ (reader.out # <<>> => tape[p+1].kind # "end")
    PROVE  DocOK(tape, doc, Count(tape, p), reader.drained) /\ p \in 1 .. Len(tape)
<1>1. /\ TapeOK(tape) /\ p \in 0 .. Len(tape) /\ Len(tape) \in Nat /\ DOMAIN tape = 1 .. Len(tape)
  BY TakenIn, TapeFacts DEF Types
<1>2. /\ doc.from \in 1 .. p /\ doc.to \in {p, p - 1} /\ doc.from <= doc.to
      /\ BeginsIn(tape, doc.from) /\ NoStops(tape, doc.from + 1, doc.to)
      /\ doc.ended => doc.to = p - 1 /\ tape[p].kind = "end"
      /\ ~doc.ended => doc.to = p /\ tape[p].kind # "end"
  BY DEF Over
<1>3. PICK a, b : a = doc.from /\ b = doc.to  OBVIOUS
<1>4. a \in 1 .. p /\ b \in {p, p - 1} /\ a <= b /\ p \in 0 .. Len(tape) /\ Len(tape) \in Nat
  BY <1>1, <1>2, <1>3
<1>5. p \in 1 .. Len(tape) /\ a \in 1 .. Len(tape) /\ b \in 1 .. Len(tape) /\ a \in Nat /\ p \in Nat
  BY <1>4
<1>6. Count(tape, a) = Count(tape, p)
  <2>1. ASSUME NEW i \in a+1 .. p PROVE ~BeginsIn(tape, i)
    <3>1. CASE i \in a+1 .. b  BY <3>1, <1>2, <1>3 DEF NoStops, StopIn
    <3>2. CASE i \notin a+1 .. b
      <4>1. i = p /\ b # p  BY <3>2, <1>4, <1>5
      <4>2. doc.ended  BY <4>1, <1>2, <1>3
      <4> QED  BY <4>1, <4>2, <1>2, EndBeginsNothing
    <3> QED  BY <3>1, <3>2
  <2>2. a <= p  BY <1>4
  <2> QED  BY <2>1, <2>2, <1>5, CountOver
<1>7. reader.out = <<>> => reader.drained /\ p = Len(tape)
  <2>1. Ahead(tape, g, reader.out, reader.drained, p)  BY DEF TakenTo
  <2>2. reader.drained /\ reader.out = <<>> => p = Len(tape)  BY <1>1, <2>1, AheadBounds
  <2> QED  BY <2>2 DEF Peeked
<1>8. reader.out # <<>> => p + 1 <= Len(tape)
  <2>1. reader.out # <<>> => p < Head1.last /\ Head1.last <= Len(tape) /\ Head1.last \in 1 .. Len(tape)
    BY HeadFacts
  <2> QED  BY <2>1, <1>4
<1>9. CASE doc.ended
  <2>1. b = p - 1 /\ tape[p].kind = "end"  BY <1>9, <1>2, <1>3
  <2>2. b < Len(tape) /\ b + 1 = p  BY <2>1, <1>4, <1>5
  <2>3. StopIn(tape, p)  BY <2>1 DEF StopIn
  <2>4. doc.to < Len(tape) /\ tape[doc.to + 1].kind = "end" /\ StopIn(tape, doc.to + 1)
    BY <1>3, <2>1, <2>2, <2>3
  <2>5. doc.from \in DOMAIN tape /\ doc.to \in DOMAIN tape  BY <1>1, <1>3, <1>5
  <2>6. Count(tape, p) = Count(tape, doc.from)  BY <1>3, <1>6
  <2> QED  BY <1>2, <1>5, <1>9, <2>4, <2>5, <2>6, Zenon DEF DocOK
<1>10. CASE ~doc.ended
  <2>1. b = p /\ Closing(tape, p, reader)  BY <1>10, <1>2, <1>3
  <2>2. b < Len(tape) => StopIn(tape, p + 1) /\ tape[p + 1].kind # "end"
    <3> SUFFICES ASSUME b < Len(tape) PROVE StopIn(tape, p + 1) /\ tape[p + 1].kind # "end"  OBVIOUS
    <3>1. reader.out # <<>>  BY <1>4, <1>7, <2>1
    <3> QED  BY <3>1, <1>10, <2>1 DEF Closing, StopIn
  <2>3. b < Len(tape) \/ reader.drained
    <3>1. CASE reader.out = <<>>  BY <3>1, <1>7
    <3>2. CASE reader.out # <<>>  BY <3>2, <1>8, <1>4, <1>5, <2>1
    <3> QED  BY <3>1, <3>2
  <2>4. doc.from \in DOMAIN tape /\ doc.to \in DOMAIN tape  BY <1>1, <1>3, <1>5
  <2>5. Count(tape, p) = Count(tape, doc.from)  BY <1>3, <1>6
  <2>6. /\ doc.to < Len(tape) => StopIn(tape, doc.to + 1) /\ tape[doc.to + 1].kind # "end"
        /\ doc.to < Len(tape) \/ reader.drained
    BY <1>3, <2>1, <2>2, <2>3
  <2> QED  BY <1>2, <1>5, <1>10, <2>4, <2>5, <2>6, Zenon DEF DocOK
<1>11. QED  BY <1>9, <1>10

LEMMA EndScopeStands ==
    ASSUME Types, Errors, DocsOK(tape, docs, reader.drained), NEW p, TakenTo(p), Live, Stands(p), EndScope
    PROVE  DocsOK(tape', docs', reader'.drained) /\ Stands(p)'
<1>1. /\ phase = "scope" /\ phase' = "open" /\ doc' = NoDoc /\ reader' = reader
      /\ docs' \in Seq(DocType) /\ docs \in Seq(DocType)
      /\ Len(docs) \in Nat /\ Len(docs') = Len(docs) + 1
      /\ \A n \in 1 .. Len(docs) : docs'[n] = docs[n]
      /\ docs'[Len(docs) + 1] = ReadDoc
      /\ ReadDoc.from = doc.from /\ ReadDoc.to = doc.to /\ ReadDoc.ended = doc.ended
  BY EndScopeDocs
<1>2. Types' /\ Same(tape, tape') /\ Same(tape', tape) /\ Len(tape') = Len(tape)  BY EndScopeSound
<1>3. TapeOK(tape) /\ TapeOK(tape') /\ Peeked  BY <1>1, <1>2 DEF Types, Errors, Peeked
<1>4. /\ DOMAIN docs = 1 .. Len(docs) /\ DOMAIN docs' = 1 .. Len(docs) + 1
      /\ \A n \in DOMAIN docs' : n \in DOMAIN docs \/ n = Len(docs) + 1
  <2>1. DOMAIN docs = 1 .. Len(docs) /\ DOMAIN docs' = 1 .. Len(docs')  BY <1>1
  <2> QED  BY <2>1, <1>1
<1>5. CASE reader.tail
  <2>1. /\ tape = <<>> /\ reader.out = <<>> /\ reader.drained /\ ~reader.taken
        /\ doc = NewDoc(0) /\ docs = <<>>
    BY <1>1, <1>5 DEF Stands, Tailed
  <2>2. tape' = <<>>
    <3>1. Len(tape) = 0  BY <2>1
    <3> QED  BY <3>1, <1>2, <1>3, TapeFacts
  <2>3. Len(docs') = 1 /\ docs'[1].from = 0
    <3>1. Len(docs) = 0  BY <2>1
    <3>2. doc.from = 0  BY <2>1 DEF NewDoc
    <3>3. Len(docs) + 1 = 1  BY <3>1
    <3> QED  BY <3>2, <3>3, <1>1
  <2>4. DocsOK(tape', docs', reader'.drained)  BY <1>1, <2>1, <2>2, <2>3 DEF DocsOK
  <2>5. Tailed(tape', reader', phase', doc', docs')  BY <1>1, <2>1, <2>2, <2>3 DEF Tailed
  <2> QED  BY <2>4, <2>5, <1>1, <1>5 DEF Stands
<1>6. CASE ~reader.tail
  <2>1. /\ Over(tape, p, doc) /\ Count(tape, p) = Len(docs) + 1
        /\ ~doc.ended => Closing(tape, p, reader) /\ (reader.out # <<>> => tape[p+1].kind # "end")
    BY <1>1, <1>6, PlaceScope
  <2>2. DocOK(tape, doc, Len(docs) + 1, reader.drained) /\ p \in 1 .. Len(tape)
    BY <1>3, <2>1, DocRead
  <2>3. tape # <<>> /\ tape' # <<>>  BY <1>2, <1>3, <2>2, TapeFacts
  <2>4. ASSUME NEW n \in DOMAIN docs' PROVE DocOK(tape', docs'[n], n, reader.drained)
    <3>1. CASE n \in DOMAIN docs
      <4>1. DocOK(tape, docs[n], n, reader.drained)  BY <2>3, <3>1 DEF DocsOK
      <4>2. DocOK(tape', docs[n], n, reader.drained)  BY <4>1, <1>2, <1>3, DocAfter
      <4>3. docs'[n] = docs[n]  BY <3>1, <1>1, <1>4
      <4> QED  BY <4>2, <4>3
    <3>2. CASE n = Len(docs) + 1
      <4>1. DocOK(tape', doc, n, reader.drained)  BY <2>2, <3>2, <1>2, <1>3, DocAfter
      <4>2. DocOK(tape', ReadDoc, n, reader.drained)
        BY <4>1, <1>1, Zenon DEF DocOK
      <4> QED  BY <4>2, <3>2, <1>1
    <3> QED  BY <3>1, <3>2, <1>4
  <2>5. DocsOK(tape', docs', reader'.drained)  BY <1>1, <2>3, <2>4 DEF DocsOK
  <2>6. Count(tape', p) = Len(docs')  BY <1>1, <1>2, <1>3, <2>1, <2>2, SameDocs
  <2>7. Fresh(tape', p, reader)
    <3>1. CASE doc.ended
      <4>1. tape[p].kind = "end"  BY <3>1, <2>1 DEF Over
      <4>2. tape'[p].kind = "end"  BY <4>1, <2>2, <1>2 DEF Same
      <4> QED  BY <4>2 DEF Fresh
    <3>2. CASE ~doc.ended /\ reader.out # <<>>
      <4>1. BeginsIn(tape, p + 1)  BY <2>1, <3>2 DEF Closing
      <4>2. p + 1 \in 1 .. Len(tape)  BY <3>2, HeadFacts
      <4>3. BeginsIn(tape', p + 1)  BY <4>1, <4>2, <1>2, <1>3, BeginsSame
      <4> QED  BY <4>3, <3>2 DEF Fresh
    <3>3. CASE reader.out = <<>>  BY <3>3, <1>3 DEF Fresh, Peeked
    <3> QED  BY <3>1, <3>2, <3>3
  <2>8. Place(tape', p, phase', doc', docs', reader')  BY <1>1, <2>6, <2>7 DEF Place
  <2> QED  BY <2>5, <2>8, <1>1, <1>6 DEF Stands
<1>7. QED  BY <1>5, <1>6

(* No document begins or ends inside a unit. *)
LEMMA UnitInside ==
    ASSUME NEW t, TapeOK(t), NEW u, OutUnit(t, u)
    PROVE  /\ u.kind = "directive" => /\ t[u.first].kind = "percent" /\ u.first < u.last
                                      /\ \A i \in u.first+1 .. u.last : t[i].kind \in Name
           /\ u.kind # "directive" => \A i \in u.first .. u.last : t[i].kind \notin Name \cup {"percent"}
           /\ NoStops(t, u.first + 1, u.last)
<1>1. /\ u \in UnitType /\ u.first \in 1 .. Len(t) /\ u.last \in 1 .. Len(t) /\ u.first <= u.last
      /\ Len(t) \in Nat /\ u.first \in Nat /\ u.last \in Nat
  BY OutFacts, TapeFacts
<1>2. PICK a, b : a = u.first /\ b = u.last  OBVIOUS
<1>3. a \in Nat /\ b \in Nat /\ a > 0 /\ a <= b  BY <1>1, <1>2
<1>4. u.kind = "directive" =>
        t[a].kind = "percent" /\ a < b /\ \A i \in a+1 .. b : t[i].kind \in Name
  <2> SUFFICES ASSUME u.kind = "directive"
               PROVE  t[a].kind = "percent" /\ a < b /\ \A i \in a+1 .. b : t[i].kind \in Name
    OBVIOUS
  <2>1. t[u.first].kind = "percent"  BY DirectiveBegins
  <2>2. IsDirective(t, u)  BY <2>1 DEF OutUnit, InUnit, IsSingle, IsLiteral
  <2> QED  BY <2>2, <1>2 DEF IsDirective
<1>5. u.kind # "directive" =>
        /\ InUnit(t, u) /\ u.kind \notin Name \cup {"percent"}
        /\ a = b \/ (b = a + 1 /\ t[a].kind = "block" /\ t[b].kind = "content")
  <2> SUFFICES ASSUME u.kind # "directive"
               PROVE  /\ InUnit(t, u) /\ u.kind \notin Name \cup {"percent"}
                      /\ a = b \/ (b = a + 1 /\ t[a].kind = "block" /\ t[b].kind = "content")
    OBVIOUS
  <2>1. InUnit(t, u) /\ u.kind \notin Name \cup {"percent"}  BY DEF OutUnit, IsDirective
  <2> QED  BY <2>1, <1>2 DEF InUnit, IsSingle, IsLiteral
<1>6. u.kind # "directive" => \A i \in a .. b : t[i].kind \notin Name \cup {"percent"}
  <2> SUFFICES ASSUME u.kind # "directive", NEW i \in a .. b PROVE t[i].kind \notin Name \cup {"percent"}
    OBVIOUS
  <2>1. InUnit(t, u) /\ u.kind \notin Name \cup {"percent"}  BY <1>5
  <2>2. t[i].kind \in Name \cup {"percent"} => u.kind = t[i].kind  BY <2>1, <1>2, UnitBounds
  <2> QED  BY <2>1, <2>2
<1>7. NoStops(t, a + 1, b)
  <2> SUFFICES ASSUME NEW i \in a+1 .. b PROVE ~StopIn(t, i)  BY DEF NoStops
  <2>1. t[i].kind \in Name \cup {"content"}
    <3>1. CASE u.kind = "directive"  BY <3>1, <1>4
    <3>2. CASE u.kind # "directive"
      <4>1. i = b /\ a # b  BY <1>3, <1>5, <3>2
      <4> QED  BY <4>1, <1>5, <3>2
    <3> QED  BY <3>1, <3>2
  <2>2. i - 1 = a \/ i - 1 \in a+1 .. b  BY <1>3
  <2>3. t[i-1].kind # "end"
    <3>1. CASE u.kind = "directive"
      <4>1. CASE i - 1 = a  BY <3>1, <4>1, <1>4
      <4>2. CASE i - 1 \in a+1 .. b  BY <3>1, <4>2, <1>4 DEF Name
      <4> QED  BY <2>2, <4>1, <4>2
    <3>2. CASE u.kind # "directive"
      <4>1. i = b /\ a # b /\ b = a + 1  BY <1>3, <1>5, <3>2
      <4>2. i - 1 = a  BY <4>1, <1>3
      <4> QED  BY <4>1, <4>2, <1>5, <3>2
    <3> QED  BY <3>1, <3>2
  <2>4. i # 1  BY <1>3
  <2> QED  BY <2>1, <2>3, <2>4 DEF StopIn, BeginsIn, Name
<1>8. QED  BY <1>2, <1>4, <1>6, <1>7

LEMMA NoVersions ==
    ASSUME NEW t, NEW a, NEW b
    PROVE  VersionsIn(t, a, b) = {} <=> \A i \in a .. b : t[i].kind \notin Schemas
BY DEF VersionsIn

(* The body of the document whose first unit was just taken. *)
LEMMA FirstTaken ==
    ASSUME NEW t, TapeOK(t), NEW p \in Nat, NEW u, OutUnit(t, u), u.first = p + 1, u.kind \notin {"header", "end"},
           BeginsIn(t, p + 1), NEW d, NEW rd, d.from = p + 1, d.to = u.last, ~d.ended,
           u.kind = "directive" => d.directives = 1, u.kind # "directive" => d.directives = 0,
           d.content <=> u.kind \notin {"directive", "comment"},
           rd.tookDirective <=> u.kind = "directive"
    PROVE  Reading(t, u.last, d, rd) /\ Count(t, u.last) = Count(t, p) + 1
<1>1. /\ u.last \in Nat /\ p < u.last /\ u.last <= Len(t) /\ Len(t) \in Nat
      /\ \A i \in p+1 .. u.last : t[i].kind \notin {"header", "end"}
      /\ u.kind = "comment" => u.last = p + 1 /\ t[p + 1].kind = "comment"
  BY OutFacts, TapeFacts
<1>2. /\ u.kind = "directive" => /\ t[p + 1].kind = "percent" /\ p + 1 < u.last
                                 /\ \A i \in p+2 .. u.last : t[i].kind \in Name
      /\ u.kind # "directive" => \A i \in p+1 .. u.last : t[i].kind \notin Name \cup {"percent"}
      /\ NoStops(t, p + 2, u.last)
  <2>1. (p + 1) + 1 = p + 2  OBVIOUS
  <2> QED  BY <2>1, UnitInside
<1>3. PICK q \in Nat : q = u.last  BY <1>1
<1>4. t[q].kind # "end"
  <2>1. q \in p+1 .. q  BY <1>1, <1>3
  <2> QED  BY <2>1, <1>1, <1>3
<1>5. d.directives > 0 <=> HasPercent(t, p + 1, q)
  <2>1. CASE u.kind = "directive"
    <3>1. p + 1 \in p + 1 .. q /\ p + 1 # 0  BY <1>1, <1>3
    <3> QED  BY <2>1, <3>1, <1>2 DEF HasPercent
  <2>2. CASE u.kind # "directive"  BY <2>2, <1>2, <1>3 DEF HasPercent
  <2> QED  BY <2>1, <2>2
<1>6. d.directives = 0 => VersionsIn(t, p + 1, q) = {}
  <2> SUFFICES ASSUME d.directives = 0 PROVE VersionsIn(t, p + 1, q) = {}  OBVIOUS
  <2>1. u.kind # "directive"  OBVIOUS
  <2>2. \A i \in p+1 .. q : t[i].kind \notin Schemas  BY <2>1, <1>2, <1>3 DEF Name, Schemas
  <2> QED  BY <2>2, NoVersions
<1>7. d.directives = 0 /\ ~d.content => Prefaced(t, q)
  <2> SUFFICES ASSUME d.directives = 0, ~d.content,
                      NEW j \in 1 .. q, \A k \in j+1 .. q : t[k].kind = "comment"
               PROVE  t[j].kind \in {"comment", "header", "end"}
    BY DEF Prefaced
  <2>1. q = p + 1 /\ t[p + 1].kind = "comment"
    <3>1. u.kind = "comment"  OBVIOUS
    <3> QED  BY <3>1, <1>1, <1>3
  <2>2. p = 0 \/ t[p].kind = "end"
    <3>1. p + 1 = 1 \/ t[(p + 1) - 1].kind = "end"  BY <2>1 DEF BeginsIn
    <3>2. (p + 1) - 1 = p /\ (p + 1 = 1 => p = 0)  OBVIOUS
    <3> QED  BY <3>1, <3>2
  <2>3. CASE j = q  BY <2>1, <2>3
  <2>4. CASE j # q
    <3>1. j \in 1 .. p /\ p # 0  BY <2>1, <2>4
    <3>2. CASE j = p  BY <2>2, <3>1, <3>2
    <3>3. CASE j # p
      <4>1. p \in j+1 .. q  BY <2>1, <3>1, <3>3
      <4> QED  BY <4>1, <2>2, <3>1
    <3> QED  BY <3>2, <3>3
  <2> QED  BY <2>3, <2>4
<1>8. rd.tookDirective => t[q].kind \in Name
  <2>1. p + 1 < q => q \in p+2 .. q  OBVIOUS
  <2> QED  BY <2>1, <1>2, <1>3
<1>9. p + 1 \in 1 .. q /\ (p + 1) + 1 = p + 2  BY <1>1, <1>3
<1>10. Reading(t, q, d, rd)
  <2>1. NoStops(t, d.from + 1, q)  BY <1>2, <1>3, <1>9
  <2> QED  BY <2>1, <1>3, <1>4, <1>5, <1>6, <1>7, <1>8, <1>9, Zenon DEF Reading
<1>11. Count(t, q) = Count(t, p) + 1
  <2>1. Count(t, p + 1) = Count(t, p) + 1  BY CountNext
  <2>2. \A i \in (p + 1) + 1 .. q : ~BeginsIn(t, i)  BY <1>2, <1>3, <1>9 DEF NoStops, StopIn
  <2>3. p + 1 \in Nat /\ p + 1 <= q  BY <1>9
  <2>4. Count(t, q) = Count(t, p + 1)  BY <2>2, <2>3, CountOver
  <2> QED  BY <2>1, <2>4
<1>12. QED  BY <1>3, <1>10, <1>11

(* The body of a document of which one more unit was taken. *)
LEMMA NextTaken ==
    ASSUME NEW t, TapeOK(t), NEW p \in Nat, NEW u, OutUnit(t, u), u.first = p + 1, u.kind \notin {"header", "end"},
           NEW c, NEW rc, Reading(t, p, c, rc), c.directives \in Nat,
           u.kind = "directive" => c.directives = 0 /\ ~c.content,
           NEW d, NEW rd, d.from = c.from, d.to = u.last, ~d.ended,
           u.kind = "directive" => d.directives = c.directives + 1,
           u.kind # "directive" => d.directives = c.directives,
           d.content <=> c.content \/ u.kind \notin {"directive", "comment"},
           rd.tookDirective <=> u.kind = "directive"
    PROVE  Reading(t, u.last, d, rd) /\ Count(t, u.last) = Count(t, p)
<1>1. /\ u.last \in Nat /\ p < u.last /\ u.last <= Len(t) /\ Len(t) \in Nat
      /\ \A i \in p+1 .. u.last : t[i].kind \notin {"header", "end"}
      /\ u.kind = "comment" => u.last = p + 1 /\ t[p + 1].kind = "comment"
  BY OutFacts, TapeFacts
<1>2. /\ u.kind = "directive" => /\ t[p + 1].kind = "percent" /\ p + 1 < u.last
                                 /\ \A i \in p+2 .. u.last : t[i].kind \in Name
      /\ u.kind # "directive" => \A i \in p+1 .. u.last : t[i].kind \notin Name \cup {"percent"}
      /\ NoStops(t, p + 2, u.last)
  <2>1. (p + 1) + 1 = p + 2  OBVIOUS
  <2> QED  BY <2>1, UnitInside
<1>3. PICK q \in Nat : q = u.last  BY <1>1
<1>4. PICK a : a = c.from  OBVIOUS
<1>5. /\ a \in 1 .. p /\ c.to = p /\ ~c.ended
      /\ BeginsIn(t, a) /\ NoStops(t, a + 1, p)
      /\ c.directives > 0 <=> HasPercent(t, a, p)
      /\ c.directives = 0 => VersionsIn(t, a, p) = {}
      /\ c.directives = 0 /\ ~c.content => Prefaced(t, p)
      /\ t[p].kind # "end"
  BY <1>3, <1>4 DEF Reading
<1>6. /\ p > 0 /\ p < q /\ a \in Nat /\ a > 0 /\ a <= p
      /\ \A i \in a .. q : i \in a .. p \/ i \in p+1 .. q
      /\ \A i \in a .. p : i \in a .. q
      /\ \A i \in p+1 .. q : i \in a .. q
  BY <1>1, <1>3, <1>4, <1>5
<1>7. ~StopIn(t, p + 1)
  <2>1. t[p + 1].kind \notin {"header", "end"}
    <3>1. p + 1 \in p+1 .. q  BY <1>6
    <3> QED  BY <3>1, <1>1, <1>3, <1>4
  <2>2. t[p + 1].kind = "percent" =>
          \A j \in 1 .. (p+1)-1 : (\A k \in j+1 .. (p+1)-1 : t[k].kind = "comment") =>
              t[j].kind \in {"comment", "header", "end"}
    <3> SUFFICES ASSUME t[p + 1].kind = "percent"
                 PROVE  \A j \in 1 .. (p+1)-1 : (\A k \in j+1 .. (p+1)-1 : t[k].kind = "comment") =>
                            t[j].kind \in {"comment", "header", "end"}
      OBVIOUS
    <3>1. u.kind = "directive"  BY DirectiveBegins
    <3>2. Prefaced(t, p)  BY <3>1, <1>5
    <3>3. (p + 1) - 1 = p  OBVIOUS
    <3> QED  BY <3>2, <3>3 DEF Prefaced
  <2>3. p + 1 # 1 /\ (p + 1) - 1 = p  BY <1>6
  <2> QED  BY <2>1, <2>2, <2>3, <1>5 DEF StopIn, BeginsIn
<1>8. \A i \in p+1 .. q : ~StopIn(t, i)
  <2>1. \A i \in p+1 .. q : i = p + 1 \/ i \in p+2 .. q  BY <1>6
  <2> QED  BY <2>1, <1>2, <1>3, <1>4, <1>7 DEF NoStops
<1>9. NoStops(t, a + 1, q)
  <2>1. \A i \in a+1 .. q : i \in a+1 .. p \/ i \in p+1 .. q  BY <1>6
  <2> QED  BY <2>1, <1>5, <1>8 DEF NoStops
<1>10. Count(t, q) = Count(t, p)
  <2>1. \A i \in p+1 .. q : ~BeginsIn(t, i)  BY <1>8 DEF StopIn
  <2>2. p <= q  BY <1>6
  <2> QED  BY <2>1, <2>2, CountOver
<1>11. t[q].kind # "end"
  <2>1. q \in p+1 .. q  BY <1>6
  <2> QED  BY <2>1, <1>1, <1>3, <1>4
<1>12. d.directives > 0 <=> HasPercent(t, a, q)
  <2>1. CASE u.kind = "directive"
    <3>1. p + 1 \in a .. q /\ a # 0  BY <1>6
    <3>2. HasPercent(t, a, q)  BY <2>1, <3>1, <1>2 DEF HasPercent
    <3>3. d.directives = c.directives + 1  BY <2>1
    <3> QED  BY <3>2, <3>3
  <2>2. CASE u.kind # "directive"
    <3>1. \A i \in p+1 .. q : t[i].kind # "percent"  BY <2>2, <1>2, <1>3, <1>4
    <3>2. HasPercent(t, a, q) <=> HasPercent(t, a, p)  BY <3>1, <1>6 DEF HasPercent
    <3> QED  BY <2>2, <3>2, <1>5
  <2> QED  BY <2>1, <2>2
<1>13. d.directives = 0 => VersionsIn(t, a, q) = {}
  <2> SUFFICES ASSUME d.directives = 0 PROVE VersionsIn(t, a, q) = {}  OBVIOUS
  <2>1. u.kind # "directive" /\ c.directives = 0
    <3>1. c.directives + 1 # 0  OBVIOUS
    <3> QED  BY <3>1
  <2>2. \A i \in p+1 .. q : t[i].kind \notin Schemas  BY <2>1, <1>2, <1>3, <1>4 DEF Name, Schemas
  <2>3. \A i \in a .. p : t[i].kind \notin Schemas  BY <2>1, <1>5, NoVersions
  <2>4. \A i \in a .. q : t[i].kind \notin Schemas  BY <2>2, <2>3, <1>6
  <2> QED  BY <2>4, NoVersions
<1>14. d.directives = 0 /\ ~d.content => Prefaced(t, q)
  <2> SUFFICES ASSUME d.directives = 0, ~d.content,
                      NEW j \in 1 .. q, \A k \in j+1 .. q : t[k].kind = "comment"
               PROVE  t[j].kind \in {"comment", "header", "end"}
    BY DEF Prefaced
  <2>1. u.kind # "directive" /\ c.directives = 0
    <3>1. c.directives + 1 # 0  OBVIOUS
    <3> QED  BY <3>1
  <2>2. q = p + 1 /\ t[p + 1].kind = "comment" /\ ~c.content
    <3>1. u.kind = "comment" /\ ~c.content  BY <2>1
    <3> QED  BY <3>1, <1>1, <1>3, <1>4
  <2>3. CASE j = q  BY <2>2, <2>3
  <2>4. CASE j # q
    <3>1. j \in 1 .. p /\ \A k \in j+1 .. p : k \in j+1 .. q  BY <2>2, <2>4
    <3> QED  BY <3>1, <2>1, <2>2, <1>5 DEF Prefaced
  <2> QED  BY <2>3, <2>4
<1>15. rd.tookDirective => t[q].kind \in Name
  <2>1. p + 1 < q => q \in p+2 .. q  OBVIOUS
  <2> QED  BY <2>1, <1>2, <1>3, <1>4
<1>16. Reading(t, q, d, rd)
  <2>1. d.from \in 1 .. q /\ d.from = a /\ d.to = q  BY <1>3, <1>4, <1>6
  <2> QED  BY <2>1, <1>5, <1>9, <1>11, <1>12, <1>13, <1>14, <1>15, Zenon DEF Reading
<1>17. QED  BY <1>3, <1>4, <1>10, <1>16

LEMMA TakeBodyStands ==
    ASSUME Types, Errors, DocsOK(tape, docs, reader.drained), NEW p, TakenTo(p), Live, Stands(p), TakeBody,
           NEW q, q = Head1.last
    PROVE  DocsOK(tape', docs', reader'.drained) /\ (Live' => Stands(q)')
<1> DEFINE u == Head1
<1>1. /\ phase = "body" /\ ~reader.err /\ Peeked /\ ~EndsBody
      /\ phase' = IF Second(u) THEN "refused" ELSE phase
      /\ docs' = docs
  BY DEF TakeBody
<1>2. /\ reader'.tail = reader.tail /\ reader'.out = Tail(reader.out)
      /\ reader'.drained = reader.drained
      /\ reader'.tookDirective <=> u.kind = "directive"
      /\ Same(tape, tape') /\ Len(tape') = Len(tape) /\ Types'
  BY TakeBodySound
<1>3. /\ reader.out # <<>> /\ doc'.from = doc.from /\ doc'.to = u.last
      /\ u.kind = "directive" => doc'.directives = doc.directives + 1
      /\ u.kind # "directive" => doc'.directives = doc.directives
      /\ doc'.content <=> doc.content \/ u.kind \notin {"directive", "comment"}
      /\ doc'.ended = doc.ended
  BY TakeBodyDoc
<1>4. /\ p \in Nat /\ OutUnit(tape, u) /\ u.first = p + 1 /\ u.last \in 1 .. Len(tape)
  BY <1>3, HeadFacts
<1>5. TapeOK(tape) /\ TapeOK(tape') /\ doc.directives \in Nat  BY <1>2 DEF Types, DocType
<1>6. u.kind \notin {"header", "end"}  BY <1>1, <1>3 DEF EndsBody, NextKind, AtEnd
<1>7. DocsOK(tape', docs', reader'.drained)  BY <1>1, <1>2, <1>5, DocsAfter
<1>8. ~reader.tail  BY <1>3 DEF Stands, Tailed
<1>9. ASSUME Live' PROVE Stands(q)'
  <2>1. phase' = "body" /\ ~Second(u)  BY <1>1, <1>9 DEF Live
  <2>2. u.kind = "directive" => doc.directives = 0 /\ ~doc.content
    <3>1. u.kind = "directive" => ~(doc.directives > 0) /\ ~doc.content  BY <2>1 DEF Second
    <3> QED  BY <3>1, <1>5
  <2>3. Reading(tape, u.last, doc', reader') /\ Count(tape, u.last) = Len(docs) + 1
    <3>1. CASE /\ doc = NewDoc(p + 1) /\ Count(tape, p) = Len(docs) /\ BeginsIn(tape, p + 1)
      <4>1. doc.from = p + 1 /\ doc.directives = 0 /\ ~doc.content /\ ~doc.ended  BY <3>1 DEF NewDoc
      <4>2. /\ doc'.from = p + 1 /\ doc'.to = u.last /\ ~doc'.ended
            /\ u.kind = "directive" => doc'.directives = 1
            /\ u.kind # "directive" => doc'.directives = 0
            /\ doc'.content <=> u.kind \notin {"directive", "comment"}
        BY <4>1, <1>3
      <4> HIDE DEF u
      <4> QED  BY <3>1, <4>2, <1>2, <1>4, <1>5, <1>6, FirstTaken
    <3>2. CASE Reading(tape, p, doc, reader) /\ Count(tape, p) = Len(docs) + 1
      <4>1. ~doc'.ended  BY <3>2, <1>3 DEF Reading
      <4> HIDE DEF u
      <4> QED  BY <3>2, <4>1, <2>2, <1>2, <1>3, <1>4, <1>5, <1>6, NextTaken
    <3> QED  BY <3>1, <3>2, <1>1, <1>8, PlaceBody
  <2>4. q \in 0 .. Len(tape) /\ q = u.last  BY <1>4
  <2>5. Reading(tape', q, doc', reader')  BY <2>3, <2>4, <1>2, <1>5, ReadingAfter
  <2>6. Count(tape', q) = Len(docs') + 1  BY <2>3, <2>4, <1>1, <1>2, <1>5, SameDocs
  <2>7. Place(tape', q, phase', doc', docs', reader')  BY <2>1, <2>5, <2>6 DEF Place
  <2> QED  BY <2>7, <1>2, <1>8 DEF Stands
<1>10. QED  BY <1>7, <1>9

-----------------------------------------------------------------------------
(* The documents as Stream reads them off the tokens. *)

LEMMA MinIs ==
    ASSUME NEW S \in SUBSET Int, NEW m \in S, \A n \in S : m <= n
    PROVE  Min(S) = m
<1>1. \A x \in S : (\A y \in S : x <= y) => x = m
  <2> SUFFICES ASSUME NEW x \in S, \A y \in S : x <= y PROVE x = m  OBVIOUS
  <2>1. x <= m /\ m <= x /\ x \in Int /\ m \in Int  OBVIOUS
  <2> QED  BY <2>1
<1>2. QED  BY <1>1 DEF Min

LEMMA BeginsAre ==
    ASSUME TapeOK(tape)
    PROVE  /\ \A i \in 1 .. Len(tape) : Begins(i) <=> BeginsIn(tape, i)
           /\ Beginnings = {i \in 1 .. Len(tape) : BeginsIn(tape, i)}
           /\ Cut = 1 .. Len(tape)
<1>1. Cut = 1 .. Len(tape)  BY TapeFacts DEF Cut
<1>2. ASSUME NEW i \in 1 .. Len(tape) PROVE Begins(i) <=> BeginsIn(tape, i)
  <2>1. (\E j \in LastBefore(i) : tape[j].kind \notin {"header", "end"}) <=>
        (\E j \in 1..i-1 : /\ tape[j].kind \notin {"comment", "header", "end"}
                           /\ \A k \in j+1..i-1 : tape[k].kind = "comment")
    BY DEF LastBefore
  <2> QED  BY <2>1, Zenon DEF Begins, BeginsIn
<1>3. Beginnings = {i \in 1 .. Len(tape) : BeginsIn(tape, i)}  BY <1>1, <1>2 DEF Beginnings
<1>4. QED  BY <1>1, <1>2, <1>3

LEMMA StopsAt ==
    ASSUME TapeOK(tape), NEW d, NEW n, NEW drained, DocOK(tape, d, n, drained)
    PROVE  d.from \in 1 .. Len(tape) /\ d.to \in 1 .. Len(tape) /\ StopOf(d.from) = d.to + 1
<1>1. /\ DOMAIN tape = 1 .. Len(tape) /\ Len(tape) \in Nat  BY TapeFacts
<1>2. PICK a, b : a = d.from /\ b = d.to  OBVIOUS
<1>3. /\ a \in 1 .. Len(tape) /\ b \in 1 .. Len(tape) /\ a <= b /\ NoStops(tape, a + 1, b)
      /\ b < Len(tape) => StopIn(tape, b + 1)
  BY <1>1, <1>2 DEF DocOK
<1> DEFINE S == Stops(a) \cup {Len(tape) + 1}
<1>4. Stops(a) = {j \in a+1 .. Len(tape) : StopIn(tape, j)}
  <2>1. \A j \in a+1 .. Len(tape) : j \in 1 .. Len(tape)  BY <1>1, <1>3
  <2>2. \A j \in a+1 .. Len(tape) : Begins(j) <=> BeginsIn(tape, j)  BY <2>1, BeginsAre
  <2> QED  BY <2>2 DEF Stops, StopIn
<1>5. b + 1 \in S
  <2>1. CASE b < Len(tape)
    <3>1. b + 1 \in a+1 .. Len(tape)  BY <1>1, <1>3, <2>1
    <3> QED  BY <3>1, <2>1, <1>3, <1>4
  <2>2. CASE ~(b < Len(tape))
    <3>1. b \in Nat /\ b <= Len(tape) /\ Len(tape) \in Nat  BY <1>1, <1>3
    <3>2. b = Len(tape)  BY <3>1, <2>2
    <3> QED  BY <3>2
  <2> QED  BY <2>1, <2>2
<1>6. S \in SUBSET Int /\ \A j \in S : b + 1 <= j
  <2>1. ASSUME NEW j \in S PROVE j \in Int /\ b + 1 <= j
    <3>1. CASE j = Len(tape) + 1  BY <3>1, <1>1, <1>3
    <3>2. CASE j \in Stops(a)
      <4>1. j \in a+1 .. Len(tape) /\ StopIn(tape, j)  BY <3>2, <1>4
      <4>2. j \notin a+1 .. b  BY <4>1, <1>3 DEF NoStops
      <4> QED  BY <4>1, <4>2, <1>1, <1>3
    <3> QED  BY <3>1, <3>2
  <2> QED  BY <2>1
<1> HIDE DEF S
<1>7. Min(S) = b + 1  BY <1>5, <1>6, MinIs
<1>8. QED  BY <1>2, <1>3, <1>7 DEF StopOf, S

LEMMA DocumentsFromIInv == IInv => DocumentsMatch
<1> SUFFICES ASSUME IInv PROVE DocumentsMatch  OBVIOUS
<1>1. Types /\ Errors /\ DocsOK(tape, docs, reader.drained) /\ TapeOK(tape)  BY DEF IInv, Types
<1>2. Len(tape) \in Nat /\ (tape = <<>> <=> Len(tape) = 0)  BY <1>1, TapeFacts
<1>3. phase = "done" => \E p \in 0 .. Len(tape) :
        /\ p = Len(tape)
        /\ \/ tape = <<>> /\ Len(docs) = 1
           \/ p > 0 /\ Count(tape, p) = Len(docs)
  <2> SUFFICES ASSUME phase = "done"
               PROVE  \E p \in 0 .. Len(tape) :
                        /\ p = Len(tape)
                        /\ \/ tape = <<>> /\ Len(docs) = 1
                           \/ p > 0 /\ Count(tape, p) = Len(docs)
    OBVIOUS
  <2>1. Live /\ reader.out = <<>> /\ reader.drained  BY <1>1 DEF Errors, Live
  <2>2. PICK p \in 0 .. Len(tape) : TakenTo(p) /\ Stands(p)  BY <2>1 DEF IInv
  <2>3. Ahead(tape, g, reader.out, reader.drained, p)  BY <2>2 DEF TakenTo
  <2>4. p = Len(tape)  BY <2>1, <2>3, <1>1, AheadBounds
  <2>5. CASE reader.tail  BY <2>2, <2>4, <2>5 DEF Stands, Tailed
  <2>6. CASE ~reader.tail  BY <2>2, <2>4, <2>6 DEF Stands, Place
  <2> QED  BY <2>5, <2>6
<1>4. CASE tape = <<>>
  <2>1. docs = <<>> \/ Len(docs) = 1  BY <1>1, <1>4 DEF DocsOK
  <2>2. Len(docs) \in {0, 1}  BY <2>1
  <2>3. phase = "done" => Len(docs) = 1  BY <1>2, <1>3, <1>4
  <2> QED  BY <1>4, <2>2, <2>3 DEF DocumentsMatch
<1>5. CASE tape # <<>>
  <2>1. phase = "done" => Len(docs) = Cardinality(Beginnings)
    <3>1. Count(tape, Len(tape)) = Cardinality(Beginnings)  BY <1>1, BeginsAre DEF Count
    <3> QED  BY <3>1, <1>3, <1>5
  <2>2. ASSUME NEW n \in DOMAIN docs
        PROVE  /\ docs[n].from \in Beginnings
               /\ [from |-> docs[n].from, to |-> docs[n].to, ended |-> docs[n].ended] =
                  [from |-> docs[n].from, to |-> StopOf(docs[n].from) - 1, ended |-> Ends(docs[n].from)]
               /\ n = Cardinality({j \in Beginnings : j <= docs[n].from})
    <3>1. PICK d : d = docs[n]  OBVIOUS
    <3>2. DocOK(tape, d, n, reader.drained) /\ d \in DocType  BY <1>1, <1>5, <3>1 DEF DocsOK
    <3>3. d.from \in 1 .. Len(tape) /\ d.to \in 1 .. Len(tape) /\ StopOf(d.from) = d.to + 1
      BY <1>1, <3>2, StopsAt
    <3>4. d.from \in Beginnings
      <4>1. BeginsIn(tape, d.from)  BY <3>2 DEF DocOK
      <4> QED  BY <4>1, <3>3, <1>1, BeginsAre
    <3>5. d.to = StopOf(d.from) - 1
      <4>1. d.to = (d.to + 1) - 1  BY <3>3
      <4> QED  BY <4>1, <3>3
    <3>6. d.ended <=> Ends(d.from)
      <4>1. d.ended <=> d.to < Len(tape) /\ tape[d.to + 1].kind = "end"  BY <3>2 DEF DocOK
      <4>2. d.to < Len(tape) <=> d.to + 1 \in 1 .. Len(tape)  BY <3>3, <1>2
      <4>3. Cut = 1 .. Len(tape)  BY <1>1, BeginsAre
      <4> QED  BY <4>1, <4>2, <4>3, <3>3 DEF Ends
    <3>7. d.ended = Ends(d.from)
      <4>1. PICK e \in BOOLEAN : e = Ends(d.from)  BY Zenon DEF Ends
      <4>2. d.ended \in BOOLEAN  BY <3>2 DEF DocType
      <4>3. d.ended = e  BY <4>1, <4>2, <3>6
      <4> QED  BY <4>1, <4>3
    <3>8. n = Cardinality({j \in Beginnings : j <= d.from})
      <4>1. n = Count(tape, d.from)  BY <3>2 DEF DocOK
      <4>2. {j \in Beginnings : j <= d.from} = {j \in 1 .. d.from : BeginsIn(tape, j)}
        <5>1. Beginnings = {i \in 1 .. Len(tape) : BeginsIn(tape, i)}  BY <1>1, BeginsAre
        <5>a. PICK i : i = d.from  OBVIOUS
        <5>b. i \in 1 .. Len(tape)  BY <5>a, <3>3
        <5>2. \A j \in 1 .. Len(tape) : j <= i <=> j \in 1 .. i  BY <5>b, <1>2
        <5>3. \A j \in 1 .. i : j \in 1 .. Len(tape)  BY <5>b, <1>2
        <5> QED  BY <5>1, <5>a, <5>2, <5>3
      <4> QED  BY <4>1, <4>2 DEF Count
    <3> QED  BY <3>1, <3>4, <3>5, <3>7, <3>8, Zenon
  <2> QED  BY <1>5, <2>1, <2>2, Zenon DEF DocumentsMatch
<1>6. QED  BY <1>4, <1>5

-----------------------------------------------------------------------------
(* The versions named above a document, and what is resolved under them. *)

LEMMA NamedIs ==
    ASSUME NEW t, NEW w, NEW ds, NEW es, NEW n \in Int,
           \A m \in 1 .. n-1 :
              /\ HasPercent(w, es[m].from, es[m].to) <=> HasPercent(t, ds[m].from, ds[m].to)
              /\ HasPercent(t, ds[m].from, ds[m].to) =>
                    VersionsIn(w, es[m].from, es[m].to) = VersionsIn(t, ds[m].from, ds[m].to)
    PROVE  NamedIn(w, es, n) = NamedIn(t, ds, n)
<1> DEFINE A == {k \in 1..n-1 : \A m \in k..n-1 : HasPercent(t, ds[m].from, ds[m].to)}
           B == {k \in 1..n-1 : \A m \in k..n-1 : HasPercent(w, es[m].from, es[m].to)}
<1>1. \A k \in 1 .. n-1 : \A m \in k .. n-1 : m \in 1 .. n-1  OBVIOUS
<1>2. A = B  BY <1>1
<1>3. \A k \in A : k \in 1 .. n-1 /\ HasPercent(t, ds[k].from, ds[k].to)
  <2>1. \A k \in 1 .. n-1 : k \in k .. n-1  OBVIOUS
  <2> QED  BY <2>1
<1>4. \A k \in A : VersionsIn(w, es[k].from, es[k].to) = VersionsIn(t, ds[k].from, ds[k].to)
  BY <1>3
<1> HIDE DEF A
<1>5. {VersionsIn(w, es[k].from, es[k].to) : k \in A} = {VersionsIn(t, ds[k].from, ds[k].to) : k \in A}
  BY <1>4
<1>6. NamedIn(t, ds, n) = UNION {VersionsIn(t, ds[k].from, ds[k].to) : k \in A}  BY DEF NamedIn, A
<1>7. NamedIn(w, es, n) = UNION {VersionsIn(w, es[k].from, es[k].to) : k \in B}  BY DEF NamedIn
<1>8. QED  BY <1>2, <1>5, <1>6, <1>7

LEMMA NamedMore ==
    ASSUME NEW t, NEW ds, NEW n \in Nat, n > 0
    PROVE  NamedIn(t, ds, n + 1) =
              IF HasPercent(t, ds[n].from, ds[n].to)
              THEN NamedIn(t, ds, n) \cup VersionsIn(t, ds[n].from, ds[n].to) ELSE {}
<1> DEFINE P(m) == HasPercent(t, ds[m].from, ds[m].to)
           V(m) == VersionsIn(t, ds[m].from, ds[m].to)
           A == {k \in 1..n-1 : \A m \in k..n-1 : P(m)}
           B == {k \in 1..n : \A m \in k..n : P(m)}
<1>1. NamedIn(t, ds, n) = UNION {V(k) : k \in A}  BY DEF NamedIn
<1>2. NamedIn(t, ds, n + 1) = UNION {V(k) : k \in B}
  <2>1. (n + 1) - 1 = n  OBVIOUS
  <2> QED  BY <2>1 DEF NamedIn
<1>3. B = IF P(n) THEN A \cup {n} ELSE {}
  <2>1. CASE ~P(n)
    <3>1. \A k \in 1 .. n : n \in k .. n  OBVIOUS
    <3> QED  BY <2>1, <3>1
  <2>2. CASE P(n)
    <3>1. \A k \in 1 .. n-1 : \A m \in k .. n : m \in k .. n-1 \/ m = n  OBVIOUS
    <3>2. \A k \in 1 .. n-1 : \A m \in k .. n-1 : m \in k .. n  OBVIOUS
    <3>3. n .. n = {n} /\ n \in 1 .. n /\ \A k \in 1 .. n : k \in 1 .. n-1 \/ k = n  OBVIOUS
    <3>4. \A k \in 1 .. n-1 : k \in 1 .. n  OBVIOUS
    <3> HIDE DEF P
    <3>5. \A k \in 1 .. n-1 : k \in A <=> k \in B  BY <2>2, <3>1, <3>2, <3>4
    <3>6. n \in B  BY <2>2, <3>3
    <3>7. \A k \in B : k \in 1 .. n  OBVIOUS
    <3>8. \A k \in A : k \in 1 .. n-1  OBVIOUS
    <3> HIDE DEF A, B
    <3> QED  BY <2>2, <3>3, <3>5, <3>6, <3>7, <3>8
  <2> QED  BY <2>1, <2>2
<1> HIDE DEF A, B, V, P
<1>4. CASE P(n)
  <2>1. UNION {V(k) : k \in A \cup {n}} = (UNION {V(k) : k \in A}) \cup V(n)  OBVIOUS
  <2> QED  BY <2>1, <1>1, <1>2, <1>3, <1>4 DEF P, V
<1>5. CASE ~P(n)
  <2>1. UNION {V(k) : k \in {}} = {}  OBVIOUS
  <2> QED  BY <2>1, <1>2, <1>3, <1>5 DEF P
<1>6. QED  BY <1>4, <1>5

LEMMA NamedSame ==
    ASSUME NEW t, NEW w, TapeOK(t), Same(t, w), NEW ds, NEW drained, DocsOK(t, ds, drained),
           NEW n \in 1 .. Len(ds) + 1
    PROVE  NamedIn(w, ds, n) = NamedIn(t, ds, n)
<1>1. Len(t) \in Nat /\ DOMAIN t = 1 .. Len(t)  BY TapeFacts
<1>2. Len(ds) \in Nat /\ DOMAIN ds = 1 .. Len(ds)
  <2>1. ds \in Seq(DocType)  BY DEF DocsOK
  <2> QED  BY <2>1
<1>3. \A m \in 1 .. n-1 : m \in DOMAIN ds  BY <1>2
<1>4. ASSUME NEW m \in 1 .. n-1
      PROVE  /\ HasPercent(w, ds[m].from, ds[m].to) <=> HasPercent(t, ds[m].from, ds[m].to)
             /\ HasPercent(t, ds[m].from, ds[m].to) =>
                   VersionsIn(w, ds[m].from, ds[m].to) = VersionsIn(t, ds[m].from, ds[m].to)
  <2>1. m \in DOMAIN ds  BY <1>3
  <2>2. CASE t = <<>>
    <3>1. ds = <<>> \/ (Len(ds) = 1 /\ ds[1].from = 0)  BY <2>2 DEF DocsOK
    <3>2. Len(ds) = 1 /\ ds[1].from = 0
      <4>1. ds # <<>>  BY <1>2, <2>1
      <4> QED  BY <3>1, <4>1
    <3>3. m = 1  BY <1>2, <2>1, <3>2
    <3> QED  BY <3>2, <3>3 DEF HasPercent
  <2>3. CASE t # <<>>
    <3>1. DocOK(t, ds[m], m, drained)  BY <2>1, <2>3 DEF DocsOK
    <3>2. ds[m].from \in 1 .. Len(t) /\ ds[m].to \in 1 .. Len(t)  BY <3>1, <1>1 DEF DocOK
    <3>3. ds[m].from \in Nat \ {0} /\ ds[m].from \in Nat /\ ds[m].to \in 0 .. Len(t)  BY <3>2, <1>1
    <3> QED  BY <3>3, SameDocs
  <2> QED  BY <2>2, <2>3
<1>5. n \in Int  OBVIOUS
<1>6. QED  BY <1>4, <1>5, NamedIs

LEMMA ReadAfter ==
    ASSUME NEW t, NEW w, Same(t, w), NEW r, r.at \in 1 .. Len(t), NEW s
    PROVE  ReadOK(w, r, s) <=> ReadOK(t, r, s)
BY DEF Same, ReadOK

LEMMA SchemaAfter ==
    ASSUME NEW t, NEW w, TapeOK(t), TapeOK(w), Same(t, w), NEW ds, NEW drained, DocsOK(t, ds, drained),
           NEW n \in DOMAIN ds, NEW o, SchemaOK(t, ds, n, o)
    PROVE  SchemaOK(w, ds, n, o)
<1>1. /\ Len(t) \in Nat /\ DOMAIN t = 1 .. Len(t) /\ DOMAIN w = 1 .. Len(w) /\ Len(w) \in Nat
      /\ Len(t) <= Len(w)
  BY TapeFacts DEF Same
<1>2. Len(ds) \in Nat /\ DOMAIN ds = 1 .. Len(ds)
  <2>1. ds \in Seq(DocType)  BY DEF DocsOK
  <2> QED  BY <2>1
<1>3. NamedIn(w, ds, n) = NamedIn(t, ds, n) /\ n \in Int
  <2>1. n \in 1 .. Len(ds) + 1  BY <1>2
  <2> QED  BY <2>1, NamedSame
<1>4. HasPercent(w, ds[n].from, ds[n].to) <=> HasPercent(t, ds[n].from, ds[n].to)
  <2>1. CASE t = <<>>
    <3>1. ds = <<>> \/ (Len(ds) = 1 /\ ds[1].from = 0)  BY <2>1 DEF DocsOK
    <3>2. Len(ds) = 1 /\ ds[1].from = 0
      <4>1. ds # <<>>  BY <1>2
      <4> QED  BY <3>1, <4>1
    <3>3. n = 1  BY <1>2, <3>2
    <3> QED  BY <3>2, <3>3 DEF HasPercent
  <2>2. CASE t # <<>>
    <3>1. DocOK(t, ds[n], n, drained)  BY <2>2 DEF DocsOK
    <3>2. ds[n].from \in 1 .. Len(t) /\ ds[n].to \in 1 .. Len(t)  BY <3>1, <1>1 DEF DocOK
    <3>3. ds[n].from \in Nat /\ ds[n].to \in 0 .. Len(t)  BY <3>2, <1>1
    <3> QED  BY <3>3, SameDocs
  <2> QED  BY <2>1, <2>2
<1>5. \A r \in ds[n].read : r.at \in 1 .. Len(t) /\ r.at \in DOMAIN w
  <2>1. \A r \in ds[n].read : r.at \in 1 .. Len(t)  BY <1>1 DEF SchemaOK
  <2>2. \A i \in 1 .. Len(t) : i \in 1 .. Len(w)  BY <1>1
  <2> QED  BY <2>1, <2>2, <1>1
<1>6. \A r \in ds[n].read : ReadOK(w, r, ds[n].schema) <=> ReadOK(t, r, ds[n].schema)
  BY <1>5, ReadAfter
<1>7. QED  BY <1>3, <1>4, <1>5, <1>6 DEF SchemaOK

LEMMA ScopedMoves ==
    ASSUME NEW t, NEW p \in Nat, NEW q \in Nat, p <= q, Len(t) \in Nat, NEW c, NEW d, NEW ds, NEW v, NEW o, NEW sc,
           Scoped(t, p, c, ds, v, o, sc), Here(t, q, d) = Here(t, p, c),
           d.read \subseteq c.read, d.read # {} /\ d.directives = 0 => c.directives = 0
    PROVE  Scoped(t, q, d, ds, v, o, sc)
<1>1. \A i \in q+1 .. Len(t) : i \in p+1 .. Len(t)  OBVIOUS
<1>2. \A i \in 1 .. p : i \in 1 .. q  OBVIOUS
<1>3. \A r \in d.read : r.at \in 1 .. q  BY <1>2 DEF Scoped
<1>4. d.directives = 0 => \A r \in d.read : ReadOK(t, r, sc)
  <2> SUFFICES ASSUME d.directives = 0, NEW r \in d.read PROVE ReadOK(t, r, sc)  OBVIOUS
  <2> QED  BY DEF Scoped
<1>5. \A i \in q+1 .. Len(t) : t[i].schema = IF t[i].kind = "scalar" THEN sc ELSE "none"
  BY <1>1 DEF Scoped
<1>6. sc = SchemaUnder(v, o) /\ VersionIs(v, NamedIn(t, ds, Len(ds) + 1) \cup Here(t, q, d))
  BY DEF Scoped
<1>7. QED  BY <1>3, <1>4, <1>5, <1>6 DEF Scoped

(* Actions that open, judge or close. *)
LEMMA OpenStands ==
    ASSUME NEW p, Stands(p), phase = "open"
    PROVE  doc = NoDoc
BY DEF Stands, Place, Tailed

LEMMA NewDocs ==
    ASSUME NEW a
    PROVE  /\ NewDoc(a).from = a /\ NewDoc(a).read = {} /\ NewDoc(a).directives = 0
           /\ NoDoc.from = -1 /\ NoDoc.read = {} /\ NoDoc.directives = 0
BY DEF NewDoc, NoDoc

LEMMA SkipEndResolved ==
    ASSUME Types, Errors, NEW p, TakenTo(p), Live, Stands(p), Resolved(p), SkipEnd
    PROVE  Resolved(p + 1)'
<1>1. phase = "open" /\ UNCHANGED <<tape, schema, option, version, doc, docs>>  BY DEF SkipEnd
<1>2. doc = NoDoc /\ p \in Nat /\ Len(tape) \in Nat  BY <1>1, OpenStands, TakenIn, TapeFacts DEF Types
<1>3. Here(tape, p + 1, doc) = Here(tape, p, doc)  BY <1>2, NewDocs DEF Here
<1>4. Scoped(tape, p, doc, docs, version, option, schema)  BY DEF Resolved
<1>5. p + 1 \in Nat /\ p <= p + 1  BY <1>2
<1>6. Scoped(tape, p + 1, doc, docs, version, option, schema)  BY <1>2, <1>3, <1>4, <1>5, ScopedMoves
<1>7. QED  BY <1>1, <1>6 DEF Resolved

LEMMA OpenHeaderResolved ==
    ASSUME Types, Errors, NEW p, TakenTo(p), Live, Stands(p), Resolved(p), OpenHeader
    PROVE  Resolved(p + 1)'
<1>1. /\ phase = "open" /\ doc' = NewDoc(Head1.first) /\ NextKind = "header"
      /\ UNCHANGED <<tape, schema, option, version, docs>>
  BY DEF OpenHeader, Next1
<1>2. doc = NoDoc /\ p \in Nat /\ Len(tape) \in Nat  BY <1>1, OpenStands, TakenIn, TapeFacts DEF Types
<1>3. doc' = NewDoc(p + 1) /\ tape[p + 1].kind = "header"
  <2>1. reader.out # <<>> /\ Head1.kind = "header"  BY <1>1 DEF NextKind, AtEnd
  <2>2. Head1.first = p + 1 /\ (Head1.kind = "header" <=> tape[p + 1].kind = "header")
    BY <2>1, HeadFacts
  <2> QED  BY <1>1, <2>1, <2>2
<1>4. Here(tape, p + 1, doc') = Here(tape, p, doc)
  <2>1. \A i \in p + 1 .. p + 1 : tape[i].kind \notin Schemas  BY <1>2, <1>3 DEF Schemas
  <2>2. VersionsIn(tape, p + 1, p + 1) = {}  BY <2>1, VersionsNone
  <2>3. doc'.from = p + 1 /\ ~(doc.from > 0)  BY <1>2, <1>3, NewDocs
  <2>4. Here(tape, p, doc) = {}  BY <2>3 DEF Here
  <2>5. Here(tape, p + 1, doc') = {}  BY <2>2, <2>3 DEF Here
  <2> QED  BY <2>4, <2>5
<1>5. Scoped(tape, p, doc, docs, version, option, schema)  BY DEF Resolved
<1>6. p + 1 \in Nat /\ p <= p + 1  BY <1>2
<1>7. doc'.read = {}  BY <1>3, NewDocs
<1>8. Scoped(tape, p + 1, doc', docs, version, option, schema)
  BY <1>2, <1>4, <1>5, <1>6, <1>7, ScopedMoves
<1>9. QED  BY <1>1, <1>8 DEF Resolved

LEMMA OpenBareResolved ==
    ASSUME Types, Errors, NEW p, TakenTo(p), Live, Stands(p), Resolved(p), OpenBare
    PROVE  Resolved(p)'
<1>1. /\ phase = "open" /\ doc' = NewDoc(Head1.first) /\ NextKind # "none"
      /\ UNCHANGED <<tape, schema, option, version, docs>>
  BY DEF OpenBare, Next1, Kinds
<1>2. doc = NoDoc /\ p \in Nat /\ Len(tape) \in Nat  BY <1>1, OpenStands, TakenIn, TapeFacts DEF Types
<1>3. doc' = NewDoc(p + 1)
  <2>1. reader.out # <<>>  BY <1>1 DEF NextKind, AtEnd
  <2>2. Head1.first = p + 1  BY <2>1, HeadFacts
  <2> QED  BY <1>1, <2>2
<1>4. Here(tape, p, doc') = Here(tape, p, doc)
  <2>1. \A i \in p + 1 .. p : tape[i].kind \notin Schemas  BY <1>2
  <2>2. VersionsIn(tape, p + 1, p) = {}  BY <2>1, VersionsNone
  <2>3. doc'.from = p + 1 /\ ~(doc.from > 0)  BY <1>2, <1>3, NewDocs
  <2>4. Here(tape, p, doc) = {}  BY <2>3 DEF Here
  <2>5. Here(tape, p, doc') = {}  BY <2>2, <2>3 DEF Here
  <2> QED  BY <2>4, <2>5
<1>5. Scoped(tape, p, doc, docs, version, option, schema)  BY DEF Resolved
<1>6. doc'.read = {} /\ p <= p  BY <1>2, <1>3, NewDocs
<1>7. Scoped(tape, p, doc', docs, version, option, schema)
  BY <1>2, <1>4, <1>5, <1>6, ScopedMoves
<1>8. QED  BY <1>1, <1>7 DEF Resolved

LEMMA OpenEmptyResolved ==
    ASSUME Types, Errors, NEW p, TakenTo(p), Live, Stands(p), Resolved(p), OpenEmpty
    PROVE  Resolved(p)'
<1>1. phase = "open" /\ doc' = NewDoc(0) /\ UNCHANGED <<tape, schema, option, version, docs>>
  BY DEF OpenEmpty
<1>2. doc = NoDoc /\ p \in Nat /\ Len(tape) \in Nat  BY <1>1, OpenStands, TakenIn, TapeFacts DEF Types
<1>3. Here(tape, p, doc') = Here(tape, p, doc)  BY <1>1, <1>2, NewDocs DEF Here
<1>4. Scoped(tape, p, doc, docs, version, option, schema)  BY DEF Resolved
<1>5. doc'.read = {} /\ p <= p  BY <1>1, <1>2, NewDocs
<1>6. Scoped(tape, p, doc', docs, version, option, schema)
  BY <1>2, <1>3, <1>4, <1>5, ScopedMoves
<1>7. QED  BY <1>1, <1>6 DEF Resolved

LEMMA CloseResolved ==
    ASSUME Types, Errors, NEW p, TakenTo(p), Live, Stands(p), Resolved(p), CloseDocument
    PROVE  /\ NextKind = "end" => Resolved(p + 1)'
           /\ NextKind # "end" => Resolved(p)'
<1>1. UNCHANGED <<tape, schema, option, version, docs>>  BY DEF CloseDocument
<1>2. Scoped(tape, p, doc, docs, version, option, schema)  BY DEF Resolved
<1>3. CASE NextKind = "end"
  <2>1. reader.out # <<>> /\ Head1.kind = "end"  BY <1>3 DEF NextKind, AtEnd
  <2>2. p \in Nat /\ tape[p + 1].kind = "end" /\ Len(tape) \in Nat
    BY <2>1, HeadFacts, TapeFacts DEF Types
  <2>3. doc' = [doc EXCEPT !.ended = TRUE] /\ phase = "close"
    BY <1>3 DEF CloseDocument, Next1
  <2>4. doc'.from = doc.from /\ doc'.read = doc.read /\ doc'.directives = doc.directives
    BY <2>3 DEF Types, DocType
  <2>5. doc.from \in 1 .. p \/ doc.from = 0
    BY <2>3, NewDocs DEF Stands, Place, Tailed, Reading
  <2>6. Here(tape, p + 1, doc') = Here(tape, p, doc)
    <3>1. CASE doc.from \in 1 .. p
      <4>1. doc.from \in Nat /\ doc.from <= p + 1 /\ doc.from > 0  BY <3>1, <2>2
      <4>2. VersionsIn(tape, doc.from, p + 1) = VersionsIn(tape, doc.from, p)
        <5>1. tape[p + 1].kind \notin Schemas  BY <2>2 DEF Schemas
        <5>2. PICK a \in Nat : a = doc.from /\ a <= p + 1  BY <4>1
        <5>3. VersionsIn(tape, a, p + 1) =
                VersionsIn(tape, a, p) \cup (IF tape[p+1].kind \in Schemas THEN {tape[p+1].kind} ELSE {})
          BY <5>2, <2>2, VersionsMore
        <5>4. VersionsIn(tape, a, p + 1) = VersionsIn(tape, a, p)  BY <5>1, <5>3
        <5> QED  BY <5>2, <5>4
      <4>3. doc.from > 0 /\ doc'.from = doc.from  BY <4>1, <2>4
      <4>4. Here(tape, p, doc) = VersionsIn(tape, doc.from, p)  BY <4>3 DEF Here
      <4>5. Here(tape, p + 1, doc') = VersionsIn(tape, doc.from, p + 1)  BY <4>3, Zenon DEF Here
      <4> QED  BY <4>2, <4>4, <4>5
    <3>2. CASE doc.from = 0  BY <3>2, <2>4 DEF Here
    <3> QED  BY <2>5, <3>1, <3>2
  <2>7. p + 1 \in Nat /\ p <= p + 1  BY <2>2
  <2>8. Scoped(tape, p + 1, doc', docs, version, option, schema)
    BY <1>2, <2>2, <2>4, <2>6, <2>7, ScopedMoves
  <2> QED  BY <1>1, <1>3, <2>8 DEF Resolved
<1>4. CASE NextKind # "end"
  <2>1. doc' = doc  BY <1>4, CloseSound
  <2> QED  BY <1>1, <1>2, <1>4, <2>1 DEF Resolved
<1>5. QED  BY <1>3, <1>4

(* The scanner's. *)
LEMMA ScanTokenResolved ==
    ASSUME Types, Errors, DocsOK(tape, docs, reader.drained), SchemasOK(tape, docs, option),
           NEW kind \in Kinds, NEW sameLine \in BOOLEAN, ScanToken(kind, sameLine),
           NEW p, Live => TakenTo(p) /\ Resolved(p)
    PROVE  SchemasOK(tape', docs', option') /\ (Live' => Resolved(p)')
<1>1. /\ Types' /\ Same(tape, tape') /\ Len(tape') = Len(tape) + 1
      /\ Live' => Live
      /\ \E x \in Token : /\ tape' = Append(tape, x) /\ x.kind = kind
                          /\ x.schema = IF kind = "scalar" THEN schema ELSE "none"
  BY ScanTokenMoves
<1>2. UNCHANGED <<schema, option, version, doc, docs>>  BY DEF ScanToken
<1>3. TapeOK(tape) /\ TapeOK(tape') /\ Len(tape) \in Nat  BY <1>1, TapeFacts DEF Types
<1>4. SchemasOK(tape', docs', option')
  BY <1>1, <1>2, <1>3, SchemaAfter DEF SchemasOK
<1>5. ASSUME Live' PROVE Resolved(p)'
  <2>1. TakenTo(p) /\ Scoped(tape, p, doc, docs, version, option, schema)
    BY <1>1, <1>5 DEF Resolved
  <2>2. p \in 0 .. Len(tape)  BY <2>1, TakenIn
  <2>3. PICK x \in Token : /\ tape' = Append(tape, x) /\ x.kind = kind
                           /\ x.schema = IF kind = "scalar" THEN schema ELSE "none"
    BY <1>1
  <2>4. /\ \A i \in 1 .. Len(tape) : tape'[i] = tape[i]
        /\ tape'[Len(tape) + 1] = x
    <3>1. tape \in Seq(Token)  BY <1>3 DEF TapeOK
    <3> QED  BY <3>1, <2>3
  <2>5. ASSUME NEW i \in p+1 .. Len(tape) + 1
        PROVE  tape'[i].schema = IF tape'[i].kind = "scalar" THEN schema ELSE "none"
    <3>1. CASE i = Len(tape) + 1  BY <3>1, <2>3, <2>4
    <3>2. CASE i # Len(tape) + 1
      <4>1. i \in p+1 .. Len(tape) /\ i \in 1 .. Len(tape)  BY <3>2, <2>2, <1>3
      <4>2. tape[i].schema = IF tape[i].kind = "scalar" THEN schema ELSE "none"
        BY <4>1, <2>1 DEF Scoped
      <4> QED  BY <4>1, <4>2, <2>4
    <3> QED  BY <3>1, <3>2
  <2>6. NamedIn(tape', docs, Len(docs) + 1) = NamedIn(tape, docs, Len(docs) + 1)
    <3>1. docs \in Seq(DocType)  BY DEF DocsOK
    <3>2. Len(docs) + 1 \in 1 .. Len(docs) + 1  BY <3>1
    <3> QED  BY <3>2, <1>1, <1>3, NamedSame
  <2>7. Here(tape', p, doc) = Here(tape, p, doc)
    <3>1. CASE doc.from > 0
      <4>1. doc.from \in Nat  BY <3>1 DEF Types, DocType
      <4>2. \A i \in doc.from .. p : i \in 1 .. Len(tape)  BY <3>1, <4>1, <2>2, <1>3
      <4>3. VersionsIn(tape', doc.from, p) = VersionsIn(tape, doc.from, p)  BY <4>2, <1>1, SameVersions
      <4> QED  BY <3>1, <4>3 DEF Here
    <3>2. CASE ~(doc.from > 0)  BY <3>2 DEF Here
    <3> QED  BY <3>1, <3>2
  <2>8. \A r \in doc.read : r.at \in 1 .. p /\ (ReadOK(tape', r, schema) <=> ReadOK(tape, r, schema))
    <3>1. \A r \in doc.read : r.at \in 1 .. p  BY <2>1 DEF Scoped
    <3>2. \A i \in 1 .. p : i \in 1 .. Len(tape)  BY <2>2, <1>3
    <3> QED  BY <3>1, <3>2, <1>1, ReadAfter
  <2>9. Scoped(tape', p, doc, docs, version, option, schema)
    BY <2>1, <2>5, <2>6, <2>7, <2>8, <1>1 DEF Scoped
  <2> QED  BY <2>9, <1>2 DEF Resolved
<1>6. QED  BY <1>4, <1>5

LEMMA StaysResolved ==
    ASSUME NEW p, Resolved(p), UNCHANGED <<tape, schema, option, version, doc, docs>>
    PROVE  Resolved(p)'
BY DEF Resolved

(* The unit a body takes. *)
LEMMA TakeBodyResolved ==
    ASSUME Types, Errors, DocsOK(tape, docs, reader.drained), SchemasOK(tape, docs, option),
           NEW p, TakenTo(p), Live, Stands(p), Resolved(p), TakeBody, NEW q, q = Head1.last
    PROVE  SchemasOK(tape', docs', option') /\ (Live' => Resolved(q)')
<1> DEFINE u == Head1
<1>1. /\ phase = "body" /\ ~EndsBody
      /\ phase' = IF Second(u) THEN "refused" ELSE phase
      /\ IF u.kind = "directive" /\ u.version # "none" /\ ~Second(u)
         THEN version' = u.version /\ schema' = u.version /\ tape' = Retype(tape, u.version, u.last)
         ELSE UNCHANGED <<version, schema, tape>>
      /\ docs' = docs /\ option' = option
  BY DEF TakeBody
<1>2. Same(tape, tape') /\ Len(tape') = Len(tape) /\ Types'  BY TakeBodySound
<1>3. /\ reader.out # <<>> /\ doc'.from = doc.from
      /\ u.kind = "directive" => doc'.directives = doc.directives + 1
      /\ u.kind # "directive" => doc'.directives = doc.directives
      /\ doc'.read = doc.read \cup {[at |-> i, schema |-> tape[i].schema] : i \in Scalars(u)}
  BY TakeBodyDoc
<1>4. /\ p \in Nat /\ OutUnit(tape, u) /\ u.first = p + 1 /\ q \in 1 .. Len(tape) /\ p < q /\ q \in Nat
  BY <1>3, HeadFacts
<1>5. /\ TapeOK(tape) /\ TapeOK(tape') /\ doc.directives \in Nat /\ Len(tape) \in Nat /\ doc.from \in Int
      /\ version \in Schemas \cup {"none"}
  BY <1>2, TapeFacts DEF Types, DocType
<1>6. SchemasOK(tape', docs', option')  BY <1>1, <1>2, <1>5, SchemaAfter DEF SchemasOK
<1>7. ~reader.tail  BY <1>3 DEF Stands, Tailed
<1>8. Scoped(tape, p, doc, docs, version, option, schema)  BY DEF Resolved
<1>9. doc.from \in 1 .. p + 1 /\ doc.from > 0
  <2>1. doc.from = p + 1 \/ doc.from \in 1 .. p  BY <1>1, <1>7, PlaceBody, NewDocs DEF Reading
  <2> QED  BY <2>1, <1>4
<1>10. /\ u.kind = "directive" => /\ tape[p + 1].kind = "percent" /\ p + 1 < q
                                  /\ \A i \in p+2 .. q : tape[i].kind \in Name
                                  /\ VersionIs(u.version, VersionsIn(tape, p + 1, q))
       /\ u.kind # "directive" => \A i \in p+1 .. q : tape[i].kind \notin Name \cup {"percent"}
  <2>1. (p + 1) + 1 = p + 2 /\ q = u.last  BY <1>4
  <2>2. u.kind = "directive" => VersionIs(u.version, VersionsIn(tape, p + 1, q))
    <3> SUFFICES ASSUME u.kind = "directive" PROVE VersionIs(u.version, VersionsIn(tape, p + 1, q))
      OBVIOUS
    <3>1. tape[u.first].kind = "percent"  BY <1>4, <1>5, DirectiveBegins
    <3>2. IsDirective(tape, u)  BY <3>1, <1>4 DEF OutUnit, InUnit, IsSingle, IsLiteral
    <3> QED  BY <3>2, <1>4 DEF IsDirective
  <2>3. /\ u.kind = "directive" => /\ tape[u.first].kind = "percent" /\ u.first < u.last
                                   /\ \A i \in u.first+1 .. u.last : tape[i].kind \in Name
        /\ u.kind # "directive" => \A i \in u.first .. u.last : tape[i].kind \notin Name \cup {"percent"}
    BY <1>4, <1>5, UnitInside
  <2> QED  BY <1>4, <2>1, <2>2, <2>3
<1>11. Here(tape, q, doc) = Here(tape, p, doc) \cup VersionsIn(tape, p + 1, q)
  <2>1. PICK a : a = doc.from  OBVIOUS
  <2>2. a \in 1 .. p + 1 /\ a > 0  BY <1>9, <2>1
  <2>3. VersionsIn(tape, a, q) = VersionsIn(tape, a, p) \cup VersionsIn(tape, p + 1, q)
    <3>1. \A i : i \in a .. q <=> i \in a .. p \/ i \in p+1 .. q  BY <2>2, <1>4
    <3> QED  BY <3>1 DEF VersionsIn
  <2>4. Here(tape, q, doc) = VersionsIn(tape, a, q) /\ Here(tape, p, doc) = VersionsIn(tape, a, p)
    BY <2>1, <2>2, Zenon DEF Here
  <2> QED  BY <2>3, <2>4
<1>12. Here(tape', q, doc') = Here(tape, q, doc)
  <2>1. \A i \in doc.from .. q : i \in 1 .. Len(tape)  BY <1>4, <1>5, <1>9
  <2>2. VersionsIn(tape', doc.from, q) = VersionsIn(tape, doc.from, q)  BY <2>1, <1>2, SameVersions
  <2> QED  BY <2>2, <1>3, <1>9, Zenon DEF Here
<1>13. NamedIn(tape', docs', Len(docs') + 1) = NamedIn(tape, docs, Len(docs) + 1)
  <2>1. docs \in Seq(DocType)  BY DEF DocsOK
  <2>2. Len(docs) + 1 \in 1 .. Len(docs) + 1  BY <2>1
  <2>3. NamedIn(tape', docs, Len(docs) + 1) = NamedIn(tape, docs, Len(docs) + 1)
    BY <2>2, <1>2, <1>5, NamedSame
  <2> QED  BY <2>3, <1>1
<1>14. ASSUME NEW r \in doc'.read
       PROVE  /\ r.at \in 1 .. q
              /\ doc'.directives = 0 => ReadOK(tape, r, schema) /\ u.kind # "directive"
  <2>0. doc'.directives = 0 => doc.directives = 0 /\ u.kind # "directive"
    <3>1. doc.directives + 1 # 0  BY <1>5
    <3> QED  BY <3>1, <1>3
  <2>1. CASE r \in doc.read
    <3>1. r.at \in 1 .. p  BY <2>1, <1>8 DEF Scoped
    <3>2. r.at \in 1 .. q  BY <3>1, <1>4
    <3>3. doc'.directives = 0 => ReadOK(tape, r, schema)  BY <2>0, <2>1, <1>8 DEF Scoped
    <3> QED  BY <2>0, <3>2, <3>3
  <2>2. CASE r \in {[at |-> i, schema |-> tape[i].schema] : i \in Scalars(u)}
    <3>1. PICK i \in Scalars(u) : r.at = i /\ r.schema = tape[i].schema  BY <2>2
    <3>2. i \in p+1 .. q /\ tape[i].kind \in {"scalar", "content"}  BY <3>1, <1>4 DEF Scalars
    <3>3. i \in 1 .. q /\ i \in p+1 .. Len(tape)  BY <3>2, <1>4, <1>5
    <3>4. tape[i].schema = IF tape[i].kind = "scalar" THEN schema ELSE "none"
      BY <3>3, <1>8 DEF Scoped
    <3>5. ReadOK(tape, r, schema)  BY <3>1, <3>2, <3>4 DEF ReadOK
    <3> QED  BY <2>0, <3>1, <3>3, <3>5
  <2> QED  BY <2>1, <2>2, <1>3
<1>15. /\ schema = SchemaUnder(version, option)
       /\ VersionIs(version, NamedIn(tape, docs, Len(docs) + 1) \cup Here(tape, p, doc))
       /\ \A i \in p+1 .. Len(tape) : tape[i].schema = IF tape[i].kind = "scalar" THEN schema ELSE "none"
  BY <1>8 DEF Scoped
<1>16. u.last = q /\ q \in Int /\ \A i \in q+1 .. Len(tape) : i \in p+1 .. Len(tape) /\ i \in 1 .. Len(tape)
  BY <1>4
<1>17. u.version \in Schemas \cup {"none"}
  <2>1. u \in UnitType  BY <1>4, <1>5, OutFacts
  <2> QED  BY <2>1, UnitFields
<1> HIDE DEF u
<1>18. ASSUME Live', u.kind = "directive", u.version # "none"
       PROVE  Scoped(tape', q, doc', docs', version', option', schema')
  <2>1. ~Second(u)  BY <1>1, <1>18 DEF Live
  <2>2. /\ version' = u.version /\ schema' = u.version /\ tape' = Retype(tape, u.version, q)
        /\ u.version \in Schemas
    BY <2>1, <1>1, <1>16, <1>17, <1>18
  <2>3. version = "none"  BY <2>1, <1>18 DEF Second
  <2>4. NamedIn(tape, docs, Len(docs) + 1) = {} /\ Here(tape, p, doc) = {}
    BY <2>3, <1>15 DEF VersionIs
  <2>5. VersionIs(version', NamedIn(tape', docs', Len(docs') + 1) \cup Here(tape', q, doc'))
    <3>1. NamedIn(tape', docs', Len(docs') + 1) \cup Here(tape', q, doc') = VersionsIn(tape, p + 1, q)
      BY <2>4, <1>11, <1>12, <1>13
    <3> QED  BY <3>1, <2>2, <1>10, <1>18
  <2>6. schema' = SchemaUnder(version', option')
    <3>1. u.version # "none"  BY <1>18
    <3> QED  BY <3>1, <2>2 DEF SchemaUnder
  <2>7. ASSUME NEW i \in q+1 .. Len(tape')
        PROVE  tape'[i].schema = IF tape'[i].kind = "scalar" THEN schema' ELSE "none"
    <3>1. i \in q+1 .. Len(tape) /\ i \in p+1 .. Len(tape) /\ i \in 1 .. Len(tape)  BY <1>2, <1>16
    <3>2. /\ tape'[i].kind = tape[i].kind
          /\ tape'[i].schema = IF Again(tape, i, q) THEN u.version ELSE tape[i].schema
      BY <3>1, <2>2, <1>5, <1>16, RetypedTape
    <3>3. ~(tape[i].kind = "content" /\ i - 1 <= q)
      <4> SUFFICES ASSUME tape[i].kind = "content", i - 1 <= q PROVE FALSE  OBVIOUS
      <4>1. i = q + 1 /\ q > 0  BY <3>1, <1>4
      <4>2. tape[q].kind = "block"  BY <4>1, <3>1, <1>4, <1>5, BesideFacts
      <4>3. q \in p+2 .. q  BY <1>10, <1>18, <1>4
      <4> QED  BY <4>2, <4>3, <1>10, <1>18 DEF Name
    <3>4. Again(tape, i, q) <=> tape[i].kind = "scalar"
      <4>1. i > q  BY <3>1, <1>4
      <4> QED  BY <4>1, <3>3 DEF Again
    <3>5. tape[i].schema = IF tape[i].kind = "scalar" THEN schema ELSE "none"  BY <3>1, <1>15
    <3> QED  BY <3>2, <3>4, <3>5, <2>2
  <2>8. doc'.directives # 0
    <3>1. doc.directives + 1 # 0  BY <1>5
    <3> QED  BY <3>1, <1>3, <1>18
  <2>9. \A r \in doc'.read : r.at \in 1 .. q  BY <1>14
  <2> QED  BY <2>5, <2>6, <2>7, <2>8, <2>9 DEF Scoped
<1>19. ASSUME ~(u.kind = "directive" /\ u.version # "none"), Live'
       PROVE  Scoped(tape', q, doc', docs', version', option', schema')
  <2>1. UNCHANGED <<version, schema, tape>>  BY <1>1, <1>19
  <2>2. VersionsIn(tape, p + 1, q) = {}
    <3>1. CASE u.kind = "directive"  BY <3>1, <1>10, <1>19 DEF VersionIs
    <3>2. CASE u.kind # "directive"
      <4>1. \A i \in p+1 .. q : tape[i].kind \notin Schemas  BY <3>2, <1>10 DEF Name, Schemas
      <4> QED  BY <4>1, VersionsNone
    <3> QED  BY <3>1, <3>2
  <2>3. VersionIs(version', NamedIn(tape', docs', Len(docs') + 1) \cup Here(tape', q, doc'))
    <3>1. NamedIn(tape', docs', Len(docs') + 1) \cup Here(tape', q, doc') =
          NamedIn(tape, docs, Len(docs) + 1) \cup Here(tape, p, doc)
      BY <2>2, <1>11, <1>12, <1>13
    <3> QED  BY <3>1, <2>1, <1>15
  <2>4. \A i \in q+1 .. Len(tape') : tape'[i].schema = IF tape'[i].kind = "scalar" THEN schema' ELSE "none"
    BY <2>1, <1>15, <1>16
  <2>5. \A r \in doc'.read : r.at \in 1 .. q /\ (doc'.directives = 0 => ReadOK(tape', r, schema'))
    BY <2>1, <1>14
  <2>6. schema' = SchemaUnder(version', option')  BY <2>1, <1>1, <1>15
  <2> QED  BY <2>3, <2>4, <2>5, <2>6 DEF Scoped
<1>20. QED  BY <1>6, <1>18, <1>19 DEF Resolved

LEMMA ScanEndResolved ==
    ASSUME Types, Errors, DocsOK(tape, docs, reader.drained), SchemasOK(tape, docs, option),
           NEW fails \in BOOLEAN, ScanEnd(fails), NEW p, Live => TakenTo(p) /\ Resolved(p)
    PROVE  /\ SchemasOK(tape', docs', option') /\ (Live' => Resolved(p)')
<1>1. UNCHANGED <<tape, schema, option, version, doc, docs>>  BY DEF ScanEnd
<1>2. Live' => Live  BY ScanEndMoves
<1>3. SchemasOK(tape', docs', option')  BY <1>1
<1>4. QED  BY <1>1, <1>2, <1>3, StaysResolved

(* A document's end: the directives a document holds are counted, ... *)
LEMMA ScopeFacts ==
    ASSUME Types, NEW p, TakenTo(p), Stands(p), phase = "scope"
    PROVE  /\ doc.directives > 0 <=> HasPercent(tape, doc.from, doc.to)
           /\ ~HasPercent(tape, doc.from, doc.to) => Here(tape, p, doc) = {}
           /\ HasPercent(tape, doc.from, doc.to) =>
                 Here(tape, p, doc) = VersionsIn(tape, doc.from, doc.to)
<1>1. p \in 0 .. Len(tape) /\ Len(tape) \in Nat  BY TakenIn, TapeFacts DEF Types
<1>2. CASE reader.tail
  <2>1. doc = NewDoc(0)  BY <1>2 DEF Stands, Tailed
  <2>2. doc.from = 0 /\ doc.directives = 0  BY <2>1, NewDocs
  <2>3. ~HasPercent(tape, doc.from, doc.to)  BY <2>2 DEF HasPercent
  <2>4. Here(tape, p, doc) = {}  BY <2>2 DEF Here
  <2>5. ~(doc.directives > 0)  BY <2>2
  <2> QED  BY <2>3, <2>4, <2>5
<1>3. CASE ~reader.tail
  <2>1. /\ doc.from \in 1 .. p /\ doc.to \in {p, p - 1} /\ doc.from <= doc.to
        /\ doc.directives > 0 <=> HasPercent(tape, doc.from, doc.to)
        /\ doc.directives = 0 => VersionsIn(tape, doc.from, doc.to) = {}
        /\ doc.ended => doc.to = p - 1 /\ tape[p].kind = "end"
        /\ ~doc.ended => doc.to = p /\ tape[p].kind # "end"
    BY <1>3, PlaceScope DEF Over
  <2>2. PICK a, b : a = doc.from /\ b = doc.to  OBVIOUS
  <2>3. a \in Nat /\ b \in Nat /\ a > 0 /\ a <= b /\ b \in {p, p - 1} /\ p \in Nat
    BY <2>1, <2>2, <1>1
  <2>4. VersionsIn(tape, a, p) = VersionsIn(tape, a, b)
    <3>1. CASE b = p  BY <3>1
    <3>2. CASE b = p - 1
      <4>1. b + 1 = p /\ a <= b + 1 /\ b # p  BY <2>3, <3>2
      <4>2. tape[b + 1].kind = "end"  BY <2>1, <2>2, <4>1
      <4>3. tape[b + 1].kind \notin Schemas  BY <4>2 DEF Schemas
      <4>4. VersionsIn(tape, a, b + 1) =
              VersionsIn(tape, a, b) \cup (IF tape[b + 1].kind \in Schemas THEN {tape[b + 1].kind} ELSE {})
        BY <2>3, <4>1, VersionsMore
      <4>5. VersionsIn(tape, a, b + 1) = VersionsIn(tape, a, b)  BY <4>3, <4>4
      <4> QED  BY <4>1, <4>5
    <3> QED  BY <2>3, <3>1, <3>2
  <2>5. Here(tape, p, doc) = VersionsIn(tape, doc.from, doc.to)  BY <2>2, <2>3, <2>4 DEF Here
  <2>6. ~(doc.directives > 0) => doc.directives = 0
    <3>1. doc.directives \in Nat  BY DEF Types, DocType
    <3> QED  BY <3>1
  <2> QED  BY <2>1, <2>5, <2>6
<1>4. QED  BY <1>2, <1>3

(* ... and nothing of what follows is taken yet. *)
LEMMA ScopeFrom ==
    ASSUME Types, Peeked, NEW p, TakenTo(p)
    PROVE  /\ (IF AtEnd THEN Len(tape) ELSE Head1.first - 1) = p
           /\ p + 1 \in 1 .. Len(tape) => tape[p + 1].kind # "content"
<1>1. /\ p \in 0 .. Len(tape) /\ Len(tape) \in Nat /\ TapeOK(tape)
  BY TakenIn, TapeFacts DEF Types
<1>2. CASE AtEnd
  <2>1. reader.out = <<>> /\ reader.drained  BY <1>2 DEF AtEnd, Peeked
  <2>2. Ahead(tape, g, reader.out, reader.drained, p)  BY DEF TakenTo
  <2>3. p = Len(tape)  BY <1>1, <2>1, <2>2, AheadBounds
  <2>4. p + 1 \notin 1 .. Len(tape)  BY <2>3, <1>1
  <2> QED  BY <1>2, <2>3, <2>4
<1>3. CASE ~AtEnd
  <2>1. reader.out # <<>>  BY <1>3 DEF AtEnd
  <2>2. OutUnit(tape, Head1) /\ Head1.first = p + 1 /\ p \in Nat  BY <2>1, HeadFacts
  <2>3. tape[Head1.first].kind # "content"
    BY <2>2 DEF OutUnit, IsDirective, InUnit, IsSingle, IsLiteral
  <2>4. Head1.first - 1 = p  BY <2>2
  <2> QED  BY <1>3, <2>2, <2>3, <2>4
<1>4. QED  BY <1>2, <1>3

(* The document that is over is resolved under the version in force. *)
LEMMA ScopeReads ==
    ASSUME Types, NEW p, TakenTo(p), Stands(p), Resolved(p), phase = "scope",
           NEW n, n = Len(docs) + 1, Len(docs) \in Nat, NEW es, es[n] = ReadDoc,
           \A k \in 1 .. Len(docs) : es[k] = docs[k]
    PROVE  SchemaOK(tape, es, n, option)
<1>1. /\ ReadDoc.from = doc.from /\ ReadDoc.to = doc.to
      /\ ReadDoc.read = doc.read /\ ReadDoc.schema = SchemaUnder(version, option)
  BY DEF Types, DocType, ReadDoc, InForce, SchemaUnder
<1>2. /\ schema = SchemaUnder(version, option)
      /\ VersionIs(version, NamedIn(tape, docs, n) \cup Here(tape, p, doc))
      /\ \A r \in doc.read : r.at \in 1 .. p
      /\ doc.directives = 0 => \A r \in doc.read : ReadOK(tape, r, schema)
  BY DEF Resolved, Scoped
<1>3. \A i \in 1 .. p : i \in DOMAIN tape
  <2>1. p \in 0 .. Len(tape) /\ Len(tape) \in Nat /\ DOMAIN tape = 1 .. Len(tape)
    BY TakenIn, TapeFacts DEF Types
  <2> QED  BY <2>1
<1>4. NamedIn(tape, es, n) = NamedIn(tape, docs, n)
  <2>1. n \in Int /\ \A m \in 1 .. n-1 : es[m] = docs[m]  OBVIOUS
  <2> QED  BY <2>1, NamedIs
<1>5. ASSUME ~HasPercent(tape, doc.from, doc.to)
      PROVE  /\ schema \in Schemas
             /\ VersionIs(schema, NamedIn(tape, docs, n)) \/ (NamedIn(tape, docs, n) = {} /\ schema = option)
             /\ \A r \in doc.read : ReadOK(tape, r, schema)
  <2>1. doc.directives = 0 /\ Here(tape, p, doc) = {}
    <3>1. ~(doc.directives > 0) /\ Here(tape, p, doc) = {}  BY <1>5, ScopeFacts
    <3>2. doc.directives \in Nat  BY DEF Types, DocType
    <3> QED  BY <3>1, <3>2
  <2>2. VersionIs(version, NamedIn(tape, docs, n))
    <3>1. NamedIn(tape, docs, n) \cup Here(tape, p, doc) = NamedIn(tape, docs, n)  BY <2>1
    <3> QED  BY <3>1, <1>2
  <2>3. CASE version = "none"
    <3>1. NamedIn(tape, docs, n) = {}  BY <2>2, <2>3 DEF VersionIs
    <3>2. schema = option  BY <2>3, <1>2 DEF SchemaUnder
    <3> QED  BY <3>1, <3>2, <2>1, <1>2 DEF Types
  <2>4. CASE version # "none"
    <3>1. schema = version  BY <2>4, <1>2 DEF SchemaUnder
    <3> QED  BY <3>1, <2>1, <2>2, <1>2 DEF Types
  <2> QED  BY <2>3, <2>4
<1>6. /\ es[n].from = doc.from /\ es[n].to = doc.to /\ es[n].read = doc.read /\ es[n].schema = schema
  BY <1>1, <1>2
<1>7. \A r \in es[n].read : r.at \in DOMAIN tape  BY <1>2, <1>3, <1>6
<1>8. QED  BY <1>4, <1>5, <1>6, <1>7 DEF SchemaOK

LEMMA EndScopeSchemas ==
    ASSUME Types, Errors, DocsOK(tape, docs, reader.drained), SchemasOK(tape, docs, option),
           NEW p, TakenTo(p), Live, Stands(p), Resolved(p), EndScope
    PROVE  SchemasOK(tape', docs', option')
<1>1. /\ phase = "scope" /\ option' = option /\ reader' = reader
      /\ docs' \in Seq(DocType) /\ docs \in Seq(DocType)
      /\ Len(docs) \in Nat /\ Len(docs') = Len(docs) + 1
      /\ \A k \in 1 .. Len(docs) : docs'[k] = docs[k]
      /\ docs'[Len(docs) + 1] = ReadDoc
  BY EndScopeDocs
<1>2. Same(tape, tape') /\ Same(tape', tape) /\ TapeOK(tape') /\ TapeOK(tape) /\ Len(tape') = Len(tape)
  BY EndScopeSound DEF Types
<1>3. DocsOK(tape', docs', reader'.drained)  BY EndScopeStands
<1>4. DocsOK(tape, docs', reader.drained)
  <2>1. reader'.drained => reader.drained  BY <1>1
  <2> QED  BY <1>2, <1>3, <2>1, DocsAfter
<1>5. /\ DOMAIN docs = 1 .. Len(docs)
      /\ \A k \in DOMAIN docs' : k \in 1 .. Len(docs) \/ k = Len(docs) + 1
  <2>1. DOMAIN docs = 1 .. Len(docs) /\ DOMAIN docs' = 1 .. Len(docs')  BY <1>1
  <2> QED  BY <2>1, <1>1
<1>6. ASSUME NEW n \in DOMAIN docs' PROVE SchemaOK(tape', docs', n, option)
  <2>1. SchemaOK(tape, docs', n, option)
    <3>1. CASE n \in 1 .. Len(docs)
      <4>1. SchemaOK(tape, docs, n, option)  BY <3>1, <1>5 DEF SchemasOK
      <4>2. docs'[n] = docs[n]  BY <3>1, <1>1
      <4>3. NamedIn(tape, docs', n) = NamedIn(tape, docs, n)
        <5>1. \A m \in 1 .. n-1 : m \in 1 .. Len(docs)  BY <3>1, <1>1
        <5>2. n \in Int /\ \A m \in 1 .. n-1 : docs'[m] = docs[m]  BY <3>1, <5>1, <1>1
        <5> QED  BY <5>2, NamedIs
      <4> QED  BY <4>1, <4>2, <4>3 DEF SchemaOK
    <3>2. CASE n = Len(docs) + 1  BY <3>2, <1>1, ScopeReads
    <3> QED  BY <3>1, <3>2, <1>5
  <2> QED  BY <2>1, <1>2, <1>4, SchemaAfter
<1>7. QED  BY <1>1, <1>6 DEF SchemasOK

LEMMA EndScopeResolved ==
    ASSUME Types, Errors, DocsOK(tape, docs, reader.drained),
           NEW p, TakenTo(p), Live, Stands(p), Resolved(p), EndScope
    PROVE  Resolved(p)'
<1>1. /\ phase = "scope" /\ option' = option /\ doc' = NoDoc
      /\ docs' \in Seq(DocType) /\ docs \in Seq(DocType)
      /\ Len(docs) \in Nat /\ Len(docs') = Len(docs) + 1
      /\ \A k \in 1 .. Len(docs) : docs'[k] = docs[k]
      /\ docs'[Len(docs) + 1] = ReadDoc
      /\ ReadDoc.from = doc.from /\ ReadDoc.to = doc.to
  BY EndScopeDocs
<1>2. IF doc.directives > 0 \/ version = "none"
      THEN UNCHANGED <<version, schema, tape>>
      ELSE version' = "none" /\ schema' = option /\ tape' = Unscoped
  BY DEF EndScope
<1>3. Same(tape, tape') /\ TapeOK(tape) /\ Len(tape') = Len(tape) /\ Len(tape) \in Nat
      /\ p \in 0 .. Len(tape) /\ Peeked /\ option \in Schemas
  BY <1>1, EndScopeSound, TakenIn, TapeFacts DEF Types, Errors, Peeked
<1>4. PICK n : n = Len(docs) + 1  OBVIOUS
<1>5. /\ schema = SchemaUnder(version, option)
      /\ VersionIs(version, NamedIn(tape, docs, n) \cup Here(tape, p, doc))
      /\ \A i \in p+1 .. Len(tape) : tape[i].schema = IF tape[i].kind = "scalar" THEN schema ELSE "none"
  BY <1>4 DEF Resolved, Scoped
<1>6. doc'.read = {} /\ Here(tape', p, doc') = {}
  <2>1. doc'.from = -1 /\ doc'.read = {}  BY <1>1, NewDocs
  <2> QED  BY <2>1 DEF Here
<1>7. NamedIn(tape', docs', Len(docs') + 1) =
        IF HasPercent(tape, doc.from, doc.to)
        THEN NamedIn(tape, docs, n) \cup VersionsIn(tape, doc.from, doc.to) ELSE {}
  <2>1. DocsOK(tape', docs', reader'.drained) /\ Same(tape', tape) /\ TapeOK(tape')
    BY EndScopeStands, EndScopeSound DEF Types
  <2>2. NamedIn(tape, docs', Len(docs') + 1) = NamedIn(tape', docs', Len(docs') + 1)
    <3>1. Len(docs') + 1 \in 1 .. Len(docs') + 1  BY <1>1
    <3> QED  BY <2>1, <3>1, NamedSame
  <2>3. Len(docs') + 1 = n + 1 /\ n \in Nat /\ n > 0  BY <1>1, <1>4
  <2>4. NamedIn(tape, docs', n + 1) =
          IF HasPercent(tape, docs'[n].from, docs'[n].to)
          THEN NamedIn(tape, docs', n) \cup VersionsIn(tape, docs'[n].from, docs'[n].to) ELSE {}
    BY <2>3, NamedMore
  <2>5. NamedIn(tape, docs', n) = NamedIn(tape, docs, n)
    <3>1. n \in Int /\ \A m \in 1 .. n-1 : docs'[m] = docs[m]  BY <1>1, <1>4
    <3> QED  BY <3>1, NamedIs
  <2>6. docs'[n].from = doc.from /\ docs'[n].to = doc.to  BY <1>1, <1>4
  <2> QED  BY <2>2, <2>3, <2>4, <2>5, <2>6
<1>8. /\ doc.directives > 0 <=> HasPercent(tape, doc.from, doc.to)
      /\ ~HasPercent(tape, doc.from, doc.to) => Here(tape, p, doc) = {}
      /\ HasPercent(tape, doc.from, doc.to) =>
            Here(tape, p, doc) = VersionsIn(tape, doc.from, doc.to)
  BY <1>1, ScopeFacts
<1>9. SUFFICES /\ schema' = SchemaUnder(version', option')
               /\ \A i \in p+1 .. Len(tape') : tape'[i].schema = IF tape'[i].kind = "scalar" THEN schema' ELSE "none"
               /\ VersionIs(version', NamedIn(tape', docs', Len(docs') + 1))
  <2>1. NamedIn(tape', docs', Len(docs') + 1) \cup Here(tape', p, doc') = NamedIn(tape', docs', Len(docs') + 1)
    BY <1>6
  <2> QED  BY <1>6, <1>9, <2>1 DEF Resolved, Scoped
(* Directives go on to the next document, ... *)
<1>10. CASE doc.directives > 0
  <2>1. UNCHANGED <<version, schema, tape>>  BY <1>10, <1>2
  <2>2. NamedIn(tape', docs', Len(docs') + 1) = NamedIn(tape, docs, n) \cup Here(tape, p, doc)
    BY <1>10, <1>7, <1>8
  <2> QED  BY <2>1, <2>2, <1>1, <1>5
(* ... and a document without directives ends their scope. *)
<1>11. CASE ~(doc.directives > 0)
  <2>1. NamedIn(tape', docs', Len(docs') + 1) = {}  BY <1>11, <1>7, <1>8
  <2>2. CASE version = "none"
    <3>1. UNCHANGED <<version, schema, tape>>  BY <2>2, <1>2
    <3> QED  BY <3>1, <2>1, <2>2, <1>1, <1>5 DEF VersionIs
  <2>3. CASE version # "none"
    <3>1. version' = "none" /\ schema' = option /\ tape' = Unscoped  BY <1>11, <2>3, <1>2
    <3>2. (IF AtEnd THEN Len(tape) ELSE Head1.first - 1) = p
          /\ (p + 1 \in 1 .. Len(tape) => tape[p + 1].kind # "content")
      BY <1>3, ScopeFrom
    <3>3. tape' = Retype(tape, option, p)  BY <3>1, <3>2 DEF Unscoped
    <3>4. ASSUME NEW i \in p+1 .. Len(tape')
          PROVE  tape'[i].schema = IF tape'[i].kind = "scalar" THEN schema' ELSE "none"
      <4>1. i \in p+1 .. Len(tape) /\ i \in 1 .. Len(tape) /\ p \in Int /\ i > p  BY <1>3
      <4>2. /\ tape'[i].kind = tape[i].kind
            /\ tape'[i].schema = IF Again(tape, i, p) THEN option ELSE tape[i].schema
        BY <4>1, <3>3, <1>3, RetypedTape
      <4>3. ~(tape[i].kind = "content" /\ i - 1 <= p)
        <5> SUFFICES ASSUME tape[i].kind = "content", i - 1 <= p PROVE FALSE  OBVIOUS
        <5>1. i = p + 1  BY <4>1
        <5> QED  BY <5>1, <4>1, <3>2
      <4>4. Again(tape, i, p) <=> tape[i].kind = "scalar"  BY <4>1, <4>3 DEF Again
      <4>5. tape[i].schema = IF tape[i].kind = "scalar" THEN schema ELSE "none"  BY <4>1, <1>5
      <4> QED  BY <4>2, <4>4, <4>5, <3>1
    <3>5. schema' = SchemaUnder(version', option')  BY <3>1, <1>1 DEF SchemaUnder
    <3>6. VersionIs(version', NamedIn(tape', docs', Len(docs') + 1))  BY <3>1, <2>1 DEF VersionIs
    <3> QED  BY <3>4, <3>5, <3>6
  <2> QED  BY <2>2, <2>3
<1>12. QED  BY <1>10, <1>11

-----------------------------------------------------------------------------
(* Every step keeps the documents and what they are resolved under. *)

LEMMA RefuseKeeps ==
    ASSUME DocsOK(tape, docs, reader.drained), SchemasOK(tape, docs, option), Refuse
    PROVE  DocsOK(tape', docs', reader'.drained) /\ SchemasOK(tape', docs', option')
BY DEF Refuse

LEMMA StutterKeeps ==
    ASSUME Types, Errors, DocsOK(tape, docs, reader.drained), SchemasOK(tape, docs, option),
           NEW p, Live => TakenTo(p) /\ Stands(p) /\ Resolved(p), UNCHANGED vars
    PROVE  /\ DocsOK(tape', docs', reader'.drained) /\ SchemasOK(tape', docs', option')
           /\ Live' => Stands(p)' /\ Resolved(p)'
<1>1. UNCHANGED <<tape, schema, scanErr, g, reader, phase, option, version, doc, docs>>
  BY DEF vars
<1>2. Live' => Live  BY <1>1 DEF Live
<1>3. Stands(p) => Stands(p)'  BY <1>1 DEF Stands
<1>4. Resolved(p) => Resolved(p)'  BY <1>1 DEF Resolved
<1>5. QED  BY <1>1, <1>2, <1>3, <1>4

LEMMA NextKeeps ==
    ASSUME Types, Errors, DocsOK(tape, docs, reader.drained), SchemasOK(tape, docs, option),
           NEW p, Live => TakenTo(p) /\ Stands(p) /\ Resolved(p), Next
    PROVE  /\ Types' /\ Errors' /\ DocsOK(tape', docs', reader'.drained) /\ SchemasOK(tape', docs', option')
           /\ Live' => \E q : TakenTo(q)' /\ Stands(q)' /\ Resolved(q)'
<1>1. ASSUME NEW kind \in Kinds, NEW sameLine \in BOOLEAN, ScanToken(kind, sameLine)
      PROVE  /\ Types' /\ Errors' /\ DocsOK(tape', docs', reader'.drained) /\ SchemasOK(tape', docs', option')
             /\ Live' => TakenTo(p)' /\ Stands(p)' /\ Resolved(p)'
  <2>1. Types' /\ Errors' /\ (Live' => TakenTo(p)')  BY <1>1, ScanTokenSound
  <2>2. DocsOK(tape', docs', reader'.drained) /\ (Live' => Stands(p)')  BY <1>1, ScanTokenStands
  <2>3. SchemasOK(tape', docs', option') /\ (Live' => Resolved(p)')  BY <1>1, ScanTokenResolved
  <2> QED  BY <2>1, <2>2, <2>3
<1>2. ASSUME NEW failed \in BOOLEAN, ScanEnd(failed)
      PROVE  /\ Types' /\ Errors' /\ DocsOK(tape', docs', reader'.drained) /\ SchemasOK(tape', docs', option')
             /\ Live' => TakenTo(p)' /\ Stands(p)' /\ Resolved(p)'
  <2>1. Types' /\ Errors' /\ (Live' => TakenTo(p)')  BY <1>2, ScanEndSound
  <2>2. DocsOK(tape', docs', reader'.drained) /\ (Live' => Stands(p)')  BY <1>2, ScanEndStands
  <2>3. SchemasOK(tape', docs', option') /\ (Live' => Resolved(p)')  BY <1>2, ScanEndResolved
  <2> QED  BY <2>1, <2>2, <2>3
<1>3. SkipEnd \/ OpenHeader \/ OpenBare \/ OpenEmpty \/ StreamEnds \/ Judge
         \/ TakeBody \/ CloseDocument \/ EndScope => Live /\ TakenTo(p) /\ Stands(p) /\ Resolved(p)
  BY PeekingIsLive
<1>4. SkipEnd \/ OpenHeader \/ OpenBare \/ OpenEmpty \/ StreamEnds \/ Judge \/ BodyEnds \/ CloseDocument
         => SchemasOK(tape', docs', option')
  BY DEF SkipEnd, OpenHeader, OpenBare, OpenEmpty, StreamEnds, Judge, BodyEnds, CloseDocument
<1>5. CASE SkipEnd
  <2>1. Types' /\ Errors' /\ TakenTo(p + 1)'  BY <1>3, <1>5, SkipEndSound
  <2>2. DocsOK(tape', docs', reader'.drained) /\ Stands(p + 1)'  BY <1>3, <1>5, SkipEndStands
  <2>3. Resolved(p + 1)'  BY <1>3, <1>5, SkipEndResolved
  <2> QED  BY <1>4, <1>5, <2>1, <2>2, <2>3
<1>6. CASE OpenHeader
  <2>1. Types' /\ Errors' /\ TakenTo(p + 1)'  BY <1>3, <1>6, OpenHeaderSound
  <2>2. DocsOK(tape', docs', reader'.drained) /\ Stands(p + 1)'  BY <1>3, <1>6, OpenHeaderStands
  <2>3. Resolved(p + 1)'  BY <1>3, <1>6, OpenHeaderResolved
  <2> QED  BY <1>4, <1>6, <2>1, <2>2, <2>3
<1>7. CASE OpenBare
  <2>1. Types' /\ Errors' /\ TakenTo(p)'  BY <1>3, <1>7, OpenBareSound
  <2>2. DocsOK(tape', docs', reader'.drained) /\ Stands(p)'  BY <1>3, <1>7, OpenBareStands
  <2>3. Resolved(p)'  BY <1>3, <1>7, OpenBareResolved
  <2> QED  BY <1>4, <1>7, <2>1, <2>2, <2>3
<1>8. CASE OpenEmpty
  <2>1. Types' /\ Errors' /\ TakenTo(p)'  BY <1>3, <1>8, OpenEmptySound
  <2>2. DocsOK(tape', docs', reader'.drained) /\ Stands(p)'  BY <1>3, <1>8, OpenEmptyStands
  <2>3. Resolved(p)'  BY <1>3, <1>8, OpenEmptyResolved
  <2> QED  BY <1>4, <1>8, <2>1, <2>2, <2>3
<1>9. CASE StreamEnds
  <2>1. Types' /\ Errors' /\ TakenTo(p)'  BY <1>3, <1>9, StreamEndsSound
  <2>2. DocsOK(tape', docs', reader'.drained) /\ Stands(p)'  BY <1>3, <1>9, StreamEndsStands
  <2>3. UNCHANGED <<tape, schema, option, version, doc, docs>>  BY <1>9 DEF StreamEnds
  <2>4. Resolved(p)'  BY <1>3, <1>9, <2>3, StaysResolved
  <2> QED  BY <1>4, <1>9, <2>1, <2>2, <2>4
<1>10. CASE Judge
  <2>1. Types' /\ Errors' /\ (Live' => TakenTo(p)')  BY <1>3, <1>10, JudgeSound
  <2>2. DocsOK(tape', docs', reader'.drained) /\ (Live' => Stands(p)')  BY <1>3, <1>10, JudgeStands
  <2>3. UNCHANGED <<tape, schema, option, version, doc, docs>>  BY <1>10 DEF Judge
  <2>4. Resolved(p)'  BY <1>3, <1>10, <2>3, StaysResolved
  <2> QED  BY <1>4, <1>10, <2>1, <2>2, <2>4
<1>11. CASE TakeBody
  <2>1. PICK q : q = Head1.last  OBVIOUS
  <2>2. Types' /\ Errors' /\ (Live' => TakenTo(q)')  BY <1>3, <1>11, <2>1, TakeBodySound
  <2>3. DocsOK(tape', docs', reader'.drained) /\ (Live' => Stands(q)')
    BY <1>3, <1>11, <2>1, TakeBodyStands
  <2>4. SchemasOK(tape', docs', option') /\ (Live' => Resolved(q)')
    BY <1>3, <1>11, <2>1, TakeBodyResolved
  <2> QED  BY <2>2, <2>3, <2>4
<1>12. CASE BodyEnds
  <2>1. Types' /\ Errors' /\ (Live' => TakenTo(p)') /\ (Live' => Live)  BY <1>12, BodyEndsSound
  <2>2. DocsOK(tape', docs', reader'.drained) /\ (Live' => Stands(p)')  BY <1>12, BodyEndsStands
  <2>3. UNCHANGED <<tape, schema, option, version, doc, docs>>  BY <1>12 DEF BodyEnds
  <2>4. Live' => Resolved(p)'  BY <2>1, <2>3, StaysResolved
  <2> QED  BY <1>4, <1>12, <2>1, <2>2, <2>4
<1>13. CASE Refuse  BY <1>13, RefuseSound, RefuseKeeps
<1>14. CASE CloseDocument
  <2>1. /\ Types' /\ Errors' /\ (NextKind = "end" => TakenTo(p + 1)')
        /\ (NextKind # "end" => TakenTo(p)')
    BY <1>3, <1>14, CloseSound
  <2>2. /\ DocsOK(tape', docs', reader'.drained)
        /\ NextKind = "end" => Stands(p + 1)'
        /\ NextKind # "end" => Stands(p)'
    BY <1>3, <1>14, CloseStands
  <2>3. /\ NextKind = "end" => Resolved(p + 1)'
        /\ NextKind # "end" => Resolved(p)'
    BY <1>3, <1>14, CloseResolved
  <2>4. CASE NextKind = "end"  BY <1>4, <1>14, <2>1, <2>2, <2>3, <2>4
  <2>5. CASE NextKind # "end"  BY <1>4, <1>14, <2>1, <2>2, <2>3, <2>5
  <2> QED  BY <2>4, <2>5
<1>15. CASE EndScope
  <2>1. Types' /\ Errors' /\ TakenTo(p)'  BY <1>3, <1>15, EndScopeSound
  <2>2. DocsOK(tape', docs', reader'.drained) /\ Stands(p)'  BY <1>3, <1>15, EndScopeStands
  <2>3. SchemasOK(tape', docs', option')  BY <1>3, <1>15, EndScopeSchemas
  <2>4. Resolved(p)'  BY <1>3, <1>15, EndScopeResolved
  <2> QED  BY <2>1, <2>2, <2>3, <2>4
<1>16. QED
  BY <1>1, <1>2, <1>5, <1>6, <1>7, <1>8, <1>9, <1>10, <1>11, <1>12, <1>13, <1>14, <1>15 DEF Next

LEMMA InitIInv == Init => IInv
<1> SUFFICES ASSUME Init PROVE IInv  OBVIOUS
<1>1. /\ tape = <<>> /\ reader = NewReader /\ phase = "open" /\ doc = NoDoc /\ docs = <<>>
      /\ schema = option /\ version = "none"
  BY DEF Init
<1>2. Types /\ Errors /\ TakenTo(0) /\ Live  BY InitSound
<1>3. 0 \in 0 .. Len(tape)  BY <1>2, TakenIn
<1>4. DOMAIN docs = 1 .. 0 /\ Len(docs) = 0 /\ docs \in Seq(DocType) /\ Len(tape) = 0  BY <1>1
<1>5. DocsOK(tape, docs, reader.drained)  BY <1>1, <1>4 DEF DocsOK
<1>6. SchemasOK(tape, docs, option)
  <2>1. \A n \in DOMAIN docs : FALSE  BY <1>4
  <2> QED  BY <2>1 DEF SchemasOK
<1>7. Stands(0)
  <2>1. Fresh(tape, 0, reader)  BY DEF Fresh
  <2>2. Count(tape, 0) = Len(docs)  BY <1>4, NoneCounted
  <2>3. Place(tape, 0, phase, doc, docs, reader)  BY <1>1, <2>1, <2>2 DEF Place
  <2>4. ~reader.tail  BY <1>1 DEF NewReader
  <2> QED  BY <2>3, <2>4 DEF Stands
<1>8. Resolved(0)
  <2>1. schema = SchemaUnder(version, option)  BY <1>1 DEF SchemaUnder
  <2>2. \A i \in 0 + 1 .. Len(tape) : FALSE  BY <1>4
  <2>3. NamedIn(tape, docs, Len(docs) + 1) = {}
    <3>1. Len(docs) + 1 = 1 /\ \A k \in 1 .. 1 - 1 : FALSE  BY <1>4
    <3> QED  BY <3>1 DEF NamedIn
  <2>4. doc.from = -1 /\ doc.read = {}  BY <1>1, NewDocs
  <2>5. Here(tape, 0, doc) = {}  BY <2>4 DEF Here
  <2>6. VersionIs(version, NamedIn(tape, docs, Len(docs) + 1) \cup Here(tape, 0, doc))
    BY <1>1, <2>3, <2>5 DEF VersionIs
  <2>7. \A r \in doc.read : FALSE  BY <2>4
  <2> QED  BY <2>1, <2>2, <2>6, <2>7 DEF Resolved, Scoped
<1>9. QED  BY <1>2, <1>3, <1>5, <1>6, <1>7, <1>8 DEF IInv

LEMMA IInvKept == IInv /\ [Next]_vars => IInv'
<1> SUFFICES ASSUME IInv, [Next]_vars PROVE IInv'  OBVIOUS
<1>1. Types /\ Errors /\ DocsOK(tape, docs, reader.drained) /\ SchemasOK(tape, docs, option)
  BY DEF IInv
<1>2. PICK p : Live => TakenTo(p) /\ Stands(p) /\ Resolved(p)  BY DEF IInv
<1>3. /\ Types' /\ Errors' /\ DocsOK(tape', docs', reader'.drained) /\ SchemasOK(tape', docs', option')
      /\ Live' => \E q : TakenTo(q)' /\ Stands(q)' /\ Resolved(q)'
  <2>1. CASE Next  BY <1>1, <1>2, <2>1, NextKeeps
  <2>2. CASE UNCHANGED vars
    <3>1. Types' /\ Errors' /\ (Live' => TakenTo(p)')  BY <1>1, <1>2, <2>2, StutterSound
    <3>2. /\ DocsOK(tape', docs', reader'.drained) /\ SchemasOK(tape', docs', option')
          /\ Live' => Stands(p)' /\ Resolved(p)'
      BY <1>1, <1>2, <2>2, StutterKeeps
    <3> QED  BY <3>1, <3>2
  <2> QED  BY <2>1, <2>2
<1>4. ASSUME Live' PROVE \E q \in 0 .. Len(tape') : TakenTo(q)' /\ Stands(q)' /\ Resolved(q)'
  <2>1. PICK q : TakenTo(q)' /\ Stands(q)' /\ Resolved(q)'  BY <1>3, <1>4
  <2>2. q \in 0 .. Len(tape')
    <3>1. TapeOK(tape') /\ Ahead(tape', g', reader'.out, reader'.drained, q)
      BY <1>3, <2>1 DEF Types, TakenTo
    <3> QED  BY <3>1, AheadBounds
  <2> QED  BY <2>1, <2>2
<1>5. QED  BY <1>3, <1>4 DEF IInv

LEMMA IInvInvariance == Spec => []IInv
BY InitIInv, IInvKept, PTL DEF Spec

-----------------------------------------------------------------------------
(* What the invariant says of the stream. *)

LEMMA AcceptedFromIInv == IInv => AcceptedIsSound
<1> SUFFICES ASSUME IInv, phase = "done" PROVE AcceptedIsSound
  BY DEF AcceptedIsSound
<1>1. Types /\ Errors  BY DEF IInv
<1>2. Live /\ ~scanErr /\ reader.out = <<>> /\ reader.drained  BY <1>1 DEF Errors, Live
<1>3. PICK p : TakenTo(p)  BY <1>2 DEF IInv
<1>4. TapeOK(tape) /\ Ahead(tape, g, <<>>, TRUE, p)  BY <1>1, <1>2, <1>3 DEF Types, TakenTo, Ahead
<1>5. p = Len(tape) /\ Len(tape) \in Nat /\ DOMAIN tape = 1 .. Len(tape)
  BY <1>4, AheadBounds, TapeFacts
<1>6. \A i \in DOMAIN tape : tape[i].kind = "percent" => FollowedAt(tape, i)
  BY <1>4, <1>5 DEF Ahead, Settled
<1>7. Judged(tape, p, phase, reader)  BY <1>3 DEF TakenTo
<1>8. \A i \in DOMAIN tape : i + 1 \in DOMAIN tape /\ tape[i].line = tape[i+1].line =>
        tape[i].kind # "end" /\ (tape[i].kind = "header" => tape[i+1].kind # "entry")
  BY <1>5, <1>7 DEF Judged
<1>9. QED  BY <1>2, <1>6, <1>8 DEF AcceptedIsSound, Cut, FollowedAt

(* Where the documents are, the directives above one of them are those     *)
(* that Named takes.                                                       *)
LEMMA DirectivesAre ==
    ASSUME TapeOK(tape), NEW drained, DocsOK(tape, docs, drained), NEW m \in DOMAIN docs
    PROVE  InDirective(docs[m].from) <=> HasPercent(tape, docs[m].from, docs[m].to)
<1>1. CASE tape = <<>>
  <2>1. docs = <<>> \/ (Len(docs) = 1 /\ docs[1].from = 0)  BY <1>1 DEF DocsOK
  <2>2. docs \in Seq(DocType)  BY DEF DocsOK
  <2>3. DOMAIN docs = 1 .. Len(docs)  BY <2>2
  <2>4. docs # <<>>  BY <2>2, <2>3
  <2>5. m = 1  BY <2>1, <2>3, <2>4
  <2>6. docs[m].from = 0  BY <2>1, <2>4, <2>5
  <2> QED  BY <2>6 DEF InDirective, HasPercent
<1>2. CASE tape # <<>>
  <2>1. DocOK(tape, docs[m], m, drained)  BY <1>2 DEF DocsOK
  <2>2. PICK d : d = docs[m]  OBVIOUS
  <2>3. d.from \in 1 .. Len(tape) /\ d.to \in 1 .. Len(tape) /\ StopOf(d.from) = d.to + 1
    BY <2>1, <2>2, StopsAt
  <2>4. StopOf(d.from) - 1 = d.to
    <3>1. (d.to + 1) - 1 = d.to  BY <2>3
    <3> QED  BY <3>1, <2>3
  <2>5. InDirective(d.from) <=> HasPercent(tape, d.from, d.to)  BY <2>4 DEF InDirective, HasPercent
  <2> QED  BY <2>2, <2>5
<1>3. QED  BY <1>1, <1>2

LEMMA NamedAre ==
    ASSUME TapeOK(tape), NEW drained, DocsOK(tape, docs, drained), NEW n \in DOMAIN docs
    PROVE  Named(n) = NamedIn(tape, docs, n)
<1> DEFINE A == {k \in 1..n-1 : \A m \in k..n-1 : HasPercent(tape, docs[m].from, docs[m].to)}
           B == {k \in 1..n-1 : \A m \in k..n-1 : InDirective(docs[m].from)}
           S == {tape[i].kind : i \in {j \in UNION {docs[k].from .. docs[k].to : k \in A} :
                                          tape[j].kind \in Schemas}}
           T == UNION {VersionsIn(tape, docs[k].from, docs[k].to) : k \in A}
<1>1. DOMAIN docs = 1 .. Len(docs) /\ Len(docs) \in Nat
  <2>1. docs \in Seq(DocType)  BY DEF DocsOK
  <2> QED  BY <2>1
<1>2. \A k \in 1 .. n-1 : \A m \in k .. n-1 : m \in DOMAIN docs  BY <1>1
<1>3. \A k \in 1 .. n-1 : \A m \in k .. n-1 :
        InDirective(docs[m].from) <=> HasPercent(tape, docs[m].from, docs[m].to)
  BY <1>2, DirectivesAre
<1>4. A = B  BY <1>3
<1>5. Named(n) = S
  <2>1. Named(n) = {tape[i].kind : i \in {j \in UNION {docs[k].from .. docs[k].to : k \in B} :
                                             tape[j].kind \in Schemas}}
    BY DEF Named
  <2> HIDE DEF A, B
  <2> QED  BY <2>1, <1>4
<1>6. NamedIn(tape, docs, n) = T  BY DEF NamedIn
<1> HIDE DEF A, B
<1>7. ASSUME NEW s PROVE s \in S <=> s \in T
  <2>1. s \in S <=> \E k \in A : \E j \in docs[k].from .. docs[k].to :
                       tape[j].kind \in Schemas /\ s = tape[j].kind
    OBVIOUS
  <2>2. s \in T <=> \E k \in A : s \in VersionsIn(tape, docs[k].from, docs[k].to)  OBVIOUS
  <2>3. \A k : s \in VersionsIn(tape, docs[k].from, docs[k].to) <=>
                 \E j \in docs[k].from .. docs[k].to : tape[j].kind \in Schemas /\ s = tape[j].kind
    BY DEF VersionsIn
  <2> QED  BY <2>1, <2>2, <2>3
<1> HIDE DEF S, T
<1>8. S = T  BY <1>7
<1>9. QED  BY <1>5, <1>6, <1>8

LEMMA SchemasFromIInv == IInv => SchemasMatch
<1> SUFFICES ASSUME IInv, NEW n \in DOMAIN docs, ~InDirective(docs[n].from)
             PROVE  LET named == Named(n) IN
                    /\ docs[n].schema = IF named = {} THEN option ELSE CHOOSE s \in named : TRUE
                    /\ \A r \in docs[n].read :
                         r.schema = IF tape[r.at].kind = "content" THEN "none" ELSE docs[n].schema
  BY DEF SchemasMatch
<1>1. TapeOK(tape) /\ DocsOK(tape, docs, reader.drained) /\ SchemaOK(tape, docs, n, option)
  BY DEF IInv, Types, SchemasOK
<1>2. ~HasPercent(tape, docs[n].from, docs[n].to)  BY <1>1, DirectivesAre
<1>3. Named(n) = NamedIn(tape, docs, n)  BY <1>1, NamedAre
<1>4. PICK named : named = Named(n)  OBVIOUS
<1>5. /\ docs[n].schema \in Schemas
      /\ VersionIs(docs[n].schema, named) \/ (named = {} /\ docs[n].schema = option)
      /\ \A r \in docs[n].read : ReadOK(tape, r, docs[n].schema)
  BY <1>1, <1>2, <1>3, <1>4 DEF SchemaOK
<1>6. PICK sc : sc = docs[n].schema  OBVIOUS
<1>7. sc = IF named = {} THEN option ELSE CHOOSE s \in named : TRUE
  <2>1. sc # "none"  BY <1>5, <1>6 DEF Schemas
  <2>2. named = {sc} \/ (named = {} /\ sc = option)  BY <2>1, <1>5, <1>6 DEF VersionIs
  <2>3. CASE named = {sc}
    <3>1. (CHOOSE s \in {sc} : TRUE) = sc  OBVIOUS
    <3>2. named # {}  BY <2>3
    <3> QED  BY <2>3, <3>1, <3>2
  <2> QED  BY <2>2, <2>3
<1>8. \A r \in docs[n].read : r.schema = IF tape[r.at].kind = "content" THEN "none" ELSE docs[n].schema
  BY <1>5 DEF ReadOK
<1>9. QED  BY <1>4, <1>6, <1>7, <1>8

(* A stream is accepted only if the scanner was done with it, every        *)
(* directive is followed by a "---" or by one more, and nothing that may   *)
(* not stands on a marker's line (fill, bodyToken, judgeNext): however far *)
(* the scanner was ahead when the marker was judged, and wherever the      *)
(* error of a fill was kept.                                               *)
THEOREM AcceptedCorrect == Spec => []AcceptedIsSound
BY IInvInvariance, AcceptedFromIInv, PTL

(* The documents read are those of the stream's tokens, each with its own  *)
(* tokens and its own "...", and none is added or lost at the end          *)
(* (openDocument, bodyToken and closeDocument): whatever the grouping held *)
(* back while they were told apart.                                        *)
THEOREM DocumentsCorrect == Spec => []DocumentsMatch
BY IInvInvariance, DocumentsFromIInv, PTL

(* Every scalar reaches the descent as resolved under the version its      *)
(* document's directives name, or under the option (endVersionScope and    *)
(* retypeAhead), however far ahead it was cut.                             *)
THEOREM SchemasCorrect == Spec => []SchemasMatch
BY IInvInvariance, SchemasFromIInv, PTL
=============================================================================
