--------------------------- MODULE DecoderProofs ---------------------------
(***************************************************************************)
(* Proofs about DecoderStream: that the documents of a stream are handed   *)
(* over in their order whatever reads them, that a struct keeps what no    *)
(* document wrote, and that a document is read with its own books, for any *)
(* number of documents and entries.                                        *)
(***************************************************************************)
EXTENDS DecoderStream, TLAPS, WellFoundedInduction, FiniteSetTheorems, SequenceTheorems

(***************************************************************************)
(* The vocabulary of the invariant, about any stream s.                    *)
(***************************************************************************)
Holds == {"plain", "null", "alias", "misfit", "cycle", "repeat"}
EntryType == [field : Field, holds : Holds]
DocType == [id : Nat \ {0}, kind : {"mapping", "empty", "none", "broken"}, entries : Seq(EntryType)]
StructType == [doc : {0}, fields : [Field -> Nat \cup {Default}]]
WalkedType == [doc : Nat, fields : {<<>>}]

SourceOK(s) ==
    /\ s \in Seq(DocType) /\ Len(s) <= MaxDocs
    /\ \A i \in DOMAIN s : s[i].kind # "mapping" => s[i].entries = <<>>

(* What a typed walk leaves in the struct, of n documents: a field that    *)
(* none wrote is as it was, and one that was written is of one of them.    *)
FromDocs(dst, docs, n, f) == \E j \in 1 .. n : WritesTyped(docs[j], f) /\ dst.fields[f] = docs[j].id
Spared(dst, docs, n) ==
    /\ dst \in StructType
    /\ \A f \in Field : dst.fields[f] = Default \/ FromDocs(dst, docs, n, f)
Served(dst, docs, n) ==
    \A j \in 1 .. n : /\ docs[j].kind # "broken" /\ ~Has(docs[j], {"alias", "misfit", "cycle", "repeat"})
                      /\ \A f \in Field : WritesTyped(docs[j], f) => FromDocs(dst, docs, n, f)

(* One reading of the source stands, and it is of the source as it was     *)
(* read.                                                                   *)
DecType ==
    [redelivers : BOOLEAN, reader : Seq(DocType), src : Seq(DocType), walked : Seq(WalkedType),
     walkedOK : BOOLEAN, typedWalk : BOOLEAN, parsed : BOOLEAN, docs : Seq(DocType), books : Seq(Nat),
     book : Nat, streamIndex : 0 .. MaxDocs + 1]
Stands(d) ==
    /\ d \in DecType /\ ~d.typedWalk /\ ~(d.parsed /\ d.walkedOK)
    /\ d.walkedOK => d.walked = DocumentValues(d.src) /\ ~Broken(d.src)
    /\ d.parsed => d.docs = HoldingAValue(d.src) /\ d.books = [i \in DOMAIN d.docs |-> d.docs[i].id]
    /\ ~d.parsed => d.books = <<>>

(* The source is at hand, or was lost to a first Decode that failed or     *)
(* answered by a typed walk.                                               *)
TypedRead(ans) == ans # <<>> /\ ans[1].by = "typed"
AtHand(d, s, ans) ==
    /\ d.reader \in {s, <<>>} /\ d.src \in {s, <<>>}
    /\ ~IsInitialized(d) /\ d.reader # s => WalkRefuses(s) \/ TypedRead(ans)
    /\ IsInitialized(d) /\ d.src # s => d.reader = <<>> /\ (WalkRefuses(s) \/ TypedRead(ans))
    /\ ~IsInitialized(d) /\ d.streamIndex # 0 =>
           TypedRead(ans) /\ WalkInto(d.reader, Fresh("struct")).stop = "none"

Overreads(a, i, s) == a.by = "typed" /\ (i # 1 \/ Len(HoldingAValue(s)) # 1 \/ WalkRefuses(s))
KeepsFields(a, i, s) ==
    a.to = "struct" /\ a.value # Null =>
        \A f \in Field :
            /\ Writes(HoldingAValue(s)[i], f) => a.value.fields[f] = HoldingAValue(s)[i].id
            /\ ~Writes(HoldingAValue(s)[i], f) => \/ a.value.fields[f] = Default
                                                 \/ LeftBehind(HoldingAValue(s), i, f, a.value.fields[f])
Right(a, i, s) ==
    ~Overreads(a, i, s) => /\ i <= Len(HoldingAValue(s)) /\ Hands(a, HoldingAValue(s)[i])
                           /\ KeepsFields(a, i, s)
AnswersRight(d, s, ans) ==
    /\ ans \in Seq([to : Destination, value : StructType \cup WalkedType,
                    result : {"value"}, by : {"typed", "walk", "tree"}])
    /\ d.streamIndex = Len(ans)
    /\ Len(ans) = MaxAnswers => Last(ans).by = "typed"
    /\ \A i \in DOMAIN ans : Right(ans[i], i, s)

LastRight(d, ans, l) ==
    /\ l = "value" => ans # <<>>
    /\ l = "value" /\ Last(ans).by = "tree" /\ Last(ans).value # Null =>
           d.parsed /\ d.streamIndex \in DOMAIN d.docs /\ d.book = d.docs[d.streamIndex].id
    /\ l = "eof" => IsInitialized(d) /\ Len(HoldingAValue(d.src)) <= Len(ans)

IInv ==
    /\ SourceOK(source) /\ Stands(dec) /\ AtHand(dec, source, answers)
    /\ AnswersRight(dec, source, answers) /\ LastRight(dec, answers, last)

-----------------------------------------------------------------------------
(* What each loop is, for a document and a stream of any length. *)

LEMMA LeastExists ==
    ASSUME NEW S \in SUBSET Nat, S # {}
    PROVE  \E m \in S : \A n \in S : m <= n
<1> DEFINE R == OpToRel(<, Nat)
<1>1. IsWellFoundedOn(R, Nat)  BY NatLessThanWellFounded, Zenon
<1>2. \A x, y \in Nat : <<y, x>> \in R <=> y < x  BY DEF OpToRel
<1> HIDE DEF R
<1>3. PICK m \in S : \A n \in S : ~(<<n, m>> \in R)  BY <1>1, WFMin
<1>4. ASSUME NEW n \in S PROVE m <= n
  <2>1. m \in Nat /\ n \in Nat  OBVIOUS
  <2>2. ~(n < m)  BY <2>1, <1>2, <1>3
  <2> QED  BY <2>1, <2>2
<1>5. QED  BY <1>4

PickStep(kept, doc, kinds) == IF doc.kind \in kinds THEN Append(kept, doc) ELSE kept
Picks(f, docs, kinds, k) ==
    f = [n \in 0 .. k |-> IF n = 0 THEN <<>> ELSE PickStep(f[n-1], docs[n], kinds)]

LEMMA PickExists ==
    ASSUME NEW docs, NEW kinds, NEW k \in Nat
    PROVE  \E f : Picks(f, docs, kinds, k)
<1> DEFINE S == {n \in Nat : ~ \E f : Picks(f, docs, kinds, n)}
<1> SUFFICES ASSUME S # {} PROVE FALSE  BY DEF Picks
<1>1. PICK m \in S : \A n \in S : m <= n  BY LeastExists
<1>2. m # 0
  <2>1. Picks([n \in 0 .. 0 |-> <<>>], docs, kinds, 0)  BY DEF Picks
  <2> QED  BY <2>1, Zenon
<1>3. m - 1 \in Nat /\ m - 1 \notin S  BY <1>1, <1>2
<1>4. PICK f : Picks(f, docs, kinds, m - 1)  BY <1>3
<1> DEFINE e == [n \in 0 .. m |-> IF n = m THEN PickStep(f[m-1], docs[m], kinds) ELSE f[n]]
<1>5. Picks(e, docs, kinds, m)
  <2>1. ASSUME NEW n \in 0 .. m
        PROVE  e[n] = IF n = 0 THEN <<>> ELSE PickStep(e[n-1], docs[n], kinds)
    <3>1. CASE n = m
      <4>1. e[n-1] = f[m-1]  BY <3>1, <1>2, <1>3
      <4> QED  BY <4>1, <3>1, <1>2
    <3>2. CASE n # m
      <4>1. n \in 0 .. (m - 1)  BY <3>2
      <4>2. f[n] = IF n = 0 THEN <<>> ELSE PickStep(f[n-1], docs[n], kinds)
        BY <1>4, <4>1, Zenon DEF Picks
      <4>3. n # 0 => e[n-1] = f[n-1]  BY <4>1
      <4> QED  BY <4>2, <4>3, <3>2
    <3> QED  BY <3>1, <3>2
  <2> QED  BY <2>1, Zenon DEF Picks
<1> QED  BY <1>5, <1>1

LEMMA PickedAt ==
    ASSUME NEW docs, NEW kinds, Len(docs) \in Nat
    PROVE  /\ Picked(docs, kinds)[0] = <<>>
           /\ \A n \in 1 .. Len(docs) :
                  Picked(docs, kinds)[n] = PickStep(Picked(docs, kinds)[n-1], docs[n], kinds)
<1> DEFINE f == Picked(docs, kinds)
<1>1. \E g : Picks(g, docs, kinds, Len(docs))  BY PickExists
<1>2. f = CHOOSE g : Picks(g, docs, kinds, Len(docs))  BY Zenon DEF Picked, Picks, PickStep
<1>3. Picks(f, docs, kinds, Len(docs))  BY <1>1, <1>2, Zenon
<1> HIDE DEF f
<1>4. f[0] = <<>>
  <2>1. 0 \in 0 .. Len(docs)  OBVIOUS
  <2> QED  BY <2>1, <1>3 DEF Picks
<1>5. \A n \in 1 .. Len(docs) : f[n] = PickStep(f[n-1], docs[n], kinds)
  <2> SUFFICES ASSUME NEW n \in 1 .. Len(docs) PROVE f[n] = PickStep(f[n-1], docs[n], kinds)  OBVIOUS
  <2>1. n \in 0 .. Len(docs) /\ n # 0  OBVIOUS
  <2> QED  BY <2>1, <1>3, Zenon DEF Picks
<1> QED  BY <1>4, <1>5 DEF f

PickedOf(p, docs, kinds, n) ==
    /\ p \in Seq(DocType) /\ Len(p) <= n
    /\ \A i \in DOMAIN p : p[i].kind \in kinds /\ \E j \in 1 .. n : p[i] = docs[j]
    /\ \A j \in 1 .. n : docs[j].kind \in kinds => \E i \in DOMAIN p : p[i] = docs[j]

LEMMA PickStepKeeps ==
    ASSUME NEW docs \in Seq(DocType), NEW kinds, NEW n \in 1 .. Len(docs), NEW p,
           PickedOf(p, docs, kinds, n - 1)
    PROVE  PickedOf(PickStep(p, docs[n], kinds), docs, kinds, n)
<1> DEFINE q == PickStep(p, docs[n], kinds)
<1>1. /\ p \in Seq(DocType) /\ Len(p) <= n - 1 /\ docs[n] \in DocType /\ n \in Nat /\ Len(p) \in Nat
      /\ DOMAIN p = 1 .. Len(p)
  BY DEF PickedOf
<1>2. CASE docs[n].kind \notin kinds
  <2>1. q = p  BY <1>2 DEF PickStep
  <2>2. \A j \in 1 .. n : j \in 1 .. n - 1 \/ j = n  BY <1>1
  <2>3. \A j \in 1 .. n - 1 : j \in 1 .. n  BY <1>1
  <2>4. Len(p) <= n  BY <1>1
  <2> QED  BY <2>1, <2>2, <2>3, <2>4, <1>1, <1>2 DEF PickedOf
<1>3. CASE docs[n].kind \in kinds
  <2>1. q = Append(p, docs[n])  BY <1>3 DEF PickStep
  <2>2. /\ q \in Seq(DocType) /\ Len(q) = Len(p) + 1 /\ DOMAIN q = 1 .. Len(p) + 1
        /\ q[Len(p) + 1] = docs[n] /\ \A i \in 1 .. Len(p) : q[i] = p[i]
    <3> HIDE DEF q
    <3> QED  BY <2>1, <1>1
  <2> HIDE DEF q
  <2>3. Len(q) <= n  BY <2>2, <1>1
  <2>4. ASSUME NEW i \in DOMAIN q PROVE q[i].kind \in kinds /\ \E j \in 1 .. n : q[i] = docs[j]
    <3>1. CASE i \in 1 .. Len(p)
      <4>1. PICK j \in 1 .. n - 1 : p[i] = docs[j]  BY <3>1, <1>1 DEF PickedOf
      <4>2. j \in 1 .. n /\ q[i] = docs[j]  BY <4>1, <3>1, <2>2, <1>1
      <4>3. p[i].kind \in kinds  BY <3>1, <1>1 DEF PickedOf
      <4> QED  BY <4>1, <4>2, <4>3
    <3>2. CASE i = Len(p) + 1
      <4>1. n \in 1 .. n  BY <1>1
      <4> QED  BY <4>1, <3>2, <2>2, <1>3
    <3> QED  BY <3>1, <3>2, <2>2, <1>1
  <2>5. ASSUME NEW j \in 1 .. n, docs[j].kind \in kinds PROVE \E i \in DOMAIN q : q[i] = docs[j]
    <3>1. CASE j = n
      <4>1. Len(p) + 1 \in DOMAIN q  BY <2>2, <1>1
      <4> QED  BY <4>1, <3>1, <2>2
    <3>2. CASE j # n
      <4>1. j \in 1 .. n - 1  BY <3>2, <1>1
      <4>2. PICK i \in DOMAIN p : p[i] = docs[j]  BY <4>1, <2>5 DEF PickedOf
      <4>3. i \in DOMAIN q /\ q[i] = docs[j]  BY <4>2, <2>2, <1>1
      <4> QED  BY <4>3
    <3> QED  BY <3>1, <3>2
  <2>6. q \in Seq(DocType)  BY <2>2
  <2>7. PickedOf(q, docs, kinds, n)  BY <2>3, <2>4, <2>5, <2>6, Zenon DEF PickedOf
  <2> QED  BY <2>7 DEF q
<1> QED  BY <1>2, <1>3

LEMMA PickedIs ==
    ASSUME NEW docs \in Seq(DocType), NEW kinds, NEW n \in 0 .. Len(docs)
    PROVE  PickedOf(Picked(docs, kinds)[n], docs, kinds, n)
<1> DEFINE f == Picked(docs, kinds)
           S == {m \in 0 .. Len(docs) : ~PickedOf(f[m], docs, kinds, m)}
<1>1. Len(docs) \in Nat  OBVIOUS
<1>2. f[0] = <<>> /\ \A m \in 1 .. Len(docs) : f[m] = PickStep(f[m-1], docs[m], kinds)
  BY <1>1, PickedAt
<1> HIDE DEF f
<1>3. S = {}
  <2> SUFFICES ASSUME S # {} PROVE FALSE  OBVIOUS
  <2>1. S \in SUBSET Nat  OBVIOUS
  <2>2. PICK m \in S : \A k \in S : m <= k
    <3> HIDE DEF S
    <3> QED  BY <2>1, LeastExists
  <2>3. PickedOf(<<>>, docs, kinds, 0)  BY DEF PickedOf
  <2>4. m # 0  BY <2>2, <2>3, <1>2
  <2>5. m \in 1 .. Len(docs) /\ m - 1 \in 0 .. Len(docs) /\ m - 1 \notin S  BY <2>2, <2>4, <1>1
  <2>6. PickedOf(f[m-1], docs, kinds, m - 1)  BY <2>5
  <2>7. PickedOf(f[m], docs, kinds, m)  BY <2>5, <2>6, <1>2, PickStepKeeps
  <2> QED  BY <2>2, <2>7
<1> QED  BY <1>3 DEF f

LEMMA OfKindIs ==
    ASSUME NEW docs \in Seq(DocType), NEW kinds
    PROVE  PickedOf(OfKind(docs, kinds), docs, kinds, Len(docs))
<1>1. Len(docs) \in 0 .. Len(docs)
  <2>1. Len(docs) \in Nat  OBVIOUS
  <2> QED  BY <2>1
<1> QED  BY <1>1, PickedIs DEF OfKind

LEMMA ValuedIs ==
    ASSUME NEW docs \in Seq(DocType)
    PROVE  LET v == HoldingAValue(docs)
           IN  /\ v \in Seq(DocType) /\ Len(v) <= Len(docs)
               /\ \A i \in DOMAIN v : v[i].kind # "none" /\ \E j \in DOMAIN docs : v[i] = docs[j]
               /\ \A j \in DOMAIN docs : docs[j].kind # "none" => \E i \in DOMAIN v : v[i] = docs[j]
<1> DEFINE kinds == {"mapping", "empty", "broken"}
           v == HoldingAValue(docs)
<1>1. PickedOf(v, docs, kinds, Len(docs))  BY OfKindIs DEF HoldingAValue
<1> HIDE DEF v
<1>2. DOMAIN docs = 1 .. Len(docs)  OBVIOUS
<1>3. ASSUME NEW j \in DOMAIN docs, docs[j].kind # "none" PROVE docs[j].kind \in kinds
  <2>1. docs[j] \in DocType  OBVIOUS
  <2> QED  BY <2>1, <1>3 DEF DocType
<1> QED  BY <1>1, <1>2, <1>3 DEF PickedOf, v

LEMMA NothingValued == HoldingAValue(<<>>) = <<>>
<1>1. <<>> \in Seq(DocType) /\ Len(<<>>) = 0  OBVIOUS
<1>2. HoldingAValue(<<>>) \in Seq(DocType) /\ Len(HoldingAValue(<<>>)) <= 0  BY <1>1, ValuedIs
<1> QED  BY <1>2

(* The values a walk delivered stand beside the documents they are of.     *)
NotEmpty(v, i) == Cardinality({j \in 1 .. i : ~ IsEmptyDocument(v[j])})
LinedUp(v, d) ==
    /\ v \in Seq(DocType) /\ d \in Seq(DocType)
    /\ Len(d) = NotEmpty(v, Len(v))
    /\ \A i \in 1 .. Len(v) : ~ IsEmptyDocument(v[i]) => NotEmpty(v, i) \in 1 .. Len(d) /\ d[NotEmpty(v, i)] = v[i]

LEMMA NotEmptyAppend ==
    ASSUME NEW v \in Seq(DocType), NEW doc \in DocType
    PROVE  LET w == Append(v, doc)
           IN  /\ \A i \in 1 .. Len(v) : NotEmpty(w, i) = NotEmpty(v, i)
               /\ NotEmpty(w, Len(v)) = NotEmpty(v, Len(v))
               /\ NotEmpty(v, Len(v)) \in Nat
               /\ NotEmpty(w, Len(v) + 1) =
                      IF IsEmptyDocument(doc) THEN NotEmpty(v, Len(v)) ELSE NotEmpty(v, Len(v)) + 1
<1> DEFINE w == Append(v, doc)
           n == Len(v)
           Of(x, i) == {j \in 1 .. i : ~ IsEmptyDocument(x[j])}
<1>1. n \in Nat /\ w[n + 1] = doc /\ \A i \in 1 .. n : w[i] = v[i]  OBVIOUS
<1>2. \A i \in 0 .. n : Of(w, i) = Of(v, i)
  <2> SUFFICES ASSUME NEW i \in 0 .. n PROVE Of(w, i) = Of(v, i)  OBVIOUS
  <2>1. \A j \in 1 .. i : w[j] = v[j]  BY <1>1
  <2> QED  BY <2>1, Zenon
<1>3. n \in 0 .. n /\ \A i \in 1 .. n : i \in 0 .. n  BY <1>1
<1>4. IsFiniteSet(Of(v, n)) /\ Cardinality(Of(v, n)) \in Nat
  <2>1. IsFiniteSet(1 .. n)  BY <1>1, FS_Interval
  <2>2. Of(v, n) \subseteq 1 .. n  OBVIOUS
  <2>3. IsFiniteSet(Of(v, n))  BY <2>1, <2>2, FS_Subset
  <2> QED  BY <2>3, FS_CardinalityType
<1>5. Cardinality(Of(w, n + 1)) =
          IF IsEmptyDocument(doc) THEN Cardinality(Of(v, n)) ELSE Cardinality(Of(v, n)) + 1
  <2>1. \A j : j \in 1 .. n + 1 <=> j \in 1 .. n \/ j = n + 1  BY <1>1
  <2>2. \A j : j \in Of(w, n + 1) <=> j \in Of(w, n) \/ (j = n + 1 /\ ~ IsEmptyDocument(doc))
    BY <2>1, <1>1, Zenon
  <2>3. CASE IsEmptyDocument(doc)
    <3>1. Of(w, n + 1) = Of(w, n)
      <4>1. \A j : j \in Of(w, n + 1) <=> j \in Of(w, n)  BY <2>2, <2>3
      <4> HIDE DEF Of
      <4> QED  BY <4>1
    <3>2. Of(w, n) = Of(v, n)  BY <1>2, <1>3
    <3> HIDE DEF Of
    <3> QED  BY <2>3, <3>1, <3>2
  <2>4. CASE ~ IsEmptyDocument(doc)
    <3>0. Of(w, n) = Of(v, n)  BY <1>2, <1>3
    <3>1. n + 1 \notin Of(v, n)
      <4>1. n + 1 \notin 1 .. n  BY <1>1
      <4> QED  BY <4>1
    <3>2. Of(w, n + 1) = Of(v, n) \cup {n + 1}
      <4>1. \A j : j \in Of(w, n + 1) <=> j \in Of(w, n) \/ j = n + 1  BY <2>2, <2>4
      <4> HIDE DEF Of
      <4> QED  BY <4>1, <3>0
    <3> HIDE DEF Of
    <3>3. Cardinality(Of(v, n) \cup {n + 1}) = Cardinality(Of(v, n)) + 1
      BY <1>4, <3>1, FS_AddElement
    <3> QED  BY <2>4, <3>2, <3>3
  <2> QED  BY <2>3, <2>4
<1>6. \A i : NotEmpty(w, i) = Cardinality(Of(w, i)) /\ NotEmpty(v, i) = Cardinality(Of(v, i))
  BY DEF NotEmpty
<1> HIDE DEF Of, w, n
<1>7. \A i \in 0 .. n : NotEmpty(w, i) = NotEmpty(v, i)  BY <1>2, <1>6
<1>8. QED  BY <1>3, <1>4, <1>5, <1>6, <1>7 DEF w, n

LEMMA LinedUpStep ==
    ASSUME NEW v, NEW d, LinedUp(v, d), NEW doc \in DocType, doc.kind # "broken"
    PROVE  LinedUp(PickStep(v, doc, {"mapping", "empty", "broken"}), PickStep(d, doc, {"mapping"}))
<1> DEFINE n == Len(v)
           w == Append(v, doc)
<1>1. v \in Seq(DocType) /\ d \in Seq(DocType) /\ n \in Nat /\ Len(d) \in Nat /\ Len(d) = NotEmpty(v, n)
  BY DEF LinedUp
<1>2. \A i \in 1 .. n : ~ IsEmptyDocument(v[i]) => NotEmpty(v, i) \in 1 .. Len(d) /\ d[NotEmpty(v, i)] = v[i]
  BY DEF LinedUp
<1>3. w \in Seq(DocType) /\ Len(w) = n + 1 /\ w[n + 1] = doc /\ \A i \in 1 .. n : w[i] = v[i]
  BY <1>1
<1>4. /\ \A i \in 1 .. n : NotEmpty(w, i) = NotEmpty(v, i)
      /\ NotEmpty(w, n + 1) = IF IsEmptyDocument(doc) THEN NotEmpty(v, n) ELSE NotEmpty(v, n) + 1
  BY <1>1, NotEmptyAppend
<1> HIDE DEF w
<1>5. CASE doc.kind = "none"
  BY <1>5 DEF PickStep
<1>6. CASE doc.kind = "empty"
  <2>1. PickStep(v, doc, {"mapping", "empty", "broken"}) = w /\ PickStep(d, doc, {"mapping"}) = d
    BY <1>6 DEF PickStep, w
  <2>2. IsEmptyDocument(doc)  BY <1>6 DEF IsEmptyDocument
  <2>3. NotEmpty(w, Len(w)) = Len(d)  BY <2>2, <1>1, <1>3, <1>4
  <2>4. ASSUME NEW i \in 1 .. Len(w), ~ IsEmptyDocument(w[i])
        PROVE  NotEmpty(w, i) \in 1 .. Len(d) /\ d[NotEmpty(w, i)] = w[i]
    <3>1. i \in 1 .. n  BY <2>4, <2>2, <1>1, <1>3
    <3> QED  BY <3>1, <2>4, <1>2, <1>3, <1>4
  <2>5. LinedUp(w, d)  BY <2>3, <2>4, <1>1, <1>3, Zenon DEF LinedUp
  <2> QED  BY <2>5, <2>1
<1>7. CASE doc.kind = "mapping"
  <2> DEFINE e == Append(d, doc)
  <2>1. PickStep(v, doc, {"mapping", "empty", "broken"}) = w /\ PickStep(d, doc, {"mapping"}) = e
    BY <1>7 DEF PickStep, w
  <2>2. /\ e \in Seq(DocType) /\ Len(e) = Len(d) + 1 /\ e[Len(d) + 1] = doc
        /\ \A i \in 1 .. Len(d) : e[i] = d[i]
    BY <1>1
  <2> HIDE DEF e
  <2>3. ~ IsEmptyDocument(doc)  BY <1>7 DEF IsEmptyDocument
  <2>4. NotEmpty(w, n + 1) = Len(d) + 1  BY <2>3, <1>1, <1>4
  <2>5. ASSUME NEW i \in 1 .. Len(w), ~ IsEmptyDocument(w[i])
        PROVE  NotEmpty(w, i) \in 1 .. Len(e) /\ e[NotEmpty(w, i)] = w[i]
    <3>1. CASE i \in 1 .. n
      <4>1. NotEmpty(w, i) \in 1 .. Len(d) /\ d[NotEmpty(w, i)] = w[i]
        BY <3>1, <2>5, <1>2, <1>3, <1>4
      <4> QED  BY <4>1, <2>2, <1>1
    <3>2. CASE i = n + 1
      <4>1. Len(d) + 1 \in 1 .. Len(e)  BY <2>2, <1>1
      <4> QED  BY <4>1, <3>2, <2>2, <2>4, <1>3
    <3> QED  BY <3>1, <3>2, <1>1, <1>3
  <2>6. Len(e) = NotEmpty(w, Len(w))  BY <2>2, <2>4, <1>3
  <2>7. LinedUp(w, e)  BY <2>2, <2>5, <2>6, <1>3, Zenon DEF LinedUp
  <2> QED  BY <2>7, <2>1
<1> QED  BY <1>5, <1>6, <1>7 DEF DocType

LEMMA WalkLinesUp ==
    ASSUME NEW docs \in Seq(DocType), ~ Broken(docs)
    PROVE  LinedUp(HoldingAValue(docs), Delivered(docs))
<1> DEFINE V == {"mapping", "empty", "broken"}
           M == {"mapping"}
           f == Picked(docs, V)
           g == Picked(docs, M)
           k == Len(docs)
           S == {n \in 0 .. k : ~ LinedUp(f[n], g[n])}
<1>1. k \in Nat /\ DOMAIN docs = 1 .. k  OBVIOUS
<1>2. f[0] = <<>> /\ \A n \in 1 .. k : f[n] = PickStep(f[n-1], docs[n], V)
  <2> HIDE DEF V
  <2> QED  BY <1>1, PickedAt
<1>3. g[0] = <<>> /\ \A n \in 1 .. k : g[n] = PickStep(g[n-1], docs[n], M)
  <2> HIDE DEF M
  <2> QED  BY <1>1, PickedAt
<1>4. HoldingAValue(docs) = f[k] /\ Delivered(docs) = g[k]  BY DEF HoldingAValue, Delivered, OfKind
<1> HIDE DEF f, g, k
<1>5. S = {}
  <2> SUFFICES ASSUME S # {} PROVE FALSE  OBVIOUS
  <2>1. S \in SUBSET Nat  OBVIOUS
  <2>2. PICK m \in S : \A n \in S : m <= n
    <3> HIDE DEF S
    <3> QED  BY <2>1, LeastExists
  <2>3. LinedUp(<<>>, <<>>)
    <3>1. NotEmpty(<<>>, 0) = 0
      <4>1. {j \in 1 .. 0 : ~ IsEmptyDocument(<<>>[j])} = {}  OBVIOUS
      <4> QED  BY <4>1, FS_EmptySet DEF NotEmpty
    <3> QED  BY <3>1 DEF LinedUp
  <2>4. m # 0  BY <2>2, <2>3, <1>2, <1>3
  <2>5. m \in 1 .. k /\ m - 1 \in 0 .. k /\ m - 1 \notin S  BY <2>2, <2>4, <1>1
  <2>6. LinedUp(f[m-1], g[m-1])  BY <2>5
  <2>7. docs[m] \in DocType /\ docs[m].kind # "broken"  BY <2>5, <1>1 DEF Broken
  <2>8. LinedUp(PickStep(f[m-1], docs[m], V), PickStep(g[m-1], docs[m], M))
    BY <2>6, <2>7, LinedUpStep
  <2>9. f[m] = PickStep(f[m-1], docs[m], V) /\ g[m] = PickStep(g[m-1], docs[m], M)
    BY <2>5, <1>2, <1>3
  <2>10. LinedUp(f[m], g[m])
    <3> HIDE DEF V, M
    <3> QED  BY <2>8, <2>9
  <2> QED  BY <2>2, <2>10
<1>6. k \in 0 .. k  BY <1>1
<1>7. LinedUp(f[k], g[k])  BY <1>5, <1>6
<1> QED  BY <1>4, <1>7

ValueOf(doc) == IF IsEmptyDocument(doc) THEN Null ELSE Whole(doc)

LEMMA DocumentValuesAre ==
    ASSUME NEW docs \in Seq(DocType), ~ Broken(docs)
    PROVE  LET v == HoldingAValue(docs)
               w == DocumentValues(docs)
           IN  /\ w \in Seq(WalkedType) /\ Len(w) = Len(v)
               /\ \A i \in 1 .. Len(v) : w[i] = ValueOf(v[i])
<1> DEFINE v == HoldingAValue(docs)
           d == Delivered(docs)
           w == DocumentValues(docs)
<1>1. LinedUp(v, d)  BY WalkLinesUp
<1>2. v \in Seq(DocType)  BY ValuedIs
<1>3. w = [i \in DOMAIN v |-> IF IsEmptyDocument(v[i]) THEN Null ELSE Whole(d[NotEmpty(v, i)])]
  BY DEF DocumentValues, NotEmpty
<1> HIDE DEF v, d, w
<1>4. DOMAIN v = 1 .. Len(v) /\ Len(v) \in Nat  BY <1>2
<1>5. \A i \in 1 .. Len(v) : w[i] = ValueOf(v[i])
  <2> SUFFICES ASSUME NEW i \in 1 .. Len(v) PROVE w[i] = ValueOf(v[i])  OBVIOUS
  <2>1. w[i] = IF IsEmptyDocument(v[i]) THEN Null ELSE Whole(d[NotEmpty(v, i)])  BY <1>3, <1>4
  <2>2. ~ IsEmptyDocument(v[i]) => d[NotEmpty(v, i)] = v[i]  BY <1>1 DEF LinedUp
  <2> QED  BY <2>1, <2>2 DEF ValueOf
<1>6. \A i \in 1 .. Len(v) : w[i] \in WalkedType
  <2> SUFFICES ASSUME NEW i \in 1 .. Len(v) PROVE w[i] \in WalkedType  OBVIOUS
  <2>1. v[i] \in DocType  BY <1>2, <1>4
  <2>2. ValueOf(v[i]) \in WalkedType  BY <2>1 DEF ValueOf, WalkedType, Null, Whole, DocType
  <2> QED  BY <2>2, <1>5
<1>7. w \in [1 .. Len(v) -> WalkedType]
  <2>1. DOMAIN w = 1 .. Len(v) /\ w = [i \in 1 .. Len(v) |-> w[i]]  BY <1>3, <1>4
  <2> QED  BY <2>1, <1>6
<1>8. w \in Seq(WalkedType) /\ Len(w) = Len(v)
  <2> HIDE DEF WalkedType
  <2> QED  BY <1>7, <1>4
<1> QED  BY <1>5, <1>8 DEF v, w


Reads(f, st, doc, k) ==
    f = [n \in 0 .. k |-> IF n = 0 THEN st ELSE TypedEntry(f[n-1], doc, doc.entries[n])]

LEMMA ReadsExist ==
    ASSUME NEW st, NEW doc, NEW k \in Nat
    PROVE  \E f : Reads(f, st, doc, k)
<1> DEFINE S == {n \in Nat : ~ \E f : Reads(f, st, doc, n)}
<1> SUFFICES ASSUME S # {} PROVE FALSE  BY DEF Reads
<1>1. PICK m \in S : \A n \in S : m <= n  BY LeastExists
<1>2. m # 0
  <2>1. Reads([n \in 0 .. 0 |-> st], st, doc, 0)  BY DEF Reads
  <2> QED  BY <2>1, Zenon
<1>3. m - 1 \in Nat /\ m - 1 \notin S  BY <1>1, <1>2
<1>4. PICK f : Reads(f, st, doc, m - 1)  BY <1>3
<1> DEFINE e == [n \in 0 .. m |-> IF n = m THEN TypedEntry(f[m-1], doc, doc.entries[m]) ELSE f[n]]
<1>5. Reads(e, st, doc, m)
  <2>1. ASSUME NEW n \in 0 .. m
        PROVE  e[n] = IF n = 0 THEN st ELSE TypedEntry(e[n-1], doc, doc.entries[n])
    <3>1. CASE n = m
      <4>1. e[n-1] = f[m-1]  BY <3>1, <1>2, <1>3
      <4> QED  BY <4>1, <3>1, <1>2
    <3>2. CASE n # m
      <4>1. n \in 0 .. (m - 1)  BY <3>2
      <4>2. f[n] = IF n = 0 THEN st ELSE TypedEntry(f[n-1], doc, doc.entries[n])
        BY <1>4, <4>1, Zenon DEF Reads
      <4>3. n # 0 => e[n-1] = f[n-1]  BY <4>1
      <4> QED  BY <4>2, <4>3, <3>2
    <3> QED  BY <3>1, <3>2
  <2> QED  BY <2>1, Zenon DEF Reads
<1> QED  BY <1>5, <1>1

LEMMA TypedEntriesAt ==
    ASSUME NEW st, NEW doc, Len(doc.entries) \in Nat
    PROVE  /\ TypedEntries(st, doc)[0] = st
           /\ \A n \in 1 .. Len(doc.entries) :
                  TypedEntries(st, doc)[n] = TypedEntry(TypedEntries(st, doc)[n-1], doc, doc.entries[n])
<1> DEFINE f == TypedEntries(st, doc)
<1>1. \E g : Reads(g, st, doc, Len(doc.entries))  BY ReadsExist
<1>2. f = CHOOSE g : Reads(g, st, doc, Len(doc.entries))  BY Zenon DEF TypedEntries, Reads
<1>3. Reads(f, st, doc, Len(doc.entries))  BY <1>1, <1>2, Zenon
<1> HIDE DEF f
<1>4. f[0] = st
  <2>1. 0 \in 0 .. Len(doc.entries)  OBVIOUS
  <2> QED  BY <2>1, <1>3 DEF Reads
<1>5. \A n \in 1 .. Len(doc.entries) : f[n] = TypedEntry(f[n-1], doc, doc.entries[n])
  <2> SUFFICES ASSUME NEW n \in 1 .. Len(doc.entries) PROVE f[n] = TypedEntry(f[n-1], doc, doc.entries[n])  OBVIOUS
  <2>1. n \in 0 .. Len(doc.entries) /\ n # 0  OBVIOUS
  <2> QED  BY <2>1, <1>3, Zenon DEF Reads
<1> QED  BY <1>4, <1>5 DEF f

Walks(f, docs, dst, k) ==
    f = [n \in 0 .. k |-> IF n = 0 THEN [dst |-> dst, stop |-> "none"] ELSE TypedDocument(f[n-1], docs[n])]

LEMMA WalksExist ==
    ASSUME NEW docs, NEW dst, NEW k \in Nat
    PROVE  \E f : Walks(f, docs, dst, k)
<1> DEFINE S == {n \in Nat : ~ \E f : Walks(f, docs, dst, n)}
<1> SUFFICES ASSUME S # {} PROVE FALSE  BY DEF Walks
<1>1. PICK m \in S : \A n \in S : m <= n  BY LeastExists
<1>2. m # 0
  <2>1. Walks([n \in 0 .. 0 |-> [dst |-> dst, stop |-> "none"]], docs, dst, 0)  BY DEF Walks
  <2> QED  BY <2>1, Zenon
<1>3. m - 1 \in Nat /\ m - 1 \notin S  BY <1>1, <1>2
<1>4. PICK f : Walks(f, docs, dst, m - 1)  BY <1>3
<1> DEFINE e == [n \in 0 .. m |-> IF n = m THEN TypedDocument(f[m-1], docs[m]) ELSE f[n]]
<1>5. Walks(e, docs, dst, m)
  <2>1. ASSUME NEW n \in 0 .. m
        PROVE  e[n] = IF n = 0 THEN [dst |-> dst, stop |-> "none"] ELSE TypedDocument(e[n-1], docs[n])
    <3>1. CASE n = m
      <4>1. e[n-1] = f[m-1]  BY <3>1, <1>2, <1>3
      <4> QED  BY <4>1, <3>1, <1>2
    <3>2. CASE n # m
      <4>1. n \in 0 .. (m - 1)  BY <3>2
      <4>2. f[n] = IF n = 0 THEN [dst |-> dst, stop |-> "none"] ELSE TypedDocument(f[n-1], docs[n])
        BY <1>4, <4>1, Zenon DEF Walks
      <4>3. n # 0 => e[n-1] = f[n-1]  BY <4>1
      <4> QED  BY <4>2, <4>3, <3>2
    <3> QED  BY <3>1, <3>2
  <2> QED  BY <2>1, Zenon DEF Walks
<1> QED  BY <1>5, <1>1

LEMMA TypedDocumentsAt ==
    ASSUME NEW docs, NEW dst, Len(docs) \in Nat
    PROVE  /\ TypedDocuments(docs, dst)[0] = [dst |-> dst, stop |-> "none"]
           /\ \A n \in 1 .. Len(docs) :
                  TypedDocuments(docs, dst)[n] = TypedDocument(TypedDocuments(docs, dst)[n-1], docs[n])
<1> DEFINE f == TypedDocuments(docs, dst)
<1>1. \E g : Walks(g, docs, dst, Len(docs))  BY WalksExist
<1>2. f = CHOOSE g : Walks(g, docs, dst, Len(docs))  BY Zenon DEF TypedDocuments, Walks
<1>3. Walks(f, docs, dst, Len(docs))  BY <1>1, <1>2, Zenon
<1> HIDE DEF f
<1>4. f[0] = [dst |-> dst, stop |-> "none"]
  <2>1. 0 \in 0 .. Len(docs)  OBVIOUS
  <2> QED  BY <2>1, <1>3 DEF Walks
<1>5. \A n \in 1 .. Len(docs) : f[n] = TypedDocument(f[n-1], docs[n])
  <2> SUFFICES ASSUME NEW n \in 1 .. Len(docs) PROVE f[n] = TypedDocument(f[n-1], docs[n])  OBVIOUS
  <2>1. n \in 0 .. Len(docs) /\ n # 0  OBVIOUS
  <2> QED  BY <2>1, <1>3, Zenon DEF Walks
<1> QED  BY <1>4, <1>5 DEF f

Fills(f, doc, dst, k) ==
    f = [n \in 0 .. k |-> IF n = 0 THEN dst ELSE StructEntry(f[n-1], doc, doc.entries[n])]

LEMMA FillsExist ==
    ASSUME NEW doc, NEW dst, NEW k \in Nat
    PROVE  \E f : Fills(f, doc, dst, k)
<1> DEFINE S == {n \in Nat : ~ \E f : Fills(f, doc, dst, n)}
<1> SUFFICES ASSUME S # {} PROVE FALSE  BY DEF Fills
<1>1. PICK m \in S : \A n \in S : m <= n  BY LeastExists
<1>2. m # 0
  <2>1. Fills([n \in 0 .. 0 |-> dst], doc, dst, 0)  BY DEF Fills
  <2> QED  BY <2>1, Zenon
<1>3. m - 1 \in Nat /\ m - 1 \notin S  BY <1>1, <1>2
<1>4. PICK f : Fills(f, doc, dst, m - 1)  BY <1>3
<1> DEFINE e == [n \in 0 .. m |-> IF n = m THEN StructEntry(f[m-1], doc, doc.entries[m]) ELSE f[n]]
<1>5. Fills(e, doc, dst, m)
  <2>1. ASSUME NEW n \in 0 .. m
        PROVE  e[n] = IF n = 0 THEN dst ELSE StructEntry(e[n-1], doc, doc.entries[n])
    <3>1. CASE n = m
      <4>1. e[n-1] = f[m-1]  BY <3>1, <1>2, <1>3
      <4> QED  BY <4>1, <3>1, <1>2
    <3>2. CASE n # m
      <4>1. n \in 0 .. (m - 1)  BY <3>2
      <4>2. f[n] = IF n = 0 THEN dst ELSE StructEntry(f[n-1], doc, doc.entries[n])
        BY <1>4, <4>1, Zenon DEF Fills
      <4>3. n # 0 => e[n-1] = f[n-1]  BY <4>1
      <4> QED  BY <4>2, <4>3, <3>2
    <3> QED  BY <3>1, <3>2
  <2> QED  BY <2>1, Zenon DEF Fills
<1> QED  BY <1>5, <1>1

LEMMA StructEntriesAt ==
    ASSUME NEW doc, NEW dst, Len(doc.entries) \in Nat
    PROVE  /\ StructEntries(doc, dst)[0] = dst
           /\ \A n \in 1 .. Len(doc.entries) :
                  StructEntries(doc, dst)[n] = StructEntry(StructEntries(doc, dst)[n-1], doc, doc.entries[n])
<1> DEFINE f == StructEntries(doc, dst)
<1>1. \E g : Fills(g, doc, dst, Len(doc.entries))  BY FillsExist
<1>2. f = CHOOSE g : Fills(g, doc, dst, Len(doc.entries))  BY Zenon DEF StructEntries, Fills
<1>3. Fills(f, doc, dst, Len(doc.entries))  BY <1>1, <1>2, Zenon
<1> HIDE DEF f
<1>4. f[0] = dst
  <2>1. 0 \in 0 .. Len(doc.entries)  OBVIOUS
  <2> QED  BY <2>1, <1>3 DEF Fills
<1>5. \A n \in 1 .. Len(doc.entries) : f[n] = StructEntry(f[n-1], doc, doc.entries[n])
  <2> SUFFICES ASSUME NEW n \in 1 .. Len(doc.entries) PROVE f[n] = StructEntry(f[n-1], doc, doc.entries[n])  OBVIOUS
  <2>1. n \in 0 .. Len(doc.entries) /\ n # 0  OBVIOUS
  <2> QED  BY <2>1, <1>3, Zenon DEF Fills
<1> QED  BY <1>4, <1>5 DEF f

-----------------------------------------------------------------------------
(* What a typed walk leaves. *)

FillType == [dst : StructType, stop : {"none", "tree", "error"}]
EntryWrites(doc, n, f) ==
    \E i \in 1 .. n : doc.entries[i].field = f /\ doc.entries[i].holds \in {"plain", "repeat"}

ReadTo(st, was, doc, n) ==
    /\ st \in FillType
    /\ \A f \in Field : \/ st.dst.fields[f] = was.dst.fields[f]
                        \/ EntryWrites(doc, n, f) /\ st.dst.fields[f] = doc.id
    /\ st.stop = "none" =>
           /\ was.stop = "none" /\ \A i \in 1 .. n : doc.entries[i].holds \in {"plain", "repeat", "null"}
           /\ \A f \in Field : EntryWrites(doc, n, f) => st.dst.fields[f] = doc.id
    /\ st.stop = "error" => was.stop = "error"

LEMMA SetField ==
    ASSUME NEW dst \in StructType, NEW f \in Field, NEW v \in Nat
    PROVE  /\ Set(dst, f, v) \in StructType
           /\ Set(dst, f, v).fields[f] = v
           /\ \A g \in Field \ {f} : Set(dst, f, v).fields[g] = dst.fields[g]
<1>1. Set(dst, f, v) = [dst EXCEPT !.fields[f] = v]  BY DEF Set
<1>2. PICK fs : fs = [dst.fields EXCEPT ![f] = v]  OBVIOUS
<1>3. dst.fields \in [Field -> Nat \cup {Default}] /\ dst.doc = 0  BY DEF StructType
<1>4. /\ fs \in [Field -> Nat \cup {Default}] /\ fs[f] = v
      /\ \A g \in Field \ {f} : fs[g] = dst.fields[g]
  BY <1>2, <1>3
<1>5. Set(dst, f, v) = [dst EXCEPT !.fields = fs]  BY <1>1, <1>2 DEF StructType
<1>6. Set(dst, f, v) = [doc |-> 0, fields |-> fs]  BY <1>5, <1>3 DEF StructType
<1> QED  BY <1>4, <1>6 DEF StructType

LEMMA EntryWritesMore ==
    ASSUME NEW doc, NEW n \in Nat, n # 0, NEW f
    PROVE  EntryWrites(doc, n, f) <=>
               \/ EntryWrites(doc, n - 1, f)
               \/ doc.entries[n].field = f /\ doc.entries[n].holds \in {"plain", "repeat"}
<1>1. \A i : i \in 1 .. n <=> i \in 1 .. n - 1 \/ i = n  OBVIOUS
<1> QED  BY <1>1 DEF EntryWrites

LEMMA TypedEntryReads ==
    ASSUME NEW doc \in DocType, NEW was \in FillType, NEW n \in 1 .. Len(doc.entries),
           NEW st, ReadTo(st, was, doc, n - 1)
    PROVE  ReadTo(TypedEntry(st, doc, doc.entries[n]), was, doc, n)
<1> DEFINE next == TypedEntry(st, doc, doc.entries[n])
<1>1. PICK e : e = doc.entries[n]  OBVIOUS
<1>2. /\ e \in EntryType /\ e.field \in Field /\ doc.id \in Nat /\ n \in Nat /\ n # 0
      /\ \A i : i \in 1 .. n <=> i \in 1 .. n - 1 \/ i = n
  <2>1. doc.entries \in Seq(EntryType) /\ doc.id \in Nat  BY DEF DocType
  <2>2. doc.entries[n] \in EntryType /\ n \in Nat /\ n # 0
    <3> HIDE DEF EntryType
    <3> QED  BY <2>1
  <2>3. \A i : i \in 1 .. n <=> i \in 1 .. n - 1 \/ i = n  BY <2>2
  <2> QED  BY <2>1, <2>2, <2>3, <1>1 DEF EntryType
<1>3. \A f : EntryWrites(doc, n, f) <=>
                 EntryWrites(doc, n - 1, f) \/ (e.field = f /\ e.holds \in {"plain", "repeat"})
  <2> SUFFICES ASSUME NEW f
               PROVE  EntryWrites(doc, n, f) <=>
                          EntryWrites(doc, n - 1, f) \/ (e.field = f /\ e.holds \in {"plain", "repeat"})
    OBVIOUS
  <2>1. EntryWrites(doc, n, f) <=>
            \/ EntryWrites(doc, n - 1, f)
            \/ doc.entries[n].field = f /\ doc.entries[n].holds \in {"plain", "repeat"}
    BY <1>2, EntryWritesMore
  <2> QED  BY <2>1, <1>1
<1>4. /\ st \in FillType /\ st.dst \in StructType
      /\ \A f \in Field : \/ st.dst.fields[f] = was.dst.fields[f]
                          \/ EntryWrites(doc, n - 1, f) /\ st.dst.fields[f] = doc.id
      /\ st.stop = "none" =>
             /\ was.stop = "none" /\ \A i \in 1 .. n - 1 : doc.entries[i].holds \in {"plain", "repeat", "null"}
             /\ \A f \in Field : EntryWrites(doc, n - 1, f) => st.dst.fields[f] = doc.id
      /\ st.stop = "error" => was.stop = "error"
  BY DEF ReadTo, FillType
<1>5. CASE st.stop # "none"
  <2>1. next = st  BY <1>5 DEF TypedEntry
  <2>2. ReadTo(st, was, doc, n)  BY <1>3, <1>4, <1>5 DEF ReadTo
  <2> QED  BY <2>1, <2>2
<1>6. CASE st.stop = "none" /\ e.holds \in {"plain", "repeat"}
  <2>1. next = [st EXCEPT !.dst = Set(st.dst, e.field, doc.id)]  BY <1>1, <1>6 DEF TypedEntry
  <2>2. PICK dst : dst = Set(st.dst, e.field, doc.id)  OBVIOUS
  <2>3. /\ dst \in StructType /\ dst.fields[e.field] = doc.id
        /\ \A g \in Field \ {e.field} : dst.fields[g] = st.dst.fields[g]
    <3>1. st.dst \in StructType  BY <1>4
    <3>2. e.field \in Field /\ doc.id \in Nat  BY <1>2
    <3>3. PICK old : old = st.dst  OBVIOUS
    <3>4. old \in StructType  BY <3>1, <3>3
    <3>5. /\ Set(old, e.field, doc.id) \in StructType
          /\ Set(old, e.field, doc.id).fields[e.field] = doc.id
          /\ \A g \in Field \ {e.field} : Set(old, e.field, doc.id).fields[g] = old.fields[g]
      BY <3>2, <3>4, SetField
    <3> QED  BY <2>2, <3>3, <3>5
  <2>4. next = [st EXCEPT !.dst = dst]  BY <2>1, <2>2
  <2>5. next \in FillType /\ next.dst = dst /\ next.stop = "none"  BY <2>3, <2>4, <1>4, <1>6 DEF FillType
  <2> HIDE DEF next
  <2>6. ASSUME NEW f \in Field
        PROVE  \/ next.dst.fields[f] = was.dst.fields[f]
               \/ EntryWrites(doc, n, f) /\ next.dst.fields[f] = doc.id
    <3>1. CASE f = e.field
      <4>1. EntryWrites(doc, n, f)  BY <3>1, <1>3, <1>6
      <4>2. next.dst.fields[f] = doc.id  BY <3>1, <2>3, <2>5
      <4> QED  BY <4>1, <4>2
    <3>2. CASE f # e.field
      <4>1. next.dst.fields[f] = st.dst.fields[f]  BY <3>2, <2>3, <2>5
      <4>2. \/ st.dst.fields[f] = was.dst.fields[f]
            \/ EntryWrites(doc, n - 1, f) /\ st.dst.fields[f] = doc.id
        BY <1>4
      <4>3. EntryWrites(doc, n - 1, f) => EntryWrites(doc, n, f)  BY <1>3
      <4> QED  BY <4>1, <4>2, <4>3
    <3> QED  BY <3>1, <3>2
  <2>7. \A i \in 1 .. n : doc.entries[i].holds \in {"plain", "repeat", "null"}
    BY <1>1, <1>2, <1>4, <1>6
  <2>8. \A f \in Field : EntryWrites(doc, n, f) => next.dst.fields[f] = doc.id
    BY <2>3, <2>5, <1>3, <1>4, <1>6
  <2>9. ReadTo(next, was, doc, n)  BY <2>5, <2>6, <2>7, <2>8, <1>4, <1>6 DEF ReadTo
  <2> QED  BY <2>9 DEF next
<1>7. CASE st.stop = "none" /\ e.holds = "null"
  <2>1. next = st  BY <1>1, <1>7 DEF TypedEntry
  <2>2. \A i \in 1 .. n : doc.entries[i].holds \in {"plain", "repeat", "null"}
    BY <1>1, <1>2, <1>4, <1>7
  <2>3. \A f : EntryWrites(doc, n, f) <=> EntryWrites(doc, n - 1, f)  BY <1>3, <1>7
  <2>4. ReadTo(st, was, doc, n)  BY <2>2, <2>3, <1>4, <1>7 DEF ReadTo
  <2> QED  BY <2>1, <2>4
<1>8. CASE st.stop = "none" /\ e.holds \notin {"plain", "repeat", "null"}
  <2>1. next = [st EXCEPT !.stop = "tree"]  BY <1>1, <1>8 DEF TypedEntry
  <2>2. next \in FillType /\ next.dst = st.dst /\ next.stop = "tree"  BY <2>1, <1>4 DEF FillType
  <2> HIDE DEF next
  <2>3. ReadTo(next, was, doc, n)  BY <2>2, <1>3, <1>4 DEF ReadTo
  <2> QED  BY <2>3 DEF next
<1> QED  BY <1>5, <1>6, <1>7, <1>8

LEMMA TypedEntriesRead ==
    ASSUME NEW doc \in DocType, NEW was \in FillType
    PROVE  ReadTo(TypedEntries(was, doc)[Len(doc.entries)], was, doc, Len(doc.entries))
<1> DEFINE f == TypedEntries(was, doc)
           k == Len(doc.entries)
           S == {n \in 0 .. k : ~ ReadTo(f[n], was, doc, n)}
<1>1. k \in Nat  BY DEF DocType
<1>2. f[0] = was /\ \A n \in 1 .. k : f[n] = TypedEntry(f[n-1], doc, doc.entries[n])
  BY <1>1, TypedEntriesAt
<1> HIDE DEF f
<1>3. S = {}
  <2> SUFFICES ASSUME S # {} PROVE FALSE  OBVIOUS
  <2>1. S \in SUBSET Nat  OBVIOUS
  <2>2. PICK m \in S : \A n \in S : m <= n
    <3> HIDE DEF S
    <3> QED  BY <2>1, LeastExists
  <2>3. ReadTo(was, was, doc, 0)
    <3>1. \A i : i \notin 1 .. 0  OBVIOUS
    <3> QED  BY <3>1 DEF ReadTo, EntryWrites
  <2>4. m # 0  BY <2>2, <2>3, <1>2
  <2>5. m \in 1 .. k /\ m - 1 \in 0 .. k /\ m - 1 \notin S  BY <2>2, <2>4, <1>1
  <2>6. ReadTo(f[m-1], was, doc, m - 1)  BY <2>5
  <2>7. ReadTo(TypedEntry(f[m-1], doc, doc.entries[m]), was, doc, m)  BY <2>5, <2>6, TypedEntryReads
  <2>8. ReadTo(f[m], was, doc, m)  BY <2>5, <2>7, <1>2
  <2> QED  BY <2>2, <2>8
<1>4. k \in 0 .. k  BY <1>1
<1>5. ReadTo(f[k], was, doc, k)  BY <1>3, <1>4
<1> QED  BY <1>5 DEF f

DocRead(st, was, doc) ==
    /\ st \in FillType
    /\ \A f \in Field : \/ st.dst.fields[f] = was.dst.fields[f]
                        \/ WritesTyped(doc, f) /\ st.dst.fields[f] = doc.id
    /\ st.stop = "none" =>
           /\ was.stop = "none" /\ doc.kind # "broken"
           /\ ~Has(doc, {"alias", "misfit", "cycle", "repeat"})
           /\ \A f \in Field : WritesTyped(doc, f) => st.dst.fields[f] = doc.id
    /\ st.stop = "error" => was.stop = "error" \/ doc.kind = "broken" \/ Has(doc, {"repeat"})

LEMMA TypedDocumentReads ==
    ASSUME NEW doc \in DocType, NEW was \in FillType
    PROVE  DocRead(TypedDocument(was, doc), was, doc)
<1> DEFINE filled == TypedEntries(was, doc)[Len(doc.entries)]
           next == TypedDocument(was, doc)
           k == Len(doc.entries)
<1>1. ReadTo(filled, was, doc, k)  BY TypedEntriesRead
<1>2. next = IF filled.stop = "none" /\ (doc.kind = "broken" \/ Has(doc, {"repeat"}))
             THEN [filled EXCEPT !.stop = "error"] ELSE filled
  BY DEF TypedDocument
<1> HIDE DEF filled, next
<1>3. DOMAIN doc.entries = 1 .. k /\ \A i \in 1 .. k : doc.entries[i].holds \in Holds
  <2>1. doc.entries \in Seq(EntryType)  BY DEF DocType
  <2>2. \A i \in 1 .. k : doc.entries[i] \in EntryType
    <3> HIDE DEF EntryType
    <3> QED  BY <2>1
  <2> QED  BY <2>1, <2>2 DEF EntryType
<1>4. \A f : WritesTyped(doc, f) <=> EntryWrites(doc, k, f)  BY <1>3 DEF WritesTyped, EntryWrites
<1> HIDE DEF k
<1>5. /\ filled \in FillType
      /\ \A f \in Field : \/ filled.dst.fields[f] = was.dst.fields[f]
                          \/ WritesTyped(doc, f) /\ filled.dst.fields[f] = doc.id
      /\ filled.stop = "error" => was.stop = "error"
      /\ filled.stop = "none" => /\ was.stop = "none"
                                 /\ \A i \in 1 .. k : doc.entries[i].holds \in {"plain", "repeat", "null"}
                                 /\ \A f \in Field : WritesTyped(doc, f) => filled.dst.fields[f] = doc.id
  BY <1>1, <1>4 DEF ReadTo
<1>6. CASE filled.stop = "none" /\ (doc.kind = "broken" \/ Has(doc, {"repeat"}))
  <2>1. next = [filled EXCEPT !.stop = "error"]  BY <1>2, <1>6
  <2>2. next \in FillType /\ next.dst = filled.dst /\ next.stop = "error"  BY <2>1, <1>5 DEF FillType
  <2>3. DocRead(next, was, doc)  BY <2>2, <1>5, <1>6 DEF DocRead
  <2> QED  BY <2>3 DEF next
<1>7. CASE ~(filled.stop = "none" /\ (doc.kind = "broken" \/ Has(doc, {"repeat"})))
  <2>1. next = filled  BY <1>2, <1>7
  <2>2. filled.stop = "none" => ~Has(doc, {"alias", "misfit", "cycle", "repeat"})
    <3> SUFFICES ASSUME filled.stop = "none", NEW i \in DOMAIN doc.entries,
                        doc.entries[i].holds \in {"alias", "misfit", "cycle", "repeat"}
                 PROVE  FALSE
      BY DEF Has
    <3>1. doc.entries[i].holds \in {"plain", "repeat", "null"}  BY <1>3, <1>5
    <3>2. doc.entries[i].holds = "repeat"  BY <3>1
    <3>3. Has(doc, {"repeat"})  BY <3>2 DEF Has
    <3> QED  BY <3>3, <1>7
  <2>3. DocRead(filled, was, doc)  BY <2>2, <1>5, <1>7 DEF DocRead
  <2> QED  BY <2>1, <2>3 DEF next
<1> QED  BY <1>6, <1>7

WalkedTo(st, docs, n) ==
    /\ st \in FillType /\ Spared(st.dst, docs, n)
    /\ st.stop = "none" => Served(st.dst, docs, n)
    /\ st.stop = "error" => \E j \in 1 .. n : docs[j].kind = "broken" \/ Has(docs[j], {"repeat"})

LEMMA TypedDocumentWalks ==
    ASSUME NEW docs \in Seq(DocType), NEW n \in 1 .. Len(docs), NEW was, WalkedTo(was, docs, n - 1)
    PROVE  WalkedTo(TypedDocument(was, docs[n]), docs, n)
<1>1. PICK doc : doc = docs[n]  OBVIOUS
<1>2. doc \in DocType /\ n \in Nat /\ n \in 1 .. n /\ \A j : j \in 1 .. n <=> j \in 1 .. n - 1 \/ j = n
  <2>1. doc \in DocType  BY <1>1
  <2>2. n \in Nat /\ n # 0  OBVIOUS
  <2>3. n \in 1 .. n /\ \A j : j \in 1 .. n <=> j \in 1 .. n - 1 \/ j = n  BY <2>2
  <2> QED  BY <2>1, <2>2, <2>3
<1>3. PICK st : st = TypedDocument(was, doc)  OBVIOUS
<1>4. was \in FillType  BY DEF WalkedTo
<1>5. DocRead(st, was, doc)  BY <1>2, <1>3, <1>4, TypedDocumentReads
<1>6. ASSUME NEW f \in Field, st.dst.fields[f] = was.dst.fields[f], FromDocs(was.dst, docs, n - 1, f)
      PROVE  FromDocs(st.dst, docs, n, f)
  BY <1>2, <1>6 DEF FromDocs
<1>7. ASSUME NEW f \in Field, WritesTyped(doc, f), st.dst.fields[f] = doc.id
      PROVE  FromDocs(st.dst, docs, n, f)
  BY <1>1, <1>2, <1>7 DEF FromDocs
<1>8. Spared(st.dst, docs, n)
  <2>1. st.dst \in StructType  BY <1>5 DEF DocRead, FillType
  <2>2. ASSUME NEW f \in Field PROVE st.dst.fields[f] = Default \/ FromDocs(st.dst, docs, n, f)
    <3>1. CASE st.dst.fields[f] = was.dst.fields[f]
      <4>1. was.dst.fields[f] = Default \/ FromDocs(was.dst, docs, n - 1, f)  BY DEF WalkedTo, Spared
      <4> QED  BY <4>1, <3>1, <1>6
    <3>2. CASE WritesTyped(doc, f) /\ st.dst.fields[f] = doc.id  BY <3>2, <1>7
    <3> QED  BY <3>1, <3>2, <1>5 DEF DocRead
  <2> QED  BY <2>1, <2>2 DEF Spared
<1>9. ASSUME st.stop = "none" PROVE Served(st.dst, docs, n)
  <2>1. /\ was.stop = "none" /\ doc.kind # "broken" /\ ~Has(doc, {"alias", "misfit", "cycle", "repeat"})
        /\ \A f \in Field : WritesTyped(doc, f) => st.dst.fields[f] = doc.id
    BY <1>5, <1>9 DEF DocRead
  <2>2. Served(was.dst, docs, n - 1)  BY <2>1 DEF WalkedTo
  <2>3. ASSUME NEW j \in 1 .. n
        PROVE  docs[j].kind # "broken" /\ ~Has(docs[j], {"alias", "misfit", "cycle", "repeat"})
    <3>1. CASE j = n  BY <3>1, <2>1, <1>1
    <3>2. CASE j # n
      <4>1. j \in 1 .. n - 1  BY <3>2, <1>2
      <4> QED  BY <4>1, <2>2 DEF Served
    <3> QED  BY <3>1, <3>2
  <2>4. ASSUME NEW j \in 1 .. n, NEW f \in Field, WritesTyped(docs[j], f)
        PROVE  FromDocs(st.dst, docs, n, f)
    <3>1. CASE WritesTyped(doc, f)  BY <3>1, <2>1, <1>7
    <3>2. CASE ~WritesTyped(doc, f)
      <4>1. j \in 1 .. n - 1  BY <3>2, <2>4, <1>1, <1>2
      <4>2. FromDocs(was.dst, docs, n - 1, f)  BY <4>1, <2>2, <2>4 DEF Served
      <4>3. st.dst.fields[f] = was.dst.fields[f]  BY <3>2, <1>5 DEF DocRead
      <4> QED  BY <4>2, <4>3, <1>6
    <3> QED  BY <3>1, <3>2
  <2> QED  BY <2>3, <2>4 DEF Served
<1>10. ASSUME st.stop = "error" PROVE \E j \in 1 .. n : docs[j].kind = "broken" \/ Has(docs[j], {"repeat"})
  <2>1. was.stop = "error" \/ doc.kind = "broken" \/ Has(doc, {"repeat"})  BY <1>5, <1>10 DEF DocRead
  <2>2. CASE was.stop = "error"
    <3>1. PICK j \in 1 .. n - 1 : docs[j].kind = "broken" \/ Has(docs[j], {"repeat"})
      BY <2>2 DEF WalkedTo
    <3> QED  BY <3>1, <1>2
  <2>3. CASE doc.kind = "broken" \/ Has(doc, {"repeat"})  BY <2>3, <1>1, <1>2
  <2> QED  BY <2>1, <2>2, <2>3
<1>11. st \in FillType  BY <1>5 DEF DocRead
<1>12. WalkedTo(st, docs, n)  BY <1>8, <1>9, <1>10, <1>11, Zenon DEF WalkedTo
<1> QED  BY <1>1, <1>3, <1>12

LEMMA FreshStruct ==
    Fresh("struct") \in StructType /\ \A f \in Field : Fresh("struct").fields[f] = Default
BY DEF Fresh, StructType

LEMMA WalkIntoLeaves ==
    ASSUME NEW docs \in Seq(DocType)
    PROVE  WalkedTo(WalkInto(docs, Fresh("struct")), docs, Len(docs))
<1> DEFINE dst == Fresh("struct")
           f == TypedDocuments(docs, dst)
           k == Len(docs)
           S == {n \in 0 .. k : ~ WalkedTo(f[n], docs, n)}
<1>1. k \in Nat  OBVIOUS
<1>2. f[0] = [dst |-> dst, stop |-> "none"] /\ \A n \in 1 .. k : f[n] = TypedDocument(f[n-1], docs[n])
  <2> HIDE DEF dst
  <2> QED  BY <1>1, TypedDocumentsAt
<1>3. WalkInto(docs, dst) = f[k]  BY DEF WalkInto
<1>4. dst \in StructType /\ \A g \in Field : dst.fields[g] = Default  BY FreshStruct
<1> HIDE DEF f, dst
<1>5. S = {}
  <2> SUFFICES ASSUME S # {} PROVE FALSE  OBVIOUS
  <2>1. S \in SUBSET Nat  OBVIOUS
  <2>2. PICK m \in S : \A n \in S : m <= n
    <3> HIDE DEF S
    <3> QED  BY <2>1, LeastExists
  <2>3. WalkedTo(f[0], docs, 0)
    <3>1. f[0].dst = dst /\ f[0].stop = "none" /\ f[0] \in FillType  BY <1>2, <1>4 DEF FillType
    <3>2. \A i : i \notin 1 .. 0  OBVIOUS
    <3> QED  BY <3>1, <3>2, <1>4 DEF WalkedTo, Spared, Served
  <2>4. m # 0  BY <2>2, <2>3
  <2>5. m \in 1 .. k /\ m - 1 \in 0 .. k /\ m - 1 \notin S  BY <2>2, <2>4, <1>1
  <2>6. WalkedTo(f[m-1], docs, m - 1)  BY <2>5
  <2>7. WalkedTo(TypedDocument(f[m-1], docs[m]), docs, m)  BY <2>5, <2>6, TypedDocumentWalks
  <2>8. WalkedTo(f[m], docs, m)  BY <2>5, <2>7, <1>2
  <2> QED  BY <2>2, <2>8
<1>6. k \in 0 .. k  BY <1>1
<1>7. WalkedTo(f[k], docs, k)  BY <1>5, <1>6
<1> QED  BY <1>3, <1>7 DEF dst

LEMMA NothingWalked ==
    ASSUME NEW dst
    PROVE  WalkInto(<<>>, dst).stop = "none"
<1>1. Len(<<>>) = 0  OBVIOUS
<1>2. TypedDocuments(<<>>, dst)[0] = [dst |-> dst, stop |-> "none"]  BY <1>1, TypedDocumentsAt
<1>3. WalkInto(<<>>, dst) = [dst |-> dst, stop |-> "none"]  BY <1>1, <1>2 DEF WalkInto
<1> QED  BY <1>3

-----------------------------------------------------------------------------
(* What the tree writes into a struct. *)

EntryFills(doc, n, f) ==
    \E i \in 1 .. n : doc.entries[i].field = f /\ doc.entries[i].holds \in {"plain", "alias"}
FilledTo(dst, was, doc, n) ==
    /\ dst \in StructType
    /\ \A f \in Field : EntryFills(doc, n, f) => dst.fields[f] = doc.id
    /\ \A f \in Field : ~EntryFills(doc, n, f) => dst.fields[f] = was.fields[f]

LEMMA EntryFillsMore ==
    ASSUME NEW doc, NEW n \in Nat, n # 0, NEW f
    PROVE  EntryFills(doc, n, f) <=>
               \/ EntryFills(doc, n - 1, f)
               \/ doc.entries[n].field = f /\ doc.entries[n].holds \in {"plain", "alias"}
<1>1. \A i : i \in 1 .. n <=> i \in 1 .. n - 1 \/ i = n  OBVIOUS
<1> QED  BY <1>1 DEF EntryFills

LEMMA StructEntryFills ==
    ASSUME NEW doc \in DocType, NEW was, NEW n \in 1 .. Len(doc.entries),
           NEW dst, FilledTo(dst, was, doc, n - 1)
    PROVE  FilledTo(StructEntry(dst, doc, doc.entries[n]), was, doc, n)
<1> DEFINE next == StructEntry(dst, doc, doc.entries[n])
<1>1. PICK e : e = doc.entries[n]  OBVIOUS
<1>2. e \in EntryType /\ e.field \in Field /\ doc.id \in Nat /\ n \in Nat /\ n # 0
  <2>1. doc.entries \in Seq(EntryType) /\ doc.id \in Nat  BY DEF DocType
  <2>2. doc.entries[n] \in EntryType /\ n \in Nat /\ n # 0
    <3> HIDE DEF EntryType
    <3> QED  BY <2>1
  <2> QED  BY <2>1, <2>2, <1>1 DEF EntryType
<1>3. ASSUME NEW f
      PROVE  EntryFills(doc, n, f) <=>
                 EntryFills(doc, n - 1, f) \/ (e.field = f /\ e.holds \in {"plain", "alias"})
  <2>1. EntryFills(doc, n, f) <=>
            \/ EntryFills(doc, n - 1, f)
            \/ doc.entries[n].field = f /\ doc.entries[n].holds \in {"plain", "alias"}
    BY <1>2, EntryFillsMore
  <2> QED  BY <2>1, <1>1
<1>4. /\ dst \in StructType
      /\ \A f \in Field : EntryFills(doc, n - 1, f) => dst.fields[f] = doc.id
      /\ \A f \in Field : ~EntryFills(doc, n - 1, f) => dst.fields[f] = was.fields[f]
  BY DEF FilledTo
<1>5. CASE e.holds \in {"plain", "alias"}
  <2>1. next = Set(dst, e.field, doc.id)  BY <1>1, <1>5 DEF StructEntry
  <2>2. /\ next \in StructType /\ next.fields[e.field] = doc.id
        /\ \A g \in Field \ {e.field} : next.fields[g] = dst.fields[g]
    <3> HIDE DEF next
    <3>1. dst \in StructType  BY <1>4
    <3>2. e.field \in Field /\ doc.id \in Nat  BY <1>2
    <3>3. /\ Set(dst, e.field, doc.id) \in StructType
          /\ Set(dst, e.field, doc.id).fields[e.field] = doc.id
          /\ \A g \in Field \ {e.field} : Set(dst, e.field, doc.id).fields[g] = dst.fields[g]
      BY <3>1, <3>2, SetField
    <3> QED  BY <2>1, <3>3
  <2> HIDE DEF next
  <2>3. ASSUME NEW f \in Field PROVE /\ EntryFills(doc, n, f) => next.fields[f] = doc.id
                                     /\ ~EntryFills(doc, n, f) => next.fields[f] = was.fields[f]
    <3>1. CASE f = e.field
      <4>1. EntryFills(doc, n, f)  BY <3>1, <1>3, <1>5
      <4> QED  BY <4>1, <3>1, <2>2
    <3>2. CASE f # e.field
      <4>1. EntryFills(doc, n, f) <=> EntryFills(doc, n - 1, f)  BY <3>2, <1>3
      <4>2. next.fields[f] = dst.fields[f]  BY <3>2, <2>2
      <4> QED  BY <4>1, <4>2, <1>4
    <3> QED  BY <3>1, <3>2
  <2>4. FilledTo(next, was, doc, n)  BY <2>2, <2>3 DEF FilledTo
  <2> QED  BY <2>4 DEF next
<1>6. CASE e.holds \notin {"plain", "alias"}
  <2>1. next = dst  BY <1>1, <1>6 DEF StructEntry
  <2>2. \A f : EntryFills(doc, n, f) <=> EntryFills(doc, n - 1, f)  BY <1>3, <1>6
  <2>3. FilledTo(dst, was, doc, n)  BY <2>2, <1>4 DEF FilledTo
  <2> QED  BY <2>1, <2>3
<1> QED  BY <1>5, <1>6

LEMMA StructFills ==
    ASSUME NEW doc \in DocType, NEW was \in StructType
    PROVE  LET dst == StructFilled(doc, was)
           IN  /\ dst \in StructType
               /\ \A f \in Field : Writes(doc, f) => dst.fields[f] = doc.id
               /\ \A f \in Field : ~Writes(doc, f) => dst.fields[f] = was.fields[f]
<1> DEFINE f == StructEntries(doc, was)
           k == Len(doc.entries)
           S == {n \in 0 .. k : ~ FilledTo(f[n], was, doc, n)}
<1>1. k \in Nat /\ DOMAIN doc.entries = 1 .. k
  <2>1. doc.entries \in Seq(EntryType)  BY DEF DocType
  <2> HIDE DEF EntryType
  <2> QED  BY <2>1
<1>2. f[0] = was /\ \A n \in 1 .. k : f[n] = StructEntry(f[n-1], doc, doc.entries[n])
  BY <1>1, StructEntriesAt
<1>3. StructFilled(doc, was) = f[k]  BY DEF StructFilled
<1> HIDE DEF f
<1>4. S = {}
  <2> SUFFICES ASSUME S # {} PROVE FALSE  OBVIOUS
  <2>1. S \in SUBSET Nat  OBVIOUS
  <2>2. PICK m \in S : \A n \in S : m <= n
    <3> HIDE DEF S
    <3> QED  BY <2>1, LeastExists
  <2>3. FilledTo(was, was, doc, 0)
    <3>1. \A i : i \notin 1 .. 0  OBVIOUS
    <3> QED  BY <3>1 DEF FilledTo, EntryFills
  <2>4. m # 0  BY <2>2, <2>3, <1>2
  <2>5. m \in 1 .. k /\ m - 1 \in 0 .. k /\ m - 1 \notin S  BY <2>2, <2>4, <1>1
  <2>6. FilledTo(f[m-1], was, doc, m - 1)  BY <2>5
  <2>7. FilledTo(StructEntry(f[m-1], doc, doc.entries[m]), was, doc, m)  BY <2>5, <2>6, StructEntryFills
  <2>8. FilledTo(f[m], was, doc, m)  BY <2>5, <2>7, <1>2
  <2> QED  BY <2>2, <2>8
<1>5. k \in 0 .. k  BY <1>1
<1>6. FilledTo(f[k], was, doc, k)  BY <1>4, <1>5
<1>7. \A g : Writes(doc, g) <=> EntryFills(doc, k, g)  BY <1>1 DEF Writes, EntryFills
<1> QED  BY <1>3, <1>6, <1>7 DEF FilledTo

-----------------------------------------------------------------------------
(* What the operations of a Decoder leave of it. *)

Alike(e, d) ==
    /\ e.redelivers = d.redelivers /\ e.reader = d.reader /\ e.src = d.src
    /\ e.streamIndex = d.streamIndex
Idle(d) == d \in DecType /\ ~d.typedWalk /\ ~d.parsed /\ ~d.walkedOK /\ d.books = <<>>

LEMMA DecFields ==
    ASSUME NEW d \in DecType
    PROVE  /\ d.redelivers \in BOOLEAN /\ d.reader \in Seq(DocType) /\ d.src \in Seq(DocType)
           /\ d.walked \in Seq(WalkedType) /\ d.walkedOK \in BOOLEAN /\ d.typedWalk \in BOOLEAN
           /\ d.parsed \in BOOLEAN /\ d.docs \in Seq(DocType) /\ d.books \in Seq(Nat) /\ d.book \in Nat
           /\ d.streamIndex \in 0 .. MaxDocs + 1
BY DEF DecType

LEMMA BooksOf ==
    ASSUME NEW docs \in Seq(DocType)
    PROVE  LET books == [i \in DOMAIN docs |-> docs[i].id]
           IN  books \in Seq(Nat) /\ <<>> \o books = books
<1> DEFINE books == [i \in DOMAIN docs |-> docs[i].id]
<1>1. DOMAIN docs = 1 .. Len(docs) /\ Len(docs) \in Nat  OBVIOUS
<1>2. \A i \in DOMAIN docs : docs[i].id \in Nat
  <2> SUFFICES ASSUME NEW i \in DOMAIN docs PROVE docs[i].id \in Nat  OBVIOUS
  <2>1. docs[i] \in DocType
    <3> HIDE DEF DocType
    <3> QED  OBVIOUS
  <2> QED  BY <2>1 DEF DocType
<1>3. books \in [1 .. Len(docs) -> Nat]  BY <1>1, <1>2
<1> HIDE DEF books
<1>4. books \in Seq(Nat)  BY <1>1, <1>3
<1> QED  BY <1>4, ConcatEmptySeq DEF books

LEMMA ParsedShape ==
    ASSUME NEW d \in DecType, d.books = <<>>
    PROVE  LET e == Parsed(d)
               docs == HoldingAValue(d.src)
           IN  /\ e \in DecType /\ Alike(e, d) /\ e.typedWalk = d.typedWalk /\ e.walkedOK = d.walkedOK
               /\ e.parsed /\ e.docs = docs /\ e.books = [i \in DOMAIN docs |-> docs[i].id]
<1>1. PICK docs : docs = HoldingAValue(d.src)  OBVIOUS
<1>2. PICK books : books = [i \in DOMAIN docs |-> docs[i].id]  OBVIOUS
<1>3. d.src \in Seq(DocType)  BY DEF DecType
<1>4. docs \in Seq(DocType)  BY <1>1, <1>3, ValuedIs
<1>5. books \in Seq(Nat) /\ <<>> \o books = books  BY <1>2, <1>4, BooksOf
<1>6. Parsed(d) = [d EXCEPT !.parsed = TRUE, !.docs = docs, !.books = <<>> \o books]
  BY <1>1, <1>2 DEF Parsed
<1>7. Parsed(d) = [d EXCEPT !.parsed = TRUE, !.docs = docs, !.books = books]  BY <1>5, <1>6
<1>8. PICK e : e = Parsed(d)  OBVIOUS
<1>9. /\ e \in DecType /\ e.parsed /\ e.docs = docs /\ e.books = books
      /\ e.typedWalk = d.typedWalk /\ e.walkedOK = d.walkedOK /\ Alike(e, d)
  BY <1>4, <1>5, <1>7, <1>8 DEF DecType, Alike
<1> QED  BY <1>1, <1>2, <1>8, <1>9

LEMMA ParsedStands ==
    ASSUME NEW d, Idle(d)
    PROVE  Stands(Parsed(d)) /\ Parsed(d).parsed /\ Alike(Parsed(d), d)
<1>1. PICK e : e = Parsed(d)  OBVIOUS
<1>2. PICK docs : docs = HoldingAValue(d.src)  OBVIOUS
<1>3. /\ e \in DecType /\ Alike(e, d) /\ ~e.typedWalk /\ ~e.walkedOK
      /\ e.parsed /\ e.docs = docs /\ e.books = [i \in DOMAIN docs |-> docs[i].id]
  BY <1>1, <1>2, ParsedShape DEF Idle
<1>4. e.src = d.src  BY <1>3 DEF Alike
<1>5. Stands(e)  BY <1>2, <1>3, <1>4 DEF Stands
<1> QED  BY <1>1, <1>3, <1>5

LEMMA BuildTreeStands ==
    ASSUME NEW d, Stands(d), ~d.parsed
    PROVE  Stands(BuildTree(d)) /\ BuildTree(d).parsed /\ Alike(BuildTree(d), d)
<1>1. PICK p : p = Parsed(d)  OBVIOUS
<1>2. PICK docs : docs = HoldingAValue(d.src)  OBVIOUS
<1>3. /\ p \in DecType /\ Alike(p, d) /\ ~p.typedWalk
      /\ p.parsed /\ p.docs = docs /\ p.books = [i \in DOMAIN docs |-> docs[i].id]
  BY <1>1, <1>2, ParsedShape DEF Stands
<1>4. PICK e : e = BuildTree(d)  OBVIOUS
<1>5. e = [p EXCEPT !.walked = <<>>, !.walkedOK = FALSE]  BY <1>1, <1>4 DEF BuildTree
<1>6. /\ e \in DecType /\ ~e.walkedOK /\ e.typedWalk = p.typedWalk /\ e.parsed = p.parsed
      /\ e.docs = p.docs /\ e.books = p.books /\ Alike(e, p)
  <2>1. p \in DecType  BY <1>3
  <2>2. PICK none : none = <<>>  OBVIOUS
  <2>3. none \in Seq(WalkedType)
    <3> HIDE DEF WalkedType
    <3> QED  BY <2>2
  <2>4. e = [p EXCEPT !.walked = none, !.walkedOK = FALSE]  BY <2>2, <1>5
  <2> QED  BY <2>1, <2>3, <2>4 DEF DecType, Alike
<1>7. e.src = d.src /\ Alike(e, d)  BY <1>3, <1>6 DEF Alike
<1>8. Stands(e)  BY <1>2, <1>3, <1>6, <1>7 DEF Stands
<1> QED  BY <1>3, <1>4, <1>6, <1>7, <1>8

LEMMA NextShape ==
    ASSUME NEW d \in DecType
    PROVE  LET e == Next1(d)
           IN  /\ e \in DecType /\ e.redelivers = d.redelivers /\ e.reader = d.reader /\ e.src = d.src
               /\ e.walked = d.walked /\ e.walkedOK = d.walkedOK /\ e.typedWalk = d.typedWalk
               /\ e.parsed = d.parsed /\ e.docs = d.docs /\ e.books = d.books /\ e.book = d.book
               /\ d.streamIndex <= MaxDocs => e.streamIndex = d.streamIndex + 1
               /\ d.streamIndex > MaxDocs => e.streamIndex = d.streamIndex
<1>1. PICK n : n = IF d.streamIndex > MaxDocs THEN d.streamIndex ELSE d.streamIndex + 1  OBVIOUS
<1>2. d.streamIndex \in 0 .. MaxDocs + 1 /\ MaxDocs \in Nat  BY DecoderStreamAssumption DEF DecType
<1>3. n \in 0 .. MaxDocs + 1  BY <1>1, <1>2
<1>4. PICK e : e = Next1(d)  OBVIOUS
<1>5. e = [d EXCEPT !.streamIndex = n]  BY <1>1, <1>4 DEF Next1
<1>6. /\ e \in DecType /\ e.redelivers = d.redelivers /\ e.reader = d.reader /\ e.src = d.src
      /\ e.walked = d.walked /\ e.walkedOK = d.walkedOK /\ e.typedWalk = d.typedWalk
      /\ e.parsed = d.parsed /\ e.docs = d.docs /\ e.books = d.books /\ e.book = d.book
      /\ e.streamIndex = n
  BY <1>3, <1>5 DEF DecType
<1>7. /\ d.streamIndex <= MaxDocs => n = d.streamIndex + 1
      /\ d.streamIndex > MaxDocs => n = d.streamIndex
  BY <1>1, <1>2
<1> QED  BY <1>4, <1>6, <1>7

-----------------------------------------------------------------------------
(* A document that comes off what was read. *)

LEMMA ValuedSource ==
    ASSUME NEW s, SourceOK(s)
    PROVE  LET v == HoldingAValue(s)
           IN  /\ v \in Seq(DocType) /\ Len(v) \in Nat /\ Len(v) <= MaxDocs /\ DOMAIN v = 1 .. Len(v)
               /\ \A i \in DOMAIN v : v[i] \in DocType
               /\ \A j \in DOMAIN s : s[j].kind # "none" => \E i \in DOMAIN v : v[i] = s[j]
<1> DEFINE v == HoldingAValue(s)
<1>1. s \in Seq(DocType) /\ Len(s) <= MaxDocs /\ Len(s) \in Nat  BY DEF SourceOK
<1>2. /\ v \in Seq(DocType) /\ Len(v) <= Len(s)
      /\ \A j \in DOMAIN s : s[j].kind # "none" => \E i \in DOMAIN v : v[i] = s[j]
  BY <1>1, ValuedIs
<1> HIDE DEF v
<1>3. Len(v) \in Nat /\ DOMAIN v = 1 .. Len(v)  BY <1>2
<1>4. \A i \in DOMAIN v : v[i] \in DocType
  <2> HIDE DEF DocType
  <2> QED  BY <1>2
<1>5. Len(v) <= MaxDocs  BY <1>1, <1>2, <1>3, DecoderStreamAssumption
<1> QED  BY <1>2, <1>3, <1>4, <1>5 DEF v

LEMMA WrittenIsValued ==
    ASSUME NEW s, SourceOK(s), NEW j \in DOMAIN s, NEW f, WritesTyped(s[j], f)
    PROVE  \E i \in DOMAIN HoldingAValue(s) : HoldingAValue(s)[i] = s[j]
<1>1. PICK v : v = HoldingAValue(s)  OBVIOUS
<1>2. s[j].kind # "none" => \E i \in DOMAIN v : v[i] = s[j]  BY <1>1, ValuedSource
<1>3. s[j].kind = "mapping"
  <2> SUFFICES ASSUME s[j].kind # "mapping" PROVE FALSE  OBVIOUS
  <2>1. s[j].entries = <<>>  BY DEF SourceOK
  <2>2. DOMAIN s[j].entries = {}  BY <2>1
  <2> QED  BY <2>2 DEF WritesTyped
<1> QED  BY <1>1, <1>2, <1>3

LEMMA OneDocument ==
    ASSUME NEW s, SourceOK(s), Len(HoldingAValue(s)) = 1, NEW j \in DOMAIN s, NEW f, WritesTyped(s[j], f)
    PROVE  s[j] = HoldingAValue(s)[1]
<1>1. PICK v : v = HoldingAValue(s)  OBVIOUS
<1>2. DOMAIN v = 1 .. 1  BY <1>1, ValuedSource
<1>3. PICK i \in DOMAIN v : v[i] = s[j]  BY <1>1, WrittenIsValued
<1>4. i = 1  BY <1>2, <1>3
<1> QED  BY <1>1, <1>3, <1>4

(* What a typed walk that gave up wrote is the first document's own, or of *)
(* a later one.                                                            *)
LEMMA SparedLeaves ==
    ASSUME NEW s, SourceOK(s), NEW dst, Spared(dst, s, Len(s)), NEW f \in Field,
           ~WritesTyped(HoldingAValue(s)[1], f)
    PROVE  dst.fields[f] = Default \/ LeftBehind(HoldingAValue(s), 1, f, dst.fields[f])
<1>1. CASE dst.fields[f] = Default  BY <1>1
<1>2. CASE FromDocs(dst, s, Len(s), f)
  <2>1. PICK j \in 1 .. Len(s) : WritesTyped(s[j], f) /\ dst.fields[f] = s[j].id  BY <1>2 DEF FromDocs
  <2>2. j \in DOMAIN s  BY <2>1 DEF SourceOK
  <2>3. PICK v : v = HoldingAValue(s)  OBVIOUS
  <2>4. PICK k \in DOMAIN v : v[k] = s[j]  BY <2>1, <2>2, <2>3, WrittenIsValued
  <2>5. WritesTyped(v[k], f) /\ dst.fields[f] = v[k].id  BY <2>1, <2>4
  <2>6. k # 1  BY <2>3, <2>5
  <2> QED  BY <2>3, <2>5, <2>6 DEF LeftBehind
<1> QED  BY <1>1, <1>2 DEF Spared

LEMMA SparedFields ==
    ASSUME NEW s, SourceOK(s), NEW dst, Spared(dst, s, Len(s)), Len(HoldingAValue(s)) = 1, NEW f \in Field
    PROVE  LET doc == HoldingAValue(s)[1]
           IN  dst.fields[f] = Default \/ (WritesTyped(doc, f) /\ dst.fields[f] = doc.id)
<1>1. CASE dst.fields[f] = Default  BY <1>1
<1>2. CASE FromDocs(dst, s, Len(s), f)
  <2>1. PICK j \in 1 .. Len(s) : WritesTyped(s[j], f) /\ dst.fields[f] = s[j].id  BY <1>2 DEF FromDocs
  <2>2. j \in DOMAIN s  BY <2>1 DEF SourceOK
  <2>3. s[j] = HoldingAValue(s)[1]  BY <2>1, <2>2, OneDocument
  <2> QED  BY <2>1, <2>3
<1> QED  BY <1>1, <1>2 DEF Spared

LEMMA StructRight ==
    ASSUME NEW s, SourceOK(s), NEW i \in DOMAIN HoldingAValue(s),
           ~Has(HoldingAValue(s)[i], {"repeat"}), HoldingAValue(s)[i].kind # "empty",
           NEW dst \in StructType,
           i = 1 => Spared(dst, s, Len(s)),
           i # 1 => \A f \in Field : dst.fields[f] = Default,
           NEW a, a.to = "struct", a.by = "tree", a.value = StructFilled(HoldingAValue(s)[i], dst)
    PROVE  Right(a, i, s) /\ a.value \in StructType
<1>1. PICK v : v = HoldingAValue(s)  OBVIOUS
<1>2. PICK doc : doc = v[i]  OBVIOUS
<1>3. i \in 1 .. Len(v) /\ Len(v) \in Nat /\ doc \in DocType  BY <1>1, <1>2, ValuedSource
<1>4. /\ a.value \in StructType
      /\ \A f \in Field : Writes(doc, f) => a.value.fields[f] = doc.id
      /\ \A f \in Field : ~Writes(doc, f) => a.value.fields[f] = dst.fields[f]
  BY <1>1, <1>2, <1>3, StructFills
<1>5. Hands(a, doc)
  <2>1. doc.kind # "empty"  BY <1>1, <1>2
  <2> QED  BY <2>1, <1>4 DEF Hands
<1>6. ASSUME NEW f \in Field, ~Writes(doc, f)
      PROVE  dst.fields[f] = Default \/ LeftBehind(v, i, f, dst.fields[f])
  <2>1. CASE i # 1  BY <2>1
  <2>2. CASE i = 1
    <3>1. ~WritesTyped(doc, f)
      <4> SUFFICES ASSUME NEW k \in DOMAIN doc.entries, doc.entries[k].field = f,
                          doc.entries[k].holds \in {"plain", "repeat"}
                   PROVE  FALSE
        BY DEF WritesTyped
      <4>1. doc.entries[k].holds # "repeat"  BY <1>1, <1>2 DEF Has
      <4>2. doc.entries[k].holds \in {"plain", "alias"}  BY <4>1
      <4> QED  BY <4>2, <1>6 DEF Writes
    <3> QED  BY <2>2, <3>1, <1>1, <1>2, SparedLeaves
  <2> QED  BY <2>1, <2>2
<1>7. KeepsFields(a, i, s)
  <2> SUFFICES ASSUME NEW f \in Field
               PROVE  /\ Writes(doc, f) => a.value.fields[f] = doc.id
                      /\ ~Writes(doc, f) => \/ a.value.fields[f] = Default
                                           \/ LeftBehind(v, i, f, a.value.fields[f])
    BY <1>1, <1>2 DEF KeepsFields
  <2>1. Writes(doc, f) => a.value.fields[f] = doc.id  BY <1>4
  <2>2. ASSUME ~Writes(doc, f)
        PROVE  a.value.fields[f] = Default \/ LeftBehind(v, i, f, a.value.fields[f])
    <3>1. a.value.fields[f] = dst.fields[f]  BY <2>2, <1>4
    <3> QED  BY <2>2, <3>1, <1>6
  <2> QED  BY <2>1, <2>2
<1>8. i <= Len(v)  BY <1>3
<1> QED  BY <1>1, <1>2, <1>4, <1>5, <1>7, <1>8 DEF Right

(* What a Decoder must be in to decode, and what a decoding must be. *)
Prepared(d, s, ans, to, dst) ==
    /\ Stands(d) /\ IsInitialized(d) /\ AtHand(d, s, ans) /\ d.streamIndex = Len(ans)
    /\ to = "struct" => /\ dst \in StructType
                        /\ d.streamIndex = 0 => Spared(dst, d.src, Len(d.src))
                        /\ d.streamIndex # 0 => \A f \in Field : dst.fields[f] = Default
Outcome(r, d, s, ans, to) ==
    /\ Stands(r.d) /\ IsInitialized(r.d) /\ r.d.src = d.src /\ r.d.reader = d.reader
    /\ r.result \in {"value", "eof", "error"}
    /\ r.result # "value" => r.d.streamIndex = Len(ans)
    /\ r.result = "eof" => Len(HoldingAValue(d.src)) <= Len(ans)
    /\ r.result = "value" =>
           /\ r.by \in {"walk", "tree"} /\ r.dst \in StructType \cup WalkedType
           /\ Len(ans) < MaxDocs /\ r.d.streamIndex = Len(ans) + 1
           /\ Right(Answer(to, r), Len(ans) + 1, s)
           /\ r.by = "tree" /\ r.dst # Null =>
                  /\ r.d.parsed /\ r.d.streamIndex \in DOMAIN r.d.docs
                  /\ r.d.book = r.d.docs[r.d.streamIndex].id

LEMMA HeldSource ==
    ASSUME NEW s, SourceOK(s), NEW d, NEW ans, AtHand(d, s, ans),
           NEW i \in Nat \ {0}, i <= Len(HoldingAValue(d.src))
    PROVE  d.src = s /\ i \in DOMAIN HoldingAValue(s) /\ i <= MaxDocs
<1>1. CASE d.src = s
  <2>1. PICK v : v = HoldingAValue(s)  OBVIOUS
  <2>2. Len(v) \in Nat /\ Len(v) <= MaxDocs /\ DOMAIN v = 1 .. Len(v)  BY <2>1, ValuedSource
  <2>3. i <= Len(v)  BY <2>1, <1>1
  <2> QED  BY <2>1, <2>2, <2>3, <1>1, DecoderStreamAssumption
<1>2. CASE d.src = <<>>
  <2>1. Len(HoldingAValue(d.src)) = 0  BY <1>2, NothingValued
  <2> QED  BY <2>1
<1> QED  BY <1>1, <1>2 DEF AtHand

LEMMA EmptyRight ==
    ASSUME NEW s, SourceOK(s), NEW i \in DOMAIN HoldingAValue(s), IsEmptyDocument(HoldingAValue(s)[i]),
           NEW a, a.value = Null
    PROVE  Right(a, i, s)
<1>1. i <= Len(HoldingAValue(s))  BY ValuedSource
<1> QED  BY <1>1 DEF Right, Hands, KeepsFields, IsEmptyDocument

LEMMA WholeRight ==
    ASSUME NEW s, SourceOK(s), NEW i \in DOMAIN HoldingAValue(s), ~IsEmptyDocument(HoldingAValue(s)[i]),
           NEW a, a.value = Whole(HoldingAValue(s)[i]), a.to # "struct"
    PROVE  Right(a, i, s)
<1>1. i <= Len(HoldingAValue(s))  BY ValuedSource
<1> QED  BY <1>1 DEF Right, Hands, KeepsFields, IsEmptyDocument

LEMMA HandWalkedRight ==
    ASSUME NEW s, SourceOK(s), NEW d, NEW ans, NEW to, NEW dst, Prepared(d, s, ans, to, dst),
           d.walkedOK, to = "any"
    PROVE  Outcome(HandWalked(d), d, s, ans, to)
<1>1. PICK r : r = HandWalked(d)  OBVIOUS
<1>2. PICK v : v = HoldingAValue(d.src)  OBVIOUS
<1>3. d \in DecType /\ Stands(d) /\ d.streamIndex = Len(ans) /\ AtHand(d, s, ans) /\ IsInitialized(d)
  BY DEF Prepared, Stands
<1>4. d.src \in Seq(DocType) /\ d.streamIndex \in Nat
  <2>1. d.streamIndex \in 0 .. MaxDocs + 1  BY <1>3, DecFields
  <2> QED  BY <2>1, <1>3, DecFields
<1>5. /\ d.walked \in Seq(WalkedType) /\ Len(d.walked) = Len(v) /\ Len(v) \in Nat
      /\ \A i \in 1 .. Len(v) : d.walked[i] = ValueOf(v[i])
  <2>1. d.walked = DocumentValues(d.src) /\ ~Broken(d.src)  BY <1>3 DEF Stands
  <2>2. v \in Seq(DocType)  BY <1>2, <1>4, ValuedIs
  <2>3. Len(v) \in Nat  BY <2>2
  <2> QED  BY <2>1, <2>3, <1>2, <1>4, DocumentValuesAre
<1>6. CASE d.streamIndex >= Len(d.walked)
  <2>1. r = Ends(d, Null, "eof", "walk")  BY <1>1, <1>6 DEF HandWalked
  <2>2. r.d = d /\ r.result = "eof"  BY <2>1 DEF Ends
  <2>3. Len(v) <= Len(ans)  BY <1>3, <1>4, <1>5, <1>6
  <2> QED  BY <2>2, <2>3, <1>1, <1>2, <1>3 DEF Outcome
<1>7. CASE ~(d.streamIndex >= Len(d.walked))
  <2>1. PICK i : i = d.streamIndex + 1  OBVIOUS
  <2>2. i \in Nat \ {0} /\ i <= Len(v) /\ i \in 1 .. Len(v)  BY <2>1, <1>4, <1>5, <1>7
  <2>3. d.src = s /\ i \in DOMAIN HoldingAValue(s) /\ i <= MaxDocs
    BY <2>2, <1>2, <1>3, HeldSource
  <2>4. r = Ends(Next1(d), ValueOf(v[i]), "value", "walk")
    <3>1. r = Ends(Next1(d), d.walked[i], "value", "walk")  BY <2>1, <1>1, <1>7 DEF HandWalked
    <3> QED  BY <3>1, <2>2, <1>5
  <2>5. PICK e : e = Next1(d)  OBVIOUS
  <2>6. r.d = e /\ r.result = "value" /\ r.by = "walk" /\ r.dst = ValueOf(v[i])  BY <2>4, <2>5 DEF Ends
  <2>7. /\ e \in DecType /\ e.reader = d.reader /\ e.src = d.src /\ e.walked = d.walked
        /\ e.walkedOK = d.walkedOK /\ e.typedWalk = d.typedWalk /\ e.parsed = d.parsed
        /\ e.docs = d.docs /\ e.books = d.books /\ (d.streamIndex <= MaxDocs => e.streamIndex = d.streamIndex + 1)
    BY <2>5, <1>3, NextShape
  <2>8. e.streamIndex = i /\ Len(ans) < MaxDocs /\ i = Len(ans) + 1
    BY <2>1, <2>3, <2>7, <1>3, <1>4, DecoderStreamAssumption
  <2>9. Stands(e) /\ IsInitialized(e)  BY <2>7, <1>3 DEF Stands, IsInitialized
  <2>10. PICK a : a = Answer(to, r)  OBVIOUS
  <2>11. a.to = "any" /\ a.value = ValueOf(v[i])  BY <2>6, <2>10 DEF Answer
  <2>12. v = HoldingAValue(s)  BY <2>3, <1>2
  <2>13. Right(a, i, s)
    <3>1. CASE IsEmptyDocument(v[i])
      <4>1. a.value = Null  BY <3>1, <2>11 DEF ValueOf
      <4> QED  BY <4>1, <3>1, <2>3, <2>12, EmptyRight
    <3>2. CASE ~IsEmptyDocument(v[i])
      <4>1. a.value = Whole(v[i])  BY <3>2, <2>11 DEF ValueOf
      <4> QED  BY <4>1, <3>2, <2>3, <2>11, <2>12, WholeRight
    <3> QED  BY <3>1, <3>2
  <2>14. r.dst \in WalkedType
    <3>1. d.walked[i] \in WalkedType
      <4> HIDE DEF WalkedType
      <4> QED  BY <2>2, <1>5
    <3> QED  BY <3>1, <2>2, <2>6, <1>5
  <2>15. Right(Answer(to, r), Len(ans) + 1, s)  BY <2>8, <2>10, <2>13
  <2>16. Outcome(r, d, s, ans, to)
    BY <2>6, <2>7, <2>8, <2>9, <2>14, <2>15 DEF Outcome
  <2> QED  BY <2>16, <1>1
<1> QED  BY <1>6, <1>7

LEMMA ReadDocumentShape ==
    ASSUME NEW d, NEW doc, NEW to, NEW dst,
           NEW r, r = ReadDocument(d, doc, to, dst),
           NEW at, at = [d EXCEPT !.book = d.books[d.streamIndex + 1]]
    PROVE  \/ r.d = at /\ r.result = "error"
           \/ /\ r.d = Next1(at) /\ r.result = "value" /\ r.by = "tree" /\ ~Has(doc, {"repeat"})
              /\ to # "struct" => r.dst = Whole(doc)
              /\ to = "struct" => r.dst = StructFilled(doc, dst)
<1> DEFINE refused == IF to = "struct" THEN {"cycle", "repeat", "misfit"} ELSE {"cycle", "repeat"}
           read == CASE to # "struct" -> Whole(doc)
                     [] to = "struct" /\ Has(doc, {"repeat"}) -> dst
                     [] OTHER -> StructFilled(doc, dst)
<1>1. r = IF Has(doc, refused) THEN Ends(at, IF to = "struct" THEN read ELSE dst, "error", "tree")
          ELSE Ends(Next1(at), read, "value", "tree")
  BY DEF ReadDocument
<1>2. "repeat" \in refused  OBVIOUS
<1>3. ~Has(doc, refused) => ~Has(doc, {"repeat"})  BY <1>2 DEF Has
<1>4. to # "struct" => read = Whole(doc)  OBVIOUS
<1>5. to = "struct" /\ ~Has(doc, {"repeat"}) => read = StructFilled(doc, dst)  OBVIOUS
<1> HIDE DEF refused, read
<1>6. CASE Has(doc, refused)
  <2>1. r.d = at /\ r.result = "error"  BY <1>1, <1>6 DEF Ends
  <2> QED  BY <2>1
<1>7. CASE ~Has(doc, refused)
  <2>1. r = Ends(Next1(at), read, "value", "tree")  BY <1>1, <1>7
  <2>2. r.d = Next1(at) /\ r.dst = read /\ r.result = "value" /\ r.by = "tree"  BY <2>1 DEF Ends
  <2> QED  BY <2>2, <1>3, <1>4, <1>5, <1>7
<1> QED  BY <1>6, <1>7

LEMMA BookShape ==
    ASSUME NEW d, Stands(d), d.parsed, NEW i \in DOMAIN d.docs
    PROVE  LET e == [d EXCEPT !.book = d.books[i]]
           IN  /\ Stands(e) /\ Alike(e, d) /\ e.parsed /\ e.docs = d.docs /\ e.book = d.docs[i].id
<1>1. d \in DecType /\ d.docs \in Seq(DocType)  BY DecFields DEF Stands
<1>2. d.books[i] = d.docs[i].id  BY DEF Stands
<1>3. PICK id : id = d.docs[i].id  OBVIOUS
<1>4. id \in Nat
  <2>1. d.docs[i] \in DocType
    <3> HIDE DEF DocType
    <3> QED  BY <1>1
  <2> QED  BY <2>1, <1>3 DEF DocType
<1>5. PICK e : e = [d EXCEPT !.book = d.books[i]]  OBVIOUS
<1>6. e = [d EXCEPT !.book = id]  BY <1>2, <1>3, <1>5
<1>7. /\ e \in DecType /\ Alike(e, d) /\ e.parsed = d.parsed /\ e.docs = d.docs /\ e.book = id
      /\ e.walked = d.walked /\ e.walkedOK = d.walkedOK /\ e.typedWalk = d.typedWalk /\ e.books = d.books
  BY <1>1, <1>4, <1>6 DEF DecType, Alike
<1>8. e.src = d.src  BY <1>7 DEF Alike
<1>9. Stands(e)  BY <1>7, <1>8 DEF Stands
<1> QED  BY <1>3, <1>5, <1>7, <1>9

LEMMA NextStands ==
    ASSUME NEW d, Stands(d), d.streamIndex <= MaxDocs
    PROVE  LET e == Next1(d)
           IN  /\ Stands(e) /\ e.reader = d.reader /\ e.src = d.src /\ e.parsed = d.parsed
               /\ e.walkedOK = d.walkedOK /\ e.docs = d.docs /\ e.book = d.book
               /\ e.streamIndex = d.streamIndex + 1
<1>1. PICK e : e = Next1(d)  OBVIOUS
<1>2. d \in DecType  BY DEF Stands
<1>3. /\ e \in DecType /\ e.reader = d.reader /\ e.src = d.src /\ e.walked = d.walked
      /\ e.walkedOK = d.walkedOK /\ e.typedWalk = d.typedWalk /\ e.parsed = d.parsed
      /\ e.docs = d.docs /\ e.books = d.books /\ e.book = d.book /\ e.streamIndex = d.streamIndex + 1
  BY <1>1, <1>2, NextShape
<1>4. Stands(e)  BY <1>3 DEF Stands
<1> QED  BY <1>1, <1>3, <1>4

LEMMA DecodeTreeRight ==
    ASSUME NEW s, SourceOK(s), NEW d, NEW ans, NEW to, NEW dst, Prepared(d, s, ans, to, dst), d.parsed
    PROVE  Outcome(DecodeTree(d, to, dst), d, s, ans, to)
<1>1. PICK r : r = DecodeTree(d, to, dst)  OBVIOUS
<1>2. PICK v : v = HoldingAValue(d.src)  OBVIOUS
<1>3. d \in DecType /\ Stands(d) /\ d.streamIndex = Len(ans) /\ AtHand(d, s, ans) /\ IsInitialized(d)
      /\ d.docs = v
  BY <1>2 DEF Prepared, Stands
<1>4. d.streamIndex \in Nat /\ d.docs \in Seq(DocType) /\ Len(v) \in Nat /\ DOMAIN v = 1 .. Len(v)
  <2>1. d.streamIndex \in 0 .. MaxDocs + 1 /\ d.docs \in Seq(DocType)  BY <1>3, DecFields
  <2>2. d.streamIndex \in Nat  BY <2>1
  <2> QED  BY <2>1, <2>2, <1>3
<1>5. CASE Len(d.docs) <= d.streamIndex
  <2>1. r = Ends(d, dst, "eof", "tree")  BY <1>1, <1>5 DEF DecodeTree
  <2>2. r.d = d /\ r.result = "eof"  BY <2>1 DEF Ends
  <2>3. Len(v) <= Len(ans)  BY <1>3, <1>5
  <2> QED  BY <2>2, <2>3, <1>1, <1>2, <1>3 DEF Outcome
<1>6. CASE ~(Len(d.docs) <= d.streamIndex)
  <2>1. PICK i : i = d.streamIndex + 1  OBVIOUS
  <2>2. i \in Nat \ {0} /\ i <= Len(v) /\ i \in DOMAIN v  BY <2>1, <1>3, <1>4, <1>6
  <2>3. d.src = s /\ i \in DOMAIN HoldingAValue(s) /\ i <= MaxDocs
    BY <2>2, <1>2, <1>3, HeldSource
  <2>4. v = HoldingAValue(s)  BY <2>3, <1>2
  <2>5. d.streamIndex <= MaxDocs /\ Len(ans) < MaxDocs /\ i = Len(ans) + 1
    BY <2>1, <2>3, <1>3, <1>4, DecoderStreamAssumption
  <2>6. PICK doc : doc = v[i]  OBVIOUS
  <2>7. doc \in DocType  BY <2>3, <2>4, <2>6, ValuedSource
  <2>8. CASE IsEmptyDocument(doc)
    <3>1. r = Ends(Next1(d), Null, "value", "tree")
      <4>1. IsEmptyDocument(d.docs[d.streamIndex + 1])  BY <2>1, <2>6, <2>8, <1>3
      <4> QED  BY <4>1, <1>1, <1>6 DEF DecodeTree, EmptyDocumentRead
    <3>2. PICK e : e = Next1(d)  OBVIOUS
    <3>3. r.d = e /\ r.dst = Null /\ r.result = "value" /\ r.by = "tree"  BY <3>1, <3>2 DEF Ends
    <3>4. /\ Stands(e) /\ e.reader = d.reader /\ e.src = d.src /\ e.parsed = d.parsed
          /\ e.streamIndex = d.streamIndex + 1
      BY <3>2, <2>5, <1>3, NextStands
    <3>5. PICK a : a = Answer(to, r)  OBVIOUS
    <3>6. a.value = Null  BY <3>3, <3>5 DEF Answer
    <3>7. Right(a, i, s)  BY <3>6, <2>3, <2>4, <2>6, <2>8, EmptyRight
    <3>8. Right(Answer(to, r), Len(ans) + 1, s)  BY <3>5, <3>7, <2>5
    <3>9. r.dst \in WalkedType  BY <3>3 DEF Null, WalkedType
    <3>10. IsInitialized(e)  BY <3>4 DEF IsInitialized
    <3>11. e.streamIndex = Len(ans) + 1  BY <3>4, <1>3
    <3>12. Outcome(r, d, s, ans, to)
      BY <3>3, <3>4, <3>8, <3>9, <3>10, <3>11, <2>5 DEF Outcome
    <3> QED  BY <3>12, <1>1
  <2>9. CASE ~IsEmptyDocument(doc)
    <3>1. PICK at : at = [d EXCEPT !.book = d.books[d.streamIndex + 1]]  OBVIOUS
    <3>2. r = ReadDocument(d, doc, to, dst)
      <4>1. doc = d.docs[d.streamIndex + 1]  BY <2>1, <2>6, <1>3
      <4>2. DecodeTree(d, to, dst) = IF Len(d.docs) <= d.streamIndex THEN Ends(d, dst, "eof", "tree")
                ELSE IF IsEmptyDocument(doc) THEN EmptyDocumentRead(d, to) ELSE ReadDocument(d, doc, to, dst)
        BY <4>1, Zenon DEF DecodeTree
      <4> QED  BY <4>2, <2>9, <1>1, <1>6
    <3>3. \/ r.d = at /\ r.result = "error"
          \/ /\ r.d = Next1(at) /\ r.result = "value" /\ r.by = "tree" /\ ~Has(doc, {"repeat"})
             /\ to # "struct" => r.dst = Whole(doc)
             /\ to = "struct" => r.dst = StructFilled(doc, dst)
      BY <3>1, <3>2, ReadDocumentShape
    <3>4. Stands(at) /\ Alike(at, d) /\ at.parsed /\ at.docs = d.docs /\ at.book = d.docs[i].id
      <4>1. i \in DOMAIN d.docs  BY <2>2, <1>3
      <4>2. at = [d EXCEPT !.book = d.books[i]]  BY <3>1, <2>1
      <4> QED  BY <4>1, <4>2, <1>3, BookShape
    <3>5. CASE r.d = at /\ r.result = "error"
      <4>1. IsInitialized(at)  BY <3>4 DEF IsInitialized
      <4>2. at.src = d.src /\ at.reader = d.reader /\ at.streamIndex = Len(ans)  BY <3>4, <1>3 DEF Alike
      <4>3. Outcome(r, d, s, ans, to)  BY <4>1, <4>2, <3>4, <3>5 DEF Outcome
      <4> QED  BY <4>3, <1>1
    <3>6. CASE /\ r.d = Next1(at) /\ r.result = "value" /\ r.by = "tree" /\ ~Has(doc, {"repeat"})
               /\ to # "struct" => r.dst = Whole(doc)
               /\ to = "struct" => r.dst = StructFilled(doc, dst)
      <4>1. PICK e : e = r.d  OBVIOUS
      <4>2. at.streamIndex = d.streamIndex /\ at.src = d.src /\ at.reader = d.reader
        BY <3>4 DEF Alike
      <4>3. /\ Stands(e) /\ e.reader = at.reader /\ e.src = at.src /\ e.parsed = at.parsed
            /\ e.docs = at.docs /\ e.book = at.book /\ e.streamIndex = at.streamIndex + 1
        <5>1. Stands(at) /\ at.streamIndex <= MaxDocs  BY <4>2, <3>4, <2>5
        <5>2. e = Next1(at)  BY <4>1, <3>6
        <5> QED  BY <5>1, <5>2, NextStands
      <4>4. e.streamIndex = i /\ e.parsed /\ IsInitialized(e) /\ e.docs = v /\ e.book = v[i].id
            /\ e.src = d.src /\ e.reader = d.reader
        BY <4>2, <4>3, <3>4, <2>1, <1>3 DEF IsInitialized
      <4>5. PICK a : a = Answer(to, r)  OBVIOUS
      <4>6. a.to = to /\ a.value = r.dst /\ a.by = "tree"  BY <4>5, <3>6 DEF Answer
      <4>7. Right(a, i, s) /\ r.dst \in StructType \cup WalkedType
        <5>1. CASE to # "struct"
          <6>1. Right(a, i, s)  BY <5>1, <4>6, <3>6, <2>3, <2>4, <2>6, <2>9, WholeRight
          <6>2. r.dst \in WalkedType  BY <5>1, <3>6, <2>7 DEF Whole, WalkedType, DocType
          <6> QED  BY <6>1, <6>2
        <5>2. CASE to = "struct"
          <6>1. /\ dst \in StructType
                /\ i = 1 => Spared(dst, s, Len(s))
                /\ i # 1 => \A f \in Field : dst.fields[f] = Default
            <7>1. (i = 1 => d.streamIndex = 0) /\ (i # 1 => d.streamIndex # 0)  BY <2>1, <1>4
            <7> QED  BY <7>1, <5>2, <2>3 DEF Prepared
          <6>2. doc.kind # "empty"  BY <2>9 DEF IsEmptyDocument
          <6>3. Right(a, i, s) /\ a.value \in StructType
            BY <6>1, <6>2, <5>2, <4>6, <3>6, <2>3, <2>4, <2>6, StructRight
          <6> QED  BY <6>3, <4>6
        <5> QED  BY <5>1, <5>2
      <4>8. Right(Answer(to, r), Len(ans) + 1, s)  BY <4>5, <4>7, <2>5
      <4>9. Outcome(r, d, s, ans, to)
        BY <4>1, <4>3, <4>4, <4>7, <4>8, <3>6, <2>2, <2>5 DEF Outcome
      <4> QED  BY <4>9, <1>1
    <3> QED  BY <3>3, <3>5, <3>6
  <2> QED  BY <2>8, <2>9
<1> QED  BY <1>5, <1>6

-----------------------------------------------------------------------------
(* The first reading of the source. *)

AfterRead(e, s, ans) ==
    /\ Idle(e) /\ e.streamIndex = Len(ans) /\ e.reader \in {s, <<>>} /\ e.src \in {s, <<>>}
    /\ e.src # s => e.reader = <<>> /\ (WalkRefuses(s) \/ TypedRead(ans))
    /\ e.streamIndex # 0 => /\ TypedRead(ans)
                            /\ WalkInto(e.src, Fresh("struct")).stop = "none"
                            /\ WalkInto(e.reader, Fresh("struct")).stop = "none"

LEMMA ReadAllReads ==
    ASSUME NEW s, NEW d, NEW ans, Stands(d), ~IsInitialized(d), AtHand(d, s, ans), d.streamIndex = Len(ans)
    PROVE  AfterRead(ReadAll(d), s, ans)
<1>1. d \in DecType /\ ~d.typedWalk /\ ~d.parsed /\ ~d.walkedOK /\ d.books = <<>> /\ d.reader \in {s, <<>>}
  BY DEF Stands, IsInitialized, AtHand
<1>2. PICK left : left = IF d.redelivers THEN d.reader ELSE <<>>  OBVIOUS
<1>3. left \in Seq(DocType) /\ (left = d.reader \/ left = <<>>)
  <2>1. d.reader \in Seq(DocType) /\ <<>> \in Seq(DocType)
    <3>1. d.reader \in Seq(DocType)  BY <1>1, DecFields
    <3>2. <<>> \in Seq(DocType)
      <4> HIDE DEF DocType
      <4> QED  OBVIOUS
    <3> QED  BY <3>1, <3>2
  <2> QED  BY <2>1, <1>2
<1>4. PICK e : e = ReadAll(d)  OBVIOUS
<1>5. e = [d EXCEPT !.src = d.reader, !.reader = left]  BY <1>2, <1>4 DEF ReadAll
<1>6. e \in DecType
  <2>1. PICK read : read = d.reader  OBVIOUS
  <2>2. read \in Seq(DocType)  BY <2>1, <1>1, DecFields
  <2>3. e = [d EXCEPT !.src = read, !.reader = left]  BY <2>1, <1>5
  <2> QED  BY <2>2, <2>3, <1>1, <1>3 DEF DecType
<1>7. /\ e.src = d.reader /\ e.reader = left /\ e.streamIndex = d.streamIndex /\ e.typedWalk = d.typedWalk
      /\ e.parsed = d.parsed /\ e.walkedOK = d.walkedOK /\ e.books = d.books
  BY <1>1, <1>5 DEF DecType
<1>8. Idle(e)  BY <1>1, <1>6, <1>7 DEF Idle
<1>9. e.reader \in {s, <<>>} /\ e.src \in {s, <<>>}  BY <1>1, <1>3, <1>7
<1>10. e.src # s => e.reader = <<>> /\ (WalkRefuses(s) \/ TypedRead(ans))
  BY <1>1, <1>3, <1>7 DEF AtHand
<1>11. ASSUME e.streamIndex # 0
       PROVE  /\ TypedRead(ans) /\ WalkInto(e.src, Fresh("struct")).stop = "none"
              /\ WalkInto(e.reader, Fresh("struct")).stop = "none"
  <2>1. TypedRead(ans) /\ WalkInto(d.reader, Fresh("struct")).stop = "none"  BY <1>7, <1>11 DEF AtHand
  <2>2. WalkInto(<<>>, Fresh("struct")).stop = "none"  BY NothingWalked
  <2> QED  BY <2>1, <2>2, <1>3, <1>7
<1>12. AfterRead(e, s, ans)  BY <1>7, <1>8, <1>9, <1>10, <1>11 DEF AfterRead
<1> QED  BY <1>4, <1>12

Failed(e, s, ans) ==
    Stands(e) /\ ~IsInitialized(e) /\ AtHand(e, s, ans) /\ e.streamIndex = Len(ans)

LEMMA ReadFails ==
    ASSUME NEW s, NEW e, NEW ans, AfterRead(e, s, ans), WalkRefuses(e.src)
    PROVE  Failed(e, s, ans)
<1>1. Stands(e) /\ ~IsInitialized(e)  BY DEF AfterRead, Idle, Stands, IsInitialized
<1>2. WalkRefuses(s) \/ TypedRead(ans)  BY DEF AfterRead
<1>3. AtHand(e, s, ans)  BY <1>1, <1>2 DEF AfterRead, AtHand
<1> QED  BY <1>1, <1>3 DEF Failed, AfterRead

LEMMA ReadStands ==
    ASSUME NEW s, NEW e, NEW ans, AfterRead(e, s, ans), NEW d, Stands(d), IsInitialized(d), Alike(d, e)
    PROVE  AtHand(d, s, ans) /\ d.streamIndex = Len(ans)
BY DEF AfterRead, AtHand, Alike

Fillable(e, to, dst) ==
    to = "struct" => /\ dst \in StructType
                     /\ e.streamIndex = 0 => Spared(dst, e.src, Len(e.src))
                     /\ e.streamIndex # 0 => \A f \in Field : dst.fields[f] = Default

LEMMA InitTreeReads ==
    ASSUME NEW s, NEW e, NEW ans, AfterRead(e, s, ans), NEW to, NEW dst, Fillable(e, to, dst),
           NEW r, r = InitTree(e, dst)
    PROVE  \/ r.result = "error" /\ Failed(r.d, s, ans)
           \/ r.result = "read" /\ Prepared(r.d, s, ans, to, r.dst)
<1>1. CASE Broken(e.src)
  <2>1. r = Ends(e, dst, "error", "tree")  BY <1>1 DEF InitTree
  <2>2. r.d = e /\ r.result = "error"  BY <2>1 DEF Ends
  <2>3. WalkRefuses(e.src)  BY <1>1 DEF WalkRefuses
  <2> QED  BY <2>2, <2>3, ReadFails
<1>2. CASE ~Broken(e.src)
  <2>1. r = Ends(Parsed(e), dst, "read", "tree")  BY <1>2 DEF InitTree
  <2>2. r.d = Parsed(e) /\ r.result = "read" /\ r.dst = dst  BY <2>1 DEF Ends
  <2>3. PICK d : d = Parsed(e)  OBVIOUS
  <2>4. Stands(d) /\ d.parsed /\ Alike(d, e)  BY <2>3, ParsedStands DEF AfterRead
  <2>5. IsInitialized(d)  BY <2>4 DEF IsInitialized
  <2>6. AtHand(d, s, ans) /\ d.streamIndex = Len(ans)  BY <2>4, <2>5, ReadStands
  <2>7. d.src = e.src /\ d.streamIndex = e.streamIndex  BY <2>4 DEF Alike
  <2>8. Prepared(d, s, ans, to, dst)  BY <2>4, <2>5, <2>6, <2>7 DEF Prepared, Fillable
  <2> QED  BY <2>2, <2>3, <2>8
<1> QED  BY <1>1, <1>2

LEMMA InitWalkReads ==
    ASSUME NEW s, NEW e, NEW ans, AfterRead(e, s, ans), NEW dst, NEW r, r = InitWalk(e, dst)
    PROVE  \/ r.result = "error" /\ Failed(r.d, s, ans)
           \/ r.result = "read" /\ Prepared(r.d, s, ans, "any", r.dst)
<1>1. CASE WalkRefuses(e.src)
  <2>1. r = Ends(e, dst, "error", "walk")  BY <1>1 DEF InitWalk
  <2>2. r.d = e /\ r.result = "error"  BY <2>1 DEF Ends
  <2> QED  BY <2>2, <1>1, ReadFails
<1>2. CASE ~WalkRefuses(e.src)
  <2>1. PICK w : w = DocumentValues(e.src)  OBVIOUS
  <2>2. PICK d : d = [e EXCEPT !.walked = w, !.walkedOK = TRUE]  OBVIOUS
  <2>3. r = Ends(d, dst, "read", "walk")  BY <2>1, <2>2, <1>2 DEF InitWalk
  <2>4. r.d = d /\ r.result = "read" /\ r.dst = dst  BY <2>3 DEF Ends
  <2>5. e \in DecType /\ ~e.typedWalk /\ ~e.parsed /\ ~e.walkedOK /\ e.books = <<>>
    BY DEF AfterRead, Idle
  <2>6. e.src \in Seq(DocType)  BY <2>5, DecFields
  <2>7. ~Broken(e.src)  BY <1>2 DEF WalkRefuses
  <2>8. w \in Seq(WalkedType)  BY <2>1, <2>6, <2>7, DocumentValuesAre
  <2>9. /\ d \in DecType /\ Alike(d, e) /\ d.walked = w /\ d.walkedOK /\ d.typedWalk = e.typedWalk
        /\ d.parsed = e.parsed /\ d.books = e.books
    BY <2>2, <2>5, <2>8 DEF DecType, Alike
  <2>10. d.src = e.src  BY <2>9 DEF Alike
  <2>11. Stands(d)  BY <2>1, <2>5, <2>7, <2>9, <2>10 DEF Stands
  <2>12. IsInitialized(d)  BY <2>9 DEF IsInitialized
  <2>13. AtHand(d, s, ans) /\ d.streamIndex = Len(ans)  BY <2>9, <2>11, <2>12, ReadStands
  <2>14. Prepared(d, s, ans, "any", dst)  BY <2>11, <2>12, <2>13 DEF Prepared
  <2> QED  BY <2>4, <2>14
<1> QED  BY <1>1, <1>2

TypedWalkOf(r, e) ==
    /\ r.result = "read" /\ r.d = [e EXCEPT !.walkedOK = TRUE, !.walked = <<>>, !.typedWalk = TRUE]
    /\ Spared(r.dst, e.src, Len(e.src)) /\ Served(r.dst, e.src, Len(e.src))
    /\ WalkInto(e.src, Fresh("struct")).stop = "none"

LEMMA InitTypedReads ==
    ASSUME NEW s, NEW e, NEW ans, AfterRead(e, s, ans), NEW r, r = InitTyped(e, Fresh("struct"))
    PROVE  \/ r.result = "error" /\ Failed(r.d, s, ans)
           \/ r.result = "read" /\ Prepared(r.d, s, ans, "struct", r.dst)
           \/ TypedWalkOf(r, e)
<1>1. PICK walk : walk = WalkInto(e.src, Fresh("struct"))  OBVIOUS
<1>2. PICK docs : docs = e.src  OBVIOUS
<1>3. docs \in Seq(DocType) /\ Len(docs) \in Nat /\ DOMAIN docs = 1 .. Len(docs)
  <2>1. e \in DecType  BY DEF AfterRead, Idle
  <2>2. docs \in Seq(DocType)  BY <2>1, <1>2, DecFields
  <2> HIDE DEF DocType
  <2> QED  BY <2>2
<1>4. WalkedTo(walk, docs, Len(docs))  BY <1>1, <1>2, <1>3, WalkIntoLeaves
<1>5. walk.stop \in {"none", "tree", "error"} /\ walk.dst \in StructType /\ Spared(walk.dst, docs, Len(docs))
  BY <1>4 DEF WalkedTo, FillType, Spared
<1>6. r = CASE walk.stop = "none" ->
                   Ends([e EXCEPT !.walkedOK = TRUE, !.walked = <<>>, !.typedWalk = TRUE], walk.dst, "read", "typed")
            [] walk.stop = "tree" -> InitTree(e, walk.dst)
            [] OTHER -> Ends(e, walk.dst, "error", "typed")
  BY <1>1, Zenon DEF InitTyped
<1>7. CASE walk.stop = "none"
  <2>1. PICK d : d = [e EXCEPT !.walkedOK = TRUE, !.walked = <<>>, !.typedWalk = TRUE]  OBVIOUS
  <2>2. r = Ends(d, walk.dst, "read", "typed")  BY <2>1, <1>6, <1>7
  <2>3. r.d = d /\ r.dst = walk.dst /\ r.result = "read"  BY <2>2 DEF Ends
  <2>4. Served(walk.dst, docs, Len(docs))  BY <1>4, <1>7 DEF WalkedTo
  <2>5. TypedWalkOf(r, e)  BY <2>1, <2>3, <2>4, <1>1, <1>2, <1>5, <1>7 DEF TypedWalkOf
  <2> QED  BY <2>5
<1>8. CASE walk.stop = "tree"
  <2>1. r = InitTree(e, walk.dst)  BY <1>6, <1>8
  <2>2. e.streamIndex = 0
    <3> SUFFICES ASSUME e.streamIndex # 0 PROVE FALSE  OBVIOUS
    <3>1. walk.stop = "none"  BY <1>1 DEF AfterRead
    <3> QED  BY <3>1, <1>8
  <2>3. Fillable(e, "struct", walk.dst)  BY <2>2, <1>2, <1>5 DEF Fillable
  <2> QED  BY <2>1, <2>3, InitTreeReads
<1>9. CASE walk.stop = "error"
  <2>1. r = Ends(e, walk.dst, "error", "typed")  BY <1>6, <1>9
  <2>2. r.d = e /\ r.result = "error"  BY <2>1 DEF Ends
  <2>3. PICK j \in 1 .. Len(docs) : docs[j].kind = "broken" \/ Has(docs[j], {"repeat"})
    BY <1>4, <1>9 DEF WalkedTo
  <2>4. WalkRefuses(docs)
    <3>1. CASE docs[j].kind = "broken"  BY <3>1, <2>3, <1>3 DEF WalkRefuses, Broken
    <3>2. CASE Has(docs[j], {"repeat"})
      <4>1. Has(docs[j], {"cycle", "repeat"})  BY <3>2 DEF Has
      <4> QED  BY <4>1, <2>3, <1>3 DEF WalkRefuses, SomeHas
    <3> QED  BY <3>1, <3>2, <2>3
  <2> QED  BY <2>2, <2>4, <1>2, ReadFails
<1> QED  BY <1>5, <1>7, <1>8, <1>9

LEMMA TypedRight ==
    ASSUME NEW s, SourceOK(s), NEW e, NEW ans, AfterRead(e, s, ans), ans # <<>> => Len(ans) # 0,
           NEW r, TypedWalkOf(r, e), NEW i, i = Len(ans) + 1,
           NEW a, a.to = "struct", a.by = "typed", a.value = r.dst
    PROVE  Right(a, i, s)
<1> SUFFICES ASSUME ~Overreads(a, i, s)
             PROVE  /\ i <= Len(HoldingAValue(s)) /\ Hands(a, HoldingAValue(s)[i]) /\ KeepsFields(a, i, s)
  BY DEF Right
<1>1. i = 1 /\ Len(HoldingAValue(s)) = 1 /\ ~WalkRefuses(s)  BY DEF Overreads
<1>2. e.streamIndex \in Nat /\ Len(ans) = e.streamIndex
  <2>1. e.streamIndex \in 0 .. MaxDocs + 1  BY DecFields DEF AfterRead, Idle
  <2>2. e.streamIndex \in Nat  BY <2>1
  <2> QED  BY <2>2 DEF AfterRead
<1>3. Len(ans) = 0  BY <1>1, <1>2
<1>4. e.src = s
  <2>1. ~TypedRead(ans)  BY <1>3 DEF TypedRead
  <2> QED  BY <2>1, <1>1 DEF AfterRead
<1>5. PICK doc : doc = HoldingAValue(s)[1]  OBVIOUS
<1>6. PICK dst : dst = r.dst  OBVIOUS
<1>7. Spared(dst, s, Len(s)) /\ Served(dst, s, Len(s))  BY <1>4, <1>6 DEF TypedWalkOf
<1>8. ASSUME NEW f \in Field
      PROVE  dst.fields[f] = Default \/ (WritesTyped(doc, f) /\ dst.fields[f] = doc.id)
  BY <1>1, <1>5, <1>7, SparedFields
<1>9. PICK j \in DOMAIN s : s[j] = doc
  <2>1. 1 \in DOMAIN HoldingAValue(s)  BY <1>1, ValuedSource
  <2>2. s \in Seq(DocType)  BY DEF SourceOK
  <2>3. \E k \in DOMAIN s : HoldingAValue(s)[1] = s[k]  BY <2>1, <2>2, ValuedIs
  <2> QED  BY <2>3, <1>5
<1>10. ~Has(doc, {"alias", "misfit", "cycle", "repeat"})
       /\ \A f \in Field : WritesTyped(doc, f) => FromDocs(dst, s, Len(s), f)
  <2>1. j \in 1 .. Len(s)  BY <1>9 DEF SourceOK
  <2> QED  BY <2>1, <1>7, <1>9 DEF Served
<1>11. ASSUME NEW f PROVE Writes(doc, f) <=> WritesTyped(doc, f)
  <2>1. \A k \in DOMAIN doc.entries : doc.entries[k].holds \notin {"alias", "repeat"}
    BY <1>10 DEF Has
  <2> QED  BY <2>1 DEF Writes, WritesTyped
<1>12. ASSUME NEW f \in Field, WritesTyped(doc, f) PROVE dst.fields[f] = doc.id
  <2>1. PICK k \in 1 .. Len(s) : WritesTyped(s[k], f) /\ dst.fields[f] = s[k].id
    BY <1>10, <1>12 DEF FromDocs
  <2>2. k \in DOMAIN s  BY <2>1 DEF SourceOK
  <2>3. s[k] = doc  BY <2>1, <2>2, <1>1, <1>5, OneDocument
  <2> QED  BY <2>1, <2>3
<1>13. dst \in StructType  BY <1>7 DEF Spared
<1>14. Hands(a, doc)
  <2>1. CASE doc.kind = "empty"
    <3>1. ASSUME NEW f \in Field PROVE dst.fields[f] = Default
      <4>1. ~WritesTyped(doc, f)
        <5>1. doc.entries = <<>>  BY <2>1, <1>9 DEF SourceOK
        <5>2. DOMAIN doc.entries = {}  BY <5>1
        <5> QED  BY <5>2 DEF WritesTyped
      <4> QED  BY <4>1, <1>8
    <3>2. dst = Fresh("struct")
      <4>1. dst = [doc |-> 0, fields |-> dst.fields] /\ dst.fields = [f \in Field |-> dst.fields[f]]
        BY <1>13 DEF StructType
      <4>2. dst.fields = [f \in Field |-> Default]  BY <4>1, <3>1
      <4> QED  BY <4>1, <4>2 DEF Fresh
    <3>3. a.value = Fresh(a.to)  BY <3>2, <1>6
    <3> QED  BY <3>3, <2>1 DEF Hands
  <2>2. CASE doc.kind # "empty"
    <3>1. \A f \in Field : Writes(doc, f) => a.value.fields[f] = doc.id  BY <1>6, <1>11, <1>12
    <3> QED  BY <3>1, <2>2 DEF Hands
  <2> QED  BY <2>1, <2>2
<1>15. KeepsFields(a, i, s)
  <2> SUFFICES ASSUME NEW f \in Field
               PROVE  /\ Writes(doc, f) => a.value.fields[f] = doc.id
                      /\ ~Writes(doc, f) => a.value.fields[f] = Default
    BY <1>1, <1>5 DEF KeepsFields
  <2>1. Writes(doc, f) => dst.fields[f] = doc.id  BY <1>11, <1>12
  <2>2. ~Writes(doc, f) => dst.fields[f] = Default  BY <1>8, <1>11
  <2> QED  BY <2>1, <2>2, <1>6
<1> QED  BY <1>1, <1>5, <1>14, <1>15

LEMMA DecodeNextRight ==
    ASSUME NEW s, SourceOK(s), NEW d, NEW ans, NEW to, NEW dst, Prepared(d, s, ans, to, dst),
           NEW r, r = DecodeNext(d, to, dst)
    PROVE  Outcome(r, d, s, ans, to)
<1>1. Stands(d) /\ ~d.typedWalk  BY DEF Prepared, Stands
<1>2. CASE d.walkedOK /\ to = "any"
  <2>1. r = HandWalked(d)  BY <1>1, <1>2, Zenon DEF DecodeNext
  <2> QED  BY <2>1, <1>2, HandWalkedRight
<1>3. CASE d.walkedOK /\ to # "any"
  <2>1. r = DecodeTree(BuildTree(d), to, dst)  BY <1>1, <1>3, Zenon DEF DecodeNext
  <2>2. PICK e : e = BuildTree(d)  OBVIOUS
  <2>3. ~d.parsed  BY <1>1, <1>3 DEF Stands
  <2>4. Stands(e) /\ e.parsed /\ Alike(e, d)  BY <2>2, <2>3, <1>1, BuildTreeStands
  <2>5. IsInitialized(e)  BY <2>4 DEF IsInitialized
  <2>6. e.reader = d.reader /\ e.src = d.src /\ e.streamIndex = d.streamIndex  BY <2>4 DEF Alike
  <2>7. AtHand(e, s, ans)
    <3>1. IsInitialized(d) /\ AtHand(d, s, ans)  BY DEF Prepared
    <3> QED  BY <3>1, <2>5, <2>6 DEF AtHand
  <2>8. Prepared(e, s, ans, to, dst)  BY <2>4, <2>5, <2>6, <2>7 DEF Prepared
  <2>9. Outcome(DecodeTree(e, to, dst), e, s, ans, to)  BY <2>4, <2>8, DecodeTreeRight
  <2>10. Outcome(r, e, s, ans, to)  BY <2>9, <2>1, <2>2
  <2> QED  BY <2>10, <2>6 DEF Outcome
<1>4. CASE ~d.walkedOK
  <2>1. r = DecodeTree(d, to, dst)  BY <1>1, <1>4, Zenon DEF DecodeNext
  <2>2. d.parsed  BY <1>4 DEF Prepared, IsInitialized
  <2> QED  BY <2>1, <2>2, DecodeTreeRight
<1> QED  BY <1>2, <1>3, <1>4

LEMMA TypedAnswer ==
    ASSUME NEW s, NEW e, NEW ans, AfterRead(e, s, ans), NEW r, TypedWalkOf(r, e),
           NEW q, q = DecodeNext(r.d, "struct", r.dst)
    PROVE  /\ Stands(q.d) /\ ~IsInitialized(q.d)
           /\ q.d.reader = e.reader /\ q.d.src = e.src
           /\ e.streamIndex <= MaxDocs => q.d.streamIndex = e.streamIndex + 1
           /\ e.streamIndex > MaxDocs => q.d.streamIndex = e.streamIndex
           /\ q.result = "value" /\ q.by = "typed" /\ q.dst = r.dst /\ r.dst \in StructType
<1>1. PICK d : d = r.d  OBVIOUS
<1>2. Idle(e) /\ e \in DecType  BY DEF AfterRead, Idle
<1>3. PICK none : none = <<>>  OBVIOUS
<1>4. none \in Seq(WalkedType)
  <2> HIDE DEF WalkedType
  <2> QED  BY <1>3
<1>5. d = [e EXCEPT !.walkedOK = TRUE, !.walked = none, !.typedWalk = TRUE]
  BY <1>1, <1>3 DEF TypedWalkOf
<1>6. /\ d \in DecType /\ d.typedWalk /\ d.reader = e.reader /\ d.src = e.src
      /\ d.streamIndex = e.streamIndex /\ d.parsed = e.parsed /\ d.books = e.books
  BY <1>2, <1>4, <1>5 DEF DecType
<1>7. PICK c : c = [d EXCEPT !.typedWalk = FALSE, !.walkedOK = FALSE]  OBVIOUS
<1>8. /\ c \in DecType /\ ~c.typedWalk /\ ~c.walkedOK /\ c.reader = d.reader /\ c.src = d.src
      /\ c.streamIndex = d.streamIndex /\ c.parsed = d.parsed /\ c.books = d.books
  BY <1>6, <1>7 DEF DecType
<1>9. PICK n : n = Next1(c)  OBVIOUS
<1>10. /\ n \in DecType /\ n.reader = c.reader /\ n.src = c.src
       /\ n.walkedOK = c.walkedOK /\ n.typedWalk = c.typedWalk
       /\ n.parsed = c.parsed /\ n.books = c.books
       /\ c.streamIndex <= MaxDocs => n.streamIndex = c.streamIndex + 1
       /\ c.streamIndex > MaxDocs => n.streamIndex = c.streamIndex
  BY <1>8, <1>9, NextShape
<1>11. q = Ends(Next1([d EXCEPT !.typedWalk = FALSE, !.walkedOK = FALSE]), r.dst, "value", "typed")
  <2>1. q = DecodeNext(d, "struct", r.dst)  BY <1>1
  <2> QED  BY <2>1, <1>6, Zenon DEF DecodeNext
<1>12. q = Ends(n, r.dst, "value", "typed")  BY <1>7, <1>9, <1>11
<1>13. q.d = n /\ q.result = "value" /\ q.by = "typed" /\ q.dst = r.dst  BY <1>12 DEF Ends
<1>14. ~n.typedWalk /\ ~n.walkedOK /\ ~n.parsed /\ n.books = <<>>  BY <1>2, <1>6, <1>8, <1>10 DEF Idle
<1>15. Stands(n) /\ ~IsInitialized(n)  BY <1>10, <1>14 DEF Stands, IsInitialized
<1>16. r.dst \in StructType  BY DEF TypedWalkOf, Spared
<1> QED  BY <1>6, <1>8, <1>10, <1>13, <1>15, <1>16

-----------------------------------------------------------------------------
(* What a Decode leaves, whatever read the document. *)

AnswerType ==
    [to : Destination, value : StructType \cup WalkedType, result : {"value"}, by : {"typed", "walk", "tree"}]
Keeps(q, s, ans) ==
    /\ Stands(q.d) /\ AtHand(q.d, s, ans) /\ AnswersRight(q.d, s, ans) /\ LastRight(q.d, ans, q.result)

Appended(a, n, s, d, ans, more) ==
    /\ ans \in Seq(AnswerType) /\ \A i \in DOMAIN ans : Right(ans[i], i, s)
    /\ a \in AnswerType /\ Right(a, n, s) /\ (n = MaxAnswers => a.by = "typed")
    /\ n = Len(ans) + 1 /\ d.streamIndex = n /\ more = Append(ans, a)

LEMMA AppendRight ==
    ASSUME NEW a, NEW n, NEW s, NEW e, NEW ans, NEW more, Appended(a, n, s, e, ans, more)
    PROVE  /\ AnswersRight(e, s, more) /\ more # <<>> /\ Last(more) = a
           /\ ans # <<>> => more[1] = ans[1]
           /\ Len(ans) = 0 => more[1] = a
<1>0. /\ n = Len(ans) + 1 /\ e.streamIndex = n /\ more = Append(ans, a) /\ a \in AnswerType
      /\ Right(a, n, s) /\ (n = MaxAnswers => a.by = "typed")
  BY DEF Appended
<1>1. ans \in Seq(AnswerType) /\ \A i \in DOMAIN ans : Right(ans[i], i, s)
  BY DEF Appended
<1>2. Len(ans) \in Nat /\ DOMAIN ans = 1 .. Len(ans)
  <2> HIDE DEF AnswerType
  <2> QED  BY <1>1
<1>3. /\ more \in Seq(AnswerType) /\ Len(more) = Len(ans) + 1 /\ DOMAIN more = 1 .. Len(ans) + 1
      /\ more[Len(ans) + 1] = a /\ \A i \in 1 .. Len(ans) : more[i] = ans[i]
  <2> HIDE DEF AnswerType
  <2> QED  BY <1>0, <1>1, <1>2
<1>4. more # <<>>
  <2>1. Len(more) # 0  BY <1>2, <1>3
  <2> QED  BY <2>1
<1>5. Last(more) = a  BY <1>3 DEF Last
<1>6. ASSUME NEW i \in DOMAIN more PROVE Right(more[i], i, s)
  <2>1. CASE i = Len(ans) + 1  BY <2>1, <1>0, <1>3
  <2>2. CASE i # Len(ans) + 1
    <3>1. i \in DOMAIN ans  BY <2>2, <1>2, <1>3
    <3> QED  BY <3>1, <1>1, <1>2, <1>3
  <2> QED  BY <2>1, <2>2
<1>7. ans # <<>> => more[1] = ans[1]
  <2> SUFFICES ASSUME ans # <<>> PROVE more[1] = ans[1]  OBVIOUS
  <2>1. 1 \in 1 .. Len(ans)
    <3> HIDE DEF AnswerType
    <3> QED  BY <1>1, <1>2
  <2> QED  BY <2>1, <1>3
<1>8. Len(ans) = 0 => more[1] = a
  <2> SUFFICES ASSUME Len(ans) = 0 PROVE more[1] = a  OBVIOUS
  <2>1. Len(ans) + 1 = 1  OBVIOUS
  <2> QED  BY <2>1, <1>3
<1>9. AnswersRight(e, s, more)
  <2>1. more \in Seq([to : Destination, value : StructType \cup WalkedType,
                      result : {"value"}, by : {"typed", "walk", "tree"}])
    BY <1>3 DEF AnswerType
  <2>2. Len(more) = MaxAnswers => Last(more).by = "typed"  BY <1>0, <1>3, <1>5
  <2>3. e.streamIndex = Len(more)  BY <1>0, <1>3
  <2> QED  BY <2>1, <2>2, <2>3, <1>6, Zenon DEF AnswersRight
<1> QED  BY <1>4, <1>5, <1>7, <1>8, <1>9

LEMMA SameAnswers ==
    ASSUME NEW s, NEW d, NEW ans, AnswersRight(d, s, ans), NEW e, e.streamIndex = Len(ans)
    PROVE  AnswersRight(e, s, ans)
BY Zenon DEF AnswersRight

LEMMA OutcomeKeeps ==
    ASSUME NEW s, SourceOK(s), NEW c, NEW ans, AnswersRight(c, s, ans), NEW to \in Destination, NEW d, NEW dst,
           Prepared(d, s, ans, to, dst), NEW q, Outcome(q, d, s, ans, to),
           NEW more, more = IF q.result = "value" /\ Len(ans) < MaxAnswers
                            THEN Append(ans, Answer(to, q)) ELSE ans
    PROVE  Keeps(q, s, more)
<1>1. /\ Stands(q.d) /\ IsInitialized(q.d) /\ q.d.src = d.src /\ q.d.reader = d.reader
      /\ IsInitialized(d) /\ AtHand(d, s, ans) /\ q.result \in {"value", "eof", "error"}
  BY DEF Outcome, Prepared
<1>2. CASE q.result # "value"
  <2>1. more = ans  BY <1>2
  <2>2. AtHand(q.d, s, ans)  BY <1>1 DEF AtHand
  <2>3. q.d.streamIndex = Len(ans)  BY <1>2 DEF Outcome
  <2>4. AnswersRight(q.d, s, ans)  BY <2>3, SameAnswers
  <2>5. q.result = "eof" => Len(HoldingAValue(q.d.src)) <= Len(ans)  BY <1>1 DEF Outcome
  <2>6. LastRight(q.d, ans, q.result)  BY <2>5, <1>1, <1>2 DEF LastRight
  <2> QED  BY <2>1, <2>2, <2>4, <2>6, <1>1 DEF Keeps
<1>3. CASE q.result = "value"
  <2>1. PICK a : a = Answer(to, q)  OBVIOUS
  <2>2. /\ q.by \in {"walk", "tree"} /\ q.dst \in StructType \cup WalkedType
        /\ Len(ans) < MaxDocs /\ q.d.streamIndex = Len(ans) + 1 /\ Right(a, Len(ans) + 1, s)
        /\ q.by = "tree" /\ q.dst # Null =>
               /\ q.d.parsed /\ q.d.streamIndex \in DOMAIN q.d.docs
               /\ q.d.book = q.d.docs[q.d.streamIndex].id
    BY <2>1, <1>3 DEF Outcome
  <2>3. a.by = q.by /\ a.value = q.dst /\ a \in AnswerType
    <3>1. PICK val : val = q.dst  OBVIOUS
    <3>2. PICK by : by = q.by  OBVIOUS
    <3>3. a = [to |-> to, value |-> val, result |-> "value", by |-> by]
      BY <2>1, <3>1, <3>2, <1>3 DEF Answer
    <3>4. val \in StructType \cup WalkedType /\ by \in {"typed", "walk", "tree"}  BY <3>1, <3>2, <2>2
    <3>5. a \in AnswerType
      <4> HIDE DEF StructType, WalkedType, Destination
      <4> QED  BY <3>3, <3>4 DEF AnswerType
    <3> QED  BY <3>1, <3>2, <3>3, <3>5
  <2>4. Len(ans) \in Nat /\ Len(ans) < MaxAnswers /\ Len(ans) + 1 # MaxAnswers
    <3>1. Len(ans) \in Nat
      <4>1. ans \in Seq(AnswerType)  BY DEF AnswersRight, AnswerType
      <4> HIDE DEF AnswerType
      <4> QED  BY <4>1
    <3>2. Len(ans) < MaxDocs  BY <2>2
    <3> QED  BY <3>1, <3>2, DecoderStreamAssumption DEF MaxAnswers
  <2>5. more = Append(ans, a)  BY <2>1, <2>4, <1>3
  <2>6. /\ AnswersRight(q.d, s, more) /\ more # <<>> /\ Last(more) = a
        /\ ans # <<>> => more[1] = ans[1]
    <3>1. PICK e : e = q.d  OBVIOUS
    <3>2. PICK n : n = Len(ans) + 1  OBVIOUS
    <3>3. e.streamIndex = n  BY <3>1, <3>2, <2>2
    <3>4. Right(a, n, s)  BY <3>2, <2>2
    <3>5. n = MaxAnswers => a.by = "typed"  BY <3>2, <2>4
    <3>6. a \in AnswerType  BY <2>3
    <3>7. Appended(a, n, s, e, ans, more)
      <4>1. ans \in Seq(AnswerType) /\ \A i \in DOMAIN ans : Right(ans[i], i, s)
        BY DEF AnswersRight, AnswerType
      <4> QED  BY <4>1, <3>2, <3>3, <3>4, <3>5, <3>6, <2>5 DEF Appended
    <3>8. /\ AnswersRight(e, s, more) /\ more # <<>> /\ Last(more) = a
          /\ ans # <<>> => more[1] = ans[1]
      BY <3>7, AppendRight
    <3> QED  BY <3>1, <3>8
  <2>7. TypedRead(ans) => TypedRead(more)  BY <2>6 DEF TypedRead
  <2>8. AtHand(q.d, s, more)  BY <2>7, <1>1 DEF AtHand
  <2>9. LastRight(q.d, more, q.result)  BY <2>2, <2>3, <2>6, <1>3 DEF LastRight
  <2> QED  BY <2>6, <2>8, <2>9, <1>1 DEF Keeps
<1> QED  BY <1>2, <1>3

LEMMA FailedKeeps ==
    ASSUME NEW s, NEW c, NEW ans, AnswersRight(c, s, ans), NEW q, q.result = "error", Failed(q.d, s, ans)
    PROVE  Keeps(q, s, ans)
<1>1. /\ Stands(q.d) /\ AtHand(q.d, s, ans) /\ q.d.streamIndex = Len(ans)  BY DEF Failed
<1>2. AnswersRight(q.d, s, ans)  BY <1>1, SameAnswers
<1>3. LastRight(q.d, ans, q.result)  BY DEF LastRight
<1> QED  BY <1>1, <1>2, <1>3 DEF Keeps

LEMMA TypedKeeps ==
    ASSUME NEW s, SourceOK(s), NEW c, NEW ans, AnswersRight(c, s, ans), NEW e, AfterRead(e, s, ans),
           NEW r, TypedWalkOf(r, e), NEW q, q = DecodeNext(r.d, "struct", r.dst),
           NEW more, more = IF q.result = "value" /\ Len(ans) < MaxAnswers
                            THEN Append(ans, Answer("struct", q)) ELSE ans
    PROVE  Keeps(q, s, more)
<1>1. /\ Stands(q.d) /\ ~IsInitialized(q.d) /\ q.d.reader = e.reader /\ q.d.src = e.src
      /\ e.streamIndex <= MaxDocs => q.d.streamIndex = e.streamIndex + 1
      /\ e.streamIndex > MaxDocs => q.d.streamIndex = e.streamIndex
      /\ q.result = "value" /\ q.by = "typed" /\ q.dst = r.dst /\ r.dst \in StructType
  BY TypedAnswer
<1>2. e.streamIndex \in 0 .. MaxDocs + 1 /\ e.streamIndex = Len(ans)
  BY DecFields DEF AfterRead, Idle
<1>3. /\ ans \in Seq(AnswerType) /\ (\A i \in DOMAIN ans : Right(ans[i], i, s))
      /\ (Len(ans) = MaxAnswers => Last(ans).by = "typed")
  BY DEF AnswersRight, AnswerType
<1>4. Len(ans) \in 0 .. MaxDocs + 1 /\ Len(ans) <= MaxAnswers /\ MaxAnswers = MaxDocs + 1 /\ MaxDocs \in Nat
  BY <1>2, DecoderStreamAssumption DEF MaxAnswers
<1>5. ans # <<>> => Len(ans) # 0
  <2> HIDE DEF AnswerType
  <2> QED  BY <1>3
<1>6. AnswersRight(q.d, s, more) /\ TypedRead(more) /\ more # <<>> /\ Last(more).by = "typed"
  <2>1. CASE Len(ans) < MaxAnswers
    <3>1. PICK a : a = Answer("struct", q)  OBVIOUS
    <3>2. PICK d : d = q.d  OBVIOUS
    <3>3. PICK n : n = Len(ans) + 1  OBVIOUS
    <3>4. d.streamIndex = n
      <4>1. e.streamIndex <= MaxDocs  BY <2>1, <1>2, <1>4
      <4> QED  BY <4>1, <3>2, <3>3, <1>1, <1>2
    <3>5. PICK val : val = r.dst  OBVIOUS
    <3>6. a = [to |-> "struct", value |-> val, result |-> "value", by |-> "typed"]
      BY <3>1, <3>5, <1>1 DEF Answer
    <3>7. val \in StructType  BY <3>5, <1>1
    <3>8. a \in AnswerType
      <4> HIDE DEF StructType, WalkedType
      <4> QED  BY <3>6, <3>7 DEF AnswerType, Destination
    <3>9. a.to = "struct" /\ a.by = "typed" /\ a.value = r.dst  BY <3>5, <3>6
    <3>10. Right(a, n, s)
      <4>1. ans # <<>> => Len(ans) # 0  BY <1>5
      <4>2. n = Len(ans) + 1  BY <3>3
      <4>3. a.to = "struct" /\ a.by = "typed" /\ a.value = r.dst  BY <3>9
      <4> QED  BY <4>1, <4>2, <4>3, TypedRight
    <3>11. more = Append(ans, a)  BY <3>1, <2>1, <1>1
    <3>12. Appended(a, n, s, d, ans, more)
      BY <3>3, <3>4, <3>8, <3>9, <3>10, <3>11, <1>3 DEF Appended
    <3>13. /\ AnswersRight(d, s, more) /\ more # <<>> /\ Last(more) = a
           /\ ans # <<>> => more[1] = ans[1]
           /\ Len(ans) = 0 => more[1] = a
      <4>1. AnswersRight(d, s, more)  BY <3>12, AppendRight
      <4>2. more # <<>>  BY <3>12, AppendRight
      <4>3. Last(more) = a  BY <3>12, AppendRight
      <4>4. ans # <<>> => more[1] = ans[1]  BY <3>12, AppendRight
      <4>5. Len(ans) = 0 => more[1] = a  BY <3>12, AppendRight
      <4> QED  BY <4>1, <4>2, <4>3, <4>4, <4>5
    <3>14. ans # <<>> => TypedRead(ans)
      <4>1. ans # <<>> => e.streamIndex # 0  BY <1>2, <1>5
      <4> QED  BY <4>1 DEF AfterRead
    <3>15. ans = <<>> => Len(ans) = 0  OBVIOUS
    <3>16. more[1].by = "typed"  BY <3>9, <3>13, <3>14, <3>15 DEF TypedRead
    <3> QED  BY <3>2, <3>9, <3>13, <3>16 DEF TypedRead
  <2>2. CASE ~(Len(ans) < MaxAnswers)
    <3>1. more = ans  BY <2>2
    <3>2. Len(ans) = MaxAnswers /\ e.streamIndex > MaxDocs /\ e.streamIndex # 0  BY <2>2, <1>2, <1>4
    <3>3. q.d.streamIndex = Len(ans)  BY <3>2, <1>1, <1>2
    <3>4. AnswersRight(q.d, s, ans)
      <4>1. PICK d : d = q.d  OBVIOUS
      <4>2. AnswersRight(d, s, ans)  BY <4>1, <3>3, SameAnswers
      <4> QED  BY <4>1, <4>2
    <3>5. TypedRead(ans)  BY <3>2 DEF AfterRead
    <3> QED  BY <3>1, <3>2, <3>4, <3>5, <1>3 DEF TypedRead
  <2> QED  BY <2>1, <2>2
<1>7. e.reader \in {s, <<>>} /\ e.src \in {s, <<>>} /\ (e.src # s => e.reader = <<>>)
  BY DEF AfterRead
<1>8. WalkInto(e.reader, Fresh("struct")).stop = "none"
  <2>1. CASE e.reader = <<>>  BY <2>1, NothingWalked
  <2>2. CASE e.reader # <<>>
    <3>1. e.src = e.reader  BY <2>2, <1>7
    <3> QED  BY <3>1 DEF TypedWalkOf
  <2> QED  BY <2>1, <2>2
<1>9. AtHand(q.d, s, more)  BY <1>1, <1>6, <1>7, <1>8 DEF AtHand
<1>10. LastRight(q.d, more, q.result)  BY <1>1, <1>6 DEF LastRight
<1> QED  BY <1>1, <1>6, <1>9, <1>10 DEF Keeps

LEMMA FreshPrepared ==
    ASSUME NEW s, NEW d, NEW ans, Stands(d), IsInitialized(d), AtHand(d, s, ans), d.streamIndex = Len(ans),
           NEW to
    PROVE  Prepared(d, s, ans, to, Fresh(to))
<1>1. \A docs, n : Spared(Fresh("struct"), docs, n)  BY FreshStruct DEF Spared
<1> QED  BY <1>1, FreshStruct DEF Prepared

LEMMA DecodeInitReads ==
    ASSUME NEW s, NEW d, NEW ans, Stands(d), ~IsInitialized(d), AtHand(d, s, ans), d.streamIndex = Len(ans),
           NEW to \in Destination, NEW i, i = DecodeInit(d, to, Fresh(to))
    PROVE  \/ i.result = "error" /\ Failed(i.d, s, ans)
           \/ i.result = "read" /\ Prepared(i.d, s, ans, to, i.dst)
           \/ to = "struct" /\ i.result = "read" /\ \E e : AfterRead(e, s, ans) /\ TypedWalkOf(i, e)
<1>1. PICK e : e = ReadAll(d)  OBVIOUS
<1>2. AfterRead(e, s, ans)  BY <1>1, ReadAllReads
<1>3. CASE to = "any"
  <2>1. i = InitWalk(e, Fresh(to))  BY <1>1, <1>3 DEF DecodeInit
  <2> QED  BY <2>1, <1>2, <1>3, InitWalkReads
<1>4. CASE to = "struct"
  <2>1. i = InitTyped(e, Fresh("struct"))  BY <1>1, <1>4, Zenon DEF DecodeInit
  <2>2. \/ i.result = "error" /\ Failed(i.d, s, ans)
        \/ i.result = "read" /\ Prepared(i.d, s, ans, "struct", i.dst)
        \/ TypedWalkOf(i, e)
    BY <2>1, <1>2, InitTypedReads
  <2>3. TypedWalkOf(i, e) => i.result = "read"  BY DEF TypedWalkOf
  <2> QED  BY <2>2, <2>3, <1>2, <1>4
<1>5. CASE to # "any" /\ to # "struct"
  <2>1. i = InitTree(e, Fresh(to))  BY <1>1, <1>5, Zenon DEF DecodeInit
  <2>2. Fillable(e, to, Fresh(to))  BY <1>5 DEF Fillable
  <2> QED  BY <2>1, <2>2, <1>2, <1>5, InitTreeReads
<1> QED  BY <1>3, <1>4, <1>5

LEMMA DecodedKeeps ==
    ASSUME NEW s, SourceOK(s), NEW d, NEW ans, Stands(d), AtHand(d, s, ans), AnswersRight(d, s, ans),
           NEW to \in Destination, NEW q, q = Decoded(d, to, Fresh(to)),
           NEW more, more = IF q.result = "value" /\ Len(ans) < MaxAnswers
                            THEN Append(ans, Answer(to, q)) ELSE ans
    PROVE  Keeps(q, s, more)
<1>1. d.streamIndex = Len(ans)  BY DEF AnswersRight
<1>2. CASE IsInitialized(d)
  <2>1. q = DecodeNext(d, to, Fresh(to))  BY <1>2 DEF Decoded
  <2>2. Prepared(d, s, ans, to, Fresh(to))  BY <1>1, <1>2, FreshPrepared
  <2>3. Outcome(q, d, s, ans, to)  BY <2>1, <2>2, DecodeNextRight
  <2> QED  BY <2>2, <2>3, OutcomeKeeps
<1>3. CASE ~IsInitialized(d)
  <2>1. PICK i : i = DecodeInit(d, to, Fresh(to))  OBVIOUS
  <2>2. q = IF i.result = "error" THEN i ELSE DecodeNext(i.d, to, i.dst)
    BY <2>1, <1>3, Zenon DEF Decoded
  <2>3. \/ i.result = "error" /\ Failed(i.d, s, ans)
        \/ i.result = "read" /\ Prepared(i.d, s, ans, to, i.dst)
        \/ to = "struct" /\ i.result = "read" /\ \E e : AfterRead(e, s, ans) /\ TypedWalkOf(i, e)
    BY <2>1, <1>1, <1>3, DecodeInitReads
  <2>4. CASE i.result = "error" /\ Failed(i.d, s, ans)
    <3>1. q = i  BY <2>2, <2>4
    <3>2. q.result = "error" /\ Failed(q.d, s, ans)  BY <3>1, <2>4
    <3>3. more = ans  BY <3>2
    <3> QED  BY <3>2, <3>3, FailedKeeps
  <2>5. CASE i.result = "read" /\ Prepared(i.d, s, ans, to, i.dst)
    <3>1. q = DecodeNext(i.d, to, i.dst)  BY <2>2, <2>5
    <3>2. PICK e : e = i.d  OBVIOUS
    <3>3. PICK dst : dst = i.dst  OBVIOUS
    <3>4. Prepared(e, s, ans, to, dst) /\ q = DecodeNext(e, to, dst)  BY <3>1, <3>2, <3>3, <2>5
    <3>5. Outcome(q, e, s, ans, to)  BY <3>4, DecodeNextRight
    <3> QED  BY <3>4, <3>5, OutcomeKeeps
  <2>6. CASE to = "struct" /\ i.result = "read" /\ \E e : AfterRead(e, s, ans) /\ TypedWalkOf(i, e)
    <3>1. q = DecodeNext(i.d, "struct", i.dst)  BY <2>2, <2>6
    <3>2. PICK e : AfterRead(e, s, ans) /\ TypedWalkOf(i, e)  BY <2>6
    <3>3. more = IF q.result = "value" /\ Len(ans) < MaxAnswers THEN Append(ans, Answer("struct", q)) ELSE ans
      BY <2>6
    <3> QED  BY <3>1, <3>2, <3>3, TypedKeeps
  <2> QED  BY <2>3, <2>4, <2>5, <2>6
<1> QED  BY <1>2, <1>3

-----------------------------------------------------------------------------
(* The invariant. *)

LEMMA DecodeKeeps ==
    ASSUME NEW to \in Destination, IInv, Decode(to)
    PROVE  IInv'
<1>1. PICK r : /\ r = Decoded(dec, to, Fresh(to)) /\ dec' = r.d /\ last' = r.result
               /\ answers' = (IF r.result = "value" /\ Len(answers) < MaxAnswers
                              THEN Append(answers, Answer(to, r)) ELSE answers)
               /\ source' = source
  BY DEF Decode
<1>2. PICK s : s = source  OBVIOUS
<1>3. PICK d : d = dec  OBVIOUS
<1>4. PICK ans : ans = answers  OBVIOUS
<1>5. PICK more : more = IF r.result = "value" /\ Len(ans) < MaxAnswers THEN Append(ans, Answer(to, r)) ELSE ans
  OBVIOUS
<1>6. SourceOK(s) /\ Stands(d) /\ AtHand(d, s, ans) /\ AnswersRight(d, s, ans)
  BY <1>2, <1>3, <1>4 DEF IInv
<1>7. r = Decoded(d, to, Fresh(to))  BY <1>1, <1>3
<1>8. Keeps(r, s, more)  BY <1>5, <1>6, <1>7, DecodedKeeps
<1>9. answers' = more  BY <1>1, <1>4, <1>5
<1>10. Keeps(r, source', answers')  BY <1>1, <1>2, <1>8, <1>9
<1>11. SourceOK(source')  BY <1>1, <1>2, <1>6
<1> QED  BY <1>1, <1>10, <1>11 DEF Keeps, IInv

LEMMA DecodeFromNodeKeeps ==
    ASSUME IInv, DecodeFromNode
    PROVE  IInv'
<1>1. source' = source /\ answers' = answers /\ last' = last  BY DEF DecodeFromNode
<1>2. CASE IsInitialized(dec)
  <2>1. dec' = dec  BY <1>2 DEF DecodeFromNode
  <2> QED  BY <1>1, <2>1, Zenon DEF IInv
<1>3. CASE ~IsInitialized(dec)
  <2>1. dec' = DecodeInit(dec, "node", Null).d  BY <1>3 DEF DecodeFromNode
  <2>2. PICK d : d = dec  OBVIOUS
  <2>3. PICK s : s = source  OBVIOUS
  <2>4. PICK ans : ans = answers  OBVIOUS
  <2>5. /\ SourceOK(s) /\ Stands(d) /\ AtHand(d, s, ans) /\ AnswersRight(d, s, ans) /\ ~IsInitialized(d)
        /\ LastRight(d, ans, last)
    BY <2>2, <2>3, <2>4, <1>3 DEF IInv
  <2>6. PICK e : e = ReadAll(d)  OBVIOUS
  <2>7. d.streamIndex = Len(ans)  BY <2>5 DEF AnswersRight
  <2>8. AfterRead(e, s, ans)  BY <2>5, <2>6, <2>7, ReadAllReads
  <2>9. PICK r : r = InitTree(e, Null)  OBVIOUS
  <2>10. dec' = r.d  BY <2>1, <2>2, <2>6, <2>9, Zenon DEF DecodeInit
  <2>11. \/ r.result = "error" /\ Failed(r.d, s, ans)
         \/ r.result = "read" /\ Prepared(r.d, s, ans, "node", r.dst)
    <3>1. PICK to : to = "node"  OBVIOUS
    <3>2. PICK dst : dst = Null  OBVIOUS
    <3>3. r = InitTree(e, dst) /\ to # "struct"  BY <3>1, <3>2, <2>9
    <3>4. Fillable(e, to, dst)  BY <3>3 DEF Fillable
    <3>5. r = InitTree(e, dst)  BY <3>3
    <3>6. \/ r.result = "error" /\ Failed(r.d, s, ans)
          \/ r.result = "read" /\ Prepared(r.d, s, ans, to, r.dst)
      BY <3>4, <3>5, <2>8, InitTreeReads
    <3> QED  BY <3>1, <3>6
  <2>12. PICK c : c = r.d  OBVIOUS
  <2>13. Stands(c) /\ AtHand(c, s, ans) /\ c.streamIndex = Len(ans)
    BY <2>11, <2>12 DEF Failed, Prepared
  <2>14. AnswersRight(c, s, ans)  BY <2>5, <2>13, SameAnswers
  <2>15. LastRight(c, ans, last)
    <3>1. ~d.parsed /\ ~IsInitialized(d)  BY <2>5 DEF IsInitialized
    <3> QED  BY <3>1, <2>5 DEF LastRight
  <2>16. dec' = c /\ source' = s /\ answers' = ans /\ last' = last  BY <1>1, <2>3, <2>4, <2>10, <2>12
  <2> QED  BY <2>5, <2>13, <2>14, <2>15, <2>16 DEF IInv
<1> QED  BY <1>2, <1>3

LEMMA NextIInv == IInv /\ [Next]_vars => IInv'
<1> SUFFICES ASSUME IInv, [Next]_vars PROVE IInv'  OBVIOUS
<1>1. ASSUME NEW to \in Destination, Decode(to) PROVE IInv'  BY <1>1, DecodeKeeps
<1>2. CASE DecodeFromNode  BY <1>2, DecodeFromNodeKeeps
<1>3. CASE UNCHANGED vars  BY <1>3, Zenon DEF vars, IInv
<1> QED  BY <1>1, <1>2, <1>3 DEF Next

LEMMA EntriesAre ==
    ASSUME NEW es \in Entries
    PROVE  es \in Seq(EntryType)
<1>1. PICK n \in 0 .. MaxEntries : es \in [1 .. n -> [field : Field, holds : Kind]]  BY DEF Entries
<1>2. n \in Nat  BY <1>1, DecoderStreamAssumption
<1>3. Kind \subseteq Holds  BY DecoderStreamAssumption DEF Holds
<1>4. [field : Field, holds : Kind] \subseteq EntryType  BY <1>3 DEF EntryType
<1> HIDE DEF EntryType
<1>5. es \in [1 .. n -> EntryType]  BY <1>1, <1>4
<1> QED  BY <1>2, <1>5

LEMMA NumberedOK ==
    ASSUME NEW n \in 0 .. MaxDocs, NEW docs \in [1 .. n -> Documents]
    PROVE  SourceOK(Numbered(docs))
<1>1. n \in Nat /\ n <= MaxDocs /\ DOMAIN docs = 1 .. n  BY DecoderStreamAssumption
<1>2. PICK s : s = Numbered(docs)  OBVIOUS
<1>3. s = [i \in 1 .. n |-> [id |-> i, kind |-> docs[i].kind, entries |-> docs[i].entries]]
  BY <1>1, <1>2 DEF Numbered
<1>4. ASSUME NEW i \in 1 .. n
      PROVE  /\ docs[i].kind \in {"mapping", "empty", "none", "broken"} /\ docs[i].entries \in Seq(EntryType)
             /\ docs[i].kind # "mapping" => docs[i].entries = <<>>
  <2>1. docs[i] \in Documents  OBVIOUS
  <2>2. CASE docs[i] \in {[kind |-> "mapping", entries |-> es] : es \in {e \in Entries : KeysOnce(e)}}
    <3>1. PICK es \in Entries : docs[i] = [kind |-> "mapping", entries |-> es]  BY <2>2
    <3>2. es \in Seq(EntryType)  BY <3>1, EntriesAre
    <3> HIDE DEF EntryType
    <3> QED  BY <3>1, <3>2
  <2>3. CASE docs[i] \in [kind : {"empty", "none", "broken"}, entries : {<<>>}]
    <3>1. docs[i].kind \in {"empty", "none", "broken"} /\ docs[i].entries = <<>>  BY <2>3
    <3>2. <<>> \in Seq(EntryType)
      <4> HIDE DEF EntryType
      <4> QED  OBVIOUS
    <3> QED  BY <3>1, <3>2
  <2> QED  BY <2>1, <2>2, <2>3 DEF Documents
<1>5. \A i \in 1 .. n : s[i] \in DocType /\ (s[i].kind # "mapping" => s[i].entries = <<>>)
  <2> SUFFICES ASSUME NEW i \in 1 .. n
               PROVE  s[i] \in DocType /\ (s[i].kind # "mapping" => s[i].entries = <<>>)
    OBVIOUS
  <2>1. PICK kind : kind = docs[i].kind  OBVIOUS
  <2>2. PICK es : es = docs[i].entries  OBVIOUS
  <2>3. s[i] = [id |-> i, kind |-> kind, entries |-> es]  BY <1>3, <2>1, <2>2
  <2>4. i \in Nat \ {0}  BY <1>1
  <2>5. kind \in {"mapping", "empty", "none", "broken"} /\ es \in Seq(EntryType)
        /\ (kind # "mapping" => es = <<>>)
    BY <1>4, <2>1, <2>2
  <2>6. s[i] \in DocType
    <3> HIDE DEF EntryType
    <3> QED  BY <2>3, <2>4, <2>5 DEF DocType
  <2> QED  BY <2>3, <2>5, <2>6
<1>6. s \in [1 .. n -> DocType]  BY <1>3, <1>5, Zenon
<1> HIDE DEF DocType
<1>7. s \in Seq(DocType) /\ Len(s) = n /\ DOMAIN s = 1 .. n  BY <1>1, <1>6
<1> QED  BY <1>1, <1>2, <1>5, <1>7 DEF SourceOK

LEMMA InitIInv == Init => IInv
<1> SUFFICES ASSUME Init PROVE IInv  OBVIOUS
<1>1. PICK n \in 0 .. MaxDocs : \E docs \in [1 .. n -> Documents] : source = Numbered(docs)
  BY Zenon DEF Init
<1>2. PICK docs \in [1 .. n -> Documents] : source = Numbered(docs)  BY <1>1
<1>3. SourceOK(source)  BY <1>2, NumberedOK
<1>4. PICK redelivers \in BOOLEAN : dec = NewDecoder(redelivers)  BY DEF Init
<1>5. answers = <<>> /\ last = "none"  BY DEF Init
<1>6. PICK none : none = <<>>  OBVIOUS
<1>7. none \in Seq(DocType) /\ none \in Seq(WalkedType) /\ none \in Seq(Nat) /\ none \in Seq(AnswerType)
  <2> HIDE DEF DocType, WalkedType, AnswerType
  <2> QED  BY <1>6
<1>8. PICK s : s = source  OBVIOUS
<1>9. s \in Seq(DocType)  BY <1>3, <1>8 DEF SourceOK
<1>10. dec = [redelivers |-> redelivers, reader |-> s, src |-> none, walked |-> none, walkedOK |-> FALSE,
              typedWalk |-> FALSE, parsed |-> FALSE, docs |-> none, books |-> none, book |-> 0, streamIndex |-> 0]
  BY <1>4, <1>6, <1>8 DEF NewDecoder
<1>11. 0 \in 0 .. MaxDocs + 1  BY DecoderStreamAssumption
<1>12. /\ dec \in DecType /\ dec.reader = s /\ dec.src = none /\ ~dec.walkedOK /\ ~dec.typedWalk /\ ~dec.parsed
       /\ dec.books = none /\ dec.streamIndex = 0
  <2> HIDE DEF DocType, WalkedType
  <2> QED  BY <1>7, <1>9, <1>10, <1>11 DEF DecType
<1>13. Stands(dec) /\ ~IsInitialized(dec)  BY <1>6, <1>12 DEF Stands, IsInitialized
<1>14. AtHand(dec, source, answers)  BY <1>6, <1>8, <1>12, <1>13 DEF AtHand
<1>15. AnswersRight(dec, source, answers)
  <2>1. Len(answers) = 0 /\ DOMAIN answers = {}  BY <1>5
  <2>2. answers \in Seq(AnswerType)  BY <1>5, <1>6, <1>7
  <2>3. MaxAnswers # 0  BY DecoderStreamAssumption DEF MaxAnswers
  <2>4. dec.streamIndex = 0  BY <1>12
  <2> QED  BY <2>1, <2>2, <2>3, <2>4, Zenon DEF AnswersRight, AnswerType
<1>16. LastRight(dec, answers, last)  BY <1>5 DEF LastRight
<1> QED  BY <1>3, <1>13, <1>14, <1>15, <1>16 DEF IInv

LEMMA AnswersAre ==
    ASSUME IInv
    PROVE  /\ Len(answers) \in Nat /\ DOMAIN answers = 1 .. Len(answers)
           /\ \A i \in DOMAIN answers : Right(answers[i], i, source)
           /\ Len(Valued) \in Nat
<1>1. answers \in Seq(AnswerType) /\ \A i \in DOMAIN answers : Right(answers[i], i, source)
  BY DEF IInv, AnswersRight, AnswerType
<1>2. Len(answers) \in Nat /\ DOMAIN answers = 1 .. Len(answers)
  <2> HIDE DEF AnswerType
  <2> QED  BY <1>1
<1>3. Len(Valued) \in Nat  BY ValuedSource DEF IInv, Valued
<1> QED  BY <1>1, <1>2, <1>3

LEMMA NoneOverread ==
    ASSUME IInv, ~Overread, NEW i \in DOMAIN answers
    PROVE  /\ ~Overreads(answers[i], i, source)
           /\ i <= Len(Valued) /\ Hands(answers[i], Valued[i]) /\ KeepsFields(answers[i], i, source)
<1>1. ~Overreads(answers[i], i, source)  BY DEF Overread, Overreads, Valued
<1>2. Right(answers[i], i, source)  BY AnswersAre
<1> QED  BY <1>1, <1>2 DEF Right, Valued

LEMMA InOrder == IInv => AnswersInOrder
<1> SUFFICES ASSUME IInv, ~Overread
             PROVE  /\ \A i \in DOMAIN answers : i <= Len(Valued) /\ Hands(answers[i], Valued[i])
                    /\ ~Lost /\ last = "eof" => Len(answers) = Len(Valued)
  BY DEF AnswersInOrder
<1>1. \A i \in DOMAIN answers : i <= Len(Valued) /\ Hands(answers[i], Valued[i])  BY NoneOverread
<1>2. Len(answers) \in Nat /\ Len(Valued) \in Nat /\ DOMAIN answers = 1 .. Len(answers)  BY AnswersAre
<1>3. Len(answers) <= Len(Valued)
  <2>1. CASE Len(answers) = 0  BY <2>1, <1>2
  <2>2. CASE Len(answers) # 0
    <3>1. Len(answers) \in DOMAIN answers  BY <2>2, <1>2
    <3> QED  BY <3>1, <1>1
  <2> QED  BY <2>1, <2>2
<1>4. ASSUME ~Lost, last = "eof" PROVE Len(Valued) <= Len(answers)
  <2>1. IsInitialized(dec) /\ Len(HoldingAValue(dec.src)) <= Len(answers)
    BY <1>4 DEF IInv, LastRight
  <2>2. CASE dec.src = source  BY <2>1, <2>2 DEF Valued
  <2>3. CASE dec.src # source
    <3>1. dec.src = <<>> /\ dec.reader = <<>> /\ (WalkRefuses(source) \/ TypedRead(answers))
      BY <2>1, <2>3 DEF IInv, AtHand
    <3>2. ~WalkRefuses(source)  BY <3>1, <1>4 DEF Lost
    <3>3. answers # <<>> /\ answers[1].by = "typed"  BY <3>1, <3>2 DEF TypedRead
    <3>4. Len(answers) # 0  BY <3>3 DEF IInv, AnswersRight
    <3>5. 1 \in DOMAIN answers /\ 1 <= Len(answers)  BY <3>4, <1>2
    <3>6. ~Overreads(answers[1], 1, source)  BY <3>5, NoneOverread
    <3>7. Len(Valued) = 1  BY <3>3, <3>6 DEF Overreads, Valued
    <3> QED  BY <3>5, <3>7
  <2> QED  BY <2>2, <2>3
<1>5. ~Lost /\ last = "eof" => Len(answers) = Len(Valued)  BY <1>2, <1>3, <1>4
<1> QED  BY <1>1, <1>5

LEMMA KeepsStruct == IInv => StructKeeps
<1> SUFFICES ASSUME IInv, NEW i \in DOMAIN answers,
                    answers[i].to = "struct", answers[i].value # Null, ~Overread
             PROVE  \A f \in Field :
                        /\ Writes(Valued[i], f) => answers[i].value.fields[f] = Valued[i].id
                        /\ ~Writes(Valued[i], f) =>
                              \/ answers[i].value.fields[f] = Default
                              \/ LeftBehind(Valued, i, f, answers[i].value.fields[f])
  BY Zenon DEF StructKeeps
<1>1. KeepsFields(answers[i], i, source)  BY NoneOverread
<1> QED  BY <1>1 DEF KeepsFields, Valued

LEMMA OwnBooks == IInv => BooksMatch
BY DEF IInv, Stands, LastRight, BooksMatch

(* However many documents a stream has, and whatever they hold, a Decoder  *)
(* hands over the values of the documents in their order, whether a walk,  *)
(* a typed walk or the tree read them, and across a DecodeFromNode and a   *)
(* source read a second time; it answers io.EOF where every one was handed *)
(* over and not before.  The exceptions are those the runs state: a typed  *)
(* walk that read more than one document into a struct, and a reader that  *)
(* a failed first Decode read to its end.                                  *)
THEOREM HandedOverInOrder == Spec => []AnswersInOrder
<1>1. IInv /\ [Next]_vars => IInv'  BY NextIInv
<1> QED  BY InitIInv, <1>1, InOrder, PTL DEF Spec

(* decodeStruct and typedBuilder: a field the document writes is that      *)
(* document's, and one it does not is as the caller set it, also where a   *)
(* typed walk had begun to fill the struct and left the source to the      *)
(* tree.  The first answer of a stream may hold more: in a field its       *)
(* document does not write, what that typed walk wrote of a later one.     *)
(* Nothing else shows, in any answer but a typed walk's that overread.     *)
THEOREM StructsKeep == Spec => []StructKeeps
<1>1. IInv /\ [Next]_vars => IInv'  BY NextIInv
<1> QED  BY InitIInv, <1>1, KeepsStruct, PTL DEF Spec

(* parse and decode: between two calls one reading of the source stands,   *)
(* walked or parsed, and no typed walk is left half answered; and a        *)
(* document that comes off the tree is read with the books parse kept for  *)
(* it, not with those of a document that holds no value.                   *)
THEOREM ReadWithOwnBooks == Spec => []BooksMatch
<1>1. IInv /\ [Next]_vars => IInv'  BY NextIInv
<1> QED  BY InitIInv, <1>1, OwnBooks, PTL DEF Spec
=============================================================================
