---------------------------- MODULE DescentProofs ----------------------------
(* Theorems about Descent: that the walk's levels, its marks and its pins  *)
(* follow the calls, and that no cell is handed out again while the node   *)
(* in it is still read, for every stream, whatever the bounds.             *)
EXTENDS Descent, TLAPS, WellFoundedInduction, FiniteSetTheorems

-----------------------------------------------------------------------------
(* The inductive invariant. *)

FrameKind == {"document", "mapping", "sequence", "anchor", "tag", "explicit", "quiet"}
FrameSlot == {"node", "between", "key", "value", "end", "done", "closed"}
FrameType ==
    [kind : FrameKind, slot : FrameSlot, id : Nat, first : Nat, entered : BOOLEAN,
     inKey : BOOLEAN, pushed : BOOLEAN, decl : Nat, key : [from : Nat, to : Nat],
     alone : BOOLEAN, told : Nat, doc : Nat]
WalkType ==
    [in : Seq(FrameKind \cup {"key"}), key : Seq(BOOLEAN), keyNext : BOOLEAN, skip : Nat,
     keeping : BOOLEAN, quiet : Int, failed : BOOLEAN, stopped : BOOLEAN,
     told : [reported : BOOLEAN, right : BOOLEAN], declined : BOOLEAN]
OpenType == [name : Name, decl : Nat]
DeclType == [name : Name, nested : BOOLEAN, tagged : BOOLEAN, from : Nat, to : Nat]
TableOK(t) == DOMAIN t = {"nodes", "open", "cyclic"} /\ t.open \in Seq(OpenType)

(* The arena: no mark is above what is in use, nor above one further in.   *)
ArenaMarks == Seq([Types -> Nat])
ArenaType == [cells : [Types -> Seq(Nat)], marks : ArenaMarks]
MarksRise(a) ==
    \A i \in DOMAIN a.marks, t \in Types :
        /\ a.marks[i][t] <= Len(a.cells[t])
        /\ \A j \in i..Len(a.marks) : a.marks[i][t] <= a.marks[j][t]
ArenaOK(a) == a \in ArenaType /\ MarksRise(a)

(* What the levels, the marks and the pins depend on. *)
Shape ==
    /\ frames \in Seq(FrameType) /\ frames # <<>>
    /\ walk \in WalkType
    /\ TableOK(table) /\ decls \in Seq(DeclType)
    /\ readingKey \in Int /\ pins \in Int /\ nodes \in Nat
    /\ refused \in BOOLEAN
    /\ ArenaOK(arena)

(* The frames of each sort. *)
Declined == {i \in DOMAIN frames : i > 1 /\ ~frames[i].entered /\ frames[i].kind # "quiet"}
Keys == {i \in DOMAIN frames : frames[i].inKey}
Quiets == {i \in DOMAIN frames : frames[i].kind = "quiet"}
Marked == {i \in DOMAIN frames : frames[i].pushed}

InEntry(f) == f.slot \in {"key", "value", "end"}
Waits(f) == f.slot \in {"node", "key", "value"}

(* Every call but the innermost waits for a node. *)
Waiting == \A i \in 1..Len(frames)-1 : Waits(frames[i])

(* Nothing inside a node that was not handed over is handed over.          *)
FramesOK ==
    /\ frames[1].kind = "document" /\ ~frames[1].entered /\ ~frames[1].inKey
    /\ \A i \in Quiets : ~frames[i].entered /\ ~frames[i].inKey
    /\ \A j \in Entered : \A i \in Declined : j < i
    /\ Waiting

InMatches ==
    /\ Len(walk.in) = Cardinality(Entered)
    /\ \A i \in Entered : walk.in[Place(i, Entered)] = HandedAs(frames[i])
SkipMatches == walk.skip = Cardinality(Declined) + (IF walk.keeping THEN 1 ELSE 0)
OpenMatches ==
    /\ Len(table.open) = Cardinality(Anchors)
    /\ \A i \in Anchors : table.open[Place(i, Anchors)].decl = frames[i].decl
(* A document refused at an anchor's name leaves a pin. *)
PinsMatch ==
    pins - Cardinality(Anchors) - (IF walk.keeping THEN 1 ELSE 0) \in {0, IF refused THEN 1 ELSE 0}
CountsMatch ==
    /\ readingKey = Cardinality(Keys)
    /\ walk.quiet = Cardinality(Quiets)
    /\ OpenMatches
    /\ PinsMatch

Levels ==
    /\ FramesOK /\ InMatches /\ SkipMatches
    /\ ~walk.stopped => CountsMatch

(* The visitor asked for a node around frame i, or the node itself, whole. *)
KeptAt(i) == walk.keeping /\ \A j \in Entered : j <= i
FreeAt(i) == (\A j \in 1..i : ~frames[j].inKey /\ frames[j].kind # "anchor") /\ ~KeptAt(i)

(* keepsNothing answers the same as long as the entry is read. *)
MarksMatch ==
    /\ \A i \in DOMAIN frames : frames[i].pushed <=> InEntry(frames[i]) /\ FreeAt(i)
    /\ Reading => Len(arena.marks) = Cardinality(Marked)

IInv == Shape /\ Levels /\ MarksMatch


-----------------------------------------------------------------------------
(* The operations of the arena keep its marks in order. *)

LEMMA NewArenaOK == ArenaOK(NewArena) /\ NewArena.marks = <<>>
BY DEF ArenaOK, ArenaType, ArenaMarks, MarksRise, NewArena

LEMMA WithCells ==
    ASSUME NEW a \in ArenaType, NEW C \in [Types -> Seq(Nat)]
    PROVE  /\ [a EXCEPT !.cells = C] \in ArenaType
           /\ [a EXCEPT !.cells = C].cells = C /\ [a EXCEPT !.cells = C].marks = a.marks
BY DEF ArenaType, ArenaMarks

LEMMA WithMarks ==
    ASSUME NEW a \in ArenaType, NEW M \in ArenaMarks
    PROVE  /\ [a EXCEPT !.marks = M] \in ArenaType
           /\ [a EXCEPT !.marks = M].cells = a.cells /\ [a EXCEPT !.marks = M].marks = M
BY DEF ArenaType, ArenaMarks

LEMMA TakeCellOK ==
    ASSUME NEW a, ArenaOK(a), NEW type \in Types, NEW id \in Nat
    PROVE  ArenaOK(TakeCell(a, type, id)) /\ TakeCell(a, type, id).marks = a.marks
<1> DEFINE b == TakeCell(a, type, id) C == [a.cells EXCEPT ![type] = Append(@, id)]
<1>0. a \in ArenaType /\ MarksRise(a)  BY DEF ArenaOK
<1>1. a.cells \in [Types -> Seq(Nat)] /\ a.marks \in Seq([Types -> Nat])  BY <1>0 DEF ArenaType, ArenaMarks
<1>2. b = [a EXCEPT !.cells = C]  BY DEF TakeCell
<1>3. C \in [Types -> Seq(Nat)] /\ \A t \in Types : Len(a.cells[t]) <= Len(C[t])
  BY <1>1
<1> HIDE DEF C
<1>4. b \in ArenaType /\ b.cells = C /\ b.marks = a.marks  BY <1>0, <1>2, <1>3, WithCells
<1> HIDE DEF b
<1>5. ASSUME NEW i \in DOMAIN a.marks, NEW t \in Types PROVE a.marks[i][t] <= Len(C[t])
  <2>1. a.marks[i][t] \in Nat /\ Len(a.cells[t]) \in Nat /\ Len(C[t]) \in Nat  BY <1>1, <1>3
  <2>2. a.marks[i][t] <= Len(a.cells[t])  BY <1>0 DEF MarksRise
  <2> QED  BY <2>1, <2>2, <1>3
<1>6. MarksRise(b)  BY <1>0, <1>4, <1>5 DEF MarksRise
<1>7. ArenaOK(b) /\ b.marks = a.marks  BY <1>4, <1>6 DEF ArenaOK
<1> QED  BY <1>7 DEF b

LEMMA StandingOK ==
    ASSUME NEW a, ArenaOK(a)
    PROVE  /\ Standing(a) \in [Types -> Nat]
           /\ \A t \in Types : Standing(a)[t] = Len(a.cells[t])
BY DEF ArenaOK, ArenaType, ArenaMarks, Standing

LEMMA PushOK ==
    ASSUME NEW a, ArenaOK(a)
    PROVE  ArenaOK(Push(a)) /\ Len(Push(a).marks) = Len(a.marks) + 1
<1> DEFINE b == Push(a) n == Len(a.marks)
<1>0. a \in ArenaType /\ n \in Nat /\ MarksRise(a)  BY DEF ArenaOK, ArenaType, ArenaMarks
<1>1. b.cells = a.cells /\ b.marks = Append(a.marks, Standing(a)) /\ b \in ArenaType
  <2> DEFINE M == Append(a.marks, Standing(a))
  <2>1. M \in ArenaMarks  BY <1>0, StandingOK DEF ArenaType, ArenaMarks
  <2>2. b = [a EXCEPT !.marks = M]  BY DEF Push
  <2> HIDE DEF b, M
  <2>3. b.cells = a.cells /\ b.marks = M /\ b \in ArenaType  BY <1>0, <2>1, <2>2, WithMarks
  <2> QED  BY <2>3 DEF M
<1>3. /\ Len(b.marks) = n + 1 /\ DOMAIN b.marks = 1..n+1
      /\ \A i \in 1..n : b.marks[i] = a.marks[i]
      /\ b.marks[n+1] = Standing(a)
  BY <1>0, <1>1, StandingOK DEF ArenaType, ArenaMarks
<1>4. ASSUME NEW i \in DOMAIN b.marks, NEW t \in Types
      PROVE  /\ b.marks[i][t] <= Len(b.cells[t])
             /\ \A j \in i..Len(b.marks) : b.marks[i][t] <= b.marks[j][t]
  <2>0. Len(a.cells[t]) \in Nat  BY <1>0 DEF ArenaType, ArenaMarks
  <2>1. CASE i = n+1  BY <2>0, <2>1, <1>1, <1>3, StandingOK
  <2>2. CASE i \in 1..n
    <3>1. i \in DOMAIN a.marks /\ b.marks[i][t] <= Len(a.cells[t])
      BY <2>2, <1>0, <1>3 DEF MarksRise, ArenaType, ArenaMarks
    <3>2. ASSUME NEW j \in i..n+1 PROVE b.marks[i][t] <= b.marks[j][t]
      <4>1. CASE j = n+1  BY <4>1, <3>1, <1>3, StandingOK
      <4>2. CASE j \in i..n
        <5>1. a.marks[i][t] <= a.marks[j][t]  BY <4>2, <3>1, <1>0 DEF MarksRise
        <5>2. j \in 1..n  BY <4>2, <2>2, <1>0
        <5> QED  BY <5>1, <5>2, <2>2, <1>3
      <4> QED  BY <4>1, <4>2, <2>2, <1>0
    <3> QED  BY <3>1, <3>2, <1>1, <1>3
  <2> QED  BY <2>1, <2>2, <1>3, <1>0
<1> QED  BY <1>1, <1>3, <1>4 DEF ArenaOK, MarksRise

LEMMA PopOK ==
    ASSUME NEW a, ArenaOK(a), Len(a.marks) > 0
    PROVE  ArenaOK(Pop(a)) /\ Len(Pop(a).marks) = Len(a.marks) - 1
<1> DEFINE b == Pop(a) n == Len(a.marks) m == a.marks[n]
<1>0. /\ a \in ArenaType /\ n \in Nat /\ n > 0 /\ MarksRise(a)
      /\ a.marks \in Seq([Types -> Nat]) /\ DOMAIN a.marks = 1..n
      /\ a.cells \in [Types -> Seq(Nat)]
  BY DEF ArenaOK, ArenaType, ArenaMarks
<1>1. m \in [Types -> Nat] /\ \A t \in Types : m[t] <= Len(a.cells[t])
  <2>1. n \in DOMAIN a.marks  BY <1>0
  <2>2. m \in [Types -> Nat]  BY <2>1, <1>0
  <2> QED  BY <2>1, <2>2, <1>0 DEF MarksRise
<1> DEFINE M == SubSeq(a.marks, 1, n-1) C == [t \in Types |-> SubSeq(a.cells[t], 1, m[t])]
<1>3. /\ M \in ArenaMarks /\ Len(M) = n-1 /\ DOMAIN M = 1..n-1
      /\ \A i \in 1..n-1 : M[i] = a.marks[i]
  BY <1>0 DEF ArenaMarks
<1>4. ASSUME NEW t \in Types
      PROVE  C[t] \in Seq(Nat) /\ Len(C[t]) = m[t]
  <2>1. a.cells[t] \in Seq(Nat) /\ m[t] \in 0..Len(a.cells[t])  BY <1>0, <1>1
  <2>2. C[t] = SubSeq(a.cells[t], 1, m[t])  OBVIOUS
  <2> QED  BY <2>1, <2>2
<1>5. C \in [Types -> Seq(Nat)]  BY <1>4
<1>2. b.marks = M /\ b.cells = C /\ b \in ArenaType
  <2> DEFINE d == [a EXCEPT !.marks = M]
  <2>1. b = Rewind(d, m)  BY <1>0 DEF Pop, Front, Last
  <2>2. d \in ArenaType /\ d.marks = M /\ d.cells = a.cells
    <3> HIDE DEF M
    <3> QED  BY <1>0, <1>3, WithMarks
  <2>3. Rewind(d, m) = [d EXCEPT !.cells = C]
    <3> HIDE DEF d, m
    <3> QED  BY <2>2 DEF Rewind
  <2> HIDE DEF b, d, C, M, m
  <2> QED  BY <2>1, <2>2, <2>3, <1>5, WithCells
<1> HIDE DEF b, C, M
<1>6. ASSUME NEW i \in DOMAIN b.marks, NEW t \in Types
      PROVE  /\ b.marks[i][t] <= Len(b.cells[t])
             /\ \A j \in i..Len(b.marks) : b.marks[i][t] <= b.marks[j][t]
  <2>1. i \in 1..n-1 /\ i \in DOMAIN a.marks /\ n \in i..n  BY <1>2, <1>3, <1>0
  <2>2. \A j \in i..n : a.marks[i][t] <= a.marks[j][t]  BY <2>1, <1>0 DEF MarksRise
  <2>3. b.marks[i][t] <= Len(b.cells[t])  BY <2>1, <2>2, <1>2, <1>3, <1>4
  <2>4. ASSUME NEW j \in i..Len(b.marks) PROVE b.marks[i][t] <= b.marks[j][t]
    <3>1. j \in 1..n-1 /\ j \in i..n  BY <2>1, <1>2, <1>3, <1>0
    <3> QED  BY <3>1, <2>1, <2>2, <1>2, <1>3
  <2> QED  BY <2>3, <2>4
<1>7. ArenaOK(b) /\ Len(b.marks) = n-1  BY <1>2, <1>3, <1>6 DEF ArenaOK, MarksRise
<1> QED  BY <1>7 DEF b

LEMMA CommitOK ==
    ASSUME NEW a, ArenaOK(a)
    PROVE  ArenaOK(Commit(a)) /\ Len(Commit(a).marks) = Len(a.marks)
<1> DEFINE b == Commit(a)
<1>0. /\ a \in ArenaType /\ Len(a.marks) \in Nat /\ MarksRise(a)
      /\ a.marks \in Seq([Types -> Nat]) /\ DOMAIN a.marks = 1..Len(a.marks)
      /\ a.cells \in [Types -> Seq(Nat)]
  BY DEF ArenaOK, ArenaType, ArenaMarks
<1> DEFINE M == [i \in DOMAIN a.marks |-> Raise(a.marks[i], Standing(a))]
<1>1. b = [a EXCEPT !.marks = M]  BY DEF Commit
<1>2. \A i \in DOMAIN a.marks :
          /\ M[i] \in [Types -> Nat]
          /\ \A t \in Types : M[i][t] = Len(a.cells[t])
  <2> TAKE i \in DOMAIN a.marks
  <2>1. a.marks[i] \in [Types -> Nat]  BY <1>0
  <2>2. \A t \in Types : a.marks[i][t] <= Len(a.cells[t])  BY <1>0 DEF MarksRise
  <2> QED  BY <2>1, <2>2, <1>0, StandingOK DEF Raise
<1>3. M \in ArenaMarks /\ DOMAIN M = DOMAIN a.marks /\ Len(M) = Len(a.marks)
  <2>1. \A i \in DOMAIN a.marks : M[i] \in [Types -> Nat]  BY <1>2
  <2>2. DOMAIN M = 1..Len(a.marks)  BY <1>0
  <2>3. \A i \in 1..Len(a.marks) : M[i] \in [Types -> Nat]  BY <2>1, <1>0
  <2> HIDE DEF M
  <2>4. M \in [1..Len(a.marks) -> [Types -> Nat]] 
    <3>1. M = [i \in 1..Len(a.marks) |-> M[i]]  BY <1>0 DEF M
    <3> QED  BY <2>3, <3>1
  <2>5. PICK n \in Nat : n = Len(a.marks)  BY <1>0
  <2>6. M \in Seq([Types -> Nat]) /\ Len(M) = n  BY <2>4, <2>5
  <2> QED  BY <2>2, <2>5, <2>6, <1>0 DEF ArenaMarks
<1> HIDE DEF M
<1>4. b \in ArenaType /\ b.marks = M /\ b.cells = a.cells  BY <1>0, <1>1, <1>3, WithMarks
<1> HIDE DEF b
<1>5. MarksRise(b)
  <2> SUFFICES ASSUME NEW i \in DOMAIN b.marks, NEW t \in Types
      PROVE  /\ b.marks[i][t] <= Len(b.cells[t])
             /\ \A j \in i..Len(b.marks) : b.marks[i][t] <= b.marks[j][t]
    BY DEF MarksRise
  <2>1. Len(a.cells[t]) \in Nat  BY <1>0
  <2>2. i \in DOMAIN a.marks /\ \A j \in i..Len(b.marks) : j \in DOMAIN a.marks
    BY <1>3, <1>4, <1>0
  <2>3. b.marks[i][t] = Len(a.cells[t])  BY <2>2, <1>2, <1>4
  <2>4. \A j \in i..Len(b.marks) : b.marks[j][t] = Len(a.cells[t])  BY <2>2, <1>2, <1>4
  <2> QED  BY <2>1, <2>3, <2>4, <1>4
<1>6. ArenaOK(b) /\ Len(b.marks) = Len(a.marks)  BY <1>3, <1>4, <1>5 DEF ArenaOK
<1> QED  BY <1>6 DEF b

LEMMA ResetOK ==
    ASSUME NEW a, ArenaOK(a)
    PROVE  ArenaOK(Reset(a)) /\ Reset(a).marks = <<>>
<1> DEFINE d == Rewind(a, [t \in Types |-> 0]) C == [t \in Types |-> SubSeq(a.cells[t], 1, 0)]
<1>1. a \in ArenaType  BY DEF ArenaOK
<1>2. d = [a EXCEPT !.cells = C]  BY DEF Rewind
<1>3. C \in [Types -> Seq(Nat)]  BY <1>1 DEF ArenaType, ArenaMarks
<1> HIDE DEF C
<1>4. d \in ArenaType  BY <1>1, <1>2, <1>3, WithCells
<1>5. Reset(a) = [d EXCEPT !.marks = <<>>] /\ <<>> \in ArenaMarks  BY DEF Reset, ArenaMarks
<1> HIDE DEF d
<1>6. Reset(a) \in ArenaType /\ Reset(a).marks = <<>>  BY <1>4, <1>5, WithMarks
<1> QED  BY <1>6 DEF ArenaOK, MarksRise


-----------------------------------------------------------------------------
(* The numbers of frames of a sort, as calls are made and return. *)

LEMMA PlaceBounds ==
    ASSUME NEW n \in Nat, NEW S \in SUBSET (1..n)
    PROVE  /\ IsFiniteSet(S) /\ Cardinality(S) \in Nat
           /\ \A i \in S : Place(i, S) \in 1..Cardinality(S)
<1>1. IsFiniteSet(S) /\ Cardinality(S) \in Nat
  <2>1. IsFiniteSet(1..n)  BY FS_Interval
  <2>2. IsFiniteSet(S)  BY <2>1, FS_Subset
  <2> QED  BY <2>2, FS_CardinalityType
<1>2. ASSUME NEW i \in S PROVE Place(i, S) \in 1..Cardinality(S)
  <2> DEFINE T == {j \in S : j <= i}
  <2>1. IsFiniteSet(T) /\ Cardinality(T) \in Nat /\ Cardinality(T) <= Cardinality(S)
    BY <1>1, FS_Subset, FS_CardinalityType
  <2>2. T # {}
    <3>1. i \in T  OBVIOUS
    <3> QED  BY <3>1
  <2>3. Cardinality(T) # 0
    <3> HIDE DEF T
    <3> QED  BY <2>1, <2>2, FS_EmptySet
  <2> QED  BY <1>1, <2>1, <2>3 DEF Place
<1> QED  BY <1>1, <1>2

LEMMA Grows ==
    ASSUME NEW n \in Nat, NEW S \in SUBSET (1..n)
    PROVE  LET T == S \cup {n+1}
           IN  /\ Cardinality(T) = Cardinality(S) + 1
               /\ \A i \in S : Place(i, T) = Place(i, S)
               /\ Place(n+1, T) = Cardinality(S) + 1
<1> DEFINE T == S \cup {n+1}
<1>0. n+1 \notin S /\ IsFiniteSet(S)
  <2>1. IsFiniteSet(S)  BY PlaceBounds
  <2> QED  BY <2>1
<1>a. \A i \in S : i <= n+1  OBVIOUS
<1>1. Cardinality(T) = Cardinality(S) + 1  BY <1>0, FS_AddElement
<1>2. ASSUME NEW i \in S PROVE Place(i, T) = Place(i, S)
  <2>1. {j \in T : j <= i} = {j \in S : j <= i}  OBVIOUS
  <2> QED  BY <2>1 DEF Place
<1>3. Place(n+1, T) = Cardinality(S) + 1
  <2>0. \A j \in T : j <= n+1  BY <1>a
  <2>1. {j \in T : j <= n+1} = T
    <3> HIDE DEF T
    <3> QED  BY <2>0
  <2> QED  BY <2>1, <1>1 DEF Place
<1> QED  BY <1>1, <1>2, <1>3

LEMMA Shrinks ==
    ASSUME NEW n \in Nat \ {0}, NEW S \in SUBSET (1..n)
    PROVE  /\ S \ {n} \in SUBSET (1..n-1)
           /\ Cardinality(S \ {n}) = Cardinality(S) - (IF n \in S THEN 1 ELSE 0)
           /\ \A i \in S \ {n} : Place(i, S \ {n}) = Place(i, S)
<1>0. IsFiniteSet(S) /\ Cardinality(S) \in Nat  BY PlaceBounds
<1>1. S \ {n} \in SUBSET (1..n-1)  OBVIOUS
<1>2. Cardinality(S \ {n}) = Cardinality(S) - (IF n \in S THEN 1 ELSE 0)
  <2>1. CASE n \in S  BY <1>0, <2>1, FS_RemoveElement
  <2>2. CASE n \notin S
    <3>1. S \ {n} = S  BY <2>2
    <3>2. Cardinality(S \ {n}) = Cardinality(S)  BY <3>1
    <3> HIDE <3>1
    <3> QED  BY <1>0, <2>2, <3>2
  <2> QED  BY <2>1, <2>2
<1>3. ASSUME NEW i \in S \ {n} PROVE Place(i, S \ {n}) = Place(i, S)
  <2>1. {j \in S \ {n} : j <= i} = {j \in S : j <= i}  OBVIOUS
  <2> QED  BY <2>1 DEF Place
<1> QED  BY <1>1, <1>2, <1>3

(* A stack that has one thing for each frame of a sort still has, when the *)
(* frames and the stack grow or shrink together.                           *)
Stacked(s, S, W) == Len(s) = Cardinality(S) /\ \A i \in S : s[Place(i, S)] \in W[i]

LEMMA StackGrows ==
    ASSUME NEW n \in Nat, NEW S \in SUBSET (1..n), NEW W, NEW V, NEW s \in Seq(V),
           Stacked(s, S, W), NEW v \in V, v \in W[n+1]
    PROVE  Stacked(Append(s, v), S \cup {n+1}, W)
<1> DEFINE T == S \cup {n+1} r == Append(s, v)
<1>1. /\ Cardinality(T) = Cardinality(S) + 1
      /\ \A i \in S : Place(i, T) = Place(i, S)
      /\ Place(n+1, T) = Cardinality(S) + 1
  BY Grows
<1>2. /\ Len(s) = Cardinality(S)
      /\ \A i \in S : s[Place(i, S)] \in W[i] /\ Place(i, S) \in 1..Len(s)
  BY PlaceBounds DEF Stacked
<1>3. Len(r) = Len(s) + 1 /\ r[Len(s)+1] = v /\ \A k \in 1..Len(s) : r[k] = s[k]
  OBVIOUS
<1>4. Len(r) = Cardinality(T)  BY <1>1, <1>2, <1>3
<1>5. ASSUME NEW i \in T PROVE r[Place(i, T)] \in W[i]
  <2>1. CASE i = n+1  BY <2>1, <1>1, <1>2, <1>3
  <2>2. CASE i \in S  BY <2>2, <1>1, <1>2, <1>3
  <2> QED  BY <2>1, <2>2
<1> QED  BY <1>4, <1>5 DEF Stacked

LEMMA StackShrinks ==
    ASSUME NEW n \in Nat \ {0}, NEW S \in SUBSET (1..n), NEW W, NEW V, NEW s \in Seq(V),
           Stacked(s, S, W), n \in S
    PROVE  /\ Stacked(Front(s), S \ {n}, W)
           /\ Front(s) \in Seq(V) /\ Len(s) > 0
<1> DEFINE T == S \ {n} r == Front(s)
<1>1. /\ T \in SUBSET (1..n-1) /\ Cardinality(T) = Cardinality(S) - 1
      /\ \A i \in T : Place(i, T) = Place(i, S)
  BY Shrinks
<1>2. /\ Len(s) = Cardinality(S) /\ Cardinality(T) \in Nat
      /\ \A i \in S : s[Place(i, S)] \in W[i]
      /\ \A i \in T : Place(i, T) \in 1..Cardinality(T)
  <2>1. n-1 \in Nat  OBVIOUS
  <2> QED  BY <1>1, <2>1, PlaceBounds DEF Stacked
<1>3. Len(s) > 0 /\ Len(s) \in Nat  BY <1>1, <1>2
<1>4. /\ r \in Seq(V) /\ Len(r) = Len(s) - 1
      /\ \A k \in 1..Len(s)-1 : r[k] = s[k]
  <2>1. r = SubSeq(s, 1, Len(s)-1)  BY DEF Front
  <2>2. PICK m \in Nat : Len(s) = m + 1  BY <1>3
  <2>3. r = SubSeq(s, 1, m) /\ Len(s) - 1 = m  BY <2>1, <2>2
  <2>4. SubSeq(s, 1, m) \in Seq(V) /\ Len(SubSeq(s, 1, m)) = m
        /\ \A k \in 1..m : SubSeq(s, 1, m)[k] = s[k]
    BY <2>2
  <2> HIDE DEF r
  <2> QED  BY <2>3, <2>4
<1>5. Len(r) = Cardinality(T)  BY <1>1, <1>2, <1>4
<1>6. ASSUME NEW i \in T PROVE r[Place(i, T)] \in W[i]
  BY <1>1, <1>2, <1>3, <1>4
<1> QED  BY <1>3, <1>4, <1>5, <1>6 DEF Stacked


-----------------------------------------------------------------------------
(* The frames, as calls are made and return. *)

(* What the sorts of frames are told from. *)
Alike(f, g) ==
    /\ g.kind = f.kind /\ (g.entered <=> f.entered) /\ (g.inKey <=> f.inKey)
    /\ f.kind = "anchor" => g.decl = f.decl
SameRole(f, g) ==
    /\ f \in FrameType /\ g \in FrameType
    /\ Alike(f, g) /\ (g.pushed <=> f.pushed) /\ (InEntry(g) <=> InEntry(f))

LEMMA SameRoleTransitive ==
    ASSUME NEW f, NEW g, NEW h, SameRole(f, g), SameRole(g, h)
    PROVE  SameRole(f, h)
BY DEF SameRole, Alike

LEMMA ReadOK ==
    ASSUME NEW f \in FrameType, Waits(f), NEW n \in Nat
    PROVE  SameRole(f, Read(f, n))
<1>1. CASE f.slot = "key"
  <2>1. Read(f, n) = [f EXCEPT !.slot = "value", !.key.to = n]  BY <1>1 DEF Read
  <2>2. [f.key EXCEPT !.to = n] \in [from : Nat, to : Nat]  BY DEF FrameType
  <2>3. Read(f, n) = [f EXCEPT !.slot = "value", !.key = [f.key EXCEPT !.to = n]]  BY <2>1
  <2> DEFINE k == [f.key EXCEPT !.to = n]
  <2> HIDE DEF k
  <2> QED  BY <1>1, <2>2, <2>3 DEF SameRole, Alike, InEntry, FrameType, FrameSlot
<1>2. CASE f.slot = "value"
  <2>1. Read(f, n) = [f EXCEPT !.slot = "end"]  BY <1>2 DEF Read
  <2> QED  BY <1>2, <2>1 DEF SameRole, Alike, InEntry, FrameType, FrameSlot
<1>3. CASE f.slot = "node"
  <2>1. Read(f, n) = [f EXCEPT !.slot = "done"]  BY <1>3 DEF Read
  <2> QED  BY <1>3, <2>1 DEF SameRole, Alike, InEntry, FrameType, FrameSlot
<1> QED  BY <1>1, <1>2, <1>3 DEF Waits

LEMMA ToldOK ==
    ASSUME NEW f \in FrameType, NEW called
    PROVE  SameRole(f, Told(f, called))
BY DEF Told, SameRole, Alike, InEntry, FrameType

LEMMA AloneOK ==
    ASSUME NEW f \in FrameType, NEW b \in BOOLEAN
    PROVE  SameRole(f, [f EXCEPT !.alone = b])
BY DEF SameRole, Alike, InEntry, FrameType


(* The three ways the frames change: the calls are the same, one more is   *)
(* made, the innermost returns.                                            *)
Stays ==
    /\ frames \in Seq(FrameType) /\ frames' \in Seq(FrameType)
    /\ Len(frames') = Len(frames)
    /\ \A i \in 1..Len(frames) : Alike(frames[i], frames'[i])
Pushes(f) ==
    /\ frames \in Seq(FrameType) /\ frames' \in Seq(FrameType) /\ f \in FrameType
    /\ Len(frames') = Len(frames) + 1 /\ frames'[Len(frames)+1] = f
    /\ \A i \in 1..Len(frames) : Alike(frames[i], frames'[i])
Pops ==
    /\ frames \in Seq(FrameType) /\ frames' \in Seq(FrameType)
    /\ Len(frames) > 1 /\ Len(frames') = Len(frames) - 1
    /\ \A i \in 1..Len(frames)-1 : Alike(frames[i], frames'[i])

LEMMA SortsAreFrames ==
    ASSUME frames \in Seq(FrameType)
    PROVE  /\ Entered \in SUBSET (1..Len(frames)) /\ Declined \in SUBSET (1..Len(frames))
           /\ Anchors \in SUBSET (1..Len(frames)) /\ Keys \in SUBSET (1..Len(frames))
           /\ Quiets \in SUBSET (1..Len(frames)) /\ Marked \in SUBSET (1..Len(frames))
           /\ Len(frames) \in Nat
BY DEF Entered, Declined, Anchors, Keys, Quiets, Marked

LEMMA StaySorts ==
    ASSUME Stays
    PROVE  /\ Entered' = Entered /\ Declined' = Declined /\ Anchors' = Anchors
           /\ Keys' = Keys /\ Quiets' = Quiets
<1> PICK n \in Nat : n = Len(frames)  BY DEF Stays
<1>1. DOMAIN frames = 1..n /\ DOMAIN frames' = 1..n  BY DEF Stays
<1> QED  BY <1>1 DEF Stays, Alike, Entered, Declined, Anchors, Keys, Quiets

LEMMA PushSorts ==
    ASSUME NEW f, Pushes(f), Len(frames) > 0
    PROVE  LET n == Len(frames)
               With(S, B) == IF B THEN S \cup {n+1} ELSE S
           IN  /\ Entered' = With(Entered, f.entered)
               /\ Declined' = With(Declined, ~f.entered /\ f.kind # "quiet")
               /\ Anchors' = With(Anchors, f.kind = "anchor")
               /\ Keys' = With(Keys, f.inKey)
               /\ Quiets' = With(Quiets, f.kind = "quiet")
<1> PICK n \in Nat : n = Len(frames)  BY DEF Pushes
<1>1. DOMAIN frames = 1..n /\ DOMAIN frames' = 1..n+1  BY DEF Pushes
<1>2. /\ \A i \in 1..n : Alike(frames[i], frames'[i])
      /\ frames'[n+1] = f /\ n > 0
  BY DEF Pushes
<1>3. Entered' = IF f.entered THEN Entered \cup {n+1} ELSE Entered
  BY <1>1, <1>2 DEF Alike, Entered
<1>4. Declined' = IF ~f.entered /\ f.kind # "quiet" THEN Declined \cup {n+1} ELSE Declined
  BY <1>1, <1>2 DEF Alike, Declined
<1>5. Anchors' = IF f.kind = "anchor" THEN Anchors \cup {n+1} ELSE Anchors
  BY <1>1, <1>2 DEF Alike, Anchors
<1>6. Keys' = IF f.inKey THEN Keys \cup {n+1} ELSE Keys
  BY <1>1, <1>2 DEF Alike, Keys
<1>7. Quiets' = IF f.kind = "quiet" THEN Quiets \cup {n+1} ELSE Quiets
  BY <1>1, <1>2 DEF Alike, Quiets
<1> QED  BY <1>3, <1>4, <1>5, <1>6, <1>7

LEMMA PopSorts ==
    ASSUME Pops
    PROVE  LET n == Len(frames)
           IN  /\ Entered' = Entered \ {n} /\ Declined' = Declined \ {n}
               /\ Anchors' = Anchors \ {n} /\ Keys' = Keys \ {n} /\ Quiets' = Quiets \ {n}
<1> PICK n \in Nat : n = Len(frames)  BY DEF Pops
<1>1. DOMAIN frames = 1..n /\ DOMAIN frames' = 1..n-1  BY DEF Pops
<1>2. \A i \in 1..n-1 : Alike(frames[i], frames'[i])  BY DEF Pops
<1>3. Entered' = Entered \ {n}  BY <1>1, <1>2 DEF Alike, Entered
<1>4. Declined' = Declined \ {n}  BY <1>1, <1>2 DEF Alike, Declined
<1>5. Anchors' = Anchors \ {n}  BY <1>1, <1>2 DEF Alike, Anchors
<1>6. Keys' = Keys \ {n}  BY <1>1, <1>2 DEF Alike, Keys
<1>7. Quiets' = Quiets \ {n}  BY <1>1, <1>2 DEF Alike, Quiets
<1> QED  BY <1>3, <1>4, <1>5, <1>6, <1>7


-----------------------------------------------------------------------------
(* The walk's levels follow the calls. *)

(* A walk with the nodes of another open, that has stopped where it has.   *)
SameLevels(v, w) ==
    /\ v \in WalkType /\ w \in WalkType
    /\ v.in = w.in /\ v.skip = w.skip /\ (v.keeping <=> w.keeping) /\ v.quiet = w.quiet
    /\ w.stopped => v.stopped

(* The stacks, as stacks of what they may hold. *)
HandedTypes(fs) == [i \in Nat |-> {HandedAs(fs[i])}]
OpenTypes(fs) == [i \in Nat |-> {o \in OpenType : o.decl = fs[i].decl}]

LEMMA InStacked ==
    ASSUME NEW fs, NEW S, S \subseteq Nat, NEW s
    PROVE  Stacked(s, S, HandedTypes(fs))
           <=> Len(s) = Cardinality(S) /\ \A i \in S : s[Place(i, S)] = HandedAs(fs[i])
<1>1. \A i \in S : HandedTypes(fs)[i] = {HandedAs(fs[i])}  BY DEF HandedTypes
<1> QED  BY <1>1 DEF Stacked

LEMMA OpenStacked ==
    ASSUME NEW fs, NEW n \in Nat, NEW S \in SUBSET (1..n), NEW s \in Seq(OpenType)
    PROVE  Stacked(s, S, OpenTypes(fs))
           <=> Len(s) = Cardinality(S) /\ \A i \in S : s[Place(i, S)].decl = fs[i].decl
<1>0. \A i \in S : Place(i, S) \in 1..Cardinality(S)  BY PlaceBounds
<1>1. \A i \in S : i \in Nat /\ Place(i, S) \in 1..Cardinality(S)  BY <1>0
<1>2. \A i \in S : OpenTypes(fs)[i] = {o \in OpenType : o.decl = fs[i].decl}
  BY <1>1 DEF OpenTypes
<1>3. ASSUME Len(s) = Cardinality(S), NEW i \in S
      PROVE  s[Place(i, S)] \in OpenType
  BY <1>1, <1>3
<1>4. ASSUME Len(s) = Cardinality(S), NEW i \in S
      PROVE  s[Place(i, S)].decl = fs[i].decl <=> s[Place(i, S)] \in OpenTypes(fs)[i]
  BY <1>2, <1>3, <1>4
<1> QED  BY <1>4 DEF Stacked

(* A stack whose frames stay is a stack of the same. *)
LEMMA StackedStays ==
    ASSUME NEW s, NEW S, NEW W, NEW V, Stacked(s, S, W), \A i \in S : V[i] = W[i]
    PROVE  Stacked(s, S, V)
BY DEF Stacked

LEMMA HandedStays ==
    ASSUME NEW fs, NEW gs, NEW i \in Nat, Alike(fs[i], gs[i])
    PROVE  /\ HandedTypes(gs)[i] = HandedTypes(fs)[i]
           /\ fs[i].kind = "anchor" => OpenTypes(gs)[i] = OpenTypes(fs)[i]
BY DEF HandedTypes, OpenTypes, HandedAs, Alike

LEMMA StayLevels ==
    ASSUME Levels, Stays, Waiting', SameLevels(walk', walk), Len(frames) > 0, refused => refused',
           table.open \in Seq(OpenType), table'.open \in Seq(OpenType),
           ~walk'.stopped =>
               readingKey' = readingKey /\ pins' = pins /\ table'.open = table.open
    PROVE  Levels'
<1>0. /\ Entered' = Entered /\ Declined' = Declined /\ Anchors' = Anchors
      /\ Keys' = Keys /\ Quiets' = Quiets
  BY StaySorts
<1>1. /\ frames \in Seq(FrameType) /\ frames' \in Seq(FrameType) /\ Len(frames') = Len(frames)
      /\ \A i \in 1..Len(frames) : Alike(frames[i], frames'[i])
  BY DEF Stays
<1>2. Quiets \in SUBSET (1..Len(frames))  BY <1>1, SortsAreFrames
<1>3. FramesOK'
  <2>1. 1 \in 1..Len(frames)  BY <1>1
  <2>2. frames'[1].kind = "document" /\ ~frames'[1].entered /\ ~frames'[1].inKey
    BY <2>1, <1>1 DEF Levels, FramesOK, Alike
  <2>3. \A i \in Quiets : ~frames'[i].entered /\ ~frames'[i].inKey
    BY <1>1, <1>2 DEF Levels, FramesOK, Alike
  <2> QED  BY <1>0, <2>2, <2>3 DEF Levels, FramesOK, Waiting
<1>4. InMatches'
  <2>0. Entered \in SUBSET (1..Len(frames)) /\ Entered \subseteq Nat  BY <1>1, SortsAreFrames
  <2>1. Stacked(walk.in, Entered, HandedTypes(frames))  BY <2>0, InStacked DEF Levels, InMatches
  <2>2. \A i \in Entered : HandedTypes(frames')[i] = HandedTypes(frames)[i]
    BY <1>1, <2>0, HandedStays
  <2>3. Stacked(walk.in, Entered, HandedTypes(frames'))  BY <2>1, <2>2, StackedStays
  <2>4. walk'.in = walk.in  BY DEF SameLevels
  <2> QED  BY <1>0, <2>0, <2>3, <2>4, InStacked DEF InMatches
<1>5. SkipMatches'  BY <1>0 DEF Levels, SkipMatches, SameLevels
<1>6. ASSUME ~walk'.stopped PROVE CountsMatch'
  <2>0. Anchors \in SUBSET (1..Len(frames)) /\ Len(frames) \in Nat  BY <1>1, SortsAreFrames
  <2>1. CountsMatch /\ readingKey' = readingKey /\ pins' = pins /\ table'.open = table.open
    BY <1>6 DEF Levels, SameLevels
  <2>2. Stacked(table.open, Anchors, OpenTypes(frames))
    BY <2>0, <2>1, OpenStacked DEF CountsMatch, OpenMatches
  <2>3. \A i \in Anchors : OpenTypes(frames')[i] = OpenTypes(frames)[i]
    <3>1. \A i \in Anchors : frames[i].kind = "anchor" /\ i \in Nat /\ i \in 1..Len(frames)
      BY <2>0 DEF Anchors
    <3> QED  BY <1>1, <3>1, HandedStays
  <2>4. Stacked(table.open, Anchors, OpenTypes(frames'))  BY <2>2, <2>3, StackedStays
  <2>5. OpenMatches'  BY <1>0, <2>0, <2>1, <2>4, OpenStacked DEF OpenMatches
  <2>6. PinsMatch'  BY <1>0, <2>1 DEF CountsMatch, PinsMatch, SameLevels
  <2> QED  BY <1>0, <2>1, <2>5, <2>6 DEF CountsMatch, SameLevels
<1> QED  BY <1>3, <1>4, <1>5, <1>6 DEF Levels


(* A node that is not quiet was handed over, or one around it was not.     *)
LEMMA TopEntered ==
    ASSUME frames \in Seq(FrameType), FramesOK, Len(frames) > 1, Top.kind # "quiet"
    PROVE  Top.entered <=> Declined = {}
<1> PICK n \in Nat : n = Len(frames)  OBVIOUS
<1>1. Top = frames[n] /\ n \in DOMAIN frames /\ n > 1  BY DEF Top, Last
<1>2. ASSUME Top.entered PROVE Declined = {}
  <2>1. n \in Entered  BY <1>1, <1>2 DEF Entered
  <2>2. \A i \in Declined : i \in 1..n /\ n < i  BY <2>1, SortsAreFrames DEF FramesOK
  <2> QED  BY <2>2
<1>3. ASSUME ~Top.entered PROVE n \in Declined  BY <1>1, <1>3 DEF Declined
<1> QED  BY <1>2, <1>3

LEMMA NoneDeclined ==
    ASSUME frames \in Seq(FrameType), walk \in WalkType, SkipMatches
    PROVE  /\ walk.skip = 0 <=> Declined = {} /\ ~walk.keeping
           /\ walk.keeping => (walk.skip = 1 <=> Declined = {})
<1>1. IsFiniteSet(Declined) /\ Cardinality(Declined) \in Nat  BY SortsAreFrames, PlaceBounds
<1>2. Cardinality(Declined) = 0 <=> Declined = {}  BY <1>1, FS_EmptySet
<1>3. walk.keeping \in BOOLEAN  BY DEF WalkType
<1> QED  BY <1>1, <1>2, <1>3 DEF SkipMatches

(* A call into a node: what it does to the walk, and to what counts them.  *)
CallsInto(f) ==
    /\ walk' \in WalkType
    /\ IF f.kind = "quiet"
       THEN /\ ~f.entered /\ ~f.inKey
            /\ walk'.in = walk.in /\ walk'.skip = walk.skip /\ (walk'.keeping <=> walk.keeping)
       ELSE IF f.entered
       THEN /\ walk.skip = 0
            /\ walk'.in = Append(walk.in, HandedAs(f))
            /\ walk'.skip = IF walk'.keeping THEN 1 ELSE 0
       ELSE /\ walk'.in = walk.in /\ walk'.skip = walk.skip + 1
            /\ walk'.keeping <=> walk.keeping
CountsInto(f) ==
    /\ ~walk.stopped
    /\ walk'.quiet = walk.quiet + (IF f.kind = "quiet" THEN 1 ELSE 0)
    /\ readingKey' = readingKey + (IF f.inKey THEN 1 ELSE 0)
    /\ pins' = pins + (IF f.kind = "anchor" THEN 1 ELSE 0)
                    + (IF walk'.keeping /\ ~walk.keeping THEN 1 ELSE 0)
    /\ walk.keeping => walk'.keeping
    /\ IF f.kind = "anchor"
       THEN \E o \in OpenType : o.decl = f.decl /\ table'.open = Append(table.open, o)
       ELSE table'.open = table.open

LEMMA PushLevels ==
    ASSUME NEW f, Levels, Pushes(f), Waiting', Len(frames) > 0, CallsInto(f), refused => refused',
           pins \in Int,
           walk \in WalkType, table.open \in Seq(OpenType), table'.open \in Seq(OpenType),
           ~walk'.stopped => CountsInto(f)
    PROVE  Levels'
<1> PICK n \in Nat : n = Len(frames)  BY DEF Pushes
<1> DEFINE With(S, B) == IF B THEN S \cup {n+1} ELSE S
<1>0. /\ Entered' = With(Entered, f.entered)
      /\ Declined' = With(Declined, ~f.entered /\ f.kind # "quiet")
      /\ Anchors' = With(Anchors, f.kind = "anchor")
      /\ Keys' = With(Keys, f.inKey)
      /\ Quiets' = With(Quiets, f.kind = "quiet")
  BY PushSorts
<1>1. /\ frames \in Seq(FrameType) /\ frames' \in Seq(FrameType) /\ Len(frames') = n+1
      /\ \A i \in 1..n : Alike(frames[i], frames'[i])
      /\ frames'[n+1] = f /\ f \in FrameType /\ n > 0
      /\ f.entered \in BOOLEAN /\ f.inKey \in BOOLEAN
  BY DEF Pushes, FrameType
<1>2. /\ Entered \in SUBSET (1..n) /\ Declined \in SUBSET (1..n)
      /\ Anchors \in SUBSET (1..n) /\ Keys \in SUBSET (1..n) /\ Quiets \in SUBSET (1..n)
  BY <1>1, SortsAreFrames
<1>a. /\ Entered \subseteq Nat /\ Entered' \subseteq Nat
      /\ Anchors' \in SUBSET (1..n+1) /\ n+1 \in Nat
  <2>1. Entered' \subseteq Entered \cup {n+1} /\ Anchors' \subseteq Anchors \cup {n+1}  BY <1>0
  <2>2. \A i \in Entered \cup {n+1} : i \in Nat  BY <1>2
  <2>3. \A i \in Anchors \cup {n+1} : i \in 1..n+1  BY <1>2
  <2> QED  BY <2>1, <2>2, <2>3
<1>3. FramesOK /\ InMatches /\ SkipMatches  BY DEF Levels
<1>4. \A S \in SUBSET (1..n) :
          /\ Cardinality(S) \in Nat
          /\ \A B \in BOOLEAN : Cardinality(With(S, B)) = Cardinality(S) + (IF B THEN 1 ELSE 0)
  <2> TAKE S \in SUBSET (1..n)
  <2>1. Cardinality(S) \in Nat  BY PlaceBounds
  <2>2. Cardinality(S \cup {n+1}) = Cardinality(S) + 1  BY Grows
  <2> QED  BY <2>1, <2>2
<1>5. f.entered => Declined = {} /\ ~walk.keeping /\ f.kind # "quiet"
  BY <1>1, <1>3, NoneDeclined DEF CallsInto
<1>6. FramesOK'
  <2>1. frames'[1].kind = "document" /\ ~frames'[1].entered /\ ~frames'[1].inKey
    <3>1. 1 \in 1..n  BY <1>1
    <3> QED  BY <3>1, <1>1, <1>3 DEF FramesOK, Alike
  <2>2. \A i \in Quiets' : ~frames'[i].entered /\ ~frames'[i].inKey
    <3>1. \A i \in Quiets : ~frames'[i].entered /\ ~frames'[i].inKey
      BY <1>1, <1>2, <1>3 DEF FramesOK, Alike
    <3>2. f.kind = "quiet" => ~f.entered /\ ~f.inKey  BY DEF CallsInto
    <3> QED  BY <1>0, <1>1, <3>1, <3>2
  <2>3. \A j \in Entered' : \A i \in Declined' : j < i
    <3>1. \A j \in Entered : j < n+1  BY <1>2
    <3>2. \A j \in Entered : \A i \in Declined : j < i  BY <1>3 DEF FramesOK
    <3>3. CASE f.entered
      <4>1. Declined' = {}  BY <1>0, <1>5, <3>3
      <4> QED  BY <4>1
    <3>4. CASE ~f.entered
      <4>1. Entered' = Entered  BY <1>0, <3>4
      <4>2. Declined' \subseteq Declined \cup {n+1}  BY <1>0
      <4> QED  BY <4>1, <4>2, <3>1, <3>2
    <3> QED  BY <3>3, <3>4, <1>1
  <2> QED  BY <2>1, <2>2, <2>3 DEF FramesOK, Waiting
<1>7. InMatches'
  <2>1. Stacked(walk.in, Entered, HandedTypes(frames))  BY <1>a, <1>3, InStacked DEF InMatches
  <2>2. \A i \in Entered : HandedTypes(frames')[i] = HandedTypes(frames)[i]
    <3>1. \A i \in Entered : i \in Nat /\ Alike(frames[i], frames'[i])  BY <1>1, <1>2
    <3> QED  BY <3>1, HandedStays
  <2>3. Stacked(walk.in, Entered, HandedTypes(frames'))  BY <2>1, <2>2, StackedStays
  <2>4. CASE f.entered
    <3> DEFINE V == FrameKind \cup {"key"}
    <3>1. walk.in \in Seq(V)  BY DEF WalkType
    <3>2. HandedAs(f) \in V /\ HandedAs(f) \in HandedTypes(frames')[n+1]
      <4>1. f.kind \in FrameKind  BY <1>1 DEF FrameType
      <4>2. HandedTypes(frames')[n+1] = {HandedAs(f)}  BY <1>1 DEF HandedTypes
      <4> QED  BY <4>1, <4>2 DEF HandedAs
    <3> HIDE DEF V
    <3>3. Stacked(Append(walk.in, HandedAs(f)), Entered \cup {n+1}, HandedTypes(frames'))
      BY <1>2, <2>3, <3>1, <3>2, StackGrows
    <3>4. walk'.in = Append(walk.in, HandedAs(f))  BY <1>5, <2>4 DEF CallsInto
    <3>5. Stacked(walk'.in, Entered', HandedTypes(frames'))  BY <1>0, <2>4, <3>3, <3>4
    <3> QED  BY <3>5, <1>a, InStacked DEF InMatches
  <2>5. CASE ~f.entered
    <3>1. walk'.in = walk.in  BY <2>5 DEF CallsInto
    <3>2. Stacked(walk'.in, Entered', HandedTypes(frames'))  BY <1>0, <2>3, <2>5, <3>1
    <3> QED  BY <3>2, <1>a, InStacked DEF InMatches
  <2> QED  BY <2>4, <2>5
<1>8. SkipMatches'
  <2>1. /\ Cardinality(Declined) \in Nat /\ (Declined = {} => Cardinality(Declined) = 0)
        /\ Cardinality(Declined') = Cardinality(Declined)
               + (IF ~f.entered /\ f.kind # "quiet" THEN 1 ELSE 0)
    BY <1>0, <1>2, <1>4, FS_EmptySet
  <2>2. walk.keeping \in BOOLEAN /\ walk'.keeping \in BOOLEAN  BY DEF CallsInto, WalkType
  <2>3. CASE f.kind = "quiet"  BY <2>1, <2>2, <2>3, <1>3 DEF SkipMatches, CallsInto
  <2>4. CASE f.kind # "quiet" /\ f.entered
    BY <2>1, <2>2, <2>4, <1>3, <1>5 DEF SkipMatches, CallsInto
  <2>5. CASE f.kind # "quiet" /\ ~f.entered
    BY <2>1, <2>2, <2>5, <1>3 DEF SkipMatches, CallsInto
  <2> QED  BY <2>3, <2>4, <2>5
<1>9. ASSUME ~walk'.stopped PROVE CountsMatch'
  <2>1. CountsMatch /\ CountsInto(f)  BY <1>9 DEF Levels, CountsInto
  <2>2. /\ Cardinality(Keys') = Cardinality(Keys) + (IF f.inKey THEN 1 ELSE 0)
        /\ Cardinality(Quiets') = Cardinality(Quiets) + (IF f.kind = "quiet" THEN 1 ELSE 0)
        /\ Cardinality(Anchors') = Cardinality(Anchors) + (IF f.kind = "anchor" THEN 1 ELSE 0)
        /\ Cardinality(Keys) \in Nat /\ Cardinality(Quiets) \in Nat /\ Cardinality(Anchors) \in Nat
    BY <1>0, <1>1, <1>2, <1>4
  <2>3. walk.keeping \in BOOLEAN /\ walk'.keeping \in BOOLEAN  BY DEF CallsInto, WalkType
  <2>4. readingKey' = Cardinality(Keys') /\ walk'.quiet = Cardinality(Quiets')
    BY <2>1, <2>2, <2>3 DEF CountsMatch, CountsInto
  <2>8. PinsMatch'
    <3>1. pins' - Cardinality(Anchors') - (IF walk'.keeping THEN 1 ELSE 0)
              = pins - Cardinality(Anchors) - (IF walk.keeping THEN 1 ELSE 0)
      <4>1. PICK a \in Nat : a = Cardinality(Anchors)  BY <2>2
      <4>2. PICK d \in Int : d = (IF f.kind = "anchor" THEN 1 ELSE 0)  OBVIOUS
      <4>3. Cardinality(Anchors') = a + d  BY <2>2, <4>1, <4>2
      <4>4. /\ walk.keeping => walk'.keeping
            /\ pins' = pins + d + (IF walk'.keeping /\ ~walk.keeping THEN 1 ELSE 0)
        BY <2>1, <4>2 DEF CountsInto
      <4>5. CASE walk'.keeping /\ ~walk.keeping
        <5>1. pins' = pins + d + 1  BY <4>4, <4>5
        <5>2. (IF walk'.keeping THEN 1 ELSE 0) = 1 /\ (IF walk.keeping THEN 1 ELSE 0) = 0  BY <4>5
        <5> QED  BY <4>1, <4>3, <5>1, <5>2
      <4>6. CASE walk'.keeping <=> walk.keeping
        <5>1. pins' = pins + d  BY <4>4, <4>6
        <5>2. PICK k \in Int : k = (IF walk.keeping THEN 1 ELSE 0)  OBVIOUS
        <5>3. (IF walk'.keeping THEN 1 ELSE 0) = k  BY <4>6, <5>2
        <5> QED  BY <4>1, <4>3, <5>1, <5>2, <5>3
      <4> QED  BY <2>3, <4>4, <4>5, <4>6
    <3> QED  BY <2>1, <3>1 DEF CountsMatch, PinsMatch
  <2>5. Stacked(table.open, Anchors, OpenTypes(frames'))
    <3>1. Stacked(table.open, Anchors, OpenTypes(frames))
      BY <1>2, <2>1, OpenStacked DEF CountsMatch, OpenMatches
    <3>2. \A i \in Anchors : frames[i].kind = "anchor" /\ i \in Nat /\ i \in 1..n
      BY <1>2 DEF Anchors
    <3>3. \A i \in Anchors : OpenTypes(frames')[i] = OpenTypes(frames)[i]
      BY <1>1, <3>2, HandedStays
    <3> QED  BY <3>1, <3>3, StackedStays
  <2>6. Stacked(table'.open, Anchors', OpenTypes(frames'))
    <3>1. CASE f.kind # "anchor"  BY <1>0, <2>1, <2>5, <3>1 DEF CountsInto
    <3>2. CASE f.kind = "anchor"
      <4>1. PICK o \in OpenType : o.decl = f.decl /\ table'.open = Append(table.open, o)
        BY <2>1, <3>2 DEF CountsInto
      <4>2. o \in OpenTypes(frames')[n+1]  BY <1>1, <4>1 DEF OpenTypes
      <4>3. Stacked(Append(table.open, o), Anchors \cup {n+1}, OpenTypes(frames'))
        BY <1>2, <2>5, <4>2, StackGrows
      <4> QED  BY <1>0, <3>2, <4>1, <4>3
    <3> QED  BY <3>1, <3>2
  <2>7. OpenMatches'  BY <1>a, <2>6, OpenStacked DEF OpenMatches
  <2> QED  BY <2>4, <2>7, <2>8 DEF CountsMatch
<1> QED  BY <1>6, <1>7, <1>8, <1>9 DEF Levels


(* The innermost call returns. *)
ReturnsFrom(f) ==
    /\ walk' \in WalkType
    /\ IF f.kind = "quiet"
       THEN walk'.in = walk.in /\ walk'.skip = walk.skip /\ (walk'.keeping <=> walk.keeping)
       ELSE IF walk.skip = 0 \/ (walk.skip = 1 /\ walk.keeping)
       THEN walk'.in = Front(walk.in) /\ walk'.skip = 0 /\ ~walk'.keeping
       ELSE /\ walk'.in = walk.in /\ walk'.skip = walk.skip - 1
            /\ walk'.keeping <=> walk.keeping
CountsFrom(f) ==
    /\ ~walk.stopped
    /\ walk'.quiet = walk.quiet - (IF f.kind = "quiet" THEN 1 ELSE 0)
    /\ readingKey' = readingKey - (IF f.inKey THEN 1 ELSE 0)
    /\ pins' = pins - (IF f.kind = "anchor" THEN 1 ELSE 0)
                    - (IF walk.keeping /\ walk.skip = 1 /\ f.entered THEN 1 ELSE 0)
    /\ table'.open = IF f.kind = "anchor" THEN Front(table.open) ELSE table.open

(* leave takes the end of the node for the one the levels say it is.       *)
LEMMA LeavesTop ==
    ASSUME frames \in Seq(FrameType), walk \in WalkType, FramesOK, SkipMatches,
           Len(frames) > 1, Top.kind # "quiet"
    PROVE  Top.entered <=> walk.skip = 0 \/ (walk.skip = 1 /\ walk.keeping)
<1>1. Top.entered <=> Declined = {}  BY TopEntered
<1>2. /\ walk.skip = 0 <=> Declined = {} /\ ~walk.keeping
      /\ walk.keeping => (walk.skip = 1 <=> Declined = {})
  BY NoneDeclined
<1>3. walk.keeping \in BOOLEAN  BY DEF WalkType
<1> QED  BY <1>1, <1>2, <1>3

LEMMA PopLevels ==
    ASSUME Levels, Pops, Waiting', ReturnsFrom(Top), refused => refused', pins \in Int,
           walk \in WalkType, table.open \in Seq(OpenType), table'.open \in Seq(OpenType),
           ~walk'.stopped => CountsFrom(Top)
    PROVE  Levels'
<1> PICK n \in Nat : n = Len(frames)  BY DEF Pops
<1> DEFINE f == frames[n]
<1>0. /\ Entered' = Entered \ {n} /\ Declined' = Declined \ {n}
      /\ Anchors' = Anchors \ {n} /\ Keys' = Keys \ {n} /\ Quiets' = Quiets \ {n}
  BY PopSorts
<1>1. /\ frames \in Seq(FrameType) /\ frames' \in Seq(FrameType) /\ Len(frames') = n-1
      /\ \A i \in 1..n-1 : Alike(frames[i], frames'[i])
      /\ Top = f /\ f \in FrameType /\ n > 1 /\ n \in Nat \ {0} /\ n-1 \in Nat
      /\ f.entered \in BOOLEAN /\ f.inKey \in BOOLEAN
  <2>1. /\ frames \in Seq(FrameType) /\ frames' \in Seq(FrameType) /\ Len(frames') = n-1
        /\ \A i \in 1..n-1 : Alike(frames[i], frames'[i])
        /\ Top = f /\ n > 1
    BY DEF Pops, Top, Last
  <2>2. f \in FrameType  BY <2>1
  <2>3. f.entered \in BOOLEAN /\ f.inKey \in BOOLEAN  BY <2>2 DEF FrameType
  <2> QED  BY <2>1, <2>2, <2>3
<1>2. /\ Entered \in SUBSET (1..n) /\ Declined \in SUBSET (1..n)
      /\ Anchors \in SUBSET (1..n) /\ Keys \in SUBSET (1..n) /\ Quiets \in SUBSET (1..n)
  BY <1>1, SortsAreFrames
<1>a. /\ Entered' \subseteq Nat /\ Anchors' \in SUBSET (1..n-1)
      /\ Entered' \in SUBSET (1..n-1) /\ Quiets' \in SUBSET (1..n-1)
  <2>1. \A S \in SUBSET (1..n) : S \ {n} \in SUBSET (1..n-1)  BY <1>1, Shrinks
  <2>2. Entered' \in SUBSET (1..n-1) /\ Anchors' \in SUBSET (1..n-1) /\ Quiets' \in SUBSET (1..n-1)
    BY <1>0, <1>2, <2>1
  <2>3. \A i \in Entered' : i \in Nat  BY <2>2
  <2> QED  BY <2>2, <2>3
<1>b. /\ n \in Entered <=> f.entered
      /\ n \in Declined <=> ~f.entered /\ f.kind # "quiet"
      /\ n \in Anchors <=> f.kind = "anchor"
      /\ n \in Keys <=> f.inKey
      /\ n \in Quiets <=> f.kind = "quiet"
  BY <1>1 DEF Entered, Declined, Anchors, Keys, Quiets
<1>3. FramesOK /\ InMatches /\ SkipMatches  BY DEF Levels
<1>4. \A S \in SUBSET (1..n) :
          /\ Cardinality(S) \in Nat
          /\ Cardinality(S \ {n}) = Cardinality(S) - (IF n \in S THEN 1 ELSE 0)
  BY <1>1, PlaceBounds, Shrinks, ZenonT(40)
<1>5. f.kind # "quiet" =>
          (f.entered <=> walk.skip = 0 \/ (walk.skip = 1 /\ walk.keeping))
  BY <1>1, <1>3, LeavesTop
<1>c. f.kind = "quiet" => ~f.entered /\ ~f.inKey  BY <1>1, <1>3, <1>b DEF FramesOK
<1>6. FramesOK'
  <2>1. frames'[1].kind = "document" /\ ~frames'[1].entered /\ ~frames'[1].inKey
    <3>1. 1 \in 1..n-1  BY <1>1
    <3> QED  BY <3>1, <1>1, <1>3 DEF FramesOK, Alike
  <2>2. \A i \in Quiets' : ~frames'[i].entered /\ ~frames'[i].inKey
    <3>1. \A i \in Quiets' : i \in Quiets /\ i \in 1..n-1  BY <1>0, <1>a
    <3> QED  BY <1>1, <3>1, <1>3 DEF FramesOK, Alike
  <2>3. \A j \in Entered' : \A i \in Declined' : j < i
    <3>1. \A j \in Entered : \A i \in Declined : j < i  BY <1>3 DEF FramesOK
    <3>2. Entered' \subseteq Entered /\ Declined' \subseteq Declined  BY <1>0
    <3> QED  BY <3>1, <3>2
  <2> QED  BY <2>1, <2>2, <2>3 DEF FramesOK, Waiting
<1>7. InMatches'
  <2>0. Entered \subseteq Nat  BY <1>2
  <2>1. Stacked(walk.in, Entered, HandedTypes(frames))  BY <2>0, <1>3, InStacked DEF InMatches
  <2>2. Stacked(walk'.in, Entered', HandedTypes(frames))
    <3>1. CASE f.entered
      <4> DEFINE V == FrameKind \cup {"key"}
      <4>1. walk.in \in Seq(V)  BY DEF WalkType
      <4> HIDE DEF V
      <4>2. Stacked(Front(walk.in), Entered \ {n}, HandedTypes(frames))
        BY <1>1, <1>2, <1>b, <2>1, <3>1, <4>1, StackShrinks
      <4>3. walk'.in = Front(walk.in)  BY <1>1, <1>5, <1>c, <3>1 DEF ReturnsFrom
      <4> QED  BY <1>0, <4>2, <4>3
    <3>2. CASE ~f.entered
      <4>1. walk'.in = walk.in  BY <1>1, <1>5, <3>2 DEF ReturnsFrom
      <4>2. Entered' = Entered  BY <1>0, <1>b, <3>2
      <4> QED  BY <2>1, <4>1, <4>2
    <3> QED  BY <3>1, <3>2
  <2>3. \A i \in Entered' : HandedTypes(frames')[i] = HandedTypes(frames)[i]
    <3>1. \A i \in Entered' : i \in Nat /\ Alike(frames[i], frames'[i])  BY <1>1, <1>a
    <3> QED  BY <3>1, HandedStays
  <2>4. Stacked(walk'.in, Entered', HandedTypes(frames'))  BY <2>2, <2>3, StackedStays
  <2> QED  BY <1>a, <2>4, InStacked DEF InMatches
<1>8. SkipMatches'
  <2>1. /\ Cardinality(Declined) \in Nat /\ Cardinality(Declined') \in Nat
        /\ Cardinality(Declined') = Cardinality(Declined)
               - (IF ~f.entered /\ f.kind # "quiet" THEN 1 ELSE 0)
    <3>1. Cardinality(Declined') \in Nat
      <4>1. Declined' \in SUBSET (1..n)  BY <1>0, <1>2
      <4> QED  BY <4>1, PlaceBounds
    <3> QED  BY <3>1, <1>0, <1>2, <1>4, <1>b
  <2>2. walk.keeping \in BOOLEAN /\ walk'.keeping \in BOOLEAN  BY DEF ReturnsFrom, WalkType
  <2>3. CASE f.kind = "quiet"  BY <1>1, <2>1, <2>2, <2>3, <1>3 DEF SkipMatches, ReturnsFrom
  <2>4. CASE f.kind # "quiet" /\ f.entered
    <3>1. walk'.skip = 0 /\ ~walk'.keeping  BY <1>1, <1>5, <2>4 DEF ReturnsFrom
    <3>2. Cardinality(Declined') = Cardinality(Declined)  BY <2>1, <2>4
    <3>3. walk.skip = Cardinality(Declined) + (IF walk.keeping THEN 1 ELSE 0)
      BY <1>3 DEF SkipMatches
    <3>4. Cardinality(Declined) = 0  BY <1>5, <2>1, <2>4, <3>3
    <3> QED  BY <3>1, <3>2, <3>4 DEF SkipMatches
  <2>5. CASE f.kind # "quiet" /\ ~f.entered
    <3>1. walk'.skip = walk.skip - 1 /\ (walk'.keeping <=> walk.keeping)
      BY <1>1, <1>5, <2>5 DEF ReturnsFrom
    <3> QED  BY <2>1, <2>2, <2>5, <3>1, <1>3 DEF SkipMatches
  <2> QED  BY <2>3, <2>4, <2>5
<1>9. ASSUME ~walk'.stopped PROVE CountsMatch'
  <2>1. CountsMatch /\ CountsFrom(f)  BY <1>9, <1>1 DEF Levels, CountsFrom
  <2>2. /\ Cardinality(Keys') = Cardinality(Keys) - (IF f.inKey THEN 1 ELSE 0)
        /\ Cardinality(Quiets') = Cardinality(Quiets) - (IF f.kind = "quiet" THEN 1 ELSE 0)
        /\ Cardinality(Anchors') = Cardinality(Anchors) - (IF f.kind = "anchor" THEN 1 ELSE 0)
        /\ Cardinality(Keys) \in Nat /\ Cardinality(Quiets) \in Nat /\ Cardinality(Anchors) \in Nat
    BY <1>0, <1>2, <1>4, <1>b
  <2>3. walk.keeping \in BOOLEAN /\ walk'.keeping \in BOOLEAN  BY DEF ReturnsFrom, WalkType
  <2>4. /\ walk'.keeping <=> walk.keeping /\ ~(walk.skip = 1 /\ f.entered)
        /\ walk.keeping /\ f.entered => walk.skip = 1
    <3>1. CASE f.kind = "quiet"  BY <1>1, <1>c, <2>3, <3>1 DEF ReturnsFrom
    <3>2. CASE f.kind # "quiet" /\ f.entered
      <4>1. ~walk'.keeping  BY <1>1, <1>5, <3>2 DEF ReturnsFrom
      <4>2. walk.keeping => walk.skip = 1
        <5>1. walk.keeping => walk.skip # 0
          <6>1. Cardinality(Declined) \in Nat  BY <1>2, <1>4
          <6> QED  BY <1>3, <6>1 DEF SkipMatches
        <5> QED  BY <5>1, <1>5, <3>2
      <4> QED  BY <4>1, <4>2, <3>2, <2>3
    <3>3. CASE f.kind # "quiet" /\ ~f.entered
      BY <1>1, <1>5, <2>3, <3>3 DEF ReturnsFrom
    <3> QED  BY <3>1, <3>2, <3>3
  <2>5. readingKey' = Cardinality(Keys') /\ walk'.quiet = Cardinality(Quiets')
    BY <2>1, <2>2, <2>3, <2>4 DEF CountsMatch, CountsFrom
  <2>10. PinsMatch'
    <3>1. pins' - Cardinality(Anchors') - (IF walk'.keeping THEN 1 ELSE 0)
              = pins - Cardinality(Anchors) - (IF walk.keeping THEN 1 ELSE 0)
      <4>1. PICK a \in Nat : a = Cardinality(Anchors)  BY <2>2
      <4>2. PICK d \in Int : d = (IF f.kind = "anchor" THEN 1 ELSE 0)  OBVIOUS
      <4>3. Cardinality(Anchors') = a - d  BY <2>2, <4>1, <4>2
      <4>4. PICK c \in BOOLEAN : c <=> walk.skip = 1 /\ f.entered  OBVIOUS
      <4>5. pins' = pins - d - (IF walk.keeping /\ c THEN 1 ELSE 0)
        BY <2>1, <4>2, <4>4 DEF CountsFrom
      <4>6. walk'.keeping <=> walk.keeping /\ ~c  BY <2>4, <4>4
      <4> QED  BY <2>3, <4>1, <4>3, <4>5, <4>6
    <3> QED  BY <2>1, <3>1 DEF CountsMatch, PinsMatch
  <2>6. Stacked(table.open, Anchors, OpenTypes(frames))
    BY <1>2, <2>1, OpenStacked DEF CountsMatch, OpenMatches
  <2>7. Stacked(table'.open, Anchors', OpenTypes(frames))
    <3>1. CASE f.kind # "anchor"
      <4>1. Anchors' = Anchors  BY <1>0, <1>b, <3>1
      <4> QED  BY <4>1, <2>1, <2>6, <3>1 DEF CountsFrom
    <3>2. CASE f.kind = "anchor"
      <4>1. Stacked(Front(table.open), Anchors \ {n}, OpenTypes(frames))
        BY <1>1, <1>2, <1>b, <2>6, <3>2, StackShrinks
      <4> QED  BY <1>0, <3>2, <2>1, <4>1 DEF CountsFrom
    <3> QED  BY <3>1, <3>2
  <2>8. Stacked(table'.open, Anchors', OpenTypes(frames'))
    <3>1. \A i \in Anchors' : frames[i].kind = "anchor" /\ i \in Nat /\ Alike(frames[i], frames'[i])
      BY <1>0, <1>1, <1>a DEF Anchors
    <3>2. \A i \in Anchors' : OpenTypes(frames')[i] = OpenTypes(frames)[i]
      BY <3>1, HandedStays
    <3> QED  BY <2>7, <3>2, StackedStays
  <2>9. OpenMatches'  BY <1>1, <1>a, <2>8, OpenStacked, ZenonT(40) DEF OpenMatches
  <2> QED  BY <2>5, <2>9, <2>10 DEF CountsMatch
<1> QED  BY <1>6, <1>7, <1>8, <1>9 DEF Levels


-----------------------------------------------------------------------------
(* The marks follow the entries. *)

LEMMA FreeStays ==
    ASSUME NEW i \in Nat, \A j \in 1..i : Alike(frames[j], frames'[j]),
           KeptAt(i)' <=> KeptAt(i)
    PROVE  FreeAt(i)' <=> FreeAt(i)
BY DEF FreeAt, Alike

(* The calls are the same, and what an entry's mark depends on.            *)
StaysInRole ==
    /\ frames \in Seq(FrameType) /\ frames' \in Seq(FrameType)
    /\ Len(frames') = Len(frames)
    /\ \A i \in 1..Len(frames) : SameRole(frames[i], frames'[i])

LEMMA StayMarks ==
    ASSUME MarksMatch, StaysInRole, walk'.keeping <=> walk.keeping,
           Reading' => Reading /\ Len(arena'.marks) = Len(arena.marks)
    PROVE  MarksMatch'
<1> PICK n \in Nat : n = Len(frames)  BY DEF StaysInRole
<1>1. /\ DOMAIN frames = 1..n /\ DOMAIN frames' = 1..n
      /\ \A i \in 1..n : SameRole(frames[i], frames'[i])
      /\ \A i \in 1..n : Alike(frames[i], frames'[i])
  BY DEF StaysInRole, SameRole
<1>2. Stays  BY <1>1 DEF Stays, StaysInRole
<1>3. Entered' = Entered  BY <1>2, StaySorts
<1>4. Marked' = Marked  BY <1>1 DEF Marked, SameRole
<1>5. ASSUME NEW i \in 1..n
      PROVE  frames'[i].pushed <=> InEntry(frames'[i]) /\ FreeAt(i)'
  <2>1. KeptAt(i)' <=> KeptAt(i)  BY <1>3 DEF KeptAt
  <2>2. \A j \in 1..i : Alike(frames[j], frames'[j])  BY <1>1
  <2>3. FreeAt(i)' <=> FreeAt(i)
    <3>1. i \in Nat  OBVIOUS
    <3> QED  BY <2>1, <2>2, <3>1, FreeStays
  <2>4. frames[i].pushed <=> InEntry(frames[i]) /\ FreeAt(i)  BY <1>1 DEF MarksMatch
  <2> QED  BY <2>3, <2>4, <1>1 DEF SameRole
<1> QED  BY <1>1, <1>4, <1>5 DEF MarksMatch

PushesInRole(f) ==
    /\ Pushes(f) /\ \A i \in 1..Len(frames) : SameRole(frames[i], frames'[i])
    /\ ~f.pushed /\ ~InEntry(f)

LEMMA PushMarks ==
    ASSUME NEW f, MarksMatch, Levels, walk \in WalkType, Len(frames) > 0,
           PushesInRole(f), CallsInto(f),
           Reading' => Reading /\ Len(arena'.marks) = Len(arena.marks)
    PROVE  MarksMatch'
<1> PICK n \in Nat : n = Len(frames)  BY DEF PushesInRole, Pushes
<1>1. /\ DOMAIN frames = 1..n /\ DOMAIN frames' = 1..n+1 /\ frames'[n+1] = f
      /\ \A i \in 1..n : SameRole(frames[i], frames'[i])
      /\ \A i \in 1..n : Alike(frames[i], frames'[i])
      /\ ~f.pushed /\ ~InEntry(f) /\ f \in FrameType /\ frames \in Seq(FrameType)
      /\ Pushes(f)
  BY DEF PushesInRole, Pushes
<1>2. Entered' = IF f.entered THEN Entered \cup {n+1} ELSE Entered  BY <1>1, PushSorts
<1>3. Marked' = Marked  BY <1>1 DEF Marked, SameRole
<1>4. \A i \in 1..n : KeptAt(i)' <=> KeptAt(i)
  <2>1. CASE f.entered
    <3>1. ~walk.keeping
      <4>1. walk.skip = 0  BY <1>1, <2>1 DEF CallsInto, Levels, FramesOK
      <4> QED  BY <1>1, <4>1, NoneDeclined DEF Levels
    <3>2. n+1 \in Entered'  BY <1>2, <2>1
    <3>3. \A i \in 1..n : ~(n+1 <= i)  OBVIOUS
    <3> QED  BY <3>1, <3>2, <3>3 DEF KeptAt
  <2>2. CASE ~f.entered
    <3>1. walk'.keeping <=> walk.keeping  BY <2>2 DEF CallsInto
    <3> QED  BY <1>2, <2>2, <3>1 DEF KeptAt
  <2> QED  BY <2>1, <2>2
<1>5. ASSUME NEW i \in 1..n
      PROVE  frames'[i].pushed <=> InEntry(frames'[i]) /\ FreeAt(i)'
  <2>1. \A j \in 1..i : Alike(frames[j], frames'[j])  BY <1>1
  <2>2. FreeAt(i)' <=> FreeAt(i)
    <3>1. i \in Nat  OBVIOUS
    <3> QED  BY <1>4, <2>1, <3>1, FreeStays
  <2>3. frames[i].pushed <=> InEntry(frames[i]) /\ FreeAt(i)  BY <1>1 DEF MarksMatch
  <2> QED  BY <2>2, <2>3, <1>1 DEF SameRole
<1>6. \A i \in DOMAIN frames' : frames'[i].pushed <=> InEntry(frames'[i]) /\ FreeAt(i)'
  <2> TAKE i \in DOMAIN frames'
  <2>1. i \in 1..n \/ i = n+1  BY <1>1
  <2> QED  BY <2>1, <1>1, <1>5
<1> QED  BY <1>3, <1>6 DEF MarksMatch

PopsInRole ==
    /\ Pops /\ \A i \in 1..Len(frames)-1 : SameRole(frames[i], frames'[i])

LEMMA PopMarks ==
    ASSUME MarksMatch, Levels, walk \in WalkType, PopsInRole, ReturnsFrom(Top),
           Reading' => Reading /\ Len(arena'.marks) = Len(arena.marks) /\ ~Top.pushed
    PROVE  MarksMatch'
<1> PICK n \in Nat : n = Len(frames)  BY DEF PopsInRole, Pops
<1>1. /\ DOMAIN frames = 1..n /\ DOMAIN frames' = 1..n-1 /\ n > 1 /\ Top = frames[n]
      /\ \A i \in 1..n-1 : SameRole(frames[i], frames'[i])
      /\ \A i \in 1..n-1 : Alike(frames[i], frames'[i])
      /\ frames \in Seq(FrameType) /\ Pops
  BY DEF PopsInRole, Pops, SameRole, Top, Last
<1>2. Entered' = Entered \ {n}  BY <1>1, PopSorts
<1>3. ASSUME Reading' PROVE Len(arena'.marks) = Cardinality(Marked')
  <2>1. Len(arena'.marks) = Len(arena.marks) /\ ~frames[n].pushed /\ Reading  BY <1>1, <1>3
  <2>2. Marked' = Marked  BY <1>1, <2>1 DEF Marked, SameRole
  <2> QED  BY <2>1, <2>2 DEF MarksMatch
<1>4. \A i \in 1..n-1 : KeptAt(i)' <=> KeptAt(i)
  <2>0. FramesOK /\ SkipMatches  BY DEF Levels
  <2>1. CASE Top.entered
    <3>1. n \in Entered  BY <1>1, <2>1 DEF Entered
    <3>2. \A i \in 1..n-1 : ~(n <= i)  OBVIOUS
    <3>3. Top.kind # "quiet"
      <4>1. ~(n \in Quiets)  BY <1>1, <2>0, <2>1 DEF FramesOK
      <4> QED  BY <4>1, <1>1 DEF Quiets
    <3>4. walk.skip = 0 \/ (walk.skip = 1 /\ walk.keeping)
      BY <1>1, <2>0, <2>1, <3>3, LeavesTop
    <3>5. ~walk'.keeping  BY <3>3, <3>4 DEF ReturnsFrom
    <3> QED  BY <3>1, <3>2, <3>5 DEF KeptAt
  <2>2. CASE ~Top.entered
    <3>1. Entered' = Entered  BY <1>1, <1>2, <2>2 DEF Entered
    <3>2. walk'.keeping <=> walk.keeping
      <4>1. CASE Top.kind = "quiet"  BY <4>1 DEF ReturnsFrom
      <4>2. CASE Top.kind # "quiet"
        <5>1. ~(walk.skip = 0 \/ (walk.skip = 1 /\ walk.keeping))
          BY <1>1, <2>0, <2>2, <4>2, LeavesTop
        <5> QED  BY <4>2, <5>1 DEF ReturnsFrom
      <4> QED  BY <4>1, <4>2
    <3> QED  BY <3>1, <3>2 DEF KeptAt
  <2> QED  BY <2>1, <2>2
<1>5. ASSUME NEW i \in 1..n-1
      PROVE  frames'[i].pushed <=> InEntry(frames'[i]) /\ FreeAt(i)'
  <2>1. \A j \in 1..i : Alike(frames[j], frames'[j])  BY <1>1
  <2>2. FreeAt(i)' <=> FreeAt(i)
    <3>1. i \in Nat  OBVIOUS
    <3> QED  BY <1>4, <2>1, <3>1, FreeStays
  <2>3. frames[i].pushed <=> InEntry(frames[i]) /\ FreeAt(i)
    <3>1. i \in DOMAIN frames  BY <1>1
    <3> QED  BY <3>1 DEF MarksMatch
  <2> QED  BY <2>2, <2>3, <1>1 DEF SameRole
<1> QED  BY <1>1, <1>3, <1>5 DEF MarksMatch


-----------------------------------------------------------------------------
(* What each operation makes of the frames and of the walk. *)

LEMMA TopIsFrame ==
    ASSUME frames \in Seq(FrameType), frames # <<>>
    PROVE  /\ Top = frames[Len(frames)] /\ Top \in FrameType
           /\ Len(frames) \in Nat /\ Len(frames) > 0
           /\ Len(frames) > 1 => Under = frames[Len(frames)-1] /\ Under \in FrameType
<1>1. PICK n \in Nat : n = Len(frames)  OBVIOUS
<1>2. n > 0  BY <1>1
<1>3. Top = frames[n]  BY <1>1 DEF Top, Last
<1>4. n > 1 => Under = frames[n-1] /\ n-1 \in 1..n  BY <1>1 DEF Under
<1> QED  BY <1>1, <1>2, <1>3, <1>4

LEMMA SameRoleReflexive ==
    ASSUME NEW f \in FrameType
    PROVE  SameRole(f, f)
BY DEF SameRole, Alike

LEMMA TopFrames ==
    ASSUME frames \in Seq(FrameType), frames # <<>>, Waiting,
           NEW g, SameRole(Top, g), frames' = WithTop(g)
    PROVE  StaysInRole /\ Stays /\ Waiting' /\ frames' # <<>>
<1>1. PICK n \in Nat : n = Len(frames)  OBVIOUS
<1>2. n > 0 /\ Top = frames[n] /\ g \in FrameType  BY <1>1, TopIsFrame DEF SameRole
<1>3. frames' = [frames EXCEPT ![n] = g]  BY <1>1 DEF WithTop
<1>4. /\ frames' \in Seq(FrameType) /\ Len(frames') = n /\ frames'[n] = g
      /\ \A i \in 1..n-1 : frames'[i] = frames[i]
  BY <1>1, <1>2, <1>3
<1>5. ASSUME NEW i \in 1..n PROVE SameRole(frames[i], frames'[i])
  <2>1. CASE i = n  BY <2>1, <1>2, <1>4
  <2>2. CASE i \in 1..n-1
    <3>1. frames[i] \in FrameType  BY <1>1
    <3> QED  BY <2>2, <3>1, <1>4, SameRoleReflexive
  <2> QED  BY <2>1, <2>2
<1>6. StaysInRole  BY <1>1, <1>4, <1>5 DEF StaysInRole
<1>7. Stays  BY <1>6 DEF Stays, StaysInRole, SameRole
<1>8. Waiting'  BY <1>1, <1>4 DEF Waiting
<1>9. frames' # <<>>  BY <1>2, <1>4
<1> QED  BY <1>6, <1>7, <1>8, <1>9

LEMMA PushFrames ==
    ASSUME frames \in Seq(FrameType), frames # <<>>, Waiting,
           NEW g, SameRole(Top, g), Waits(g), NEW f \in FrameType, ~f.pushed, ~InEntry(f),
           frames' = Append(WithTop(g), f)
    PROVE  PushesInRole(f) /\ Pushes(f) /\ Waiting' /\ frames' # <<>>
<1>1. PICK n \in Nat : n = Len(frames)  OBVIOUS
<1>2. n > 0 /\ Top = frames[n] /\ g \in FrameType  BY <1>1, TopIsFrame DEF SameRole
<1> DEFINE fs == WithTop(g)
<1>3. fs = [frames EXCEPT ![n] = g]  BY <1>1 DEF WithTop
<1>4. /\ fs \in Seq(FrameType) /\ Len(fs) = n /\ fs[n] = g
      /\ \A i \in 1..n-1 : fs[i] = frames[i]
  BY <1>1, <1>2, <1>3
<1> HIDE DEF fs
<1>5. frames' = Append(fs, f)  BY DEF fs
<1>6. /\ frames' \in Seq(FrameType) /\ Len(frames') = n+1 /\ frames'[n+1] = f /\ frames'[n] = g
      /\ \A i \in 1..n-1 : frames'[i] = frames[i]
  BY <1>2, <1>4, <1>5
<1>7. ASSUME NEW i \in 1..n PROVE SameRole(frames[i], frames'[i])
  <2>1. CASE i = n  BY <2>1, <1>2, <1>6
  <2>2. CASE i \in 1..n-1
    <3>1. frames[i] \in FrameType  BY <1>1
    <3> QED  BY <2>2, <3>1, <1>6, SameRoleReflexive
  <2>3. i = n \/ i \in 1..n-1  BY <1>2
  <2> QED  BY <2>1, <2>2, <2>3
<1>8. Pushes(f)  BY <1>1, <1>6, <1>7 DEF Pushes, SameRole
<1>9. PushesInRole(f)  BY <1>1, <1>7, <1>8 DEF PushesInRole
<1>10. \A i \in 1..n : Waits(frames'[i])
  <2> TAKE i \in 1..n
  <2>1. CASE i = n  BY <2>1, <1>6
  <2>2. CASE i \in 1..n-1  BY <2>2, <1>1, <1>6 DEF Waiting
  <2>3. i = n \/ i \in 1..n-1  BY <1>2
  <2> QED  BY <2>1, <2>2, <2>3
<1>11. Waiting' /\ frames' # <<>>  BY <1>2, <1>6, <1>10 DEF Waiting
<1> QED  BY <1>8, <1>9, <1>11

LEMMA ReturnFrames ==
    ASSUME frames \in Seq(FrameType), Len(frames) > 1, Waiting,
           NEW g, SameRole(Under, g), frames' = Returned(g)
    PROVE  PopsInRole /\ Pops /\ Waiting' /\ frames' # <<>>
<1>1. PICK n \in Nat : n = Len(frames) - 2  OBVIOUS
<1>2. Len(frames) = n + 2 /\ Under = frames[n+1] /\ g \in FrameType
  BY <1>1 DEF SameRole, Under
<1> DEFINE fs == SubSeq(frames, 1, n)
<1>3. /\ fs \in Seq(FrameType) /\ Len(fs) = n /\ \A i \in 1..n : fs[i] = frames[i]
  BY <1>2
<1> HIDE DEF fs
<1>4. frames' = Append(fs, g)  BY <1>1 DEF Returned, fs
<1>5. /\ frames' \in Seq(FrameType) /\ Len(frames') = n+1 /\ frames'[n+1] = g
      /\ \A i \in 1..n : frames'[i] = frames[i]
  BY <1>2, <1>3, <1>4
<1>6. ASSUME NEW i \in 1..n+1 PROVE SameRole(frames[i], frames'[i])
  <2>1. CASE i = n+1  BY <2>1, <1>2, <1>5
  <2>2. CASE i \in 1..n
    <3>1. frames[i] \in FrameType  BY <1>2
    <3> QED  BY <2>2, <3>1, <1>5, SameRoleReflexive
  <2> QED  BY <2>1, <2>2
<1>7. Pops  BY <1>2, <1>5, <1>6 DEF Pops, SameRole
<1>8. PopsInRole  BY <1>2, <1>6, <1>7 DEF PopsInRole
<1>9. Waiting'  BY <1>2, <1>5 DEF Waiting
<1>10. frames' # <<>>  BY <1>5
<1> QED  BY <1>7, <1>8, <1>9, <1>10

LEMMA FrontFrames ==
    ASSUME frames \in Seq(FrameType), Len(frames) > 1, Waiting, frames' = Front(frames)
    PROVE  PopsInRole /\ Pops /\ Waiting' /\ frames' # <<>>
<1>1. PICK n \in Nat : n = Len(frames) - 1  OBVIOUS
<1>2. Len(frames) = n + 1 /\ n > 0 /\ frames' = SubSeq(frames, 1, n)  BY <1>1 DEF Front
<1>5. /\ frames' \in Seq(FrameType) /\ Len(frames') = n
      /\ \A i \in 1..n : frames'[i] = frames[i]
  BY <1>2
<1>6. ASSUME NEW i \in 1..n PROVE SameRole(frames[i], frames'[i])
  <2>1. frames[i] \in FrameType  BY <1>2
  <2> QED  BY <2>1, <1>5, SameRoleReflexive
<1>7. Pops  BY <1>2, <1>5, <1>6 DEF Pops, SameRole
<1>8. PopsInRole  BY <1>2, <1>6, <1>7 DEF PopsInRole
<1>9. Waiting'  BY <1>2, <1>5 DEF Waiting
<1>10. frames' # <<>>  BY <1>2, <1>5
<1> QED  BY <1>7, <1>8, <1>9, <1>10

LEMMA HandOK ==
    ASSUME NEW w \in WalkType, NEW announced \in BOOLEAN, NEW isKey \in BOOLEAN,
           NEW answer \in LeaveAnswers
    PROVE  SameLevels(Hand(w, announced, isKey, answer), w)
<1>1. CASE ~Calls(w)  BY <1>1 DEF Hand, SameLevels
<1>2. CASE Calls(w)
  <2> DEFINE t == [reported |-> announced \/ w.keyNext, right |-> isKey]
             u == [w EXCEPT !.keyNext = FALSE, !.told = t]
  <2>1. t \in [reported : BOOLEAN, right : BOOLEAN]  BY DEF WalkType
  <2>2. Hand(w, announced, isKey, answer) = Answered(u, answer)  BY <1>2 DEF Hand
  <2> HIDE DEF t
  <2>3. u \in WalkType /\ SameLevels(u, w)  BY <2>1 DEF WalkType, SameLevels
  <2> HIDE DEF u
  <2>4. SameLevels(Answered(u, answer), u)  BY <2>3 DEF WalkType, SameLevels, Answered
  <2> QED  BY <2>2, <2>3, <2>4 DEF SameLevels
<1> QED  BY <1>1, <1>2

LEMMA HandKeyOK ==
    ASSUME NEW w \in WalkType, NEW answer \in LeaveAnswers
    PROVE  SameLevels(HandKey(w, answer), w)
<1>1. SameLevels(Hand(w, TRUE, TRUE, answer), w)  BY HandOK
<1> QED  BY <1>1 DEF HandKey, SameLevels

LEMMA HandLeafOK ==
    ASSUME NEW w \in WalkType, NEW f, NEW answer \in AnswersLeaf(w, f)
    PROVE  SameLevels(HandLeaf(w, f, answer), w)
<1>1. answer \in LeaveAnswers \/ (answer = "unasked" /\ f.slot = "node")
  BY DEF AnswersLeaf, OnHand, LeaveAnswers
<1>2. answer \in LeaveAnswers =>
          SameLevels(HandKey(w, answer), w) /\ SameLevels(Hand(w, FALSE, FALSE, answer), w)
  BY HandKeyOK, HandOK
<1>3. SameLevels(w, w)  BY DEF SameLevels
<1> QED  BY <1>1, <1>2, <1>3 DEF HandLeaf

LEMMA MarkKeyOK ==
    ASSUME NEW w \in WalkType
    PROVE  SameLevels(MarkKey(w), w)
BY DEF MarkKey, WalkType, SameLevels


LEMMA FrontOK ==
    ASSUME NEW V, NEW s \in Seq(V)
    PROVE  Front(s) \in Seq(V)
<1>1. CASE Len(s) = 0
  <2>1. Front(s) = SubSeq(s, 1, -1)  BY <1>1 DEF Front
  <2>2. SubSeq(s, 1, -1) = <<>>  OBVIOUS
  <2> QED  BY <2>1, <2>2
<1>2. CASE Len(s) # 0
  <2>1. PICK m \in Nat : Len(s) = m + 1  BY <1>2
  <2>2. Front(s) = SubSeq(s, 1, m)  BY <2>1 DEF Front
  <2>3. SubSeq(s, 1, m) \in Seq(V)  BY <2>1
  <2> QED  BY <2>2, <2>3
<1> QED  BY <1>1, <1>2

(* What a visitor's answer to Enter makes of the walk. *)
EntersAs(v, w, kind, answer) ==
    /\ v \in WalkType /\ v.quiet = w.quiet /\ (w.stopped => v.stopped)
    /\ answer = "stop" => v.stopped /\ v.in = w.in /\ v.skip = w.skip /\ (v.keeping <=> w.keeping)
    /\ answer # "stop" =>
          IF Calls(w) /\ answer \in {"nil", "keep"}
          THEN /\ w.skip = 0 /\ v.in = Append(w.in, kind)
               /\ v.skip = (IF v.keeping THEN 1 ELSE 0) /\ (v.keeping <=> answer = "keep")
          ELSE /\ v.in = w.in /\ v.skip = w.skip + 1 /\ (v.keeping <=> w.keeping)
               /\ answer # "keep"

LEMMA EnterOK ==
    ASSUME NEW w \in WalkType, NEW kind \in FrameKind \cup {"key"},
           NEW announced \in BOOLEAN, NEW isKey \in BOOLEAN, NEW answer \in OnEnter(w),
           w.skip = 0 => ~w.keeping
    PROVE  EntersAs(Enter(w, kind, announced, isKey, answer), w, kind, answer)
<1> DEFINE v == Enter(w, kind, announced, isKey, answer)
<1>1. CASE ~Calls(w)
  <2>1. answer = "nil" /\ v = [w EXCEPT !.skip = @ + 1]  BY <1>1 DEF OnEnter, Enter
  <2> HIDE DEF v
  <2>2. w.skip + 1 \in Nat  BY DEF WalkType
  <2>3. /\ v \in WalkType /\ v.quiet = w.quiet /\ v.in = w.in /\ v.skip = w.skip + 1
        /\ (v.keeping <=> w.keeping) /\ (w.stopped => v.stopped)
    BY <2>1, <2>2 DEF WalkType
  <2>4. EntersAs(v, w, kind, answer)  BY <1>1, <2>1, <2>3 DEF EntersAs
  <2> QED  BY <2>4 DEF v
<1>2. CASE Calls(w)
  <2> DEFINE key == announced \/ w.keyNext
             t == [reported |-> key, right |-> isKey]
             skip == IF answer \in {"nil", "stop"} THEN 0 ELSE 1
             declined == w.declined \/ answer \in {"skip", "keep"}
             asked == [w EXCEPT !.keyNext = FALSE, !.told = t, !.skip = skip,
                                !.keeping = (answer = "keep"), !.declined = declined]
  <2>1. /\ t \in [reported : BOOLEAN, right : BOOLEAN] /\ key \in BOOLEAN
        /\ skip \in Nat /\ declined \in BOOLEAN
    BY DEF WalkType
  <2>2. w.skip = 0 /\ ~w.keeping /\ ~w.failed /\ ~w.stopped  BY <1>2 DEF Calls, Done
  <2>3. answer \in EnterAnswers  BY <1>2 DEF OnEnter
  <2>4. v = IF answer \in {"nil", "keep"}
            THEN [asked EXCEPT !.in = Append(@, kind), !.key = Append(@, key)]
            ELSE Answered(asked, answer)
    BY <1>2 DEF Enter
  <2> HIDE DEF key, t, declined
  <2>5. /\ asked \in WalkType /\ asked.skip = skip /\ (asked.keeping <=> answer = "keep")
        /\ asked.in = w.in /\ asked.key = w.key /\ asked.quiet = w.quiet
        /\ asked.failed = w.failed /\ asked.stopped = w.stopped
    <3> HIDE DEF skip
    <3> QED  BY <2>1 DEF WalkType
  <2> HIDE DEF asked, v
  <2>6. CASE answer \in {"nil", "keep"}
    <3>1. Append(w.in, kind) \in Seq(FrameKind \cup {"key"}) /\ Append(w.key, key) \in Seq(BOOLEAN)
      BY <2>1 DEF WalkType
    <3>2. v = [asked EXCEPT !.in = Append(w.in, kind), !.key = Append(w.key, key)]
      BY <2>4, <2>5, <2>6
    <3>3. /\ v \in WalkType /\ v.in = Append(w.in, kind) /\ v.skip = skip
          /\ (v.keeping <=> answer = "keep") /\ v.quiet = w.quiet
      BY <2>5, <3>1, <3>2 DEF WalkType
    <3>4. EntersAs(v, w, kind, answer)  BY <1>2, <2>2, <2>6, <3>3 DEF EntersAs
    <3> QED  BY <3>4 DEF v
  <2>7. CASE answer \notin {"nil", "keep"}
    <3>1. v = Answered(asked, answer)  BY <2>4, <2>7
    <3>2. /\ v \in WalkType /\ v.in = w.in /\ v.skip = skip /\ ~v.keeping /\ v.quiet = w.quiet
          /\ answer = "stop" => v.stopped
      BY <2>5, <2>7, <3>1 DEF WalkType, Answered
    <3>3. answer \in {"skip", "fail", "stop"}  BY <2>3, <2>7 DEF EnterAnswers
    <3>4. EntersAs(v, w, kind, answer)  BY <1>2, <2>2, <3>2, <3>3 DEF EntersAs
    <3> QED  BY <3>4 DEF v
  <2> QED  BY <2>6, <2>7 DEF v
<1> QED  BY <1>1, <1>2

(* What the end of a node makes of the walk. *)
Leaves(v, w, answer) ==
    /\ v \in WalkType /\ v.quiet = w.quiet /\ (w.stopped => v.stopped)
    /\ IF w.skip = 0 \/ (w.skip = 1 /\ w.keeping)
       THEN /\ v.in = Front(w.in) /\ v.skip = 0 /\ ~v.keeping
            /\ answer = "stop" => v.stopped
       ELSE v.in = w.in /\ v.skip = w.skip - 1 /\ (v.keeping <=> w.keeping)

LEMMA LeaveOK ==
    ASSUME NEW w \in WalkType, NEW answer \in LeaveAnswers
    PROVE  Leaves(Leave(w, answer), w, answer)
<1> DEFINE v == Leave(w, answer)
<1>1. CASE w.skip = 0 \/ (w.skip = 1 /\ w.keeping)
  <2> DEFINE u == [w EXCEPT !.skip = 0, !.keeping = FALSE, !.in = Front(w.in), !.key = Front(w.key)]
  <2>1. v = Answered(u, answer)  BY <1>1 DEF Leave, WalkType
  <2>2. Front(w.in) \in Seq(FrameKind \cup {"key"}) /\ Front(w.key) \in Seq(BOOLEAN)
    <3>1. w.in \in Seq(FrameKind \cup {"key"}) /\ w.key \in Seq(BOOLEAN)  BY DEF WalkType
    <3> QED  BY <3>1, FrontOK
  <2>3. /\ u \in WalkType /\ u.in = Front(w.in) /\ u.skip = 0 /\ ~u.keeping
        /\ u.quiet = w.quiet /\ u.failed = w.failed /\ u.stopped = w.stopped
    BY <2>2 DEF WalkType
  <2> HIDE DEF u, v
  <2>4. /\ v \in WalkType /\ v.in = Front(w.in) /\ v.skip = 0 /\ ~v.keeping
        /\ v.quiet = w.quiet /\ (w.stopped => v.stopped) /\ (answer = "stop" => v.stopped)
    BY <2>1, <2>3 DEF WalkType, Answered
  <2>5. Leaves(v, w, answer)  BY <1>1, <2>4 DEF Leaves
  <2> QED  BY <2>5 DEF v
<1>2. CASE ~(w.skip = 0 \/ (w.skip = 1 /\ w.keeping))
  <2>1. v = [w EXCEPT !.skip = @ - 1] /\ w.skip \in Nat /\ w.skip # 0
    BY <1>2 DEF Leave, WalkType
  <2> QED  BY <1>2, <2>1 DEF WalkType, Leaves
<1> QED  BY <1>1, <1>2

LEMMA LeaveReturns ==
    ASSUME walk \in WalkType, NEW answer \in LeaveAnswers, Top.kind # "quiet",
           SameLevels(walk', Leave(walk, answer))
    PROVE  /\ ReturnsFrom(Top) /\ walk'.quiet = walk.quiet
           /\ (walk.stopped => walk'.stopped)
<1>1. Leaves(Leave(walk, answer), walk, answer)  BY LeaveOK
<1> QED  BY <1>1 DEF Leaves, SameLevels, ReturnsFrom


LEMMA TableOps ==
    ASSUME NEW t, TableOK(t), NEW name \in Name, NEW decl \in Nat, NEW any, NEW alias
    PROVE  /\ TableOK(OpenName(t, name, decl))
           /\ OpenName(t, name, decl).open = Append(t.open, [name |-> name, decl |-> decl])
           /\ TableOK(DropName(t)) /\ DropName(t).open = Front(t.open)
           /\ TableOK(Keep(t, any, decl)) /\ Keep(t, any, decl).open = Front(t.open)
           /\ TableOK(Retag(t, any, decl)) /\ Retag(t, any, decl).open = t.open
           /\ TableOK(HoldCyclic(t, name, alias)) /\ HoldCyclic(t, name, alias).open = t.open
           /\ TableOK(Take(t)) /\ Take(t).open = <<>>
<1>1. Front(t.open) \in Seq(OpenType)  BY FrontOK DEF TableOK
<1>2. t.open = <<>> => Front(t.open) = t.open
  <2>1. SubSeq(<<>>, 1, -1) = <<>>  OBVIOUS
  <2> QED  BY <2>1 DEF Front
<1>3. TableOK(OpenName(t, name, decl))
      /\ OpenName(t, name, decl).open = Append(t.open, [name |-> name, decl |-> decl])
  <2>1. [name |-> name, decl |-> decl] \in OpenType  BY DEF OpenType
  <2> QED  BY <2>1 DEF OpenName, TableOK
<1>4. TableOK(DropName(t)) /\ DropName(t).open = Front(t.open)
  BY <1>1, <1>2 DEF DropName, TableOK
<1>5. TableOK(Keep(t, any, decl)) /\ Keep(t, any, decl).open = Front(t.open)
  BY <1>4 DEF Keep, TableOK
<1>6. TableOK(Retag(t, any, decl)) /\ Retag(t, any, decl).open = t.open
  BY DEF Retag, TableOK
<1>7. TableOK(HoldCyclic(t, name, alias)) /\ HoldCyclic(t, name, alias).open = t.open
  BY DEF HoldCyclic, TableOK
<1>8. TableOK(Take(t)) /\ Take(t).open = <<>>  BY DEF Take, TableOK
<1> QED  BY <1>3, <1>4, <1>5, <1>6, <1>7, <1>8

-----------------------------------------------------------------------------
(* Each step keeps the invariant. *)

(* The types of what a step sets beside the frames and the walk. *)
OthersTyped ==
    /\ TableOK(table') /\ decls' \in Seq(DeclType) /\ ArenaOK(arena')
    /\ readingKey' \in Int /\ pins' \in Int /\ nodes' \in Nat
    /\ refused' \in BOOLEAN /\ (refused => refused')

LEMMA StayIInv ==
    ASSUME IInv, OthersTyped, NEW g, SameRole(Top, g), frames' = WithTop(g),
           SameLevels(walk', walk), Len(arena'.marks) = Len(arena.marks),
           ~walk'.stopped =>
               readingKey' = readingKey /\ pins' = pins /\ table'.open = table.open
    PROVE  IInv'
<1>1. Shape /\ Levels /\ MarksMatch /\ FramesOK /\ Waiting  BY DEF IInv, Levels, FramesOK
<1>2. StaysInRole /\ Stays /\ Waiting' /\ frames' # <<>>  BY <1>1, TopFrames DEF Shape
<1>3. Shape'  BY <1>2 DEF Shape, OthersTyped, SameLevels, Stays
<1>4. Len(frames) > 0 /\ table.open \in Seq(OpenType) /\ table'.open \in Seq(OpenType)
  BY <1>1, TopIsFrame DEF Shape, OthersTyped, TableOK
<1>5. Levels'  BY <1>1, <1>2, <1>4, StayLevels DEF OthersTyped
<1>6. Reading' => Reading  BY DEF Reading, OthersTyped, SameLevels
<1>7. MarksMatch'  BY <1>1, <1>2, <1>6, StayMarks DEF SameLevels
<1> QED  BY <1>3, <1>5, <1>7 DEF IInv

LEMMA PushIInv ==
    ASSUME IInv, OthersTyped, NEW g, SameRole(Top, g), Waits(g),
           NEW f \in FrameType, ~f.pushed, ~InEntry(f), frames' = Append(WithTop(g), f),
           CallsInto(f), Len(arena'.marks) = Len(arena.marks),
           walk.stopped => walk'.stopped, ~walk'.stopped => CountsInto(f)
    PROVE  IInv'
<1>1. Shape /\ Levels /\ MarksMatch /\ FramesOK /\ Waiting  BY DEF IInv, Levels, FramesOK
<1>2. PushesInRole(f) /\ Pushes(f) /\ Waiting' /\ frames' # <<>>
  BY <1>1, PushFrames DEF Shape
<1>3. Shape'  BY <1>2 DEF Shape, OthersTyped, CallsInto, Pushes
<1>4. /\ Len(frames) > 0 /\ table.open \in Seq(OpenType) /\ table'.open \in Seq(OpenType)
      /\ walk \in WalkType
  BY <1>1, TopIsFrame DEF Shape, OthersTyped, TableOK
<1>8. pins \in Int /\ (refused => refused')  BY <1>1 DEF Shape, OthersTyped
<1>5. Levels'  BY <1>1, <1>2, <1>4, <1>8, PushLevels
<1>6. Reading' => Reading  BY DEF Reading, OthersTyped
<1>7. MarksMatch'  BY <1>1, <1>2, <1>4, <1>6, PushMarks
<1> QED  BY <1>3, <1>5, <1>7 DEF IInv

LEMMA PopIInv ==
    ASSUME IInv, OthersTyped, PopsInRole, Pops, Waiting', frames' # <<>>, ReturnsFrom(Top),
           walk.stopped => walk'.stopped, ~walk'.stopped => CountsFrom(Top),
           Reading' => Len(arena'.marks) = Len(arena.marks) /\ ~Top.pushed
    PROVE  IInv'
<1>1. Shape /\ Levels /\ MarksMatch /\ FramesOK /\ Waiting  BY DEF IInv, Levels, FramesOK
<1>3. Shape'  BY DEF Shape, OthersTyped, ReturnsFrom, Pops
<1>4. /\ table.open \in Seq(OpenType) /\ table'.open \in Seq(OpenType) /\ walk \in WalkType
  BY <1>1 DEF Shape, OthersTyped, TableOK
<1>8. pins \in Int /\ (refused => refused')  BY <1>1 DEF Shape, OthersTyped
<1>5. Levels'  BY <1>1, <1>4, <1>8, PopLevels
<1>6. Reading' => Reading  BY DEF Reading, OthersTyped
<1>7. MarksMatch'  BY <1>1, <1>4, <1>6, PopMarks
<1> QED  BY <1>3, <1>5, <1>7 DEF IInv


LEMMA ReadToldOK ==
    ASSUME NEW f \in FrameType, Waits(f), NEW n \in Nat, NEW called
    PROVE  SameRole(f, Read(Told(f, called), n))
<1>1. SameRole(f, Told(f, called))  BY ToldOK
<1>2. Told(f, called) \in FrameType  BY <1>1 DEF SameRole
<1>3. Told(f, called).slot = f.slot  BY DEF Told, FrameType
<1>4. SameRole(Told(f, called), Read(Told(f, called), n))  BY <1>2, <1>3, ReadOK DEF Waits
<1> QED  BY <1>1, <1>4, SameRoleTransitive

LEMMA SameLevelsReflexive ==
    ASSUME NEW w \in WalkType
    PROVE  SameLevels(w, w)
BY DEF SameLevels

LEMMA IInvShape ==
    ASSUME IInv
    PROVE  /\ Shape /\ Levels /\ MarksMatch /\ FramesOK /\ Waiting
           /\ Top = frames[Len(frames)] /\ Top \in FrameType
           /\ Len(frames) \in Nat /\ Len(frames) > 0
           /\ Len(frames) > 1 => Under = frames[Len(frames)-1] /\ Under \in FrameType
<1>1. Shape /\ Levels /\ MarksMatch /\ FramesOK /\ Waiting  BY DEF IInv, Levels, FramesOK
<1> QED  BY <1>1, TopIsFrame DEF Shape

LEMMA BuildOK ==
    ASSUME Shape, NEW type \in Types, Build(type)
    PROVE  ArenaOK(arena') /\ arena'.marks = arena.marks /\ nodes' = nodes + 1 /\ nodes' \in Nat
BY TakeCellOK DEF Build, Shape

LEMMA ScalarIInv ==
    ASSUME IInv, Scalar
    PROVE  IInv'
<1>1. Shape /\ Top \in FrameType /\ walk \in WalkType /\ nodes \in Nat  BY IInvShape DEF Shape
<1>2. "scalar" \in Types  BY DescentAssumption
<1>3. ArenaOK(arena') /\ Len(arena'.marks) = Len(arena.marks) /\ nodes' \in Nat
  BY <1>1, <1>2, BuildOK DEF Scalar
<1>4. OthersTyped  BY <1>1, <1>3 DEF OthersTyped, Scalar, Shape
<1>5. SameLevels(walk', walk)  BY <1>1, HandLeafOK DEF Scalar
<1>6. Waits(Top)  BY DEF Scalar, AtNode, Waits
<1>7. PICK g : SameRole(Top, g) /\ frames' = WithTop(g)
  BY <1>1, <1>6, ReadToldOK DEF Scalar
<1> QED  BY <1>3, <1>4, <1>5, <1>7, StayIInv DEF Scalar

LEMMA AliasIInv ==
    ASSUME IInv, NEW name \in Name, Alias(name)
    PROVE  IInv'
<1>1. /\ Shape /\ Top \in FrameType /\ walk \in WalkType /\ nodes \in Nat /\ TableOK(table)
      /\ ArenaOK(arena)
  BY IInvShape DEF Shape
<1>2. TableOK(table') /\ table'.open = table.open
  <2>1. 0 \in Nat  OBVIOUS
  <2> QED  BY <1>1, <2>1, TableOps DEF Alias
<1>4. OthersTyped  BY <1>1, <1>2 DEF OthersTyped, Alias, Shape
<1>5. SameLevels(walk', walk)  BY <1>1, HandLeafOK DEF Alias
<1>6. Waits(Top)  BY DEF Alias, Written, AtNode, Waits
<1>7. PICK g : SameRole(Top, g) /\ frames' = WithTop(g)
  BY <1>1, <1>6, ReadToldOK DEF Alias
<1> QED  BY <1>2, <1>4, <1>5, <1>7, StayIInv DEF Alias

LEMMA RefuseIInv ==
    ASSUME IInv, Refuse
    PROVE  IInv'
<1>1. Shape /\ Top = frames[Len(frames)] /\ Top \in FrameType /\ walk \in WalkType
  BY IInvShape DEF Shape
<1>2. frames' = WithTop(Top)  BY <1>1 DEF Refuse, WithTop, Shape
<1>3. OthersTyped  BY <1>1 DEF OthersTyped, Refuse, Shape
<1>4. SameRole(Top, Top) /\ SameLevels(walk', walk)
  BY <1>1, SameRoleReflexive, SameLevelsReflexive DEF Refuse
<1> QED  BY <1>2, <1>3, <1>4, StayIInv DEF Refuse

LEMMA RefuseAnchorNameIInv ==
    ASSUME IInv, RefuseAnchorName
    PROVE  IInv'
<1>1. Shape /\ Levels /\ MarksMatch  BY IInvShape
<1>2. /\ frames' = frames /\ walk' = walk /\ arena' = arena /\ table' = table
      /\ readingKey' = readingKey /\ nodes' = nodes /\ decls' = decls
      /\ pins' = pins + 1 /\ refused' = TRUE /\ ~refused
  BY DEF RefuseAnchorName, TakesAnchor, Written, AtNode, Reading
<1>3. /\ Entered' = Entered /\ Declined' = Declined /\ Anchors' = Anchors
      /\ Keys' = Keys /\ Quiets' = Quiets /\ Marked' = Marked
  BY <1>2 DEF Entered, Declined, Anchors, Keys, Quiets, Marked
<1>4. Shape'  BY <1>1, <1>2 DEF Shape
<1>5. FramesOK' /\ InMatches' /\ SkipMatches' /\ (OpenMatches => OpenMatches')
  BY <1>1, <1>2, <1>3 DEF Levels, FramesOK, Waiting, InMatches, SkipMatches, OpenMatches
<1>6. CountsMatch => CountsMatch'
  <2>1. PinsMatch => PinsMatch'
    <3>1. pins \in Int /\ walk.keeping \in BOOLEAN  BY <1>1 DEF Shape, WalkType
    <3>2. Cardinality(Anchors) \in Nat
      <4>1. Len(frames) \in Nat /\ Anchors \in SUBSET (1..Len(frames))
        BY <1>1, SortsAreFrames DEF Shape
      <4> QED  BY <4>1, PlaceBounds
    <3> QED  BY <1>2, <1>3, <3>1, <3>2 DEF PinsMatch
  <2> QED  BY <1>2, <1>3, <1>5, <2>1 DEF CountsMatch
<1>7. Levels'  BY <1>1, <1>2, <1>5, <1>6 DEF Levels
<1>8. MarksMatch'  BY <1>1, <1>2, <1>3 DEF MarksMatch, FreeAt, KeptAt, Reading
<1> QED  BY <1>4, <1>7, <1>8 DEF IInv

(* A call, whatever it is made into. *)
LEMMA CallIInv ==
    ASSUME IInv, Reading, Waits(Top), OthersTyped, Len(arena'.marks) = Len(arena.marks),
           NEW frame \in FrameType, ~frame.entered, ~frame.pushed, ~InEntry(frame),
           frame.kind # "quiet", NEW kind, kind = HandedAs(frame), NEW announced \in BOOLEAN,
           NEW pinned, pinned = (IF frame.kind = "anchor" THEN 1 ELSE 0),
           Call(frame, kind, announced, pinned),
           IF frame.kind = "anchor"
           THEN \E o \in OpenType : o.decl = frame.decl /\ table'.open = Append(table.open, o)
           ELSE table'.open = table.open
    PROVE  IInv'
<1>1. /\ Shape /\ Levels /\ Top \in FrameType /\ walk \in WalkType /\ nodes \in Nat
      /\ SkipMatches /\ frames \in Seq(FrameType) /\ pins \in Int /\ readingKey \in Int
  BY IInvShape DEF Shape, Levels
<1>2. PICK answer \in OnEnter(walk) :
          LET takes == Calls(walk) /\ answer \in {"nil", "keep"}
              caller == [Told(Top, Calls(walk)) EXCEPT
                            !.alone = AtKey /\ IsCollection(frame) /\ ~frame.inKey]
          IN  /\ walk' = Enter(walk, kind, announced, AtKey, answer)
              /\ frames' = IF answer = "stop" THEN WithTop(caller)
                           ELSE Append(WithTop(caller),
                                       [frame EXCEPT !.first = nodes, !.entered = takes])
              /\ pins' = pins + (IF answer = "stop" THEN 0 ELSE pinned)
                              + (IF answer = "keep" THEN 1 ELSE 0)
  BY DEF Call
<1> DEFINE takes == Calls(walk) /\ answer \in {"nil", "keep"}
           told == Told(Top, Calls(walk))
           caller == [told EXCEPT !.alone = AtKey /\ IsCollection(frame) /\ ~frame.inKey]
           f == [frame EXCEPT !.first = nodes, !.entered = takes]
<1>3. SameRole(Top, caller) /\ Waits(caller)
  <2>1. SameRole(Top, told)  BY <1>1, ToldOK
  <2>2. told \in FrameType /\ told.slot = Top.slot  BY <1>1, <2>1 DEF SameRole, Told, FrameType
  <2>3. (AtKey /\ IsCollection(frame) /\ ~frame.inKey) \in BOOLEAN  OBVIOUS
  <2> DEFINE b == AtKey /\ IsCollection(frame) /\ ~frame.inKey
  <2> HIDE DEF told
  <2>4. SameRole(told, [told EXCEPT !.alone = b])
    <3> HIDE DEF b
    <3>1. b \in BOOLEAN  BY <2>3 DEF b
    <3> QED  BY <2>2, <3>1, AloneOK
  <2>5. caller.slot = told.slot  BY <2>2 DEF FrameType
  <2> QED  BY <2>1, <2>2, <2>4, <2>5, SameRoleTransitive DEF Waits
<1>4. EntersAs(walk', walk, kind, answer)
  <2>1. walk.skip = 0 => ~walk.keeping  BY <1>1, NoneDeclined
  <2>2. kind \in FrameKind \cup {"key"}  BY DEF HandedAs, FrameType
  <2>3. AtKey \in BOOLEAN  BY DEF AtKey
  <2> QED  BY <1>1, <1>2, <2>1, <2>2, <2>3, EnterOK
<1>5. readingKey' = readingKey + (IF frame.inKey THEN 1 ELSE 0)  BY DEF Call
<1>6. CASE answer = "stop"
  <2>1. walk'.stopped /\ SameLevels(walk', walk)  BY <1>1, <1>4, <1>6 DEF EntersAs, SameLevels
  <2>2. frames' = WithTop(caller)  BY <1>2, <1>6
  <2> HIDE DEF caller
  <2> QED  BY <1>3, <2>1, <2>2, StayIInv
<1>7. CASE answer # "stop"
  <2>1. frames' = Append(WithTop(caller), f)  BY <1>2, <1>7
  <2>2. takes \in BOOLEAN  OBVIOUS
  <2>3. /\ f \in FrameType /\ ~f.pushed /\ ~InEntry(f) /\ f.kind = frame.kind
        /\ (f.inKey <=> frame.inKey) /\ f.decl = frame.decl /\ (f.entered <=> takes)
    <3> HIDE DEF takes
    <3> QED  BY <1>1, <2>2 DEF FrameType, InEntry
  <2>4. HandedAs(f) = kind  BY <2>3 DEF HandedAs
  <2> HIDE DEF caller, f
  <2>5. CallsInto(f)
    <3>1. f.kind # "quiet"  BY <2>3
    <3> QED  BY <1>4, <1>7, <2>3, <2>4, <3>1 DEF CallsInto, EntersAs
  <2>6. CountsInto(f)
    <3>1. walk.keeping \in BOOLEAN /\ walk'.keeping \in BOOLEAN /\ walk.quiet \in Int
      BY <1>1, <1>4 DEF EntersAs, WalkType
    <3>2. ~walk.stopped /\ walk'.quiet = walk.quiet  BY <1>4 DEF Reading, EntersAs
    <3>3. walk.skip = 0 => ~walk.keeping  BY <1>1, NoneDeclined
    <3>4. /\ walk.keeping => walk'.keeping
          /\ walk'.keeping /\ ~walk.keeping <=> answer = "keep"
      BY <1>4, <1>7, <3>1, <3>3 DEF EntersAs
    <3>5. pins' = pins + pinned + (IF answer = "keep" THEN 1 ELSE 0)  BY <1>2, <1>7
    <3>6. /\ pins' = pins + (IF f.kind = "anchor" THEN 1 ELSE 0)
                          + (IF walk'.keeping /\ ~walk.keeping THEN 1 ELSE 0)
          /\ readingKey' = readingKey + (IF f.inKey THEN 1 ELSE 0)
          /\ walk'.quiet = walk.quiet + (IF f.kind = "quiet" THEN 1 ELSE 0)
      BY <1>5, <2>3, <3>1, <3>2, <3>4, <3>5
    <3>7. IF f.kind = "anchor"
          THEN \E o \in OpenType : o.decl = f.decl /\ table'.open = Append(table.open, o)
          ELSE table'.open = table.open
      BY <2>3
    <3> QED  BY <3>2, <3>4, <3>6, <3>7 DEF CountsInto
  <2>7. walk.stopped => walk'.stopped  BY DEF Reading
  <2> QED  BY <1>3, <2>1, <2>3, <2>5, <2>6, <2>7, PushIInv
<1> QED  BY <1>6, <1>7


LEMMA OpenCollectionIInv ==
    ASSUME IInv, NEW kind \in {"mapping", "sequence"}, OpenCollection(kind)
    PROVE  IInv'
<1>1. Shape /\ nodes \in Nat /\ TableOK(table)  BY IInvShape DEF Shape
<1>2. "collection" \in Types  BY DescentAssumption
<1>3. ArenaOK(arena') /\ Len(arena'.marks) = Len(arena.marks) /\ nodes' \in Nat
  BY <1>1, <1>2, BuildOK DEF OpenCollection
<1>4. PICK alone \in BOOLEAN :
          Call([Frame EXCEPT !.kind = kind, !.slot = "between", !.id = nodes + 1,
                             !.inKey = CountsKey /\ ~alone], kind, FALSE, 0)
  BY DEF OpenCollection
<1> DEFINE inKey == CountsKey /\ ~alone
           f == [Frame EXCEPT !.kind = kind, !.slot = "between", !.id = nodes + 1, !.inKey = inKey]
<1>5. /\ f \in FrameType /\ ~f.entered /\ ~f.pushed /\ ~InEntry(f) /\ f.kind = kind
      /\ inKey \in BOOLEAN
  <2>1. inKey \in BOOLEAN  BY DEF CountsKey, AtKey
  <2>2. nodes + 1 \in Nat /\ kind \in FrameKind  BY <1>1 DEF FrameKind
  <2> DEFINE id == nodes + 1
  <2> HIDE DEF inKey, id, f
  <2>3. f = [Frame EXCEPT !.kind = kind, !.slot = "between", !.id = id, !.inKey = inKey]
    BY DEF f, id
  <2>4. id \in Nat  BY <2>2 DEF id
  <2>5. Frame \in FrameType /\ ~Frame.entered /\ ~Frame.pushed
    BY DEF Frame, FrameType, FrameKind, FrameSlot
  <2>6. f \in FrameType /\ f.kind = kind /\ f.slot = "between" /\ ~f.entered /\ ~f.pushed
    BY <2>1, <2>2, <2>3, <2>4, <2>5 DEF FrameType, FrameSlot
  <2> QED  BY <2>1, <2>6 DEF InEntry
<1>6. kind = HandedAs(f) /\ f.kind # "quiet" /\ f.kind # "anchor"  BY <1>5 DEF HandedAs
<1>7. Call(f, kind, FALSE, 0)  BY <1>4
<1>8. Reading /\ Waits(Top)  BY DEF OpenCollection, Written, AtNode, Waits
<1>9. readingKey' \in Int /\ pins' \in Int
  <2>1. readingKey \in Int /\ pins \in Int  BY <1>1 DEF Shape
  <2> HIDE DEF f
  <2> QED  BY <1>7, <2>1 DEF Call
<1>10. OthersTyped  BY <1>1, <1>3, <1>9 DEF OthersTyped, OpenCollection, Shape
<1>11. table'.open = table.open  BY DEF OpenCollection
<1> HIDE DEF f
<1> QED  BY <1>3, <1>5, <1>6, <1>7, <1>8, <1>10, <1>11, CallIInv

LEMMA OpenAnchorIInv ==
    ASSUME IInv, NEW name \in Name, OpenAnchor(name)
    PROVE  IInv'
<1>1. Shape /\ nodes \in Nat /\ TableOK(table) /\ decls \in Seq(DeclType)  BY IInvShape DEF Shape
<1> DEFINE d == Len(decls) + 1
           f == [Frame EXCEPT !.kind = "anchor", !.decl = d, !.inKey = CountsKey]
<1>2. d \in Nat  BY <1>1
<1>3. /\ f \in FrameType /\ ~f.entered /\ ~f.pushed /\ ~InEntry(f) /\ f.kind = "anchor"
      /\ f.decl = d
  <2>1. CountsKey \in BOOLEAN  BY DEF CountsKey, AtKey
  <2> HIDE DEF d
  <2> QED  BY <1>2, <2>1 DEF Frame, FrameType, FrameKind, FrameSlot, InEntry
<1>4. Call(f, "anchor", FALSE, 1)  BY DEF OpenAnchor
<1>5. Reading /\ Waits(Top)  BY DEF OpenAnchor, TakesAnchor, Written, AtNode, Waits
<1>6. readingKey' \in Int /\ pins' \in Int
  <2>1. readingKey \in Int /\ pins \in Int  BY <1>1 DEF Shape
  <2> HIDE DEF f
  <2> QED  BY <1>4, <2>1 DEF Call
<1>7. decls' \in Seq(DeclType)
  <2> DEFINE e == \E i \in DOMAIN table.open : table.open[i].name = name
             new == [name |-> name, nested |-> e, tagged |-> FALSE, from |-> nodes, to |-> nodes]
  <2>1. e \in BOOLEAN  OBVIOUS
  <2>2. new \in DeclType
    <3> HIDE DEF e
    <3> QED  BY <1>1, <2>1 DEF DeclType
  <2>3. decls' = Append(decls, new)  BY DEF OpenAnchor
  <2> HIDE DEF new
  <2> QED  BY <1>1, <2>2, <2>3
<1>8. TableOK(table') /\ table'.open = Append(table.open, [name |-> name, decl |-> d])
  <2>1. table' = OpenName(table, name, d)  BY DEF OpenAnchor
  <2> HIDE DEF d
  <2> QED  BY <1>1, <1>2, <2>1, TableOps, ZenonT(40)
<1>9. OthersTyped  BY <1>1, <1>6, <1>7, <1>8 DEF OthersTyped, OpenAnchor, Shape
<1>10. \E o \in OpenType : o.decl = f.decl /\ table'.open = Append(table.open, o)
  <2> DEFINE o == [name |-> name, decl |-> d]
  <2> HIDE DEF d
  <2>1. o \in OpenType /\ o.decl = d  BY <1>2 DEF OpenType
  <2> QED  BY <1>3, <1>8, <2>1
<1>11. Len(arena'.marks) = Len(arena.marks)  BY DEF OpenAnchor
<1>12. HandedAs(f) = "anchor" /\ f.kind # "quiet"  BY <1>3 DEF HandedAs
<1> HIDE DEF f
<1> QED  BY <1>3, <1>4, <1>5, <1>9, <1>10, <1>11, <1>12, CallIInv

LEMMA OpenTagIInv ==
    ASSUME IInv, OpenTag
    PROVE  IInv'
<1>1. Shape /\ TableOK(table)  BY IInvShape DEF Shape
<1> DEFINE f == [Frame EXCEPT !.kind = "tag", !.inKey = CountsKey]
<1>2. f \in FrameType /\ ~f.entered /\ ~f.pushed /\ ~InEntry(f) /\ f.kind = "tag"
  <2>1. CountsKey \in BOOLEAN  BY DEF CountsKey, AtKey
  <2> QED  BY <2>1 DEF Frame, FrameType, FrameKind, FrameSlot, InEntry
<1>3. Call(f, "tag", FALSE, 0)  BY DEF OpenTag
<1>4. Reading /\ Waits(Top)  BY DEF OpenTag, Written, AtNode, Waits
<1>5. HandedAs(f) = "tag" /\ f.kind # "quiet" /\ f.kind # "anchor"  BY <1>2 DEF HandedAs
<1> HIDE DEF f
<1>6. readingKey' \in Int /\ pins' \in Int
  <2>1. readingKey \in Int /\ pins \in Int  BY <1>1 DEF Shape
  <2> QED  BY <1>3, <2>1 DEF Call
<1>7. OthersTyped  BY <1>1, <1>6 DEF OthersTyped, OpenTag, Shape
<1>8. Len(arena'.marks) = Len(arena.marks) /\ table'.open = table.open  BY DEF OpenTag
<1> QED  BY <1>2, <1>3, <1>4, <1>5, <1>7, <1>8, CallIInv

LEMMA OpenExplicitKeyIInv ==
    ASSUME IInv, OpenExplicitKey
    PROVE  IInv'
<1>1. Shape /\ TableOK(table)  BY IInvShape DEF Shape
<1> DEFINE f == [Frame EXCEPT !.kind = "explicit"]
<1>2. f \in FrameType /\ ~f.entered /\ ~f.pushed /\ ~InEntry(f) /\ f.kind = "explicit"
  BY DEF Frame, FrameType, FrameKind, FrameSlot, InEntry
<1>3. Call(f, "key", TRUE, 0)  BY DEF OpenExplicitKey
<1>4. Reading /\ Waits(Top)  BY DEF OpenExplicitKey, AtKey, Waits
<1>5. HandedAs(f) = "key" /\ f.kind # "quiet" /\ f.kind # "anchor"  BY <1>2 DEF HandedAs
<1> HIDE DEF f
<1>6. readingKey' \in Int /\ pins' \in Int
  <2>1. readingKey \in Int /\ pins \in Int  BY <1>1 DEF Shape
  <2> QED  BY <1>3, <2>1 DEF Call
<1>7. OthersTyped  BY <1>1, <1>6 DEF OthersTyped, OpenExplicitKey, Shape
<1>8. Len(arena'.marks) = Len(arena.marks) /\ table'.open = table.open  BY DEF OpenExplicitKey
<1> QED  BY <1>2, <1>3, <1>4, <1>5, <1>7, <1>8, CallIInv

LEMMA OpenQuietIInv ==
    ASSUME IInv, OpenQuiet
    PROVE  IInv'
<1>1. Shape /\ Top \in FrameType /\ walk \in WalkType /\ nodes \in Nat /\ TableOK(table)
  BY IInvShape DEF Shape
<1> DEFINE g == [Top EXCEPT !.alone = AtKey] f == [Frame EXCEPT !.kind = "quiet", !.first = nodes]
<1>2. /\ f \in FrameType /\ ~f.entered /\ ~f.pushed /\ ~InEntry(f) /\ f.kind = "quiet"
      /\ ~f.inKey
  BY <1>1 DEF Frame, FrameType, FrameKind, FrameSlot, InEntry
<1>3. SameRole(Top, g) /\ Waits(g)
  <2>1. AtKey \in BOOLEAN  BY DEF AtKey
  <2>2. g.slot = Top.slot  BY <1>1 DEF FrameType
  <2>3. Waits(Top)  BY DEF OpenQuiet, Written, AtNode, Waits
  <2>4. SameRole(Top, g)  BY <1>1, <2>1, AloneOK
  <2> QED  BY <2>2, <2>3, <2>4 DEF Waits
<1>4. frames' = Append(WithTop(g), f)  BY DEF OpenQuiet
<1>5. walk' = [walk EXCEPT !.quiet = @ + 1]  BY DEF OpenQuiet, Quiet
<1>6. /\ walk' \in WalkType /\ walk'.in = walk.in /\ walk'.skip = walk.skip
      /\ (walk'.keeping <=> walk.keeping) /\ walk'.stopped = walk.stopped
      /\ walk'.quiet = walk.quiet + 1
  BY <1>1, <1>5, SMTT(30) DEF WalkType
<1>7. OthersTyped  BY <1>1 DEF OthersTyped, OpenQuiet, Shape
<1>8. CallsInto(f)  BY <1>2, <1>6 DEF CallsInto
<1>9. ~walk'.stopped => CountsInto(f)
  <2>1. readingKey \in Int /\ pins \in Int  BY <1>1 DEF Shape
  <2>2. readingKey' = readingKey /\ pins' = pins /\ table'.open = table.open  BY DEF OpenQuiet
  <2> HIDE DEF f
  <2> QED  BY <1>2, <1>6, <2>1, <2>2 DEF CountsInto
<1>10. Len(arena'.marks) = Len(arena.marks)  BY DEF OpenQuiet
<1> HIDE DEF f, g
<1> QED  BY <1>2, <1>3, <1>4, <1>6, <1>7, <1>8, <1>9, <1>10, PushIInv


(* keepsNothing, as it is asked of the innermost call. *)
LEMMA KeepsNothingIsFree ==
    ASSUME IInv, Reading
    PROVE  KeepsNothing <=> FreeAt(Len(frames))
<1> PICK n \in Nat : n = Len(frames)  BY IInvShape
<1>1. /\ Shape /\ CountsMatch /\ frames \in Seq(FrameType) /\ walk \in WalkType
      /\ table.open \in Seq(OpenType)
  BY IInvShape DEF Shape, Levels, Reading, TableOK
<1>2. /\ Keys \in SUBSET (1..n) /\ Anchors \in SUBSET (1..n) /\ Entered \in SUBSET (1..n)
      /\ DOMAIN frames = 1..n
  BY <1>1, SortsAreFrames
<1>3. IsFiniteSet(Keys) /\ IsFiniteSet(Anchors)  BY <1>2, PlaceBounds
<1>4. readingKey = 0 <=> Keys = {}  BY <1>1, <1>3, FS_EmptySet DEF CountsMatch
<1>5. table.open = <<>> <=> Anchors = {}
  <2>1. Len(table.open) = Cardinality(Anchors)  BY <1>1 DEF CountsMatch, OpenMatches
  <2>2. table.open = <<>> <=> Len(table.open) = 0  BY <1>1
  <2> QED  BY <2>1, <2>2, <1>3, FS_EmptySet
<1>6. KeptAt(n) <=> walk.keeping  BY <1>2 DEF KeptAt
<1>7. (\A j \in 1..n : ~frames[j].inKey /\ frames[j].kind # "anchor") <=> Keys = {} /\ Anchors = {}
  BY <1>2 DEF Keys, Anchors
<1>8. FreeAt(n) <=> Keys = {} /\ Anchors = {} /\ ~walk.keeping  BY <1>6, <1>7 DEF FreeAt
<1> QED  BY <1>4, <1>5, <1>8 DEF KeepsNothing

(* The entry that is begun or ended, beside the ones around it.            *)
LEMMA EntryFrames ==
    ASSUME IInv, NEW g \in FrameType, Alike(Top, g), frames' = WithTop(g),
           walk'.keeping <=> walk.keeping
    PROVE  /\ Stays /\ Waiting' /\ frames' # <<>>
           /\ frames'[Len(frames)] = g
           /\ \A i \in 1..Len(frames)-1 : frames'[i] = frames[i]
           /\ \A i \in 1..Len(frames) : FreeAt(i)' <=> FreeAt(i)
<1> PICK n \in Nat : n = Len(frames)  BY IInvShape
<1>1. frames \in Seq(FrameType) /\ Waiting /\ n > 0 /\ Top = frames[n]
  BY IInvShape DEF Shape
<1>2. frames' = [frames EXCEPT ![n] = g]  BY DEF WithTop
<1>3. /\ frames' \in Seq(FrameType) /\ Len(frames') = n /\ frames'[n] = g
      /\ \A i \in 1..n-1 : frames'[i] = frames[i]
  BY <1>1, <1>2
<1>4. \A i \in 1..n : Alike(frames[i], frames'[i])
  <2> TAKE i \in 1..n
  <2>1. CASE i = n  BY <2>1, <1>1, <1>3
  <2>2. CASE i \in 1..n-1  BY <2>2, <1>3 DEF Alike
  <2>3. i = n \/ i \in 1..n-1  BY <1>1
  <2> QED  BY <2>1, <2>2, <2>3
<1>5. Stays  BY <1>1, <1>3, <1>4 DEF Stays
<1>6. Waiting'  BY <1>1, <1>3 DEF Waiting
<1>7. Entered' = Entered  BY <1>5, StaySorts
<1>8. ASSUME NEW i \in 1..n PROVE FreeAt(i)' <=> FreeAt(i)
  <2>1. KeptAt(i)' <=> KeptAt(i)  BY <1>7 DEF KeptAt
  <2>2. i \in Nat /\ \A j \in 1..i : Alike(frames[j], frames'[j])  BY <1>4
  <2> QED  BY <2>1, <2>2, FreeStays
<1>9. frames' # <<>>  BY <1>1, <1>3
<1> QED  BY <1>3, <1>5, <1>6, <1>8, <1>9

LEMMA EntryLevels ==
    ASSUME IInv, Stays, Waiting', OthersTyped, SameLevels(walk', walk),
           readingKey' = readingKey /\ pins' = pins /\ table'.open = table.open
    PROVE  Levels'
<1>1. /\ Levels /\ Len(frames) > 0 /\ table.open \in Seq(OpenType) /\ table'.open \in Seq(OpenType)
      /\ (refused => refused')
  BY IInvShape DEF Shape, OthersTyped, TableOK
<1> QED  BY <1>1, StayLevels

LEMMA BeginEntryIInv ==
    ASSUME IInv, BeginEntry
    PROVE  IInv'
<1> PICK n \in Nat : n = Len(frames)  BY IInvShape
<1>1. /\ Shape /\ MarksMatch /\ Top = frames[n] /\ Top \in FrameType /\ walk \in WalkType
      /\ nodes \in Nat /\ n > 0 /\ frames \in Seq(FrameType) /\ DOMAIN frames = 1..n
      /\ Reading /\ ArenaOK(arena)
  BY IInvShape DEF Shape, BeginEntry
<1> DEFINE free == KeepsNothing
           slot == IF Top.kind = "mapping" THEN "key" ELSE "value"
           g == [Top EXCEPT !.slot = slot, !.pushed = free, !.told = 0, !.key.from = nodes]
<1>2. free \in BOOLEAN  BY DEF KeepsNothing
<1>3. /\ g \in FrameType /\ Alike(Top, g) /\ (g.pushed <=> free) /\ InEntry(g)
  <2>1. [Top.key EXCEPT !.from = nodes] \in [from : Nat, to : Nat]  BY <1>1 DEF FrameType
  <2> DEFINE k == [Top.key EXCEPT !.from = nodes]
  <2>2. g = [Top EXCEPT !.slot = slot, !.pushed = free, !.told = 0, !.key = k]  OBVIOUS
  <2>3. slot \in {"key", "value"}  OBVIOUS
  <2> HIDE DEF g, k, free, slot
  <2>4. k \in [from : Nat, to : Nat]  BY <2>1 DEF k
  <2> QED  BY <1>1, <1>2, <2>2, <2>3, <2>4 DEF FrameType, FrameSlot, Alike, InEntry
<1>4. frames' = WithTop(g)  BY DEF BeginEntry
<1>5. ~Top.pushed
  <2>1. ~InEntry(Top)  BY DEF BeginEntry, InEntry
  <2> QED  BY <2>1, <1>1 DEF MarksMatch
<1>6. SameLevels(walk', walk)
  BY <1>1, MarkKeyOK, SameLevelsReflexive DEF BeginEntry
<1>7. free <=> FreeAt(n)  BY <1>1, KeepsNothingIsFree
<1>8. /\ ArenaOK(arena')
      /\ Len(arena'.marks) = Len(arena.marks) + (IF free THEN 1 ELSE 0)
  <2>1. Len(arena.marks) \in Nat  BY <1>1 DEF ArenaOK, ArenaType, ArenaMarks
  <2>2. arena' = IF free THEN Push(arena) ELSE arena  BY DEF BeginEntry
  <2> HIDE DEF free
  <2>3. CASE free  BY <1>1, <2>2, <2>3, PushOK
  <2>4. CASE ~free  BY <1>1, <2>1, <2>2, <2>4
  <2> QED  BY <2>3, <2>4
<1>9. OthersTyped  BY <1>1, <1>8 DEF OthersTyped, BeginEntry, Shape
<1> HIDE DEF free, g
<1>10. /\ Stays /\ Waiting' /\ frames' # <<>> /\ frames'[n] = g
       /\ \A i \in 1..n-1 : frames'[i] = frames[i]
       /\ \A i \in 1..n : FreeAt(i)' <=> FreeAt(i)
  BY <1>3, <1>4, <1>6, EntryFrames DEF SameLevels
<1>11. Levels'  BY <1>6, <1>9, <1>10, EntryLevels DEF BeginEntry
<1>12. \A i \in DOMAIN frames' : frames'[i].pushed <=> InEntry(frames'[i]) /\ FreeAt(i)'
  <2>1. DOMAIN frames' = 1..n  BY <1>10 DEF Stays
  <2> TAKE i \in DOMAIN frames'
  <2>2. CASE i = n  BY <2>1, <2>2, <1>3, <1>7, <1>10
  <2>3. CASE i \in 1..n-1  BY <2>1, <2>3, <1>1, <1>10 DEF MarksMatch
  <2>4. i = n \/ i \in 1..n-1  BY <2>1, <1>1
  <2> QED  BY <2>2, <2>3, <2>4
<1>13. Len(arena'.marks) = Cardinality(Marked')
  <2>1. n \notin Marked /\ Marked \in SUBSET (1..n)  BY <1>1, <1>5, SortsAreFrames DEF Marked
  <2>2. IsFiniteSet(Marked) /\ Cardinality(Marked) \in Nat  BY <2>1, PlaceBounds
  <2>3. DOMAIN frames' = 1..n  BY <1>10 DEF Stays
  <2>4. Marked' = IF free THEN Marked \cup {n} ELSE Marked
    BY <1>1, <1>3, <1>5, <1>10, <2>3 DEF Marked
  <2>5. Cardinality(Marked') = Cardinality(Marked) + (IF free THEN 1 ELSE 0)
    <3>1. CASE free  BY <2>1, <2>2, <2>4, <3>1, FS_AddElement
    <3>2. CASE ~free
      <4>1. Cardinality(Marked') = Cardinality(Marked)  BY <2>4, <3>2
      <4> QED  BY <4>1, <2>2, <3>2
    <3> QED  BY <3>1, <3>2
  <2>6. Len(arena.marks) = Cardinality(Marked)  BY <1>1 DEF MarksMatch
  <2> QED  BY <2>5, <2>6, <1>8
<1>14. Shape'  BY <1>6, <1>9, <1>10 DEF Shape, OthersTyped, SameLevels, Stays
<1> QED  BY <1>11, <1>12, <1>13, <1>14 DEF IInv, MarksMatch

LEMMA EndEntryIInv ==
    ASSUME IInv, EndEntry
    PROVE  IInv'
<1> PICK n \in Nat : n = Len(frames)  BY IInvShape
<1>1. /\ Shape /\ MarksMatch /\ Top = frames[n] /\ Top \in FrameType /\ walk \in WalkType
      /\ nodes \in Nat /\ n > 0 /\ frames \in Seq(FrameType) /\ DOMAIN frames = 1..n
      /\ Reading /\ ArenaOK(arena)
  BY IInvShape DEF Shape, EndEntry
<1> DEFINE g == [Top EXCEPT !.slot = "between", !.pushed = FALSE, !.key = Frame.key,
                            !.alone = FALSE, !.told = 0]
           builds == Top.kind = "mapping"
           built == IF builds THEN TakeCell(arena, "entry", nodes + 1) ELSE arena
           free == KeepsNothing
<1>3. g \in FrameType /\ Alike(Top, g) /\ ~g.pushed /\ ~InEntry(g)
  <2>1. Frame.key \in [from : Nat, to : Nat]  BY DEF Frame
  <2> QED  BY <1>1, <2>1 DEF FrameType, FrameSlot, Alike, InEntry
<1>4. frames' = WithTop(g)  BY DEF EndEntry
<1>5. SameLevels(walk', walk)  BY <1>1, SameLevelsReflexive DEF EndEntry
<1>6. free <=> FreeAt(n)  BY <1>1, KeepsNothingIsFree
<1>7. Top.pushed <=> free
  <2>1. InEntry(Top)  BY DEF EndEntry, InEntry
  <2> QED  BY <2>1, <1>1, <1>6 DEF MarksMatch
<1>8. Len(arena.marks) = Cardinality(Marked)  BY <1>1 DEF MarksMatch
<1>9. IsFiniteSet(Marked) /\ Cardinality(Marked) \in Nat  BY <1>1, SortsAreFrames, PlaceBounds
<1>10. ArenaOK(built) /\ built.marks = arena.marks
  <2>1. "entry" \in Types /\ nodes + 1 \in Nat  BY <1>1, DescentAssumption
  <2> QED  BY <1>1, <2>1, TakeCellOK
<1>11. nodes' \in Nat /\ arena' = IF free THEN Pop(built) ELSE built  BY <1>1 DEF EndEntry
<1> HIDE DEF built, g
<1>12. /\ ArenaOK(arena')
       /\ Len(arena'.marks) = Len(arena.marks) - (IF free THEN 1 ELSE 0)
  <2>1. CASE free
    <3>1. n \in Marked  BY <1>1, <1>7, <2>1 DEF Marked
    <3>2. Cardinality(Marked) > 0  BY <1>9, <3>1, FS_EmptySet
    <3> QED  BY <1>8, <1>10, <1>11, <2>1, <3>2, PopOK
  <2>2. CASE ~free
    <3>1. Len(arena.marks) \in Nat  BY <1>8, <1>9
    <3> QED  BY <1>10, <1>11, <2>2, <3>1
  <2> QED  BY <2>1, <2>2
<1>13. OthersTyped  BY <1>1, <1>11, <1>12 DEF OthersTyped, EndEntry, Shape
<1> HIDE DEF free
<1>14. /\ Stays /\ Waiting' /\ frames' # <<>> /\ frames'[n] = g
       /\ \A i \in 1..n-1 : frames'[i] = frames[i]
       /\ \A i \in 1..n : FreeAt(i)' <=> FreeAt(i)
  BY <1>3, <1>4, <1>5, EntryFrames DEF SameLevels
<1>15. Levels'  BY <1>5, <1>13, <1>14, EntryLevels DEF EndEntry
<1>16. DOMAIN frames' = 1..n  BY <1>14 DEF Stays
<1>17. \A i \in DOMAIN frames' : frames'[i].pushed <=> InEntry(frames'[i]) /\ FreeAt(i)'
  <2> TAKE i \in DOMAIN frames'
  <2>2. CASE i = n  BY <1>16, <2>2, <1>3, <1>14
  <2>3. CASE i \in 1..n-1  BY <1>16, <2>3, <1>1, <1>14 DEF MarksMatch
  <2>4. i = n \/ i \in 1..n-1  BY <1>16, <1>1
  <2> QED  BY <2>2, <2>3, <2>4
<1>18. Len(arena'.marks) = Cardinality(Marked')
  <2>1. Marked' = Marked \ {n}  BY <1>1, <1>3, <1>14, <1>16 DEF Marked
  <2>2. n \in Marked <=> free  BY <1>1, <1>7 DEF Marked
  <2>3. CASE free
    <3>1. Cardinality(Marked') = Cardinality(Marked) - 1
      BY <1>9, <2>1, <2>2, <2>3, FS_RemoveElement
    <3> QED  BY <3>1, <2>3, <1>8, <1>12
  <2>4. CASE ~free
    <3>1. Marked' = Marked  BY <2>1, <2>2, <2>4
    <3>2. Len(arena'.marks) = Cardinality(Marked)  BY <2>4, <1>8, <1>9, <1>12
    <3> QED  BY <3>1, <3>2
  <2> QED  BY <2>3, <2>4
<1>19. Shape'  BY <1>5, <1>13, <1>14 DEF Shape, OthersTyped, SameLevels, Stays
<1> QED  BY <1>15, <1>17, <1>18, <1>19 DEF IInv, MarksMatch


LEMMA ClosingIsNoEntry ==
    ASSUME IInv, Closing
    PROVE  ~Top.pushed /\ Len(frames) > 1
<1>1. ~InEntry(Top)  BY DEF Closing, InEntry
<1>2. MarksMatch /\ Top = frames[Len(frames)] /\ Len(frames) \in DOMAIN frames
  BY IInvShape DEF Shape
<1> QED  BY <1>1, <1>2 DEF MarksMatch, Closing

LEMMA OnLeaveAnswers ==
    ASSUME NEW w, NEW answer \in OnLeave(w)
    PROVE  /\ answer \in LeaveAnswers
           /\ answer = "stop" => w.skip = 0 \/ (w.skip = 1 /\ w.keeping)
BY DEF OnLeave, LeaveAnswers

(* A node's end, whatever node it is. *)
LEMMA CloseIInv ==
    ASSUME IInv, Closing, Top.kind # "quiet", NEW answer \in OnLeave(walk), LeaveTop(answer),
           OthersTyped, Len(arena'.marks) = Len(arena.marks),
           pins' = pins - (IF Top.kind = "anchor" THEN 1 ELSE 0) - (IF Kept THEN 1 ELSE 0),
           table'.open = IF Top.kind = "anchor" THEN Front(table.open) ELSE table.open
    PROVE  IInv'
<1> PICK n \in Nat : n = Len(frames)  BY IInvShape
<1>1. ~Top.pushed /\ n > 1  BY ClosingIsNoEntry
<1>2. /\ Shape /\ frames \in Seq(FrameType) /\ Waiting /\ Under = frames[n-1]
      /\ Under \in FrameType /\ Top \in FrameType /\ walk \in WalkType /\ nodes \in Nat
      /\ ~walk.stopped
  BY <1>1, IInvShape DEF Shape, Closing, Reading
<1>3. Waits(Under)  BY <1>1, <1>2 DEF Waiting
<1>4. answer \in LeaveAnswers  BY OnLeaveAnswers
<1> DEFINE left == Leave(walk, answer)
           decl == IF Under.kind = "tag" /\ Top.kind = "anchor" THEN Top.decl ELSE Under.decl
           under == [Under EXCEPT !.decl = decl]
           again == Under.slot = "key" /\ HandsKey(left)
<1>5. SameRole(Under, under) /\ Waits(under)
  <2>1. decl \in Nat /\ (Under.kind = "anchor" => decl = Under.decl)  BY <1>2 DEF FrameType
  <2> HIDE DEF decl
  <2> QED  BY <1>2, <1>3, <2>1 DEF SameRole, Alike, InEntry, FrameType, Waits
<1>6. PICK g : SameRole(Under, g) /\ frames' = Returned(g)
  <2> DEFINE g == Read(Told(under, again /\ Calls(left)), nodes)
  <2>1. frames' = Returned(g)  BY DEF LeaveTop
  <2>2. under \in FrameType  BY <1>5 DEF SameRole
  <2> HIDE DEF under
  <2>3. SameRole(under, g)  BY <1>2, <1>5, <2>2, ReadToldOK
  <2>4. SameRole(Under, g)  BY <1>5, <2>3, SameRoleTransitive
  <2> QED  BY <2>1, <2>4
<1>7. PopsInRole /\ Pops /\ Waiting' /\ frames' # <<>>
  BY <1>1, <1>2, <1>6, ReturnFrames
<1>8. SameLevels(walk', left)
  <2>1. left \in WalkType  BY <1>2, <1>4, LeaveOK DEF Leaves
  <2>2. PICK next \in IF again THEN OnHand(left) ELSE {"nil"} :
            walk' = IF Under.slot = "key" THEN HandKey(left, next) ELSE left
    BY DEF LeaveTop
  <2>3. next \in LeaveAnswers  BY <2>2 DEF OnHand, LeaveAnswers
  <2> HIDE DEF left
  <2> QED  BY <2>1, <2>2, <2>3, HandKeyOK, SameLevelsReflexive
<1>9. /\ ReturnsFrom(Top) /\ walk'.quiet = walk.quiet
      /\ (walk.stopped => walk'.stopped)
  BY <1>2, <1>4, <1>8, LeaveReturns
<1>10. CountsFrom(Top)
  <2>1. readingKey' = readingKey - (IF Top.inKey THEN 1 ELSE 0)  BY DEF LeaveTop
  <2>2. Kept <=> walk.keeping /\ walk.skip = 1 /\ Top.entered  BY DEF Kept
  <2>3. walk.quiet \in Int  BY <1>2 DEF WalkType
  <2> QED  BY <1>2, <1>9, <2>1, <2>2, <2>3 DEF CountsFrom
<1> QED  BY <1>1, <1>7, <1>9, <1>10, PopIInv

LEMMA LeaveTopTyped ==
    ASSUME IInv, NEW answer, LeaveTop(answer), pins' = pins - 1 \/ pins' = pins
               \/ pins' = pins - 1 - 1
    PROVE  readingKey' \in Int /\ pins' \in Int
<1>1. readingKey \in Int /\ pins \in Int  BY IInvShape DEF Shape
<1> QED  BY <1>1 DEF LeaveTop

LEMMA CloseCollectionIInv ==
    ASSUME IInv, CloseCollection
    PROVE  IInv'
<1>1. Shape /\ TableOK(table) /\ pins \in Int  BY IInvShape DEF Shape
<1>2. PICK answer \in OnLeave(walk) : LeaveTop(answer)  BY DEF CloseCollection
<1>3. Closing /\ Top.kind # "quiet" /\ Top.kind # "anchor"
  BY DEF CloseCollection, IsCollection
<1>4. pins' = pins - (IF Kept THEN 1 ELSE 0)  BY DEF CloseCollection
<1>5. pins' = pins - (IF Top.kind = "anchor" THEN 1 ELSE 0) - (IF Kept THEN 1 ELSE 0)
  BY <1>1, <1>3, <1>4
<1>6. readingKey' \in Int /\ pins' \in Int  BY <1>1, <1>2, <1>4, LeaveTopTyped
<1>7. OthersTyped  BY <1>1, <1>6 DEF OthersTyped, CloseCollection, Shape
<1> QED  BY <1>2, <1>3, <1>5, <1>7, CloseIInv DEF CloseCollection

LEMMA CloseExplicitKeyIInv ==
    ASSUME IInv, CloseExplicitKey
    PROVE  IInv'
<1>1. Shape /\ TableOK(table) /\ pins \in Int  BY IInvShape DEF Shape
<1>2. PICK answer \in OnLeave(walk) : LeaveTop(answer)  BY DEF CloseExplicitKey
<1>3. Closing /\ Top.kind # "quiet" /\ Top.kind # "anchor"  BY DEF CloseExplicitKey
<1>4. pins' = pins - (IF Kept THEN 1 ELSE 0)  BY DEF CloseExplicitKey
<1>5. pins' = pins - (IF Top.kind = "anchor" THEN 1 ELSE 0) - (IF Kept THEN 1 ELSE 0)
  BY <1>1, <1>3, <1>4
<1>6. readingKey' \in Int /\ pins' \in Int  BY <1>1, <1>2, <1>4, LeaveTopTyped
<1>7. OthersTyped  BY <1>1, <1>6 DEF OthersTyped, CloseExplicitKey, Shape
<1> QED  BY <1>2, <1>3, <1>5, <1>7, CloseIInv DEF CloseExplicitKey

LEMMA DeclsTyped ==
    ASSUME NEW ds \in Seq(DeclType), NEW i, NEW n \in Nat
    PROVE  /\ [ds EXCEPT ![i].to = n] \in Seq(DeclType)
           /\ [ds EXCEPT ![i].tagged = TRUE] \in Seq(DeclType)
<1>1. PICK m \in Nat : m = Len(ds)  OBVIOUS
<1>2. ds \in [1..m -> DeclType]  BY <1>1
<1>3. \A d \in DeclType : [d EXCEPT !.to = n] \in DeclType /\ [d EXCEPT !.tagged = TRUE] \in DeclType
  BY DEF DeclType
<1>4. [ds EXCEPT ![i].to = n] \in [1..m -> DeclType]
  <2> DEFINE e == [ds[i] EXCEPT !.to = n]
  <2>1. i \in 1..m => e \in DeclType  BY <1>2, <1>3
  <2>2. [ds EXCEPT ![i].to = n] = [ds EXCEPT ![i] = e]  OBVIOUS
  <2> HIDE DEF e
  <2> QED  BY <1>2, <2>1, <2>2
<1>5. [ds EXCEPT ![i].tagged = TRUE] \in [1..m -> DeclType]
  <2> DEFINE e == [ds[i] EXCEPT !.tagged = TRUE]
  <2>1. i \in 1..m => e \in DeclType  BY <1>2, <1>3
  <2>2. [ds EXCEPT ![i].tagged = TRUE] = [ds EXCEPT ![i] = e]  OBVIOUS
  <2> HIDE DEF e
  <2> QED  BY <1>2, <2>1, <2>2
<1>6. \A f \in [1..m -> DeclType] : f \in Seq(DeclType)  OBVIOUS
<1> QED  BY <1>4, <1>5, <1>6

LEMMA CloseAnchorIInv ==
    ASSUME IInv, CloseAnchor
    PROVE  IInv'
<1>1. /\ Shape /\ TableOK(table) /\ pins \in Int /\ nodes \in Nat /\ decls \in Seq(DeclType)
      /\ ArenaOK(arena) /\ Top.decl \in Nat
  BY IInvShape DEF Shape, FrameType
<1>2. PICK answer \in OnLeave(walk) : LeaveTop(answer)  BY DEF CloseAnchor
<1>3. Closing /\ Top.kind # "quiet" /\ Top.kind = "anchor"  BY DEF CloseAnchor
<1>4. pins' = pins - 1 - (IF Kept THEN 1 ELSE 0)  BY DEF CloseAnchor
<1>5. pins' = pins - (IF Top.kind = "anchor" THEN 1 ELSE 0) - (IF Kept THEN 1 ELSE 0)
  BY <1>1, <1>3, <1>4
<1>6. readingKey' \in Int /\ pins' \in Int  BY <1>1, <1>2, <1>4, LeaveTopTyped
<1>7. TableOK(table') /\ table'.open = Front(table.open)
  <2>1. table' = Keep(table, decls[Top.decl].name, Top.decl)  BY DEF CloseAnchor
  <2>2. DropName(table).open = Front(table.open) /\ TableOK(DropName(table))
    <3>1. Front(table.open) \in Seq(OpenType)  BY <1>1, FrontOK DEF TableOK
    <3>2. table.open = <<>> => Front(table.open) = table.open
      <4>1. SubSeq(<<>>, 1, -1) = <<>>  OBVIOUS
      <4> QED  BY <4>1 DEF Front
    <3> QED  BY <1>1, <3>1, <3>2 DEF DropName, TableOK
  <2> QED  BY <2>1, <2>2 DEF Keep, TableOK
<1>8. decls' \in Seq(DeclType)  BY <1>1, DeclsTyped DEF CloseAnchor
<1>9. ArenaOK(arena') /\ Len(arena'.marks) = Len(arena.marks)
  BY <1>1, CommitOK DEF CloseAnchor
<1>10. OthersTyped  BY <1>1, <1>6, <1>7, <1>8, <1>9 DEF OthersTyped, CloseAnchor, Shape
<1>11. table'.open = IF Top.kind = "anchor" THEN Front(table.open) ELSE table.open
  BY <1>3, <1>7
<1> QED  BY <1>2, <1>3, <1>5, <1>9, <1>10, <1>11, CloseIInv

LEMMA CloseTagIInv ==
    ASSUME IInv, CloseTag
    PROVE  IInv'
<1>1. /\ Shape /\ TableOK(table) /\ pins \in Int /\ decls \in Seq(DeclType)
  BY IInvShape DEF Shape
<1>2. PICK answer \in OnLeave(walk) : LeaveTop(answer)  BY DEF CloseTag
<1>3. Closing /\ Top.kind # "quiet" /\ Top.kind # "anchor"  BY DEF CloseTag
<1>4. pins' = pins - (IF Kept THEN 1 ELSE 0)  BY DEF CloseTag
<1>5. pins' = pins - (IF Top.kind = "anchor" THEN 1 ELSE 0) - (IF Kept THEN 1 ELSE 0)
  BY <1>1, <1>3, <1>4
<1>6. readingKey' \in Int /\ pins' \in Int  BY <1>1, <1>2, <1>4, LeaveTopTyped
<1>7. TableOK(table') /\ table'.open = table.open /\ decls' \in Seq(DeclType)
  <2>1. CASE Top.decl = 0  BY <1>1, <2>1 DEF CloseTag
  <2>2. CASE Top.decl # 0
    <3>1. /\ table' = Retag(table, decls[Top.decl].name, Top.decl)
          /\ decls' = [decls EXCEPT ![Top.decl].tagged = TRUE]
      BY <2>2 DEF CloseTag
    <3>2. TableOK(table') /\ table'.open = table.open  BY <1>1, <3>1 DEF Retag, TableOK
    <3>3. 0 \in Nat  OBVIOUS
    <3> QED  BY <1>1, <3>1, <3>2, <3>3, DeclsTyped
  <2> QED  BY <2>1, <2>2
<1>8. OthersTyped  BY <1>1, <1>6, <1>7 DEF OthersTyped, CloseTag, Shape
<1> QED  BY <1>2, <1>3, <1>5, <1>7, <1>8, CloseIInv DEF CloseTag


LEMMA CloseQuietIInv ==
    ASSUME IInv, CloseQuiet
    PROVE  IInv'
<1> PICK n \in Nat : n = Len(frames)  BY IInvShape
<1>1. Closing /\ Top.kind = "quiet" /\ ~Top.pushed /\ n > 1  BY ClosingIsNoEntry DEF CloseQuiet
<1>2. /\ Shape /\ frames \in Seq(FrameType) /\ Waiting /\ FramesOK /\ Under = frames[n-1]
      /\ Under \in FrameType /\ Top = frames[n] /\ walk \in WalkType /\ nodes \in Nat
      /\ readingKey \in Int /\ pins \in Int /\ ~walk.stopped
  BY <1>1, IInvShape DEF Shape, Closing, Reading
<1>3. Waits(Under)  BY <1>1, <1>2 DEF Waiting
<1>4. ~Top.entered /\ ~Top.inKey
  <2>1. n \in Quiets  BY <1>1, <1>2 DEF Quiets
  <2> QED  BY <2>1, <1>2 DEF FramesOK
<1> DEFINE w == Loud(walk)
<1>5. /\ w \in WalkType /\ w.in = walk.in /\ w.skip = walk.skip /\ w.keeping = walk.keeping
      /\ w.quiet = walk.quiet - 1 /\ w.stopped = walk.stopped
  BY <1>2, SMTT(30) DEF Loud, WalkType
<1>6. SameLevels(walk', w)
  <2>1. \E answer \in AnswersLeaf(w, Under) : walk' = HandLeaf(w, Under, answer)
    BY DEF CloseQuiet
  <2> HIDE DEF w
  <2> QED  BY <1>5, <2>1, HandLeafOK
<1>7. PICK g : SameRole(Under, g) /\ frames' = Returned(g)
  <2>1. frames' = Returned(Read(Told(Under, Calls(w) /\ HandsKey(w)), nodes))  BY DEF CloseQuiet
  <2> QED  BY <1>2, <1>3, <2>1, ReadToldOK
<1>8. PopsInRole /\ Pops /\ Waiting' /\ frames' # <<>>
  BY <1>1, <1>2, <1>7, ReturnFrames
<1>9. OthersTyped  BY <1>2 DEF OthersTyped, CloseQuiet, Shape
<1> HIDE DEF w
<1>10. ReturnsFrom(Top)  BY <1>1, <1>5, <1>6 DEF ReturnsFrom, SameLevels
<1>11. CountsFrom(Top)
  <2>1. readingKey' = readingKey /\ pins' = pins /\ table'.open = table.open  BY DEF CloseQuiet
  <2>2. walk'.quiet = walk.quiet - 1  BY <1>5, <1>6 DEF SameLevels
  <2> QED  BY <1>1, <1>2, <1>4, <2>1, <2>2 DEF CountsFrom
<1>12. Len(arena'.marks) = Len(arena.marks)  BY DEF CloseQuiet
<1> QED  BY <1>1, <1>2, <1>8, <1>9, <1>10, <1>11, <1>12, PopIInv

LEMMA DropNameOK ==
    ASSUME NEW t, TableOK(t)
    PROVE  TableOK(DropName(t)) /\ DropName(t).open = Front(t.open)
<1>1. Front(t.open) \in Seq(OpenType)  BY FrontOK DEF TableOK
<1>2. t.open = <<>> => Front(t.open) = t.open
  <2>1. SubSeq(<<>>, 1, -1) = <<>>  OBVIOUS
  <2> QED  BY <2>1 DEF Front
<1> QED  BY <1>1, <1>2 DEF DropName, TableOK

LEMMA UnwindIInv ==
    ASSUME IInv, Unwind
    PROVE  IInv'
<1> PICK n \in Nat : n = Len(frames)  BY IInvShape
<1>1. /\ Shape /\ frames \in Seq(FrameType) /\ Waiting /\ FramesOK /\ n > 1
      /\ Top = frames[n] /\ walk \in WalkType /\ TableOK(table)
      /\ readingKey \in Int /\ pins \in Int /\ Len(frames) > 1 /\ frames' = Front(frames)
  BY IInvShape DEF Shape, Unwind
<1>2. PopsInRole /\ Pops /\ Waiting' /\ frames' # <<>>  BY <1>1, FrontFrames
<1>3. PICK answer \in (IF Top.kind = "quiet" THEN {"nil"} ELSE OnLeave(walk)) :
          /\ ~Reading \/ (Closing /\ answer = "stop")
          /\ LET returns == ~walk.stopped /\ answer # "stop"
                 left == IF Top.kind = "quiet" THEN walk ELSE Leave(walk, answer)
             IN  /\ walk' = IF Top.kind = "quiet" /\ returns THEN Loud(left) ELSE left
                 /\ table' = IF Top.kind = "anchor" /\ returns THEN DropName(table) ELSE table
                 /\ readingKey' = readingKey - (IF Top.inKey /\ returns THEN 1 ELSE 0)
                 /\ pins' = pins - (IF Top.kind = "anchor" THEN 1 ELSE 0)
                                 - (IF Kept /\ answer # "stop" THEN 1 ELSE 0)
  BY DEF Unwind
<1> DEFINE returns == ~walk.stopped /\ answer # "stop"
<1>4. answer \in LeaveAnswers  BY <1>3, OnLeaveAnswers DEF LeaveAnswers
<1>5. CASE Top.kind = "quiet"
  <2>1. /\ answer = "nil" /\ ~Reading
        /\ walk' = IF ~walk.stopped THEN Loud(walk) ELSE walk
        /\ table' = table
        /\ readingKey' = readingKey - (IF Top.inKey /\ ~walk.stopped THEN 1 ELSE 0)
        /\ pins' = pins - (IF Kept THEN 1 ELSE 0)
    BY <1>1, <1>3, <1>5
  <2>2. ~Top.entered /\ ~Top.inKey
    <3>1. n \in Quiets  BY <1>1, <1>5 DEF Quiets
    <3> QED  BY <3>1, <1>1 DEF FramesOK
  <2>3. /\ walk' \in WalkType /\ walk'.in = walk.in /\ walk'.skip = walk.skip
        /\ walk'.keeping = walk.keeping /\ walk'.stopped = walk.stopped
        /\ walk'.quiet = walk.quiet - (IF ~walk.stopped THEN 1 ELSE 0)
    <3>0. walk \in WalkType /\ walk.quiet \in Int  BY <1>1 DEF WalkType
    <3>1. CASE walk.stopped
      <4>1. walk' = walk  BY <2>1, <3>1
      <4>2. walk.quiet = walk.quiet - (IF ~walk.stopped THEN 1 ELSE 0)  BY <3>0, <3>1
      <4> QED  BY <3>0, <4>1, <4>2
    <3>2. CASE ~walk.stopped
      <4>1. walk' = [walk EXCEPT !.quiet = @ - 1]  BY <2>1, <3>2 DEF Loud
      <4>2. /\ walk' \in WalkType /\ walk'.in = walk.in /\ walk'.skip = walk.skip
            /\ walk'.keeping = walk.keeping /\ walk'.stopped = walk.stopped
            /\ walk'.quiet = walk.quiet - 1
        BY <3>0, <4>1 DEF WalkType
      <4> QED  BY <3>2, <4>2
    <3> QED  BY <3>1, <3>2
  <2>4. ReturnsFrom(Top)  BY <1>5, <2>3 DEF ReturnsFrom
  <2>5. readingKey' = readingKey /\ pins' = pins  BY <1>1, <2>1, <2>2 DEF Kept
  <2>6. ~walk'.stopped => CountsFrom(Top)
    BY <1>1, <1>5, <2>1, <2>2, <2>3, <2>5 DEF CountsFrom
  <2>7. OthersTyped  BY <1>1, <2>1, <2>5 DEF OthersTyped, Unwind, Shape
  <2>8. ~Reading'
    <3>1. refused' = refused  BY DEF Unwind
    <3> QED  BY <2>1, <2>3, <3>1 DEF Reading
  <2> QED  BY <1>1, <1>2, <2>3, <2>4, <2>6, <2>7, <2>8, PopIInv
<1>6. CASE Top.kind # "quiet"
  <2>1. /\ answer \in OnLeave(walk) /\ walk' = Leave(walk, answer)
        /\ table' = IF Top.kind = "anchor" /\ returns THEN DropName(table) ELSE table
        /\ readingKey' = readingKey - (IF Top.inKey /\ returns THEN 1 ELSE 0)
        /\ pins' = pins - (IF Top.kind = "anchor" THEN 1 ELSE 0)
                        - (IF Kept /\ answer # "stop" THEN 1 ELSE 0)
    BY <1>3, <1>6
  <2>2. walk' \in WalkType /\ Leaves(walk', walk, answer)  BY <1>1, <1>4, <2>1, LeaveOK DEF Leaves
  <2>3. SameLevels(walk', Leave(walk, answer))  BY <2>1, <2>2, SameLevelsReflexive
  <2>4. ReturnsFrom(Top) /\ walk'.quiet = walk.quiet /\ (walk.stopped => walk'.stopped)
    BY <1>1, <1>4, <1>6, <2>3, LeaveReturns
  <2>5. answer = "stop" => walk'.stopped  BY <2>1, <2>2, OnLeaveAnswers DEF Leaves
  <2>6. TableOK(table') /\ table'.open = IF Top.kind = "anchor" /\ returns
                                         THEN Front(table.open) ELSE table.open
    BY <1>1, <2>1, DropNameOK
  <2>7. ~walk'.stopped => CountsFrom(Top)
    <3> SUFFICES ASSUME ~walk'.stopped PROVE CountsFrom(Top)  OBVIOUS
    <3>1. returns /\ answer # "stop" /\ ~walk.stopped  BY <2>4, <2>5
    <3>2. Kept <=> walk.keeping /\ walk.skip = 1 /\ Top.entered  BY DEF Kept
    <3>3. walk.quiet \in Int  BY <1>1 DEF WalkType
    <3> HIDE DEF returns
    <3> QED  BY <1>6, <2>1, <2>4, <2>6, <3>1, <3>2, <3>3 DEF CountsFrom
  <2>8. readingKey' \in Int /\ pins' \in Int
    <3> HIDE DEF returns
    <3> QED  BY <1>1, <2>1
  <2>9. OthersTyped  BY <1>1, <2>6, <2>8 DEF OthersTyped, Unwind, Shape
  <2>10. ~Reading'
    <3>1. refused' = refused  BY DEF Unwind
    <3>2. ~Reading \/ answer = "stop"  BY <1>3
    <3> QED  BY <2>4, <2>5, <3>1, <3>2 DEF Reading
  <2> QED  BY <1>1, <1>2, <2>4, <2>7, <2>9, <2>10, PopIInv
<1> QED  BY <1>5, <1>6


LEMMA EndDocumentIInv ==
    ASSUME IInv, EndDocument
    PROVE  IInv'
<1>1. /\ Shape /\ FramesOK /\ Levels /\ Top = frames[1] /\ Top \in FrameType /\ walk \in WalkType
      /\ frames \in Seq(FrameType) /\ Len(frames) = 1 /\ Top.slot = "done" /\ TableOK(table)
  BY IInvShape DEF Shape, EndDocument
<1> DEFINE g == [Top EXCEPT !.slot = "closed"]
<1>2. SameRole(Top, g)
  BY <1>1 DEF SameRole, Alike, InEntry, FrameType, FrameSlot
<1>3. frames' = WithTop(g) /\ walk' = walk  BY DEF EndDocument
<1>4. TableOK(table') /\ table'.open = <<>>  BY <1>1 DEF EndDocument, Take, TableOK
<1>5. OthersTyped  BY <1>1, <1>4 DEF OthersTyped, EndDocument, Shape
<1>6. ~walk.stopped => table.open = <<>>
  <2>1. Anchors = {}  BY <1>1 DEF Anchors, FramesOK
  <2>2. Cardinality(Anchors) = 0  BY <2>1, FS_EmptySet
  <2>3. ~walk.stopped => Len(table.open) = 0  BY <1>1, <2>2 DEF Levels, CountsMatch, OpenMatches
  <2>4. table.open \in Seq(OpenType)  BY <1>1 DEF TableOK
  <2> QED  BY <2>3, <2>4
<1>7. SameLevels(walk', walk)  BY <1>1, <1>3, SameLevelsReflexive
<1>8. /\ readingKey' = readingKey /\ pins' = pins
      /\ Len(arena'.marks) = Len(arena.marks)
  BY DEF EndDocument
<1> HIDE DEF g
<1> QED  BY <1>2, <1>3, <1>4, <1>5, <1>6, <1>7, <1>8, StayIInv

(* A document is closed by the outermost call, with no other open. *)
Closes == Top.slot = "closed" => Len(frames) = 1

LEMMA NextDocumentIInv ==
    ASSUME IInv, Closes, NextDocument
    PROVE  IInv'
<1>0. Len(frames) = 1 /\ Top.slot = "closed"  BY DEF NextDocument, Closes
<1>1. /\ Shape /\ FramesOK /\ Top = frames[1] /\ Top \in FrameType /\ walk \in WalkType
      /\ frames \in Seq(FrameType) /\ Len(frames) = 1 /\ Top.slot = "closed"
      /\ nodes \in Nat /\ MarksMatch
  BY <1>0, IInvShape DEF Shape
<1> DEFINE doc == Top.doc + 1 g == [Frame EXCEPT !.doc = doc, !.first = nodes]
<1>2. SameRole(Top, g)
  <2>1. ~Top.entered /\ ~Top.inKey /\ Top.kind = "document"  BY <1>1 DEF FramesOK
  <2>2. ~InEntry(Top)  BY <1>1 DEF InEntry
  <2>3. ~Top.pushed
    <3>1. 1 \in DOMAIN frames  BY <1>1
    <3> QED  BY <1>1, <2>2, <3>1 DEF MarksMatch
  <2>4. doc \in Nat  BY <1>1 DEF FrameType
  <2> HIDE DEF doc
  <2>5. /\ g \in FrameType /\ g.kind = "document" /\ ~g.entered /\ ~g.inKey /\ ~g.pushed
        /\ g.slot = "node"
    BY <1>1, <2>4 DEF Frame, FrameType, FrameKind, FrameSlot
  <2> HIDE DEF g
  <2> QED  BY <1>1, <2>1, <2>2, <2>3, <2>5 DEF SameRole, Alike, InEntry
<1>3. walk' = walk /\ frames' = <<g>>  BY DEF NextDocument
<1> HIDE DEF g
<1>4. frames' = WithTop(g)  BY <1>1, <1>3 DEF WithTop
<1>5. decls' = <<>>  BY DEF NextDocument
<1>6. OthersTyped  BY <1>1, <1>5 DEF OthersTyped, NextDocument, Shape
<1>7. SameLevels(walk', walk)  BY <1>1, <1>3, SameLevelsReflexive
<1>8. /\ readingKey' = readingKey /\ pins' = pins /\ table'.open = table.open
      /\ Len(arena'.marks) = Len(arena.marks)
  BY DEF NextDocument
<1> QED  BY <1>2, <1>4, <1>6, <1>7, <1>8, StayIInv

(* A walk that has read nothing. *)
Fresh ==
    /\ frames = <<Frame>> /\ walk = NewWalk /\ ArenaOK(arena) /\ arena.marks = <<>>
    /\ table = NewTable /\ readingKey = 0 /\ pins = 0 /\ refused = FALSE
    /\ nodes = 0 /\ decls = <<>>

LEMMA FreshIInv == Fresh => IInv /\ Closes
<1> SUFFICES ASSUME Fresh PROVE IInv /\ Closes  OBVIOUS
<1>1. /\ Frame \in FrameType /\ Frame.kind = "document" /\ Frame.slot = "node"
      /\ ~Frame.entered /\ ~Frame.inKey /\ ~Frame.pushed
  BY DEF Frame, FrameType, FrameKind, FrameSlot
<1>2. frames = <<Frame>> /\ Len(frames) = 1 /\ DOMAIN frames = {1} /\ frames[1] = Frame
  BY DEF Fresh
<1>3. /\ frames \in Seq(FrameType) /\ frames # <<>>  BY <1>1, <1>2
<1>4. /\ walk \in WalkType /\ walk.in = <<>> /\ walk.skip = 0 /\ ~walk.keeping
      /\ walk.quiet = 0 /\ ~walk.stopped
  BY DEF Fresh, NewWalk, WalkType
<1>5. TableOK(table) /\ table.open = <<>>  BY DEF Fresh, NewTable, TableOK
<1>6. Shape
  <2>1. decls \in Seq(DeclType)
    <3>1. decls = <<>>  BY DEF Fresh
    <3> QED  BY <3>1
  <2>2. readingKey = 0 /\ pins = 0 /\ nodes = 0 /\ refused = FALSE /\ ArenaOK(arena)
    BY DEF Fresh
  <2>3. readingKey \in Int /\ pins \in Int /\ nodes \in Nat  BY <2>2
  <2>4. refused \in BOOLEAN  BY <2>2
  <2> QED  BY <1>3, <1>4, <1>5, <2>1, <2>2, <2>3, <2>4 DEF Shape
<1>7. /\ Entered = {} /\ Declined = {} /\ Keys = {} /\ Quiets = {} /\ Marked = {} /\ Anchors = {}
  BY <1>1, <1>2 DEF Entered, Declined, Keys, Quiets, Marked, Anchors
<1>8. Cardinality({}) = 0  BY FS_EmptySet
<1>9. FramesOK  BY <1>1, <1>2, <1>7 DEF FramesOK, Waiting
<1>10. InMatches  BY <1>4, <1>7, <1>8 DEF InMatches
<1>11. SkipMatches  BY <1>4, <1>7, <1>8 DEF SkipMatches
<1>12. CountsMatch
  <2>1. OpenMatches  BY <1>5, <1>7, <1>8 DEF OpenMatches
  <2>2. PinsMatch  BY <1>4, <1>7, <1>8 DEF PinsMatch, Fresh
  <2> QED  BY <1>4, <1>7, <1>8, <2>1, <2>2 DEF CountsMatch, Fresh
<1>13. MarksMatch
  <2>1. ~InEntry(Frame)  BY <1>1 DEF InEntry
  <2>2. Len(arena.marks) = 0  BY DEF Fresh
  <2> QED  BY <1>1, <1>2, <1>7, <1>8, <2>1, <2>2 DEF MarksMatch
<1>14. Closes  BY <1>2 DEF Closes
<1> QED  BY <1>6, <1>9, <1>10, <1>11, <1>12, <1>13, <1>14 DEF IInv, Levels

LEMMA InitFresh == Init => Fresh
BY NewArenaOK DEF Init, Fresh

LEMMA NextWalkFresh ==
    ASSUME IInv, NextWalk
    PROVE  Fresh'
<1>1. ArenaOK(arena)  BY IInvShape DEF Shape
<1>2. ArenaOK(arena') /\ arena'.marks = <<>>  BY <1>1, ResetOK DEF NextWalk
<1> QED  BY <1>2 DEF NextWalk, Fresh



-----------------------------------------------------------------------------
(* No call is made from a document that is closed. *)

LEMMA StayCloses ==
    ASSUME frames \in Seq(FrameType), frames # <<>>, NEW g, frames' = WithTop(g),
           g.slot = "closed" => Len(frames) = 1
    PROVE  Closes'
<1> DEFINE V == FrameType \cup {g}
<1>1. PICK n \in Nat : n = Len(frames)  OBVIOUS
<1>2. frames \in Seq(V) /\ g \in V /\ n > 0  BY <1>1
<1>3. frames' = [frames EXCEPT ![n] = g]  BY <1>1 DEF WithTop
<1> HIDE DEF V
<1>4. Len(frames') = n /\ frames'[n] = g  BY <1>1, <1>2, <1>3
<1> QED  BY <1>1, <1>4 DEF Closes, Top, Last

LEMMA PushCloses ==
    ASSUME frames \in Seq(FrameType), NEW g, NEW f, frames' = Append(WithTop(g), f),
           f.slot # "closed"
    PROVE  Closes'
<1> DEFINE V == FrameType \cup {g} \cup {f} fs == WithTop(g)
<1>1. PICK n \in Nat : n = Len(frames)  OBVIOUS
<1>2. frames \in Seq(V) /\ g \in V /\ f \in V  OBVIOUS
<1>3. fs = [frames EXCEPT ![n] = g]  BY <1>1 DEF WithTop
<1>5. frames' = Append(fs, f)  OBVIOUS
<1> HIDE DEF V, fs
<1>4. fs \in Seq(V) /\ Len(fs) = n
  <2>1. frames \in [1..n -> V]  BY <1>1, <1>2
  <2>2. fs \in [1..n -> V]  BY <2>1, <1>2, <1>3
  <2>3. \A s \in [1..n -> V] : s \in Seq(V) /\ Len(s) = n  OBVIOUS
  <2> QED  BY <2>2, <2>3
<1>6. Len(frames') = n+1 /\ frames'[n+1] = f  BY <1>2, <1>4, <1>5
<1> QED  BY <1>6 DEF Closes, Top, Last

LEMMA ReturnCloses ==
    ASSUME frames \in Seq(FrameType), Len(frames) > 1, NEW g, frames' = Returned(g),
           g.slot # "closed"
    PROVE  Closes'
<1> DEFINE V == FrameType \cup {g} fs == SubSeq(frames, 1, Len(frames)-2)
<1>1. PICK n \in Nat : Len(frames) = n + 2  OBVIOUS
<1>2. frames \in Seq(V) /\ g \in V  OBVIOUS
<1> HIDE DEF V
<1>3. fs = SubSeq(frames, 1, n)  BY <1>1
<1> HIDE DEF fs
<1>4. fs \in Seq(V) /\ Len(fs) = n  BY <1>1, <1>2, <1>3
<1>5. frames' = Append(fs, g)  BY DEF Returned, fs
<1>6. Len(frames') = n+1 /\ frames'[n+1] = g  BY <1>2, <1>4, <1>5
<1> QED  BY <1>6 DEF Closes, Top, Last

LEMMA ReadSlot ==
    ASSUME NEW f \in FrameType, NEW n, NEW called
    PROVE  Read(Told(f, called), n).slot # "closed"
<1> DEFINE g == Told(f, called)
<1>1. g \in FrameType  BY ToldOK DEF SameRole
<1> HIDE DEF g
<1>2. Read(g, n).slot \in {"value", "end", "done"}  BY <1>1 DEF Read, FrameType
<1> QED  BY <1>2 DEF g

LEMMA CallCloses ==
    ASSUME IInv, Waits(Top), NEW frame, "slot" \in DOMAIN frame, frame.slot # "closed",
           NEW kind, NEW announced, NEW pinned, Call(frame, kind, announced, pinned)
    PROVE  Closes'
<1>1. frames \in Seq(FrameType) /\ frames # <<>> /\ Top \in FrameType  BY IInvShape DEF Shape
<1> DEFINE told == Told(Top, Calls(walk))
           caller == [told EXCEPT !.alone = AtKey /\ IsCollection(frame) /\ ~frame.inKey]
<1>2. PICK answer \in OnEnter(walk) :
          frames' = IF answer = "stop" THEN WithTop(caller)
                    ELSE Append(WithTop(caller),
                                [frame EXCEPT !.first = nodes,
                                              !.entered = Calls(walk) /\ answer \in {"nil", "keep"}])
  BY DEF Call
<1>3. caller.slot # "closed"
  <2>1. told \in FrameType /\ told.slot = Top.slot
    <3>1. told \in FrameType  BY <1>1, ToldOK DEF SameRole
    <3> QED  BY <1>1, <3>1 DEF Told, FrameType
  <2> HIDE DEF told
  <2>2. caller.slot = told.slot  BY <2>1 DEF FrameType
  <2> QED  BY <2>1, <2>2 DEF Waits
<1> DEFINE takes == Calls(walk) /\ answer \in {"nil", "keep"}
           f == [frame EXCEPT !.first = nodes, !.entered = takes]
<1>4. f.slot # "closed"
  <2> HIDE DEF takes
  <2> QED  OBVIOUS
<1> HIDE DEF caller
<1>5. CASE answer = "stop"  BY <1>1, <1>2, <1>3, <1>5, StayCloses
<1>6. CASE answer # "stop"
  <2>1. frames' = Append(WithTop(caller), f)  BY <1>2, <1>6
  <2> HIDE DEF f
  <2> QED  BY <1>1, <1>4, <2>1, PushCloses
<1> QED  BY <1>5, <1>6

LEMMA LeaveCloses ==
    ASSUME IInv, Closing, NEW answer, LeaveTop(answer)
    PROVE  Closes'
<1>1. /\ frames \in Seq(FrameType) /\ Len(frames) > 1 /\ Top \in FrameType /\ Under \in FrameType
  BY IInvShape DEF Shape, Closing
<1> DEFINE left == Leave(walk, answer)
           decl == IF Under.kind = "tag" /\ Top.kind = "anchor" THEN Top.decl ELSE Under.decl
           under == [Under EXCEPT !.decl = decl]
           called == Under.slot = "key" /\ HandsKey(left) /\ Calls(left)
           g == Read(Told(under, called), nodes)
<1>2. under \in FrameType
  <2>1. decl \in Nat  BY <1>1 DEF FrameType
  <2> HIDE DEF decl
  <2> QED  BY <1>1, <2>1 DEF FrameType
<1>3. frames' = Returned(g)  BY DEF LeaveTop
<1> HIDE DEF under, called
<1>4. g.slot # "closed"  BY <1>2, ReadSlot
<1> HIDE DEF g
<1> QED  BY <1>1, <1>3, <1>4, ReturnCloses


LEMMA OpenCloses ==
    ASSUME IInv,
           \/ \E kind \in {"mapping", "sequence"} : OpenCollection(kind)
           \/ \E name \in Name : OpenAnchor(name)
           \/ OpenTag \/ OpenExplicitKey \/ OpenQuiet
    PROVE  Closes'
<1>0. frames \in Seq(FrameType) /\ frames # <<>>  BY IInvShape DEF Shape
<1>1. Frame.slot = "node" /\ DOMAIN Frame = {"kind", "slot", "id", "first", "entered", "inKey",
                                              "pushed", "decl", "key", "alone", "told", "doc"}
  BY DEF Frame
<1>2. ASSUME NEW kind \in {"mapping", "sequence"}, OpenCollection(kind) PROVE Closes'
  <2>1. Waits(Top)  BY <1>2 DEF OpenCollection, Written, AtNode, Waits
  <2>2. PICK alone \in BOOLEAN :
            Call([Frame EXCEPT !.kind = kind, !.slot = "between", !.id = nodes + 1,
                               !.inKey = CountsKey /\ ~alone], kind, FALSE, 0)
    BY <1>2 DEF OpenCollection
  <2> DEFINE inKey == CountsKey /\ ~alone id == nodes + 1
             f == [Frame EXCEPT !.kind = kind, !.slot = "between", !.id = id, !.inKey = inKey]
  <2>3. Call(f, kind, FALSE, 0)  BY <2>2
  <2> HIDE DEF inKey, id
  <2>4. "slot" \in DOMAIN f /\ f.slot # "closed"  BY <1>1
  <2> HIDE DEF f
  <2> QED  BY <2>1, <2>3, <2>4, CallCloses
<1>3. ASSUME NEW name \in Name, OpenAnchor(name) PROVE Closes'
  <2>1. Waits(Top)  BY <1>3 DEF OpenAnchor, TakesAnchor, Written, AtNode, Waits
  <2> DEFINE d == Len(decls) + 1
             f == [Frame EXCEPT !.kind = "anchor", !.decl = d, !.inKey = CountsKey]
  <2>2. Call(f, "anchor", FALSE, 1)  BY <1>3 DEF OpenAnchor
  <2> HIDE DEF d
  <2>3. "slot" \in DOMAIN f /\ f.slot # "closed"  BY <1>1
  <2> HIDE DEF f
  <2> QED  BY <2>1, <2>2, <2>3, CallCloses
<1>4. ASSUME OpenTag PROVE Closes'
  <2>1. Waits(Top)  BY <1>4 DEF OpenTag, Written, AtNode, Waits
  <2> DEFINE f == [Frame EXCEPT !.kind = "tag", !.inKey = CountsKey]
  <2>2. Call(f, "tag", FALSE, 0)  BY <1>4 DEF OpenTag
  <2>3. "slot" \in DOMAIN f /\ f.slot # "closed"  BY <1>1
  <2> HIDE DEF f
  <2> QED  BY <2>1, <2>2, <2>3, CallCloses
<1>5. ASSUME OpenExplicitKey PROVE Closes'
  <2>1. Waits(Top)  BY <1>5 DEF OpenExplicitKey, AtKey, Waits
  <2> DEFINE f == [Frame EXCEPT !.kind = "explicit"]
  <2>2. Call(f, "key", TRUE, 0)  BY <1>5 DEF OpenExplicitKey
  <2>3. "slot" \in DOMAIN f /\ f.slot # "closed"  BY <1>1
  <2> HIDE DEF f
  <2> QED  BY <2>1, <2>2, <2>3, CallCloses
<1>6. ASSUME OpenQuiet PROVE Closes'
  <2> DEFINE g == [Top EXCEPT !.alone = AtKey]
             f == [Frame EXCEPT !.kind = "quiet", !.first = nodes]
  <2>1. frames' = Append(WithTop(g), f)  BY <1>6 DEF OpenQuiet
  <2>2. f.slot # "closed"  BY <1>1
  <2> HIDE DEF f, g
  <2> QED  BY <1>0, <2>1, <2>2, PushCloses
<1> QED  BY <1>2, <1>3, <1>4, <1>5, <1>6

LEMMA NextCloses ==
    ASSUME IInv, Closes, [Next]_vars
    PROVE  Closes'
<1>1. /\ frames \in Seq(FrameType) /\ frames # <<>> /\ Top \in FrameType /\ Waiting
      /\ Top = frames[Len(frames)]
  BY IInvShape DEF Shape
<1>2. ASSUME frames' = frames PROVE Closes'  BY <1>2 DEF Closes, Top, Last
<1>3. ASSUME Scalar PROVE Closes'
  <2>1. frames' = WithTop(Read(Told(Top, Calls(walk) /\ HandsKey(walk)), nodes + 1))
    BY <1>3 DEF Scalar
  <2> QED  BY <1>1, <2>1, ReadSlot, StayCloses
<1>4. ASSUME NEW name \in Name, Alias(name) PROVE Closes'
  <2>1. frames' = WithTop(Read(Told(Top, Calls(walk) /\ HandsKey(walk)), nodes))
    BY <1>4 DEF Alias
  <2> QED  BY <1>1, <2>1, ReadSlot, StayCloses
<1>5. ASSUME BeginEntry PROVE Closes'
  <2> DEFINE slot == IF Top.kind = "mapping" THEN "key" ELSE "value"
             g == [Top EXCEPT !.slot = slot, !.pushed = KeepsNothing, !.told = 0,
                              !.key.from = nodes]
  <2>1. frames' = WithTop(g)  BY <1>5 DEF BeginEntry
  <2>2. slot \in {"key", "value"}  OBVIOUS
  <2>3. g.slot # "closed"
    <3> HIDE DEF slot
    <3> QED  BY <1>1, <2>2 DEF FrameType
  <2> HIDE DEF g
  <2> QED  BY <1>1, <2>1, <2>3, StayCloses
<1>6. ASSUME EndEntry PROVE Closes'
  <2> DEFINE g == [Top EXCEPT !.slot = "between", !.pushed = FALSE, !.key = Frame.key,
                              !.alone = FALSE, !.told = 0]
  <2>1. frames' = WithTop(g)  BY <1>6 DEF EndEntry
  <2>2. g.slot # "closed"  BY <1>1 DEF FrameType
  <2> HIDE DEF g
  <2> QED  BY <1>1, <2>1, <2>2, StayCloses
<1>7. ASSUME CloseCollection \/ CloseAnchor \/ CloseTag \/ CloseExplicitKey PROVE Closes'
  <2>1. Closing /\ \E answer \in OnLeave(walk) \ {"stop"} : LeaveTop(answer)
    BY <1>7 DEF CloseCollection, CloseAnchor, CloseTag, CloseExplicitKey
  <2> QED  BY <2>1, LeaveCloses
<1>8. ASSUME CloseQuiet PROVE Closes'
  <2>1. Len(frames) > 1 /\ Under \in FrameType  BY <1>8, IInvShape DEF CloseQuiet, Closing
  <2> DEFINE called == Calls(Loud(walk)) /\ HandsKey(Loud(walk))
  <2>2. frames' = Returned(Read(Told(Under, called), nodes))  BY <1>8 DEF CloseQuiet
  <2> HIDE DEF called
  <2> QED  BY <1>1, <2>1, <2>2, ReadSlot, ReturnCloses
<1>9. ASSUME Unwind PROVE Closes'
  <2>1. PICK n \in Nat : Len(frames) = n + 1 /\ n > 0
    <3>1. Len(frames) > 1  BY <1>9 DEF Unwind
    <3>2. Len(frames) = (Len(frames) - 1) + 1 /\ Len(frames) - 1 \in Nat /\ Len(frames) - 1 > 0
      BY <1>1, <3>1
    <3> QED  BY <3>2
  <2>2. frames' = SubSeq(frames, 1, n)
    <3>1. frames' = Front(frames)  BY <1>9 DEF Unwind
    <3>2. Len(frames) - 1 = n  BY <2>1
    <3> QED  BY <3>1, <3>2 DEF Front
  <2>3. Len(frames') = n /\ frames'[n] = frames[n]
    <3>1. n \in 1..Len(frames)  BY <2>1
    <3> QED  BY <1>1, <2>1, <2>2, <3>1
  <2>4. Waits(frames[n])  BY <1>1, <2>1 DEF Waiting
  <2> QED  BY <2>3, <2>4 DEF Closes, Top, Last, Waits
<1>10. ASSUME EndDocument PROVE Closes'
  <2>1. frames' = WithTop([Top EXCEPT !.slot = "closed"]) /\ Len(frames) = 1
    BY <1>10 DEF EndDocument
  <2> QED  BY <1>1, <2>1, StayCloses
<1>11. ASSUME NextDocument PROVE Closes'
  <2>1. PICK g : frames' = <<g>>  BY <1>11 DEF NextDocument
  <2> QED  BY <2>1 DEF Closes
<1>12. ASSUME NextWalk PROVE Closes'  BY <1>12 DEF NextWalk, Closes
<1>13. CASE UNCHANGED vars  BY <1>2, <1>13 DEF vars
<1>14. CASE Refuse \/ RefuseAnchorName  BY <1>2, <1>14 DEF Refuse, RefuseAnchorName
<1> QED  BY <1>3, <1>4, <1>5, <1>6, <1>7, <1>8, <1>9, <1>10, <1>11, <1>12, <1>13, <1>14, OpenCloses
         DEF Next


-----------------------------------------------------------------------------
(* Every step. *)

LEMMA UnchangedIInv ==
    ASSUME IInv, UNCHANGED vars
    PROVE  IInv'
<1>1. Shape /\ Top = frames[Len(frames)] /\ Top \in FrameType /\ walk \in WalkType
  BY IInvShape DEF Shape
<1>2. frames' = WithTop(Top)  BY <1>1 DEF vars, WithTop, Shape
<1>3. OthersTyped  BY <1>1 DEF OthersTyped, vars, Shape
<1>4. SameRole(Top, Top) /\ SameLevels(walk', walk)
  BY <1>1, SameRoleReflexive, SameLevelsReflexive DEF vars
<1> QED  BY <1>2, <1>3, <1>4, StayIInv DEF vars

LEMMA InitIInv == Init => IInv /\ Closes
BY InitFresh, FreshIInv

LEMMA NextIInv == IInv /\ Closes /\ [Next]_vars => (IInv /\ Closes)'
<1> SUFFICES ASSUME IInv, Closes, [Next]_vars PROVE IInv' /\ Closes'  OBVIOUS
<1>1. Closes'  BY NextCloses
<1>2. CASE UNCHANGED vars  BY <1>1, <1>2, UnchangedIInv
<1>3. ASSUME Next PROVE IInv' \/ Fresh'
  <2>1. CASE Scalar  BY <2>1, ScalarIInv
  <2>2. CASE \E name \in Name : Alias(name)  BY <2>2, AliasIInv
  <2>3. CASE \E kind \in {"mapping", "sequence"} : OpenCollection(kind)
    BY <2>3, OpenCollectionIInv
  <2>4. CASE \E name \in Name : OpenAnchor(name)  BY <2>4, OpenAnchorIInv
  <2>5. CASE OpenTag  BY <2>5, OpenTagIInv
  <2>6. CASE OpenExplicitKey  BY <2>6, OpenExplicitKeyIInv
  <2>7. CASE OpenQuiet  BY <2>7, OpenQuietIInv
  <2>8. CASE BeginEntry  BY <2>8, BeginEntryIInv
  <2>9. CASE EndEntry  BY <2>9, EndEntryIInv
  <2>10. CASE CloseCollection  BY <2>10, CloseCollectionIInv
  <2>11. CASE CloseAnchor  BY <2>11, CloseAnchorIInv
  <2>12. CASE CloseTag  BY <2>12, CloseTagIInv
  <2>13. CASE CloseExplicitKey  BY <2>13, CloseExplicitKeyIInv
  <2>14. CASE CloseQuiet  BY <2>14, CloseQuietIInv
  <2>15. CASE Refuse  BY <2>15, RefuseIInv
  <2>16. CASE Unwind  BY <2>16, UnwindIInv
  <2>17. CASE EndDocument  BY <2>17, EndDocumentIInv
  <2>18. CASE NextDocument  BY <2>18, NextDocumentIInv
  <2>20. CASE RefuseAnchorName  BY <2>20, RefuseAnchorNameIInv
  <2>19. CASE NextWalk  BY <2>19, NextWalkFresh
  <2> QED  BY <1>3, <2>1, <2>2, <2>3, <2>4, <2>5, <2>6, <2>7, <2>8, <2>9, <2>10, <2>11, <2>12,
              <2>13, <2>14, <2>15, <2>16, <2>17, <2>18, <2>19, <2>20 DEF Next
<1>4. Fresh' => IInv'  BY FreshIInv, PTL
<1> QED  BY <1>1, <1>2, <1>3, <1>4

-----------------------------------------------------------------------------
(* What the invariant says of the levels, the marks and the pins. *)

LEMMA GreatestExists ==
    ASSUME NEW n \in Nat, NEW S \in SUBSET (1..n), S # {}
    PROVE  \E m \in S : \A x \in S : m >= x
<1> DEFINE R == OpToRel(<, Nat) D == {n - x : x \in S}
<1>1. IsWellFoundedOn(R, Nat)  BY NatLessThanWellFounded, Zenon
<1>2. \A x, y \in Nat : <<y, x>> \in R <=> y < x  BY DEF OpToRel
<1> HIDE DEF R
<1>3. D \subseteq Nat /\ D # {}
  <2>1. \A x \in S : x \in 1..n  OBVIOUS
  <2>2. \A x \in S : n - x \in Nat  BY <2>1
  <2> QED  BY <2>2
<1>4. PICK d \in D : \A e \in D : ~(<<e, d>> \in R)
  <2> HIDE DEF D
  <2> QED  BY <1>1, <1>3, WFMin
<1>5. PICK m \in S : d = n - m  BY <1>4
<1>6. ASSUME NEW x \in S PROVE m >= x
  <2>1. n - x \in D /\ n - x \in Nat /\ n - m \in Nat  OBVIOUS
  <2>2. ~(n - x < n - m)  BY <2>1, <1>2, <1>4, <1>5
  <2>3. m \in Int /\ x \in Int  OBVIOUS
  <2> QED  BY <2>2, <2>3
<1> QED  BY <1>6

LEMMA LevelsFollow == IInv => LevelsMatch
<1> SUFFICES ASSUME IInv PROVE LevelsMatch  OBVIOUS
<1> PICK n \in Nat : n = Len(frames)  BY IInvShape
<1>1. /\ frames \in Seq(FrameType) /\ FramesOK /\ Levels /\ n > 0 /\ DOMAIN frames = 1..n
  BY IInvShape DEF Shape
<1>2. Entered \in SUBSET (1..n)  BY <1>1, SortsAreFrames
<1> DEFINE S == Entered \cup {1} handed == Max(S)
           below == {i \in DOMAIN frames : i > handed /\ frames[i].kind # "quiet"}
<1>3. handed \in S /\ \A x \in S : handed >= x
  <2>1. S \in SUBSET (1..n) /\ S # {}  BY <1>1, <1>2
  <2> HIDE DEF S
  <2>2. \E m \in S : \A x \in S : m >= x  BY <2>1, GreatestExists
  <2> QED  BY <2>2 DEF Max
<1> HIDE DEF handed
<1>4. below = Declined
  <2>1. handed \in 1..n /\ 1 \in S  BY <1>1, <1>2, <1>3
  <2>2. ASSUME NEW i \in below PROVE i \in Declined
    <3>1. i \in 1..n /\ i > handed /\ frames[i].kind # "quiet"  BY <1>1
    <3>2. handed >= 1  BY <2>1
    <3>3. i \notin S  BY <1>3, <2>1, <3>1
    <3> QED  BY <1>1, <2>1, <3>1, <3>2, <3>3 DEF Declined, Entered
  <2>3. ASSUME NEW i \in Declined PROVE i \in below
    <3>1. i \in 1..n /\ i > 1 /\ frames[i].kind # "quiet"  BY <1>1 DEF Declined
    <3>2. CASE handed = 1  BY <1>1, <3>1, <3>2
    <3>3. CASE handed # 1
      <4>1. handed \in Entered  BY <1>3, <3>3
      <4>2. handed < i  BY <1>1, <4>1 DEF FramesOK
      <4> QED  BY <1>1, <2>1, <3>1, <4>2
    <3> QED  BY <3>2, <3>3
  <2> QED  BY <2>2, <2>3
<1>5. walk.skip = Cardinality(below) + (IF walk.keeping THEN 1 ELSE 0)
  BY <1>1, <1>4 DEF Levels, SkipMatches
<1>6. ~walk.stopped =>
          /\ readingKey = Cardinality({i \in DOMAIN frames : frames[i].inKey})
          /\ walk.quiet = Cardinality({i \in DOMAIN frames : frames[i].kind = "quiet"})
          /\ Len(table.open) = Cardinality(Anchors)
          /\ \A i \in Anchors : table.open[Place(i, Anchors)].decl = frames[i].decl
  BY <1>1 DEF Levels, CountsMatch, OpenMatches, Keys, Quiets
<1> HIDE DEF below
<1>7. /\ Len(walk.in) = Cardinality(Entered)
      /\ \A i \in Entered : walk.in[Place(i, Entered)] = HandedAs(frames[i])
  BY <1>1 DEF Levels, InMatches
<1> QED  BY <1>5, <1>6, <1>7 DEF LevelsMatch, below, handed

LEMMA MarksFollow == IInv => MarksAndPinsMatch
BY DEF IInv, MarksMatch, Marked, Levels, CountsMatch, PinsMatch, MarksAndPinsMatch

-----------------------------------------------------------------------------
(* The theorems of the levels and the marks. *)

(* The invariant, of every state of the descent: the types, that nothing   *)
(* is handed over inside a node that was not, the walk's counts and stacks *)
(* for the calls being made, and that keepsNothing answers at the end of   *)
(* an entry as it did at its beginning.                                    *)
THEOREM Invariant == Spec => [](IInv /\ Closes)
BY InitIInv, NextIInv, PTL DEF Spec

(* enterAs, leave, quiet, enterKey, openAnchor: each Leave answers for the *)
(* node Enter answered for, whatever the visitor declined, kept, failed on *)
(* or stopped at and wherever the document is refused, and the counts of   *)
(* quiet nodes, of keys and of open anchors are of the calls being made.   *)
THEOREM LevelsFollowTheCalls == Spec => []LevelsMatch
BY Invariant, LevelsFollow, PTL

(* markNodes, rewindNodes, keep: an entry pops the mark it pushed, since   *)
(* keepsNothing answers both the same, and each pin on the tape is given   *)
(* back but the one of an anchor whose name is refused.                    *)
THEOREM MarksAndPinsFollow == Spec => []MarksAndPinsMatch
BY Invariant, MarksFollow, PTL

-----------------------------------------------------------------------------
(* The inductive invariant of the cells, beside that of the levels. *)

(* Nodes are numbered as they are built, so a call's own node and the key  *)
(* of its entry are older than what the calls inside it were made on.      *)
Numbered(f, n) ==
    /\ f.first <= n /\ f.id <= n /\ f.key.to <= n
    /\ InEntry(f) => /\ IsCollection(f)
                     /\ f.id <= f.key.from /\ f.first <= f.key.from /\ f.key.from <= n
Before(f, g) == f.id <= g.first /\ f.key.to <= g.first

(* What a call needs the cells of. *)
KeyHeld(f, L) == (f.slot \in {"value", "end"} /\ ~f.alone) => Built(f.key.from, f.key.to) \subseteq L
Whole(i) ==
    frames[i].kind \in {"anchor", "explicit"} \/ frames[i].inKey \/ (frames[i].entered /\ KeptAt(i))
Held(i) ==
    /\ frames[i].id # 0 => frames[i].id \in Live
    /\ KeyHeld(frames[i], Live)
    /\ Whole(i) => Built(frames[i].first, nodes) \subseteq Live

Declares(f) == f.kind = "anchor" => f.decl \in DOMAIN decls /\ decls[f.decl].from = f.first

(* A call that reads a key is made on the key's first node, and the key is *)
(* counted by it or by the call a "?" makes.                               *)
ReadsKey(f, g) ==
    /\ f.slot = "key" => g.first = f.key.from /\ (f.alone \/ g.inKey \/ g.kind = "explicit")
    /\ f.kind = "explicit" => g.inKey \/ g.kind = "quiet"

FramesCells ==
    /\ \A i \in DOMAIN frames : Numbered(frames[i], nodes) /\ Held(i) /\ Declares(frames[i])
    /\ \A j \in DOMAIN frames : \A i \in 1..j-1 : Before(frames[i], frames[j])
    /\ \A i \in 1..Len(frames)-1 : ReadsKey(frames[i], frames[i+1])
    /\ \A i \in 1..Len(frames)-2 : frames[i].kind = "explicit" => frames[i+1].inKey
    /\ Reading /\ Top.slot = "key" => Top.key.from = nodes

Named(d) == Built(decls[d].from, decls[d].to)
DeclsHeld == \A d \in DOMAIN decls : Named(d) \subseteq Live

(* The nodes a rewind to the mark leaves in their cells: those older than  *)
(* the entry the mark was pushed for, and all an anchor names.             *)
Below(a, m) == {x \in LiveNodes(a) : \E t \in Types : \E p \in 1..m[t] : a.cells[t][p] = x}
MarkOf(i) == arena.marks[Place(i, Marked)]
Spares(i) ==
    /\ \A x \in Live : x <= frames[i].key.from => x \in Below(arena, MarkOf(i))
    /\ \A d \in DOMAIN decls : Named(d) \subseteq Below(arena, MarkOf(i))
MarksHold == Reading => \A i \in Marked : Spares(i)

CInv == FramesCells /\ DeclsHeld /\ MarksHold

-----------------------------------------------------------------------------
(* What the operations of the arena do to the nodes in its cells. *)

LEMMA LiveIs ==
    ASSUME NEW a, ArenaOK(a), NEW x
    PROVE  x \in LiveNodes(a) <=> \E t \in Types : \E p \in 1..Len(a.cells[t]) : a.cells[t][p] = x
<1>1. \A t \in Types : a.cells[t] \in Seq(Nat)  BY DEF ArenaOK, ArenaType
<1>2. \A t \in Types : DOMAIN a.cells[t] = 1..Len(a.cells[t])  BY <1>1
<1>3. \A t \in Types : x \in ToSet(a.cells[t]) <=> \E p \in 1..Len(a.cells[t]) : a.cells[t][p] = x
  BY <1>2 DEF ToSet
<1> QED  BY <1>3 DEF LiveNodes

LEMMA BelowIs ==
    ASSUME NEW a, ArenaOK(a), NEW m, \A t \in Types : m[t] \in Nat /\ m[t] <= Len(a.cells[t]), NEW x
    PROVE  x \in Below(a, m) <=> \E t \in Types : \E p \in 1..m[t] : a.cells[t][p] = x
<1>1. \A t \in Types : Len(a.cells[t]) \in Nat  BY DEF ArenaOK, ArenaType
<1>2. ASSUME NEW t \in Types, NEW p \in 1..m[t], a.cells[t][p] = x PROVE x \in LiveNodes(a)
  <2>1. p \in 1..Len(a.cells[t])  BY <1>1
  <2> QED  BY <1>2, <2>1, LiveIs
<1> QED  BY <1>2 DEF Below

LEMMA MarkIsBelow ==
    ASSUME NEW a, ArenaOK(a), NEW k \in DOMAIN a.marks
    PROVE  \A t \in Types : a.marks[k][t] \in Nat /\ a.marks[k][t] <= Len(a.cells[t])
<1>1. a.marks[k] \in [Types -> Nat]  BY DEF ArenaOK, ArenaType, ArenaMarks
<1> QED  BY <1>1 DEF ArenaOK, MarksRise

(* Whatever was in use stays so, for the marks too. *)
Grew(a, b) ==
    /\ DOMAIN b.marks = DOMAIN a.marks
    /\ \A k \in DOMAIN a.marks : Below(a, a.marks[k]) \subseteq Below(b, b.marks[k])

LEMMA TakeCellNodes ==
    ASSUME NEW a, ArenaOK(a), NEW type \in Types, NEW id \in Nat
    PROVE  LET b == TakeCell(a, type, id)
           IN  LiveNodes(b) = LiveNodes(a) \cup {id} /\ Grew(a, b)
<1> DEFINE b == TakeCell(a, type, id) C == [a.cells EXCEPT ![type] = Append(@, id)]
<1>0. a \in ArenaType /\ a.cells \in [Types -> Seq(Nat)]  BY DEF ArenaOK, ArenaType
<1>1. b = [a EXCEPT !.cells = C]  BY DEF TakeCell
<1>2. C \in [Types -> Seq(Nat)]  BY <1>0
<1>3. ArenaOK(b) /\ b.marks = a.marks  BY TakeCellOK
<1>4. b.cells = C
  <2> HIDE DEF C
  <2> QED  BY <1>0, <1>1, <1>2, WithCells
<1>5. ASSUME NEW t \in Types
      PROVE  /\ t # type => C[t] = a.cells[t]
             /\ t = type => Len(C[t]) = Len(a.cells[t]) + 1 /\ C[t][Len(C[t])] = id
             /\ \A p \in 1..Len(a.cells[t]) : p \in 1..Len(C[t]) /\ C[t][p] = a.cells[t][p]
             /\ \A p \in 1..Len(C[t]) :
                   p \in 1..Len(a.cells[t]) \/ (t = type /\ p = Len(C[t]))
  <2>1. CASE t # type
    <3>1. C[t] = a.cells[t]  BY <1>0, <2>1
    <3> HIDE DEF C
    <3> QED  BY <2>1, <3>1
  <2>2. CASE t = type
    <3>1. C[t] = Append(a.cells[t], id) /\ a.cells[t] \in Seq(Nat)  BY <1>0, <2>2
    <3> HIDE DEF C
    <3> QED  BY <2>2, <3>1
  <2> QED  BY <2>1, <2>2
<1> HIDE DEF b, C
<1>6. ASSUME NEW x PROVE x \in LiveNodes(b) <=> x \in LiveNodes(a) \cup {id}
  <2>1. ASSUME x \in LiveNodes(a) PROVE x \in LiveNodes(b)
    <3>1. PICK t \in Types : \E p \in 1..Len(a.cells[t]) : a.cells[t][p] = x  BY <2>1, LiveIs
    <3> QED  BY <1>3, <1>4, <1>5, <3>1, LiveIs
  <2>2. ASSUME x = id PROVE x \in LiveNodes(b)
    <3>1. Len(a.cells[type]) + 1 \in 1..Len(C[type]) /\ C[type][Len(C[type])] = id
          /\ Len(C[type]) = Len(a.cells[type]) + 1
      <4>1. Len(a.cells[type]) \in Nat  BY <1>0
      <4> QED  BY <1>5, <4>1
    <3> QED  BY <1>3, <1>4, <2>2, <3>1, LiveIs
  <2>3. ASSUME x \in LiveNodes(b) PROVE x \in LiveNodes(a) \/ x = id
    <3>1. PICK t \in Types : \E p \in 1..Len(C[t]) : C[t][p] = x  BY <1>3, <1>4, <2>3, LiveIs
    <3>2. PICK p \in 1..Len(C[t]) : C[t][p] = x  BY <3>1
    <3>3. CASE p \in 1..Len(a.cells[t])  BY <1>5, <3>2, <3>3, LiveIs
    <3>4. CASE t = type /\ p = Len(C[t])  BY <1>5, <3>2, <3>4
    <3> QED  BY <1>5, <3>3, <3>4
  <2> QED  BY <2>1, <2>2, <2>3
<1>7. ASSUME NEW k \in DOMAIN a.marks, NEW x \in Below(a, a.marks[k])
      PROVE  x \in Below(b, b.marks[k])
  <2>1. PICK t \in Types : \E p \in 1..a.marks[k][t] : a.cells[t][p] = x  BY <1>7 DEF Below
  <2>2. PICK p \in 1..a.marks[k][t] : a.cells[t][p] = x  BY <2>1
  <2>3. p \in 1..Len(a.cells[t])
    <3>1. a.marks[k][t] \in Nat /\ a.marks[k][t] <= Len(a.cells[t])  BY MarkIsBelow
    <3>2. Len(a.cells[t]) \in Nat  BY <1>0
    <3> QED  BY <3>1, <3>2
  <2>4. b.cells[t][p] = x  BY <1>4, <1>5, <2>2, <2>3
  <2>5. x \in LiveNodes(b)  BY <1>6, <1>7 DEF Below
  <2> QED  BY <1>3, <2>2, <2>4, <2>5 DEF Below
<1>8. LiveNodes(b) = LiveNodes(a) \cup {id}  BY <1>6
<1>9. Grew(a, b)  BY <1>3, <1>7 DEF Grew
<1> QED  BY <1>8, <1>9 DEF b

LEMMA PushNodes ==
    ASSUME NEW a, ArenaOK(a)
    PROVE  LET b == Push(a) n == Len(a.marks)
           IN  /\ LiveNodes(b) = LiveNodes(a)
               /\ \A k \in 1..n : Below(b, b.marks[k]) = Below(a, a.marks[k])
               /\ Below(b, b.marks[n+1]) = LiveNodes(a)
<1> DEFINE b == Push(a) n == Len(a.marks) M == Append(a.marks, Standing(a))
<1>0. a \in ArenaType /\ n \in Nat /\ a.marks \in ArenaMarks  BY DEF ArenaOK, ArenaType, ArenaMarks
<1>1. M \in ArenaMarks /\ M[n+1] = Standing(a) /\ \A k \in 1..n : M[k] = a.marks[k]
  BY <1>0, StandingOK DEF ArenaMarks
<1>2. b = [a EXCEPT !.marks = M]  BY DEF Push
<1> HIDE DEF M
<1>3. b.cells = a.cells /\ b.marks = M  BY <1>0, <1>1, <1>2, WithMarks
<1> HIDE DEF b
<1>4. LiveNodes(b) = LiveNodes(a)  BY <1>3 DEF LiveNodes
<1>5. \A m : Below(b, m) = Below(a, m)  BY <1>3, <1>4 DEF Below
<1>6. Below(a, Standing(a)) = LiveNodes(a)
  <2>1. ASSUME NEW x \in LiveNodes(a) PROVE \E t \in Types : \E p \in 1..Standing(a)[t] : a.cells[t][p] = x
    <3>1. \E t \in Types : \E p \in 1..Len(a.cells[t]) : a.cells[t][p] = x  BY LiveIs
    <3>2. \A t \in Types : Standing(a)[t] = Len(a.cells[t])  BY StandingOK
    <3> QED  BY <3>1, <3>2
  <2> QED  BY <2>1 DEF Below
<1>7. /\ \A k \in 1..n : Below(b, b.marks[k]) = Below(a, a.marks[k])
      /\ Below(b, b.marks[n+1]) = LiveNodes(a)
  BY <1>1, <1>3, <1>5, <1>6
<1> QED  BY <1>4, <1>7 DEF b

LEMMA PopNodes ==
    ASSUME NEW a, ArenaOK(a), Len(a.marks) > 0
    PROVE  LET b == Pop(a) n == Len(a.marks)
           IN  /\ LiveNodes(b) = Below(a, a.marks[n])
               /\ \A k \in 1..n-1 : Below(a, a.marks[k]) \subseteq Below(b, b.marks[k])
<1> DEFINE b == Pop(a) n == Len(a.marks) m == a.marks[n] M == SubSeq(a.marks, 1, n-1)
           C == [t \in Types |-> SubSeq(a.cells[t], 1, m[t])]
<1>0. /\ a \in ArenaType /\ n \in Nat /\ n > 0 /\ n \in DOMAIN a.marks
      /\ a.marks \in Seq([Types -> Nat]) /\ DOMAIN a.marks = 1..n
      /\ a.cells \in [Types -> Seq(Nat)] /\ MarksRise(a)
  BY DEF ArenaOK, ArenaType, ArenaMarks
<1>1. \A t \in Types : m[t] \in Nat /\ m[t] <= Len(a.cells[t])  BY <1>0, MarkIsBelow
<1>2. M \in ArenaMarks /\ \A k \in 1..n-1 : M[k] = a.marks[k]  BY <1>0 DEF ArenaMarks
<1>3. ASSUME NEW t \in Types
      PROVE  /\ C[t] \in Seq(Nat) /\ Len(C[t]) = m[t]
             /\ \A p \in 1..m[t] : C[t][p] = a.cells[t][p]
  <2>1. a.cells[t] \in Seq(Nat) /\ m[t] \in 0..Len(a.cells[t])  BY <1>0, <1>1
  <2>2. C[t] = SubSeq(a.cells[t], 1, m[t])  OBVIOUS
  <2> HIDE DEF C, m
  <2> QED  BY <2>1, <2>2, SMTT(30)
<1>4. C \in [Types -> Seq(Nat)]  BY <1>3
<1>5. b.marks = M /\ b.cells = C
  <2> DEFINE d == [a EXCEPT !.marks = M]
  <2>1. b = Rewind(d, m)  BY <1>0 DEF Pop, Front, Last
  <2>2. d \in ArenaType /\ d.marks = M /\ d.cells = a.cells
    <3> HIDE DEF M
    <3> QED  BY <1>0, <1>2, WithMarks
  <2>3. Rewind(d, m) = [d EXCEPT !.cells = C]
    <3> HIDE DEF d, m
    <3> QED  BY <2>2 DEF Rewind
  <2> HIDE DEF b, d, C, M, m
  <2> QED  BY <2>1, <2>2, <2>3, <1>4, WithCells
<1>6. ArenaOK(b)  BY PopOK
<1> HIDE DEF b, C, M
<1>7. ASSUME NEW x PROVE x \in LiveNodes(b) <=> x \in Below(a, m)
  <2>1. x \in LiveNodes(b) <=> \E t \in Types : \E p \in 1..Len(C[t]) : C[t][p] = x
    BY <1>5, <1>6, LiveIs
  <2>2. x \in Below(a, m) <=> \E t \in Types : \E p \in 1..m[t] : a.cells[t][p] = x
    <3> HIDE DEF m
    <3> QED  BY <1>1, BelowIs
  <2>3. (\E t \in Types : \E p \in 1..Len(C[t]) : C[t][p] = x)
        <=> \E t \in Types : \E p \in 1..m[t] : a.cells[t][p] = x
    <3> HIDE DEF m
    <3> QED  BY <1>3
  <2> QED  BY <2>1, <2>2, <2>3
<1>8. ASSUME NEW k \in 1..n-1, NEW x \in Below(a, a.marks[k]) PROVE x \in Below(b, b.marks[k])
  <2>1. k \in DOMAIN a.marks /\ n \in k..n /\ b.marks[k] = a.marks[k]  BY <1>0, <1>2, <1>5
  <2>2. \A t \in Types : a.marks[k][t] <= m[t]  BY <1>0, <2>1 DEF MarksRise
  <2>3. \A t \in Types : a.marks[k][t] \in Nat  BY <2>1, MarkIsBelow
  <2>4. PICK t \in Types : \E p \in 1..a.marks[k][t] : a.cells[t][p] = x  BY <1>8 DEF Below
  <2>5. PICK p \in 1..a.marks[k][t] : a.cells[t][p] = x  BY <2>4
  <2>6. p \in 1..m[t]
    <3>1. a.marks[k][t] \in Nat /\ m[t] \in Nat /\ a.marks[k][t] <= m[t]  BY <1>1, <2>2, <2>3
    <3> HIDE DEF m
    <3> QED  BY <3>1
  <2>7. C[t][p] = x /\ p \in 1..Len(C[t])
    <3> HIDE DEF m
    <3> QED  BY <1>3, <2>5, <2>6
  <2>8. x \in LiveNodes(b)  BY <1>5, <1>6, <2>7, LiveIs
  <2> QED  BY <1>5, <2>1, <2>5, <2>7, <2>8 DEF Below
<1>9. LiveNodes(b) = Below(a, m)  BY <1>7
<1> QED  BY <1>8, <1>9 DEF b

LEMMA CommitNodes ==
    ASSUME NEW a, ArenaOK(a)
    PROVE  LET b == Commit(a)
           IN  /\ LiveNodes(b) = LiveNodes(a) /\ Grew(a, b)
               /\ \A k \in DOMAIN b.marks : Below(b, b.marks[k]) = LiveNodes(b)
<1> DEFINE b == Commit(a) M == [i \in DOMAIN a.marks |-> Raise(a.marks[i], Standing(a))]
<1>0. /\ a \in ArenaType /\ a.marks \in Seq([Types -> Nat]) /\ MarksRise(a)
      /\ a.cells \in [Types -> Seq(Nat)] /\ DOMAIN a.marks = 1..Len(a.marks)
  BY DEF ArenaOK, ArenaType, ArenaMarks
<1>1. b = [a EXCEPT !.marks = M] /\ DOMAIN a = {"cells", "marks"}  BY <1>0 DEF Commit, ArenaType
<1>2. ArenaOK(b) /\ Len(b.marks) = Len(a.marks)  BY CommitOK
<1>3. b.marks = M /\ b.cells = a.cells
  <2> HIDE DEF M
  <2> QED  BY <1>1
<1>4. ASSUME NEW k \in DOMAIN a.marks, NEW t \in Types PROVE M[k][t] = Len(a.cells[t])
  <2>1. M[k] = Raise(a.marks[k], Standing(a))  OBVIOUS
  <2>2. a.marks[k][t] \in Nat /\ a.marks[k][t] <= Len(a.cells[t])  BY MarkIsBelow
  <2>3. Standing(a)[t] = Len(a.cells[t]) /\ Len(a.cells[t]) \in Nat  BY <1>0, StandingOK
  <2>4. M[k][t] = IF Len(a.cells[t]) > a.marks[k][t] THEN Len(a.cells[t]) ELSE a.marks[k][t]
    BY <2>1, <2>3 DEF Raise
  <2> HIDE DEF M
  <2> QED  BY <2>2, <2>3, <2>4
<1>5. DOMAIN M = DOMAIN a.marks  OBVIOUS
<1> HIDE DEF b, M
<1>6. LiveNodes(b) = LiveNodes(a)  BY <1>3 DEF LiveNodes
<1>7. ASSUME NEW k \in DOMAIN b.marks PROVE Below(b, b.marks[k]) = LiveNodes(b)
  <2>1. k \in DOMAIN a.marks  BY <1>3, <1>5
  <2>2. ASSUME NEW x \in LiveNodes(b) PROVE x \in Below(b, b.marks[k])
    <3>1. \E t \in Types : \E p \in 1..Len(b.cells[t]) : b.cells[t][p] = x  BY <1>2, LiveIs
    <3>2. \E t \in Types : \E p \in 1..b.marks[k][t] : b.cells[t][p] = x
      BY <1>3, <1>4, <2>1, <3>1
    <3> QED  BY <3>2 DEF Below
  <2> QED  BY <2>2 DEF Below
<1>8. Grew(a, b)
  <2>1. \A k \in DOMAIN a.marks : k \in DOMAIN b.marks  BY <1>3, <1>5
  <2>2. \A k \in DOMAIN a.marks : Below(a, a.marks[k]) \subseteq LiveNodes(b)  BY <1>6 DEF Below
  <2> QED  BY <1>3, <1>5, <1>7, <2>1, <2>2 DEF Grew
<1> QED  BY <1>6, <1>7, <1>8 DEF b

-----------------------------------------------------------------------------
(* The calls after a step that reuses no cell: the calls around one of     *)
(* them are as they were, that one may have read a node, and at most one   *)
(* more is made from it.                                                   *)

(* No cell was reused: the nodes built are in theirs. *)
Grown ==
    /\ nodes \in Nat /\ nodes' \in Nat /\ nodes <= nodes'
    /\ Live \subseteq Live' /\ Live' \subseteq Live \cup Built(nodes, nodes')
    /\ Built(nodes, nodes') \subseteq Live'
DeclsStand ==
    \A d \in DOMAIN decls : d \in DOMAIN decls' /\ decls'[d].from = decls[d].from

SameCell(f, g) ==
    /\ g.kind = f.kind /\ g.id = f.id /\ g.first = f.first
    /\ (g.inKey <=> f.inKey) /\ (g.entered <=> f.entered)
    /\ f.kind = "anchor" => g.decl = f.decl

LEMMA BuiltOn ==
    ASSUME Grown, NEW n \in Nat, Built(n, nodes) \subseteq Live
    PROVE  Built(n, nodes') \subseteq Live'
<1> SUFFICES ASSUME NEW x \in Built(n, nodes') PROVE x \in Live'  OBVIOUS
<1>1. x \in n+1..nodes'  BY DEF Built
<1>2. x \in n+1..nodes \/ x \in nodes+1..nodes'  BY <1>1 DEF Grown
<1> QED  BY <1>2 DEF Grown, Built

LEMMA HeldStays ==
    ASSUME Grown, DeclsStand, NEW i \in Nat, frames[i].first \in Nat,
           Held(i), Declares(frames[i]), SameCell(frames[i], frames'[i]), KeyHeld(frames[i], Live)',
           frames[i].entered /\ KeptAt(i)' => KeptAt(i)
    PROVE  Held(i)' /\ Declares(frames[i])'
<1>1. frames'[i].id # 0 => frames'[i].id \in Live'  BY DEF Held, SameCell, Grown
<1>2. Whole(i)' => Whole(i)  BY DEF Whole, SameCell
<1>3. Whole(i) => Built(frames[i].first, nodes') \subseteq Live'  BY BuiltOn DEF Held
<1>4. Whole(i)' => Built(frames'[i].first, nodes') \subseteq Live'  BY <1>2, <1>3 DEF SameCell
<1>5. Declares(frames[i])'  BY DEF Declares, DeclsStand, SameCell
<1> QED  BY <1>1, <1>4, <1>5 DEF Held

(* The call that is made. *)
MadeOn(m) ==
    LET g == frames'[m] f == frames'[m+1]
    IN  /\ m = Len(frames) /\ g.key.to <= nodes
        /\ f.first = nodes /\ f.key.to = 0 /\ ~InEntry(f)
        /\ f.id = 0 \/ (f.id = nodes + 1 /\ nodes' = nodes + 1)
        /\ f.kind = "anchor" => f.decl \in DOMAIN decls' /\ decls'[f.decl].from = nodes
        /\ ReadsKey(g, f)
        /\ m > 1 /\ frames[m-1].kind = "explicit" => frames[m].inKey

LEMMA StepCells ==
    ASSUME FramesCells, frames \in Seq(FrameType), frames' \in Seq(FrameType),
           Grown, DeclsStand, NEW m \in 1..Len(frames),
           Len(frames') = m \/ (Len(frames') = m+1 /\ MadeOn(m)),
           \A i \in 1..m-1 : frames'[i] = frames[i],
           SameCell(frames[m], frames'[m]), KeyHeld(frames[m], Live)', Numbered(frames[m], nodes)',
           \A i \in 1..m : frames[i].entered /\ KeptAt(i)' => KeptAt(i),
           Reading' /\ Top'.slot = "key" => Top'.key.from = nodes'
    PROVE  FramesCells'
<1> PICK n \in Nat : n = Len(frames)  OBVIOUS
<1> PICK l \in Nat : l = Len(frames')  OBVIOUS
<1>1. /\ DOMAIN frames = 1..n /\ DOMAIN frames' = 1..l /\ m \in 1..n /\ m \in Nat
      /\ \A i \in 1..n : frames[i] \in FrameType
      /\ \A i \in 1..l : frames'[i] \in FrameType
      /\ l = m \/ (l = m+1 /\ m = n)
  BY DEF MadeOn
<1>2. \A f \in FrameType : f.first \in Nat /\ f.id \in Nat /\ f.key.from \in Nat /\ f.key.to \in Nat
  BY DEF FrameType
<1>3. nodes \in Nat /\ nodes' \in Nat /\ nodes <= nodes'  BY DEF Grown
<1>4. ASSUME NEW i \in 1..n PROVE Numbered(frames[i], nodes) /\ Held(i) /\ Declares(frames[i])
  BY <1>1 DEF FramesCells
<1>5. ASSUME NEW i \in 1..m-1
      PROVE  i \in 1..n /\ frames'[i] = frames[i] /\ SameCell(frames[i], frames'[i])
             /\ Numbered(frames[i], nodes)' /\ KeyHeld(frames[i], Live)'
  <2>1. i \in 1..n /\ frames'[i] = frames[i]  BY <1>1
  <2>2. SameCell(frames[i], frames'[i])  BY <2>1 DEF SameCell
  <2>3. frames[i] \in FrameType /\ Numbered(frames[i], nodes)  BY <1>1, <1>4, <2>1
  <2>4. Numbered(frames[i], nodes)'  BY <1>2, <1>3, <2>1, <2>3 DEF Numbered
  <2>5. KeyHeld(frames[i], Live)  BY <1>4, <2>1 DEF Held
  <2>6. KeyHeld(frames[i], Live)'  BY <2>1, <2>5 DEF KeyHeld, Grown
  <2> QED  BY <2>1, <2>2, <2>4, <2>6
<1>6. ASSUME NEW i \in 1..m
      PROVE  Numbered(frames[i], nodes)' /\ Held(i)' /\ Declares(frames[i])'
             /\ SameCell(frames[i], frames'[i])
  <2>1. i = m \/ i \in 1..m-1  BY <1>1
  <2>2. SameCell(frames[i], frames'[i]) /\ KeyHeld(frames[i], Live)' /\ Numbered(frames[i], nodes)'
    BY <1>5, <2>1
  <2>3. i \in Nat /\ i \in 1..n  BY <1>1
  <2>4. Held(i) /\ Declares(frames[i]) /\ frames[i].first \in Nat  BY <1>1, <1>2, <1>4, <2>3
  <2>5. frames[i].entered /\ KeptAt(i)' => KeptAt(i)  OBVIOUS
  <2>6. Held(i)' /\ Declares(frames[i])'  BY <2>2, <2>3, <2>4, <2>5, HeldStays
  <2> QED  BY <2>2, <2>6
<1>7. ASSUME l = m+1
      PROVE  Numbered(frames[l], nodes)' /\ Held(l)' /\ Declares(frames[l])'
  <2>1. MadeOn(m) /\ frames'[l] \in FrameType  BY <1>1, <1>7
  <2>2. /\ frames'[l].first = nodes /\ frames'[l].key.to = 0 /\ ~InEntry(frames'[l])
        /\ frames'[l].id = 0 \/ (frames'[l].id = nodes + 1 /\ nodes' = nodes + 1)
        /\ frames'[l].kind = "anchor" =>
              frames'[l].decl \in DOMAIN decls' /\ decls'[frames'[l].decl].from = nodes
    BY <1>7, <2>1 DEF MadeOn
  <2>3. Numbered(frames[l], nodes)'  BY <1>3, <2>2 DEF Numbered
  <2>4. frames'[l].id # 0 => frames'[l].id \in Live'
    <3>1. frames'[l].id # 0 => frames'[l].id \in Built(nodes, nodes')  BY <1>3, <2>2 DEF Built
    <3> QED  BY <3>1 DEF Grown
  <2>5. KeyHeld(frames[l], Live)'  BY <2>2 DEF KeyHeld, InEntry
  <2>6. Built(frames'[l].first, nodes') \subseteq Live'  BY <2>2 DEF Grown
  <2>7. Declares(frames[l])'  BY <2>2 DEF Declares
  <2> QED  BY <2>3, <2>4, <2>5, <2>6, <2>7 DEF Held
<1>8. \A i \in DOMAIN frames' : Numbered(frames[i], nodes)' /\ Held(i)' /\ Declares(frames[i])'
  <2> TAKE i \in DOMAIN frames'
  <2>1. i \in 1..m \/ (i = l /\ l = m+1)  BY <1>1
  <2> QED  BY <1>6, <1>7, <2>1
<1>9. \A j \in DOMAIN frames' : \A i \in 1..j-1 : Before(frames'[i], frames'[j])
  <2> TAKE j \in DOMAIN frames'
  <2> TAKE i \in 1..j-1
  <2>1. CASE j \in 1..m
    <3>1. i \in 1..m-1 /\ j \in 1..n /\ i \in 1..j-1  BY <1>1, <2>1
    <3>2. Before(frames[i], frames[j])  BY <1>1, <3>1 DEF FramesCells
    <3>3. frames'[i] = frames[i] /\ frames'[j].first = frames[j].first
      BY <1>5, <1>6, <2>1, <3>1 DEF SameCell
    <3> QED  BY <3>2, <3>3 DEF Before
  <2>2. CASE j = l /\ l = m+1
    <3>1. MadeOn(m) /\ i \in 1..m  BY <1>1, <2>2
    <3>2. frames'[j].first = nodes  BY <2>2, <3>1 DEF MadeOn
    <3>3. CASE i = m
      <4>1. frames'[m].id = frames[m].id /\ frames[m].id <= nodes /\ frames'[m].key.to <= nodes
        BY <1>1, <1>4, <1>6, <3>1 DEF SameCell, MadeOn, Numbered
      <4> QED  BY <3>2, <3>3, <4>1 DEF Before
    <3>4. CASE i \in 1..m-1
      <4>1. frames'[i] = frames[i] /\ Numbered(frames[i], nodes)  BY <1>4, <1>5, <3>4
      <4> QED  BY <3>2, <4>1 DEF Before, Numbered
    <3> QED  BY <1>1, <3>1, <3>3, <3>4
  <2> QED  BY <1>1, <2>1, <2>2
<1>10. \A i \in 1..l-1 : ReadsKey(frames'[i], frames'[i+1])
  <2> TAKE i \in 1..l-1
  <2>1. CASE i \in 1..m-1
    <3>1. i \in 1..n-1 /\ i+1 \in 1..m  BY <1>1, <2>1
    <3>2. ReadsKey(frames[i], frames[i+1])  BY <3>1 DEF FramesCells
    <3>3. frames'[i] = frames[i] /\ SameCell(frames[i+1], frames'[i+1])  BY <1>5, <1>6, <2>1, <3>1
    <3> QED  BY <3>2, <3>3 DEF ReadsKey, SameCell
  <2>2. CASE i = m /\ l = m+1  BY <1>1, <2>2 DEF MadeOn
  <2> QED  BY <1>1, <2>1, <2>2
<1>11. \A i \in 1..l-2 : frames'[i].kind = "explicit" => frames'[i+1].inKey
  <2> SUFFICES ASSUME NEW i \in 1..l-2, frames'[i].kind = "explicit" PROVE frames'[i+1].inKey
    OBVIOUS
  <2>1. i \in 1..m-1 /\ i+1 \in 1..m /\ frames'[i] = frames[i]
    <3>1. i \in 1..m-1 /\ i+1 \in 1..m  BY <1>1
    <3> QED  BY <1>5, <3>1
  <2>2. (frames'[i+1].inKey <=> frames[i+1].inKey)  BY <1>6, <2>1 DEF SameCell
  <2>3. CASE i \in 1..n-2  BY <2>1, <2>2, <2>3 DEF FramesCells
  <2>4. CASE i \notin 1..n-2
    <3>1. i = m-1 /\ l = m+1 /\ m > 1 /\ i + 1 = m  BY <1>1, <2>1, <2>4
    <3>2. MadeOn(m)  BY <1>1, <3>1
    <3>3. frames[m].inKey  BY <2>1, <3>1, <3>2 DEF MadeOn
    <3> QED  BY <2>2, <3>1, <3>3
  <2> QED  BY <2>3, <2>4
<1> QED  BY <1>8, <1>9, <1>10, <1>11 DEF FramesCells

(* The nodes the anchors of the document name, and what the marks spare.   *)
DeclsKept ==
    \A d \in DOMAIN decls' :
        \/ Named(d)' = {}
        \/ d \in DOMAIN decls /\ decls'[d].from = decls[d].from /\ decls'[d].to = decls[d].to
        \/ /\ Named(d)' \subseteq Live'
           /\ \A k \in DOMAIN arena'.marks : Named(d)' \subseteq Below(arena', arena'.marks[k])

LEMMA StepDecls ==
    ASSUME DeclsHeld, DeclsKept, Grown
    PROVE  DeclsHeld'
BY DEF DeclsHeld, DeclsKept, Grown, Named

(* Each entry that pushed a mark has it. *)
LEMMA MarkPlaces ==
    ASSUME IInv, Reading, NEW i \in Marked
    PROVE  /\ i \in DOMAIN frames /\ Place(i, Marked) \in DOMAIN arena.marks
           /\ InEntry(frames[i])
<1>1. Marked \in SUBSET (1..Len(frames)) /\ Len(frames) \in Nat /\ frames \in Seq(FrameType)
  BY IInvShape, SortsAreFrames DEF Shape
<1>2. Place(i, Marked) \in 1..Cardinality(Marked)  BY <1>1, PlaceBounds
<1>3. Len(arena.marks) = Cardinality(Marked)  BY DEF IInv, MarksMatch
<1>4. DOMAIN arena.marks = 1..Len(arena.marks)
  BY IInvShape DEF Shape, ArenaOK, ArenaType, ArenaMarks
<1>5. i \in DOMAIN frames /\ frames[i].pushed  BY DEF Marked
<1>6. InEntry(frames[i])  BY <1>5 DEF IInv, MarksMatch
<1> QED  BY <1>2, <1>3, <1>4, <1>5, <1>6

LEMMA StepMarks ==
    ASSUME IInv, FramesCells, MarksHold, DeclsKept, Grown, Grew(arena, arena'),
           Reading' => Reading /\ Marked' = Marked
                       /\ \A i \in Marked : frames'[i].key.from = frames[i].key.from
    PROVE  MarksHold'
<1> SUFFICES ASSUME Reading', NEW i \in Marked' PROVE Spares(i)'  BY DEF MarksHold
<1>1. /\ Reading /\ i \in Marked /\ Marked' = Marked
      /\ frames'[i].key.from = frames[i].key.from
  OBVIOUS
<1>2. Spares(i)  BY <1>1 DEF MarksHold
<1> DEFINE k == Place(i, Marked)
<1>3. k \in DOMAIN arena.marks /\ i \in DOMAIN frames /\ InEntry(frames[i])  BY <1>1, MarkPlaces
<1>4. /\ k \in DOMAIN arena'.marks
      /\ Below(arena, arena.marks[k]) \subseteq Below(arena', arena'.marks[k])
  BY <1>3 DEF Grew
<1>5. Place(i, Marked)' = k  BY <1>1 DEF Place
<1>6. MarkOf(i) = arena.marks[k] /\ MarkOf(i)' = arena'.marks[k]  BY <1>5 DEF MarkOf
<1> HIDE DEF k
<1>7. ASSUME NEW x \in Live', x <= frames'[i].key.from PROVE x \in Below(arena', MarkOf(i)')
  <2>1. frames[i].key.from <= nodes /\ frames[i].key.from \in Nat /\ nodes \in Nat
    <3>1. Numbered(frames[i], nodes) /\ frames[i] \in FrameType
      BY <1>3, IInvShape DEF FramesCells, Shape
    <3> QED  BY <1>3, <3>1 DEF Numbered, FrameType, Grown
  <2>2. x \in Live
    <3>1. x \in Live \/ x \in nodes+1..nodes'  BY <1>7 DEF Grown, Built
    <3>2. ~(x \in nodes+1..nodes')  BY <1>1, <1>7, <2>1
    <3> QED  BY <3>1, <3>2
  <2>3. x \in Below(arena, MarkOf(i))  BY <1>1, <1>2, <1>7, <2>2 DEF Spares
  <2> QED  BY <1>4, <1>6, <2>3
<1>8. ASSUME NEW d \in DOMAIN decls' PROVE Named(d)' \subseteq Below(arena', MarkOf(i)')
  <2>1. CASE Named(d)' = {}  BY <2>1
  <2>2. CASE d \in DOMAIN decls /\ decls'[d].from = decls[d].from /\ decls'[d].to = decls[d].to
    <3>1. Named(d)' = Named(d)  BY <2>2 DEF Named
    <3>2. Named(d) \subseteq Below(arena, MarkOf(i))  BY <1>2, <2>2 DEF Spares
    <3> QED  BY <1>4, <1>6, <3>1, <3>2
  <2>3. CASE \A j \in DOMAIN arena'.marks : Named(d)' \subseteq Below(arena', arena'.marks[j])
    BY <1>4, <1>6, <2>3
  <2> QED  BY <2>1, <2>2, <2>3 DEF DeclsKept
<1> QED  BY <1>7, <1>8 DEF Spares

-----------------------------------------------------------------------------
(* The three ways the calls change, and what each leaves as it was.        *)

LEMMA StayExact ==
    ASSUME frames \in Seq(FrameType), frames # <<>>, NEW g \in FrameType, frames' = WithTop(g)
    PROVE  /\ frames' \in Seq(FrameType) /\ Len(frames') = Len(frames)
           /\ frames'[Len(frames)] = g
           /\ \A i \in 1..Len(frames)-1 : frames'[i] = frames[i]
<1> PICK n \in Nat : n = Len(frames)  OBVIOUS
<1>1. n > 0 /\ frames' = [frames EXCEPT ![n] = g]  BY DEF WithTop
<1> QED  BY <1>1

LEMMA PushExact ==
    ASSUME frames \in Seq(FrameType), frames # <<>>, NEW g \in FrameType, NEW f \in FrameType,
           frames' = Append(WithTop(g), f)
    PROVE  /\ frames' \in Seq(FrameType) /\ Len(frames') = Len(frames) + 1
           /\ frames'[Len(frames)] = g /\ frames'[Len(frames)+1] = f
           /\ \A i \in 1..Len(frames)-1 : frames'[i] = frames[i]
<1> PICK n \in Nat : n = Len(frames)  OBVIOUS
<1> DEFINE fs == WithTop(g)
<1>1. n > 0 /\ fs = [frames EXCEPT ![n] = g]  BY DEF WithTop
<1>2. /\ fs \in Seq(FrameType) /\ Len(fs) = n /\ fs[n] = g
      /\ \A i \in 1..n-1 : fs[i] = frames[i]
  BY <1>1
<1> HIDE DEF fs
<1>3. frames' = Append(fs, f)  BY DEF fs
<1> QED  BY <1>1, <1>2, <1>3

LEMMA ReturnExact ==
    ASSUME frames \in Seq(FrameType), Len(frames) > 1, NEW g \in FrameType, frames' = Returned(g)
    PROVE  /\ frames' \in Seq(FrameType) /\ Len(frames') = Len(frames) - 1
           /\ frames'[Len(frames)-1] = g
           /\ \A i \in 1..Len(frames)-2 : frames'[i] = frames[i]
<1> PICK n \in Nat : n = Len(frames) - 2  OBVIOUS
<1>1. Len(frames) = n + 2  OBVIOUS
<1> DEFINE fs == SubSeq(frames, 1, n)
<1>2. fs \in Seq(FrameType) /\ Len(fs) = n /\ \A i \in 1..n : fs[i] = frames[i]  BY <1>1
<1> HIDE DEF fs
<1>3. frames' = Append(fs, g)  BY DEF Returned, fs
<1>4. /\ frames' \in Seq(FrameType) /\ Len(frames') = n+1 /\ frames'[n+1] = g
      /\ \A i \in 1..n : frames'[i] = frames[i]
  BY <1>2, <1>3
<1> QED  BY <1>1, <1>4

LEMMA FrontExact ==
    ASSUME frames \in Seq(FrameType), Len(frames) > 1, frames' = Front(frames)
    PROVE  /\ frames' \in Seq(FrameType) /\ Len(frames') = Len(frames) - 1
           /\ \A i \in 1..Len(frames)-1 : frames'[i] = frames[i]
<1> PICK n \in Nat : n = Len(frames) - 1  OBVIOUS
<1>1. Len(frames) = n + 1 /\ frames' = SubSeq(frames, 1, n)  BY DEF Front
<1> QED  BY <1>1

(* A step whose calls are the same. *)
LEMMA StayHolds ==
    ASSUME IInv, CInv, Grown, DeclsStand,
           NEW g \in FrameType, frames' = WithTop(g), SameCell(Top, g),
           KeyHeld(g, Live'), Numbered(g, nodes'), walk'.keeping => walk.keeping,
           Reading' /\ g.slot = "key" => g.key.from = nodes'
    PROVE  /\ FramesCells'
           /\ \A i \in 1..Len(frames)-1 : frames'[i] = frames[i]
           /\ frames'[Len(frames)] = g /\ DOMAIN frames' = DOMAIN frames
<1> PICK n \in Nat : n = Len(frames)  BY IInvShape
<1>1. frames \in Seq(FrameType) /\ frames # <<>> /\ n > 0 /\ Top = frames[n] /\ FramesCells
  BY IInvShape DEF Shape, CInv
<1>2. /\ frames' \in Seq(FrameType) /\ Len(frames') = n /\ frames'[n] = g
      /\ \A i \in 1..n-1 : frames'[i] = frames[i]
  BY <1>1, StayExact
<1>3. Entered' = Entered
  <2>1. DOMAIN frames' = 1..n /\ DOMAIN frames = 1..n  BY <1>1, <1>2
  <2>2. \A i \in 1..n : frames'[i].entered <=> frames[i].entered
    <3> TAKE i \in 1..n
    <3>1. i = n \/ i \in 1..n-1  BY <1>1
    <3> QED  BY <3>1, <1>1, <1>2 DEF SameCell
  <2> QED  BY <2>1, <2>2 DEF Entered
<1>4. \A i \in 1..n : frames[i].entered /\ KeptAt(i)' => KeptAt(i)  BY <1>3 DEF KeptAt
<1>5. Top' = g  BY <1>2 DEF Top, Last
<1>6. SameCell(frames[n], frames'[n]) /\ KeyHeld(frames[n], Live)' /\ Numbered(frames[n], nodes)'
  BY <1>1, <1>2
<1>7. n \in 1..Len(frames) /\ DOMAIN frames' = DOMAIN frames  BY <1>1, <1>2
<1>8. FramesCells'  BY <1>1, <1>2, <1>4, <1>5, <1>6, <1>7, StepCells
<1> QED  BY <1>2, <1>7, <1>8

(* A call made. *)
LEMMA PushHolds ==
    ASSUME IInv, CInv, Grown, DeclsStand, Waits(Top),
           NEW g \in FrameType, NEW f \in FrameType, frames' = Append(WithTop(g), f),
           SameCell(Top, g), KeyHeld(g, Live'), Numbered(g, nodes'), g.key.to <= nodes,
           f.first = nodes, f.key.to = 0, ~InEntry(f),
           f.id = 0 \/ (f.id = nodes + 1 /\ nodes' = nodes + 1),
           f.kind = "anchor" => f.decl \in DOMAIN decls' /\ decls'[f.decl].from = nodes,
           ReadsKey(g, f), Len(frames) > 1 /\ Under.kind = "explicit" => Top.inKey,
           f.entered \/ (walk'.keeping => walk.keeping)
    PROVE  /\ FramesCells'
           /\ \A i \in 1..Len(frames)-1 : frames'[i] = frames[i]
           /\ frames'[Len(frames)] = g /\ frames'[Len(frames)+1] = f
           /\ DOMAIN frames' = 1..Len(frames)+1
<1> PICK n \in Nat : n = Len(frames)  BY IInvShape
<1>1. /\ frames \in Seq(FrameType) /\ frames # <<>> /\ n > 0 /\ Top = frames[n] /\ FramesCells
      /\ n > 1 => Under = frames[n-1]
  BY IInvShape DEF Shape, CInv
<1>2. /\ frames' \in Seq(FrameType) /\ Len(frames') = n+1 /\ frames'[n] = g /\ frames'[n+1] = f
      /\ \A i \in 1..n-1 : frames'[i] = frames[i]
  BY <1>1, PushExact
<1>3. \A i \in 1..n : frames[i].entered /\ KeptAt(i)' => KeptAt(i)
  <2>1. DOMAIN frames' = 1..n+1 /\ DOMAIN frames = 1..n  BY <1>1, <1>2
  <2>2. CASE f.entered
    <3>1. n+1 \in Entered'  BY <1>2, <2>1, <2>2 DEF Entered
    <3>2. \A i \in 1..n : ~(n+1 <= i)  OBVIOUS
    <3> QED  BY <3>1, <3>2 DEF KeptAt
  <2>3. CASE ~f.entered
    <3>1. \A i \in 1..n : frames'[i].entered <=> frames[i].entered
      <4> TAKE i \in 1..n
      <4>1. i = n \/ i \in 1..n-1  BY <1>1
      <4> QED  BY <4>1, <1>1, <1>2 DEF SameCell
    <3>2. Entered' = Entered  BY <1>2, <2>1, <2>3, <3>1 DEF Entered
    <3> QED  BY <2>3, <3>2 DEF KeptAt
  <2> QED  BY <2>2, <2>3
<1>4. Top' = f  BY <1>2 DEF Top, Last
<1>5. SameCell(frames[n], frames'[n]) /\ KeyHeld(frames[n], Live)' /\ Numbered(frames[n], nodes)'
  BY <1>1, <1>2
<1>6. n \in 1..Len(frames) /\ DOMAIN frames' = 1..n+1  BY <1>1, <1>2
<1>7. MadeOn(n)  BY <1>1, <1>2 DEF MadeOn
<1>8. ~(Top'.slot = "key")  BY <1>4 DEF InEntry
<1>9. FramesCells'  BY <1>1, <1>2, <1>3, <1>5, <1>6, <1>7, <1>8, StepCells
<1> QED  BY <1>2, <1>6, <1>9

(* The innermost call returned, to a call with frame g. *)
LEMMA PopHolds ==
    ASSUME IInv, CInv, Grown, DeclsStand, Len(frames) > 1,
           frames' \in Seq(FrameType), Len(frames') = Len(frames)-1,
           \A i \in 1..Len(frames)-2 : frames'[i] = frames[i],
           NEW g, frames'[Len(frames)-1] = g, SameCell(Under, g),
           KeyHeld(g, Live'), Numbered(g, nodes'), ReturnsFrom(Top),
           Reading' => g.slot # "key"
    PROVE  FramesCells'
<1> PICK n \in Nat : n = Len(frames) - 1  BY IInvShape
<1>1. /\ frames \in Seq(FrameType) /\ n > 0 /\ Top = frames[n+1] /\ FramesCells
      /\ Under = frames[n] /\ Len(frames) = n+1 /\ Levels /\ walk \in WalkType
  BY IInvShape DEF Shape, CInv
<1>2. DOMAIN frames' = 1..n /\ DOMAIN frames = 1..n+1  BY <1>1
<1>3. \A i \in 1..n : frames'[i].entered <=> frames[i].entered
  <2> TAKE i \in 1..n
  <2>1. i = n \/ i \in 1..n-1  BY <1>1
  <2> QED  BY <2>1, <1>1 DEF SameCell
<1>4. \A i \in 1..n : KeptAt(i)' => KeptAt(i)
  <2>1. CASE Top.entered
    <3>1. n+1 \in Entered  BY <1>1, <1>2, <2>1 DEF Entered
    <3>2. Top.kind # "quiet"
      <4>1. ~(n+1 \in Quiets)  BY <1>1, <2>1 DEF Levels, FramesOK
      <4> QED  BY <4>1, <1>1, <1>2 DEF Quiets
    <3>3. walk.skip = 0 \/ (walk.skip = 1 /\ walk.keeping)
      BY <1>1, <2>1, <3>2, LeavesTop DEF Levels
    <3>4. ~walk'.keeping  BY <3>2, <3>3 DEF ReturnsFrom
    <3> QED  BY <3>4 DEF KeptAt
  <2>2. CASE ~Top.entered
    <3>1. \A j \in DOMAIN frames : j \in 1..n \/ j = n+1  BY <1>2
    <3>2. \A j \in 1..n : j \in DOMAIN frames  BY <1>2
    <3>3. Entered' = Entered  BY <1>1, <1>2, <1>3, <2>2, <3>1, <3>2 DEF Entered
    <3>4. walk'.keeping => walk.keeping  BY DEF ReturnsFrom
    <3> QED  BY <3>3, <3>4 DEF KeptAt
  <2> QED  BY <2>1, <2>2
<1>5. Top' = g  BY <1>1 DEF Top, Last
<1>6. SameCell(frames[n], frames'[n]) /\ KeyHeld(frames[n], Live)' /\ Numbered(frames[n], nodes)'
  BY <1>1
<1>7. n \in 1..Len(frames) /\ Len(frames') = n  BY <1>1
<1>8. \A i \in 1..n-1 : frames'[i] = frames[i]  BY <1>1
<1> QED  BY <1>1, <1>4, <1>5, <1>6, <1>7, <1>8, StepCells

(* With what else the step does: the marks are those of the same entries.  *)
LEMMA StayCells ==
    ASSUME IInv, CInv, Grown, Grew(arena, arena'), DeclsStand, DeclsKept,
           NEW g \in FrameType, frames' = WithTop(g), SameCell(Top, g),
           KeyHeld(g, Live'), Numbered(g, nodes'), walk'.keeping => walk.keeping,
           Reading' /\ g.slot = "key" => g.key.from = nodes',
           Reading' => Reading /\ (g.pushed <=> Top.pushed)
                       /\ (g.pushed => g.key.from = Top.key.from)
    PROVE  CInv'
<1> PICK n \in Nat : n = Len(frames)  BY IInvShape
<1>1. n > 0 /\ Top = frames[n] /\ frames \in Seq(FrameType) /\ DOMAIN frames = 1..n
  BY IInvShape DEF Shape
<1>2. /\ FramesCells' /\ \A i \in 1..n-1 : frames'[i] = frames[i]
      /\ frames'[n] = g /\ DOMAIN frames' = 1..n
  BY <1>1, StayHolds
<1>3. DeclsHeld'  BY StepDecls DEF CInv
<1>4. ASSUME Reading'
      PROVE  /\ Reading /\ Marked' = Marked
             /\ \A i \in Marked : frames'[i].key.from = frames[i].key.from
  <2>1. \A i \in 1..n : (frames'[i].pushed <=> frames[i].pushed)
                        /\ (frames[i].pushed => frames'[i].key.from = frames[i].key.from)
    <3> TAKE i \in 1..n
    <3>1. i = n \/ i \in 1..n-1  BY <1>1
    <3> QED  BY <3>1, <1>1, <1>2, <1>4
  <2> QED  BY <1>1, <1>2, <1>4, <2>1 DEF Marked
<1>5. MarksHold'  BY <1>4, StepMarks DEF CInv
<1> QED  BY <1>2, <1>3, <1>5 DEF CInv

LEMMA PushCells ==
    ASSUME IInv, CInv, Grown, Grew(arena, arena'), DeclsStand, DeclsKept, Waits(Top),
           NEW g \in FrameType, NEW f \in FrameType, frames' = Append(WithTop(g), f),
           SameCell(Top, g), KeyHeld(g, Live'), Numbered(g, nodes'), g.key.to <= nodes,
           f.first = nodes, f.key.to = 0, ~InEntry(f),
           f.id = 0 \/ (f.id = nodes + 1 /\ nodes' = nodes + 1),
           f.kind = "anchor" => f.decl \in DOMAIN decls' /\ decls'[f.decl].from = nodes,
           ReadsKey(g, f), Len(frames) > 1 /\ Under.kind = "explicit" => Top.inKey,
           f.entered \/ (walk'.keeping => walk.keeping),
           Reading, ~f.pushed, g.pushed <=> Top.pushed, g.key.from = Top.key.from
    PROVE  CInv'
<1> PICK n \in Nat : n = Len(frames)  BY IInvShape
<1>1. n > 0 /\ Top = frames[n] /\ frames \in Seq(FrameType) /\ DOMAIN frames = 1..n
  BY IInvShape DEF Shape
<1>2. /\ FramesCells' /\ \A i \in 1..n-1 : frames'[i] = frames[i]
      /\ frames'[n] = g /\ frames'[n+1] = f /\ DOMAIN frames' = 1..n+1
  BY <1>1, PushHolds
<1>3. DeclsHeld'  BY StepDecls DEF CInv
<1>4. /\ Marked' = Marked
      /\ \A i \in Marked : frames'[i].key.from = frames[i].key.from
  <2>1. \A i \in 1..n : (frames'[i].pushed <=> frames[i].pushed)
                        /\ frames'[i].key.from = frames[i].key.from
    <3> TAKE i \in 1..n
    <3>1. i = n \/ i \in 1..n-1  BY <1>1
    <3> QED  BY <3>1, <1>1, <1>2
  <2> QED  BY <1>1, <1>2, <2>1 DEF Marked
<1>5. MarksHold'  BY <1>4, StepMarks DEF CInv
<1> QED  BY <1>2, <1>3, <1>5 DEF CInv

LEMMA PopCells ==
    ASSUME IInv, CInv, Grown, Grew(arena, arena'), DeclsStand, DeclsKept, Len(frames) > 1,
           frames' \in Seq(FrameType), Len(frames') = Len(frames)-1,
           \A i \in 1..Len(frames)-2 : frames'[i] = frames[i],
           NEW g, frames'[Len(frames)-1] = g, SameCell(Under, g),
           KeyHeld(g, Live'), Numbered(g, nodes'), ReturnsFrom(Top),
           Reading' => /\ g.slot # "key" /\ Reading /\ ~Top.pushed
                       /\ (g.pushed <=> Under.pushed) /\ g.key.from = Under.key.from
    PROVE  CInv'
<1> PICK n \in Nat : n = Len(frames) - 1  BY IInvShape
<1>1. /\ n > 0 /\ Top = frames[n+1] /\ Under = frames[n] /\ Len(frames) = n+1
      /\ frames \in Seq(FrameType) /\ DOMAIN frames = 1..n+1 /\ DOMAIN frames' = 1..n
  BY IInvShape DEF Shape
<1>2. FramesCells'  BY PopHolds
<1>3. DeclsHeld'  BY StepDecls DEF CInv
<1>4. ASSUME Reading'
      PROVE  /\ Reading /\ Marked' = Marked
             /\ \A i \in Marked : frames'[i].key.from = frames[i].key.from
  <2>1. \A i \in 1..n : (frames'[i].pushed <=> frames[i].pushed)
                        /\ frames'[i].key.from = frames[i].key.from
    <3> TAKE i \in 1..n
    <3>1. i = n \/ i \in 1..n-1  BY <1>1
    <3> QED  BY <3>1, <1>1, <1>4
  <2>2. ~frames[n+1].pushed  BY <1>1, <1>4
  <2>3. \A i \in 1..n+1 : i \in 1..n \/ i = n+1  BY <1>1
  <2>4. \A i \in 1..n : i \in 1..n+1  BY <1>1
  <2> QED  BY <1>1, <1>4, <2>1, <2>2, <2>3, <2>4 DEF Marked
<1>5. MarksHold'  BY <1>4, StepMarks DEF CInv
<1> QED  BY <1>2, <1>3, <1>5 DEF CInv

-----------------------------------------------------------------------------
(* What each operation does to the cells, the declarations and a frame. *)

LEMMA SameData ==
    ASSUME Shape, nodes' = nodes, arena' = arena
    PROVE  Grown /\ Grew(arena, arena')
<1>1. Built(nodes, nodes) = {} /\ nodes <= nodes /\ nodes \in Nat  BY DEF Shape, Built
<1>2. Live' = Live  BY DEF Live
<1> QED  BY <1>1, <1>2 DEF Grown, Grew

LEMMA BuildData ==
    ASSUME Shape, NEW type \in Types, Build(type)
    PROVE  Grown /\ Grew(arena, arena') /\ nodes' = nodes + 1
<1>1. nodes \in Nat /\ ArenaOK(arena) /\ nodes' = nodes + 1 /\ nodes + 1 \in Nat
      /\ arena' = TakeCell(arena, type, nodes + 1)
  BY DEF Shape, Build
<1>2. LiveNodes(arena') = LiveNodes(arena) \cup {nodes + 1} /\ Grew(arena, arena')
  BY <1>1, TakeCellNodes
<1>3. Built(nodes, nodes') = {nodes + 1}  BY <1>1 DEF Built
<1>4. Live' = Live \cup {nodes + 1}  BY <1>2 DEF Live
<1>5. nodes <= nodes' /\ nodes' \in Nat  BY <1>1
<1> QED  BY <1>1, <1>2, <1>3, <1>4, <1>5 DEF Grown

LEMMA SameDecls ==
    ASSUME decls' = decls
    PROVE  DeclsStand /\ DeclsKept
BY DEF DeclsStand, DeclsKept

(* A frame whose node has been read; node numbers up to n. *)
ReadAs(f, g, n) ==
    /\ g \in FrameType /\ SameCell(f, g) /\ (g.pushed <=> f.pushed)
    /\ g.key.from = f.key.from /\ (g.alone <=> f.alone) /\ g.slot # "key"
    /\ f.slot = "key" => g.slot = "value" /\ g.key.to = n
    /\ f.slot = "value" => g.slot = "end" /\ g.key = f.key
    /\ f.slot = "node" => g.slot = "done" /\ g.key = f.key

LEMMA ReadFrame ==
    ASSUME NEW f \in FrameType, Waits(f), NEW n \in Nat, NEW called
    PROVE  ReadAs(f, Read(Told(f, called), n), n)
<1> DEFINE t == Told(f, called) g == Read(t, n)
<1>1. /\ t \in FrameType /\ SameCell(f, t) /\ (t.pushed <=> f.pushed) /\ t.key = f.key
      /\ (t.alone <=> f.alone) /\ t.slot = f.slot
  BY DEF Told, FrameType, SameCell
<1> HIDE DEF t, g
<1>2. ASSUME f.slot = "key" PROVE ReadAs(f, g, n)
  <2> DEFINE k == [t.key EXCEPT !.to = n]
  <2>1. g = [t EXCEPT !.slot = "value", !.key = k]
    BY <1>1, <1>2 DEF Read, g
  <2>2. k \in [from : Nat, to : Nat] /\ k.to = n /\ k.from = t.key.from
    BY <1>1 DEF FrameType
  <2> HIDE DEF k
  <2>3. /\ g \in FrameType /\ SameCell(t, g) /\ g.pushed = t.pushed /\ g.key = k
        /\ g.alone = t.alone /\ g.slot = "value"
    BY <1>1, <2>1, <2>2 DEF FrameType, FrameSlot, SameCell
  <2>4. SameCell(f, g)  BY <1>1, <2>3 DEF SameCell
  <2> QED  BY <1>1, <1>2, <2>2, <2>3, <2>4 DEF ReadAs
<1>3. ASSUME f.slot \in {"value", "node"} PROVE ReadAs(f, g, n)
  <2> DEFINE s == IF f.slot = "value" THEN "end" ELSE "done"
  <2>1. g = [t EXCEPT !.slot = s]  BY <1>1, <1>3 DEF Read, g
  <2>2. /\ s \in {"end", "done"} /\ (f.slot = "value" => s = "end")
        /\ (f.slot = "node" => s = "done")
    OBVIOUS
  <2> HIDE DEF s
  <2>3. /\ g \in FrameType /\ SameCell(t, g) /\ g.pushed = t.pushed /\ g.key = t.key
        /\ g.alone = t.alone /\ g.slot = s
    BY <1>1, <2>1, <2>2 DEF FrameType, FrameSlot, SameCell
  <2>4. SameCell(f, g)  BY <1>1, <2>3 DEF SameCell
  <2> QED  BY <1>1, <1>3, <2>2, <2>3, <2>4 DEF ReadAs
<1>4. ReadAs(f, g, n)  BY <1>2, <1>3 DEF Waits
<1> QED  BY <1>4 DEF g, t

LEMMA ReadHolds ==
    ASSUME Grown, NEW f \in FrameType, Waits(f), Numbered(f, nodes), KeyHeld(f, Live), NEW called,
           f.slot = "key" /\ ~f.alone => Built(f.key.from, nodes') \subseteq Live'
    PROVE  LET g == Read(Told(f, called), nodes')
           IN  KeyHeld(g, Live') /\ Numbered(g, nodes')
<1> DEFINE g == Read(Told(f, called), nodes')
<1>1. nodes \in Nat /\ nodes' \in Nat /\ nodes <= nodes'  BY DEF Grown
<1> HIDE DEF g
<1>0. ReadAs(f, g, nodes')  BY <1>1, ReadFrame DEF g
<1>2. /\ g \in FrameType /\ SameCell(f, g)
      /\ g.key.from = f.key.from /\ (g.alone <=> f.alone) /\ g.slot # "key"
      /\ f.slot = "key" => g.slot = "value" /\ g.key.to = nodes'
      /\ f.slot = "value" => g.slot = "end" /\ g.key = f.key
      /\ f.slot = "node" => g.slot = "done" /\ g.key = f.key
  BY <1>0 DEF ReadAs
<1>3. KeyHeld(g, Live')
  <2>1. CASE f.slot = "key"  BY <1>2, <2>1 DEF KeyHeld
  <2>2. CASE f.slot = "value"  BY <1>2, <2>2 DEF KeyHeld, Grown
  <2>3. CASE f.slot = "node"  BY <1>2, <2>3 DEF KeyHeld
  <2> QED  BY <2>1, <2>2, <2>3 DEF Waits
<1>4. Numbered(g, nodes')
  <2>1. f.first \in Nat /\ f.id \in Nat /\ f.key.from \in Nat /\ f.key.to \in Nat  BY DEF FrameType
  <2>2. g.first <= nodes' /\ g.id <= nodes'  BY <1>1, <1>2, <2>1 DEF SameCell, Numbered
  <2>3. g.key.to <= nodes'
    <3>1. g.key.to = nodes' \/ g.key.to = f.key.to  BY <1>2 DEF Waits
    <3> QED  BY <1>1, <2>1, <3>1 DEF Numbered
  <2>4. ASSUME InEntry(g)
        PROVE  /\ IsCollection(g)
               /\ g.id <= g.key.from /\ g.first <= g.key.from /\ g.key.from <= nodes'
    <3>1. InEntry(f)  BY <1>2, <2>4 DEF InEntry, Waits
    <3>2. /\ IsCollection(f) /\ f.id <= f.key.from /\ f.first <= f.key.from
          /\ f.key.from <= nodes
      BY <3>1 DEF Numbered
    <3> QED  BY <1>1, <1>2, <2>1, <3>2 DEF SameCell, IsCollection
  <2> QED  BY <2>2, <2>3, <2>4 DEF Numbered
<1> QED  BY <1>3, <1>4 DEF g

-----------------------------------------------------------------------------
(* Each step keeps the cells of what is still read. *)

LEMMA Around ==
    ASSUME IInv, CInv
    PROVE  /\ Numbered(Top, nodes) /\ KeyHeld(Top, Live) /\ Declares(Top)
           /\ Reading /\ Top.slot = "key" => Top.key.from = nodes
           /\ Len(frames) > 1 =>
                 /\ Numbered(Under, nodes) /\ KeyHeld(Under, Live) /\ Declares(Under)
                 /\ ReadsKey(Under, Top) /\ Before(Under, Top) /\ Held(Len(frames))
<1> PICK n \in Nat : n = Len(frames)  BY IInvShape
<1>1. /\ Top = frames[n] /\ n > 0 /\ frames \in Seq(FrameType) /\ FramesCells
      /\ n > 1 => Under = frames[n-1]
  BY IInvShape DEF Shape, CInv
<1>2. n \in DOMAIN frames  BY <1>1
<1>3. Numbered(frames[n], nodes) /\ Held(n) /\ Declares(frames[n])  BY <1>1, <1>2 DEF FramesCells
<1>4. KeyHeld(frames[n], Live)  BY <1>3 DEF Held
<1>5. ASSUME n > 1
      PROVE  /\ Numbered(frames[n-1], nodes) /\ KeyHeld(frames[n-1], Live)
             /\ Declares(frames[n-1])
             /\ ReadsKey(frames[n-1], frames[n]) /\ Before(frames[n-1], frames[n])
  <2>1. n-1 \in DOMAIN frames /\ n-1 \in 1..Len(frames)-1 /\ (n-1)+1 = n /\ n-1 \in 1..n-1
    BY <1>1, <1>5
  <2>2. Numbered(frames[n-1], nodes) /\ Held(n-1) /\ Declares(frames[n-1])
    BY <1>1, <2>1 DEF FramesCells
  <2>3. ReadsKey(frames[n-1], frames[(n-1)+1])  BY <1>1, <2>1 DEF FramesCells
  <2>4. Before(frames[n-1], frames[n])  BY <1>1, <1>2, <2>1 DEF FramesCells
  <2> QED  BY <2>1, <2>2, <2>3, <2>4 DEF Held
<1> QED  BY <1>1, <1>3, <1>4, <1>5 DEF FramesCells

LEMMA UnchangedCells ==
    ASSUME IInv, CInv, frames' = frames, walk'.keeping <=> walk.keeping, nodes' = nodes,
           arena' = arena, decls' = decls, Reading' => Reading
    PROVE  CInv'
<1>1. Shape /\ Top \in FrameType /\ Top = frames[Len(frames)]  BY IInvShape
<1>2. Grown /\ Grew(arena, arena') /\ DeclsStand /\ DeclsKept  BY <1>1, SameData, SameDecls
<1>3. frames' = WithTop(Top)  BY <1>1 DEF WithTop, Shape
<1>4. SameCell(Top, Top)  BY DEF SameCell
<1>5. Live' = Live  BY DEF Live
<1>6. /\ KeyHeld(Top, Live') /\ Numbered(Top, nodes')
      /\ Reading' /\ Top.slot = "key" => Top.key.from = nodes'
  BY <1>5, Around
<1> QED  BY <1>1, <1>2, <1>3, <1>4, <1>6, StayCells

(* A node that encloses nothing. *)
LEMMA LeafCells ==
    ASSUME IInv, CInv, AtNode, Grown, Grew(arena, arena'), decls' = decls, NEW called,
           frames' = WithTop(Read(Told(Top, called), nodes')), SameLevels(walk', walk)
    PROVE  CInv'
<1>1. Shape /\ Top \in FrameType /\ Waits(Top) /\ Reading  BY IInvShape DEF AtNode, Waits
<1>2. DeclsStand /\ DeclsKept  BY SameDecls
<1> DEFINE g == Read(Told(Top, called), nodes')
<1>3. ReadAs(Top, g, nodes')  BY <1>1, ReadFrame DEF Grown
<1>4. Numbered(Top, nodes) /\ KeyHeld(Top, Live)  BY Around
<1>5. Top.slot = "key" => Built(Top.key.from, nodes') \subseteq Live'
  BY <1>1, Around DEF Grown
<1>6. KeyHeld(g, Live') /\ Numbered(g, nodes')  BY <1>1, <1>4, <1>5, ReadHolds
<1> HIDE DEF g
<1>7. frames' = WithTop(g)  BY DEF g
<1>8. walk'.keeping => walk.keeping  BY DEF SameLevels
<1>9. /\ g \in FrameType /\ SameCell(Top, g) /\ (g.pushed <=> Top.pushed)
      /\ g.key.from = Top.key.from /\ g.slot # "key"
  BY <1>3 DEF ReadAs
<1> QED  BY <1>1, <1>2, <1>6, <1>7, <1>8, <1>9, StayCells

LEMMA ScalarCells ==
    ASSUME IInv, CInv, Scalar
    PROVE  CInv'
<1>1. Shape /\ Top \in FrameType /\ walk \in WalkType  BY IInvShape DEF Shape
<1>2. "scalar" \in Types  BY DescentAssumption
<1>3. Grown /\ Grew(arena, arena') /\ nodes' = nodes + 1  BY <1>1, <1>2, BuildData DEF Scalar
<1>4. SameLevels(walk', walk)  BY <1>1, HandLeafOK DEF Scalar
<1> DEFINE called == Calls(walk) /\ HandsKey(walk)
<1>5. frames' = WithTop(Read(Told(Top, called), nodes'))  BY <1>3 DEF Scalar
<1>6. AtNode /\ decls' = decls  BY DEF Scalar
<1> HIDE DEF called
<1> QED  BY <1>3, <1>4, <1>5, <1>6, LeafCells

LEMMA AliasCells ==
    ASSUME IInv, CInv, NEW name \in Name, Alias(name)
    PROVE  CInv'
<1>1. Shape /\ Top \in FrameType /\ walk \in WalkType  BY IInvShape DEF Shape
<1>2. Grown /\ Grew(arena, arena') /\ nodes' = nodes  BY <1>1, SameData DEF Alias
<1>3. SameLevels(walk', walk)  BY <1>1, HandLeafOK DEF Alias
<1> DEFINE called == Calls(walk) /\ HandsKey(walk)
<1>4. frames' = WithTop(Read(Told(Top, called), nodes'))  BY <1>2 DEF Alias
<1>5. AtNode /\ decls' = decls  BY DEF Alias, Written
<1> HIDE DEF called
<1> QED  BY <1>2, <1>3, <1>4, <1>5, LeafCells

LEMMA RefuseCells ==
    ASSUME IInv, CInv, Refuse \/ RefuseAnchorName
    PROVE  CInv'
BY UnchangedCells DEF Refuse, RefuseAnchorName, TakesAnchor, Written, AtNode, Reading

LEMMA EndDocumentCells ==
    ASSUME IInv, CInv, EndDocument
    PROVE  CInv'
<1> DEFINE g == [Top EXCEPT !.slot = "closed"]
<1>1. Shape /\ Top \in FrameType /\ ~InEntry(Top) /\ Reading
  BY IInvShape DEF EndDocument, InEntry
<1>2. Grown /\ Grew(arena, arena') /\ DeclsStand /\ DeclsKept /\ nodes' = nodes
  BY <1>1, SameData, SameDecls DEF EndDocument
<1>3. frames' = WithTop(g) /\ walk' = walk  BY DEF EndDocument
<1>4. /\ g \in FrameType /\ SameCell(Top, g) /\ ~InEntry(g) /\ g.slot = "closed"
      /\ (g.pushed <=> Top.pushed) /\ g.key = Top.key /\ g.first = Top.first /\ g.id = Top.id
  BY <1>1 DEF FrameType, FrameSlot, SameCell, InEntry
<1> HIDE DEF g
<1>5. KeyHeld(g, Live')  BY <1>4 DEF KeyHeld
<1>6. Numbered(g, nodes')
  <2>1. Numbered(Top, nodes)  BY Around
  <2> QED  BY <1>2, <1>4, <2>1 DEF Numbered
<1> QED  BY <1>1, <1>2, <1>3, <1>4, <1>5, <1>6, StayCells

(* The caller of a node that is called into. *)
LEMMA CallerIs ==
    ASSUME NEW f \in FrameType, NEW called, NEW b \in BOOLEAN
    PROVE  LET g == [Told(f, called) EXCEPT !.alone = b]
           IN  /\ g \in FrameType /\ SameCell(f, g) /\ (g.pushed <=> f.pushed)
               /\ g.key = f.key /\ g.slot = f.slot /\ (g.alone <=> b)
<1> DEFINE t == Told(f, called)
<1>1. /\ t \in FrameType /\ SameCell(f, t) /\ (t.pushed <=> f.pushed) /\ t.key = f.key
      /\ t.slot = f.slot
  BY DEF Told, FrameType, SameCell
<1> HIDE DEF t
<1> DEFINE g == [t EXCEPT !.alone = b]
<1>2. /\ g \in FrameType /\ SameCell(t, g) /\ (g.pushed <=> t.pushed)
      /\ g.key = t.key /\ g.slot = t.slot /\ (g.alone <=> b)
  BY <1>1 DEF FrameType, SameCell
<1> HIDE DEF g
<1>3. SameCell(f, g)  BY <1>1, <1>2 DEF SameCell
<1>4. /\ g \in FrameType /\ SameCell(f, g) /\ (g.pushed <=> f.pushed)
      /\ g.key = f.key /\ g.slot = f.slot /\ (g.alone <=> b)
  BY <1>1, <1>2, <1>3
<1> QED  BY <1>4 DEF g, t

LEMMA CallCells ==
    ASSUME IInv, CInv, Reading, Waits(Top), Grown, Grew(arena, arena'), DeclsStand, DeclsKept,
           NEW frame \in FrameType, ~frame.pushed, ~InEntry(frame), frame.key.to = 0,
           frame.id = 0 \/ (frame.id = nodes + 1 /\ nodes' = nodes + 1),
           frame.kind = "anchor" => frame.decl \in DOMAIN decls' /\ decls'[frame.decl].from = nodes,
           NEW kind, kind = HandedAs(frame), NEW announced \in BOOLEAN, NEW pinned,
           Call(frame, kind, announced, pinned),
           Top.slot = "value" => ~Top.alone, Top.kind = "quiet" => Under.slot = "key",
           AtKey => IsCollection(frame) \/ frame.inKey \/ frame.kind = "explicit",
           Top.kind = "explicit" => frame.inKey
    PROVE  CInv'
<1>1. /\ Shape /\ Top \in FrameType /\ walk \in WalkType /\ nodes \in Nat /\ SkipMatches
      /\ frames \in Seq(FrameType)
  BY IInvShape DEF Shape, Levels
<1>2. PICK answer \in OnEnter(walk) :
          LET takes == Calls(walk) /\ answer \in {"nil", "keep"}
              caller == [Told(Top, Calls(walk)) EXCEPT
                            !.alone = AtKey /\ IsCollection(frame) /\ ~frame.inKey]
          IN  /\ walk' = Enter(walk, kind, announced, AtKey, answer)
              /\ frames' = IF answer = "stop" THEN WithTop(caller)
                           ELSE Append(WithTop(caller),
                                       [frame EXCEPT !.first = nodes, !.entered = takes])
  BY DEF Call
<1> DEFINE takes == Calls(walk) /\ answer \in {"nil", "keep"}
           alone == AtKey /\ IsCollection(frame) /\ ~frame.inKey
           g == [Told(Top, Calls(walk)) EXCEPT !.alone = alone]
           f == [frame EXCEPT !.first = nodes, !.entered = takes]
<1>3. /\ g \in FrameType /\ SameCell(Top, g) /\ (g.pushed <=> Top.pushed)
      /\ g.key = Top.key /\ g.slot = Top.slot /\ (g.alone <=> alone)
  <2>1. alone \in BOOLEAN  BY DEF AtKey, IsCollection
  <2> HIDE DEF alone
  <2> QED  BY <1>1, <2>1, CallerIs
<1>4. EntersAs(walk', walk, kind, answer)
  <2>1. walk.skip = 0 => ~walk.keeping  BY <1>1, NoneDeclined
  <2>2. kind \in FrameKind \cup {"key"}  BY DEF HandedAs, FrameType
  <2>3. AtKey \in BOOLEAN  BY DEF AtKey
  <2> QED  BY <1>1, <1>2, <2>1, <2>2, <2>3, EnterOK
<1>5. /\ f \in FrameType /\ ~f.pushed /\ ~InEntry(f) /\ f.first = nodes /\ f.key = frame.key
      /\ f.kind = frame.kind /\ f.id = frame.id /\ f.decl = frame.decl
      /\ (f.inKey <=> frame.inKey) /\ (f.entered <=> takes)
  <2>1. takes \in BOOLEAN  BY DEF Calls, Done
  <2> HIDE DEF takes
  <2> QED  BY <1>1, <2>1 DEF FrameType, InEntry
<1>6. \/ answer = "stop" /\ frames' = WithTop(g)
      \/ answer # "stop" /\ frames' = Append(WithTop(g), f)
  BY <1>2
<1>7. alone <=> AtKey /\ IsCollection(frame) /\ ~frame.inKey  OBVIOUS
<1>8. takes <=> Calls(walk) /\ answer \in {"nil", "keep"}  OBVIOUS
<1> HIDE DEF alone, g, f, takes
<1>9. Numbered(g, nodes') /\ g.key.to <= nodes
  <2>1. Numbered(Top, nodes)  BY Around
  <2>2. Top.first \in Nat /\ Top.id \in Nat /\ Top.key.from \in Nat /\ Top.key.to \in Nat
    BY <1>1 DEF FrameType
  <2>3. nodes' \in Nat /\ nodes <= nodes'  BY DEF Grown
  <2>4. InEntry(g) <=> InEntry(Top)  BY <1>3 DEF InEntry
  <2>5. IsCollection(g) <=> IsCollection(Top)  BY <1>3 DEF SameCell, IsCollection
  <2> QED  BY <1>1, <1>3, <2>1, <2>2, <2>3, <2>4, <2>5 DEF SameCell, Numbered
<1>10. KeyHeld(g, Live')
  <2>1. KeyHeld(Top, Live)  BY Around
  <2> QED  BY <1>3, <2>1 DEF KeyHeld, Waits, Grown
<1>11. InEntry(Top) => IsCollection(Top)  BY Around DEF Numbered
<1>12. ReadsKey(g, f)
  <2>1. Top.slot = "key" => Top.key.from = nodes  BY Around
  <2>2. g.slot = "key" => AtKey  BY <1>3 DEF AtKey
  <2>3. g.kind = Top.kind  BY <1>3 DEF SameCell
  <2> QED  BY <1>3, <1>5, <1>7, <2>1, <2>2, <2>3 DEF ReadsKey, AtKey
<1>13. Len(frames) > 1 /\ Under.kind = "explicit" => Top.inKey
  <2> SUFFICES ASSUME Len(frames) > 1, Under.kind = "explicit", Top.kind = "quiet" PROVE FALSE
    BY Around DEF ReadsKey
  <2>1. InEntry(Under) /\ Numbered(Under, nodes)  BY Around DEF InEntry
  <2> QED  BY <2>1 DEF Numbered, IsCollection
<1>14. CASE answer = "stop"
  <2>1. walk'.stopped /\ (walk'.keeping => walk.keeping)  BY <1>4, <1>14 DEF EntersAs
  <2>2. ~Reading'  BY <2>1 DEF Reading
  <2>3. frames' = WithTop(g)  BY <1>6, <1>14
  <2> QED  BY <1>3, <1>9, <1>10, <2>1, <2>2, <2>3, StayCells
<1>15. CASE answer # "stop"
  <2>1. frames' = Append(WithTop(g), f)  BY <1>6, <1>15
  <2>2. f.entered \/ (walk'.keeping => walk.keeping)
    BY <1>4, <1>5, <1>8, <1>15 DEF EntersAs
  <2>3. /\ f.id = 0 \/ (f.id = nodes + 1 /\ nodes' = nodes + 1)
        /\ f.kind = "anchor" => f.decl \in DOMAIN decls' /\ decls'[f.decl].from = nodes
        /\ f.key.to = 0 /\ g.key.from = Top.key.from
    BY <1>3, <1>5
  <2> QED  BY <1>3, <1>5, <1>9, <1>10, <1>12, <1>13, <2>1, <2>2, <2>3, PushCells
<1> QED  BY <1>14, <1>15

LEMMA OpenCollectionCells ==
    ASSUME IInv, CInv, NEW kind \in {"mapping", "sequence"}, OpenCollection(kind)
    PROVE  CInv'
<1>1. Shape /\ nodes \in Nat  BY IInvShape DEF Shape
<1>2. "collection" \in Types  BY DescentAssumption
<1>3. Grown /\ Grew(arena, arena') /\ nodes' = nodes + 1
  BY <1>1, <1>2, BuildData DEF OpenCollection
<1>4. DeclsStand /\ DeclsKept  BY SameDecls DEF OpenCollection
<1>5. PICK alone \in IF AtKey THEN BOOLEAN ELSE {FALSE} :
          Call([Frame EXCEPT !.kind = kind, !.slot = "between", !.id = nodes + 1,
                             !.inKey = CountsKey /\ ~alone], kind, FALSE, 0)
  BY DEF OpenCollection
<1> DEFINE inKey == CountsKey /\ ~alone id == nodes + 1
           f == [Frame EXCEPT !.kind = kind, !.slot = "between", !.id = id, !.inKey = inKey]
<1>6. inKey \in BOOLEAN /\ id \in Nat  BY <1>1 DEF CountsKey, AtKey
<1>7. /\ Frame \in FrameType /\ ~Frame.pushed /\ Frame.key.to = 0
  BY DEF Frame, FrameType, FrameKind, FrameSlot
<1>8. Call(f, kind, FALSE, 0)  BY <1>5
<1>9. inKey <=> CountsKey /\ ~alone  OBVIOUS
<1> HIDE DEF inKey, id
<1>10. /\ f \in FrameType /\ ~f.pushed /\ f.slot = "between" /\ f.key.to = 0 /\ f.kind = kind
       /\ f.id = id /\ (f.inKey <=> inKey)
  BY <1>6, <1>7 DEF FrameType, FrameKind, FrameSlot
<1> HIDE DEF f
<1>11. ~InEntry(f) /\ kind = HandedAs(f) /\ IsCollection(f) /\ f.kind # "anchor"
  BY <1>10 DEF InEntry, HandedAs, IsCollection
<1>12. /\ Reading /\ Waits(Top) /\ Top.kind # "quiet" /\ (Top.slot = "value" => ~Top.alone)
  BY DEF OpenCollection, Written, AtNode, Waits
<1>13. f.id = nodes + 1  BY <1>10 DEF id
<1>14. Top.kind = "explicit" => f.inKey
  <2>1. InEntry(Top) => IsCollection(Top)  BY Around DEF Numbered
  <2>2. Top.kind = "explicit" => ~AtKey  BY <2>1 DEF InEntry, IsCollection, AtKey
  <2> QED  BY <1>5, <1>9, <1>10, <2>2 DEF CountsKey
<1> QED  BY <1>3, <1>4, <1>8, <1>10, <1>11, <1>12, <1>13, <1>14, CallCells

LEMMA OpenAnchorCells ==
    ASSUME IInv, CInv, NEW name \in Name, OpenAnchor(name)
    PROVE  CInv'
<1>1. Shape /\ nodes \in Nat /\ decls \in Seq(DeclType)  BY IInvShape DEF Shape
<1>2. Grown /\ Grew(arena, arena') /\ nodes' = nodes  BY <1>1, SameData DEF OpenAnchor
<1> DEFINE e == \E i \in DOMAIN table.open : table.open[i].name = name
           new == [name |-> name, nested |-> e, tagged |-> FALSE, from |-> nodes, to |-> nodes]
           d == Len(decls) + 1
           f == [Frame EXCEPT !.kind = "anchor", !.decl = d, !.inKey = CountsKey]
<1>3. decls' = Append(decls, new)  BY DEF OpenAnchor
<1>4. new.from = nodes /\ new.to = nodes  OBVIOUS
<1> HIDE DEF new
<1>5. /\ DOMAIN decls' = 1..d /\ d \in DOMAIN decls' /\ d \in Nat /\ DOMAIN decls = 1..d-1
      /\ \A i \in DOMAIN decls : i \in DOMAIN decls' /\ decls'[i] = decls[i]
      /\ decls'[d] = new
  BY <1>1, <1>3
<1>6. Call(f, "anchor", FALSE, 1)  BY DEF OpenAnchor
<1> HIDE DEF d
<1>7. DeclsStand  BY <1>5 DEF DeclsStand
<1>8. DeclsKept
  <2> SUFFICES ASSUME NEW i \in DOMAIN decls'
               PROVE  \/ Named(i)' = {}
                      \/ /\ i \in DOMAIN decls
                         /\ decls'[i].from = decls[i].from /\ decls'[i].to = decls[i].to
    BY DEF DeclsKept
  <2>1. CASE i = d
    <3>1. Named(i)' = Built(nodes, nodes)  BY <1>4, <1>5, <2>1 DEF Named
    <3> QED  BY <1>1, <3>1 DEF Built
  <2>2. CASE i # d
    <3>1. i \in DOMAIN decls  BY <1>5, <2>2
    <3> QED  BY <1>5, <3>1
  <2> QED  BY <2>1, <2>2
<1>9. /\ f \in FrameType /\ ~f.pushed /\ ~InEntry(f) /\ f.key.to = 0 /\ f.id = 0
      /\ f.kind = "anchor" /\ f.decl = d /\ (f.inKey <=> CountsKey)
  <2>1. CountsKey \in BOOLEAN  BY DEF CountsKey, AtKey
  <2> QED  BY <1>5, <2>1 DEF Frame, FrameType, FrameKind, FrameSlot, InEntry
<1>10. /\ Reading /\ Waits(Top) /\ (Top.slot = "value" => ~Top.alone)
       /\ (Top.kind = "quiet" => Under.slot = "key")
  BY DEF OpenAnchor, TakesAnchor, Written, AtNode, Waits
<1> HIDE DEF f
<1>11. HandedAs(f) = "anchor"  BY <1>9 DEF HandedAs
<1>12. f.decl \in DOMAIN decls' /\ decls'[f.decl].from = nodes  BY <1>4, <1>5, <1>9
<1>13. (AtKey => f.inKey) /\ (Top.kind = "explicit" => f.inKey)  BY <1>9 DEF CountsKey
<1> QED  BY <1>2, <1>6, <1>7, <1>8, <1>9, <1>10, <1>11, <1>12, <1>13, CallCells

LEMMA OpenTagCells ==
    ASSUME IInv, CInv, OpenTag
    PROVE  CInv'
<1>1. Shape  BY IInvShape
<1>2. Grown /\ Grew(arena, arena') /\ DeclsStand /\ DeclsKept
  BY <1>1, SameData, SameDecls DEF OpenTag
<1> DEFINE f == [Frame EXCEPT !.kind = "tag", !.inKey = CountsKey]
<1>3. /\ f \in FrameType /\ ~f.pushed /\ ~InEntry(f) /\ f.key.to = 0 /\ f.id = 0
      /\ f.kind = "tag" /\ (f.inKey <=> CountsKey)
  <2>1. CountsKey \in BOOLEAN  BY DEF CountsKey, AtKey
  <2> QED  BY <2>1 DEF Frame, FrameType, FrameKind, FrameSlot, InEntry
<1>4. Call(f, "tag", FALSE, 0)  BY DEF OpenTag
<1>5. /\ Reading /\ Waits(Top) /\ (Top.slot = "value" => ~Top.alone) /\ Top.kind # "quiet"
  BY DEF OpenTag, Written, AtNode, Waits
<1> HIDE DEF f
<1>6. HandedAs(f) = "tag"  BY <1>3 DEF HandedAs
<1>7. (AtKey => f.inKey) /\ (Top.kind = "explicit" => f.inKey)  BY <1>3 DEF CountsKey
<1> QED  BY <1>2, <1>3, <1>4, <1>5, <1>6, <1>7, CallCells

LEMMA OpenExplicitKeyCells ==
    ASSUME IInv, CInv, OpenExplicitKey
    PROVE  CInv'
<1>1. Shape  BY IInvShape
<1>2. Grown /\ Grew(arena, arena') /\ DeclsStand /\ DeclsKept
  BY <1>1, SameData, SameDecls DEF OpenExplicitKey
<1> DEFINE f == [Frame EXCEPT !.kind = "explicit"]
<1>3. /\ f \in FrameType /\ ~f.pushed /\ ~InEntry(f) /\ f.key.to = 0 /\ f.id = 0
      /\ f.kind = "explicit"
  BY DEF Frame, FrameType, FrameKind, FrameSlot, InEntry
<1>4. Call(f, "key", TRUE, 0)  BY DEF OpenExplicitKey
<1>5. Reading /\ Waits(Top) /\ Top.slot = "key"  BY DEF OpenExplicitKey, AtKey, Waits
<1>6. Top.kind # "quiet" /\ Top.kind # "explicit"
  <2>1. InEntry(Top) => IsCollection(Top)  BY Around DEF Numbered
  <2> QED  BY <1>5, <2>1 DEF InEntry, IsCollection
<1> HIDE DEF f
<1>7. HandedAs(f) = "key"  BY <1>3 DEF HandedAs
<1> QED  BY <1>2, <1>3, <1>4, <1>5, <1>6, <1>7, CallCells

LEMMA OpenQuietCells ==
    ASSUME IInv, CInv, OpenQuiet
    PROVE  CInv'
<1>1. /\ Shape /\ Top \in FrameType /\ walk \in WalkType /\ nodes \in Nat
      /\ frames \in Seq(FrameType)
  BY IInvShape DEF Shape
<1>2. Grown /\ Grew(arena, arena') /\ DeclsStand /\ DeclsKept /\ nodes' = nodes
  BY <1>1, SameData, SameDecls DEF OpenQuiet
<1> DEFINE g == [Top EXCEPT !.alone = AtKey] f == [Frame EXCEPT !.kind = "quiet", !.first = nodes]
<1>3. /\ f \in FrameType /\ ~f.pushed /\ ~InEntry(f) /\ f.key.to = 0 /\ f.id = 0
      /\ f.kind = "quiet" /\ f.first = nodes
  BY <1>1 DEF Frame, FrameType, FrameKind, FrameSlot, InEntry
<1>4. /\ g \in FrameType /\ SameCell(Top, g) /\ (g.pushed <=> Top.pushed)
      /\ g.key = Top.key /\ g.slot = Top.slot /\ (g.alone <=> AtKey)
  <2>1. AtKey \in BOOLEAN  BY DEF AtKey
  <2> QED  BY <1>1, <2>1 DEF FrameType, SameCell
<1>5. frames' = Append(WithTop(g), f)  BY DEF OpenQuiet
<1>6. walk'.keeping <=> walk.keeping
  <2>1. walk' = [walk EXCEPT !.quiet = @ + 1]  BY DEF OpenQuiet, Quiet
  <2> QED  BY <1>1, <2>1 DEF WalkType
<1>7. Reading /\ Waits(Top) /\ (Top.slot = "value" => ~Top.alone) /\ Top.kind # "quiet"
  BY DEF OpenQuiet, Written, AtNode, Waits
<1> HIDE DEF f, g
<1>8. Numbered(g, nodes') /\ g.key.to <= nodes
  <2>1. Numbered(Top, nodes)  BY Around
  <2>2. InEntry(g) <=> InEntry(Top)  BY <1>4 DEF InEntry
  <2>3. IsCollection(g) <=> IsCollection(Top)  BY <1>4 DEF SameCell, IsCollection
  <2> QED  BY <1>2, <1>4, <2>1, <2>2, <2>3 DEF SameCell, Numbered
<1>9. KeyHeld(g, Live')
  <2>1. KeyHeld(Top, Live)  BY Around
  <2> QED  BY <1>2, <1>4, <1>7, <2>1 DEF KeyHeld, Waits, Grown
<1>10. ReadsKey(g, f)
  <2>1. Top.slot = "key" => Top.key.from = nodes  BY <1>7, Around
  <2> QED  BY <1>3, <1>4, <2>1 DEF ReadsKey, AtKey
<1>11. Len(frames) > 1 /\ Under.kind = "explicit" => Top.inKey  BY <1>7, Around DEF ReadsKey
<1>12. f.id = 0 \/ (f.id = nodes + 1 /\ nodes' = nodes + 1)  BY <1>3
<1>13. f.kind = "anchor" => f.decl \in DOMAIN decls' /\ decls'[f.decl].from = nodes  BY <1>3
<1>14. g.key.from = Top.key.from  BY <1>4
<1> QED  BY <1>1, <1>2, <1>3, <1>4, <1>5, <1>6, <1>7, <1>8, <1>9, <1>10, <1>11, <1>12, <1>13,
            <1>14, PushCells

(* markNodes: the mark stands above all that is in use. *)
LEMMA BeginEntryCells ==
    ASSUME IInv, CInv, BeginEntry
    PROVE  CInv'
<1> PICK n \in Nat : n = Len(frames)  BY IInvShape
<1>1. /\ Shape /\ MarksMatch /\ Top = frames[n] /\ Top \in FrameType /\ walk \in WalkType
      /\ nodes \in Nat /\ n > 0 /\ frames \in Seq(FrameType) /\ DOMAIN frames = 1..n
      /\ ArenaOK(arena)
  BY IInvShape DEF Shape
<1>2. Reading /\ IsCollection(Top) /\ Top.slot = "between"  BY DEF BeginEntry
<1> DEFINE free == KeepsNothing
           slot == IF Top.kind = "mapping" THEN "key" ELSE "value"
           k == [Top.key EXCEPT !.from = nodes]
           g == [Top EXCEPT !.slot = slot, !.pushed = free, !.told = 0, !.key = k]
<1>3. frames' = WithTop(g)  BY DEF BeginEntry
<1>4. k \in [from : Nat, to : Nat] /\ k.from = nodes /\ k.to = Top.key.to
  BY <1>1 DEF FrameType
<1>5. slot \in {"key", "value"} /\ free \in BOOLEAN  BY DEF KeepsNothing
<1>6. arena' = IF free THEN Push(arena) ELSE arena  BY DEF BeginEntry
<1> HIDE DEF k, slot, free
<1>7. /\ g \in FrameType /\ SameCell(Top, g) /\ (g.pushed <=> free) /\ g.key.from = nodes
      /\ g.key.to = Top.key.to /\ g.slot \in {"key", "value"}
  BY <1>1, <1>4, <1>5 DEF FrameType, FrameSlot, SameCell
<1> HIDE DEF g
<1>8. walk'.keeping => walk.keeping
  BY <1>1, MarkKeyOK DEF BeginEntry, SameLevels
<1>9. nodes' = nodes /\ decls' = decls /\ refused' = refused  BY DEF BeginEntry
<1>10. Numbered(Top, nodes)  BY Around
<1>11. Numbered(g, nodes')
  <2>1. IsCollection(g)  BY <1>2, <1>7 DEF SameCell, IsCollection
  <2> QED  BY <1>1, <1>7, <1>9, <1>10, <2>1 DEF SameCell, Numbered
<1>12. KeyHeld(g, Live')
  <2>1. Built(g.key.from, g.key.to) = {}
    <3>1. Top.key.to <= nodes /\ Top.key.to \in Nat  BY <1>1, <1>10 DEF Numbered, FrameType
    <3> QED  BY <1>1, <1>7, <3>1 DEF Built
  <2> QED  BY <2>1 DEF KeyHeld
<1>13. ~Top.pushed
  <2>1. ~InEntry(Top)  BY <1>2 DEF InEntry
  <2> QED  BY <2>1, <1>1 DEF MarksMatch
<1>14. DeclsStand /\ DeclsKept  BY <1>9, SameDecls
<1>15. CASE ~free
  <2>1. Grown /\ Grew(arena, arena')  BY <1>1, <1>6, <1>9, <1>15, SameData
  <2>2. ~g.pushed /\ Reading  BY <1>2, <1>7, <1>15
  <2> QED  BY <1>3, <1>7, <1>8, <1>9, <1>11, <1>12, <1>13, <1>14, <2>1, <2>2, StayCells
<1>16. CASE free
  <2> DEFINE l == Len(arena.marks)
  <2>1. arena' = Push(arena)  BY <1>6, <1>16
  <2>2. /\ Live' = Live
        /\ \A j \in 1..l : Below(arena', arena'.marks[j]) = Below(arena, arena.marks[j])
        /\ Below(arena', arena'.marks[l+1]) = Live
    BY <1>1, <2>1, PushNodes DEF Live
  <2>3. Grown
    <3>1. Built(nodes, nodes) = {} /\ nodes <= nodes  BY <1>1 DEF Built
    <3> QED  BY <1>1, <1>9, <2>2, <3>1 DEF Grown
  <2>4. /\ FramesCells' /\ \A i \in 1..n-1 : frames'[i] = frames[i]
        /\ frames'[n] = g /\ DOMAIN frames' = 1..n
    BY <1>1, <1>3, <1>7, <1>8, <1>9, <1>11, <1>12, <1>14, <2>3, StayHolds
  <2>5. DeclsHeld'  BY <1>14, <2>3, StepDecls DEF CInv
  <2>6. Marked \in SUBSET (1..n-1)
    <3>1. n \notin Marked  BY <1>1, <1>13 DEF Marked
    <3> QED  BY <1>1, <3>1 DEF Marked
  <2>7. Marked' = Marked \cup {n}
    <3>1. \A i \in 1..n : i = n \/ i \in 1..n-1  BY <1>1
    <3> QED  BY <1>1, <1>7, <1>16, <2>4, <3>1 DEF Marked
  <2>8. /\ \A i \in Marked : Place(i, Marked') = Place(i, Marked)
        /\ Place(n, Marked') = l + 1 /\ l \in Nat
        /\ \A i \in Marked : Place(i, Marked) \in 1..l
    <3>1. PICK m \in Nat : n = m + 1  BY <1>1
    <3>2. Marked \in SUBSET (1..m) /\ Marked' = Marked \cup {m+1}  BY <2>6, <2>7, <3>1
    <3>3. /\ \A i \in Marked : Place(i, Marked \cup {m+1}) = Place(i, Marked)
          /\ Place(m+1, Marked \cup {m+1}) = Cardinality(Marked) + 1
      BY <3>2, Grows
    <3>4. Cardinality(Marked) \in Nat /\ \A i \in Marked : Place(i, Marked) \in 1..Cardinality(Marked)
      BY <3>2, PlaceBounds
    <3>5. l = Cardinality(Marked)  BY <1>1, <1>2 DEF MarksMatch
    <3> HIDE DEF l
    <3> QED  BY <3>1, <3>2, <3>3, <3>4, <3>5
  <2> HIDE DEF l
  <2>9. \A i \in Marked' : MarkOf(i)' = arena'.marks[Place(i, Marked')]  BY DEF MarkOf, Place
  <2>10. ASSUME NEW d \in DOMAIN decls' PROVE Named(d)' = Named(d) /\ d \in DOMAIN decls
    BY <1>9 DEF Named
  <2>11. Spares(n)'
    <3>1. MarkOf(n)' = arena'.marks[l+1]  BY <2>7, <2>8, <2>9
    <3>2. Below(arena', MarkOf(n)') = Live  BY <2>2, <3>1
    <3>3. \A d \in DOMAIN decls' : Named(d)' \subseteq Live  BY <2>10 DEF CInv, DeclsHeld
    <3> QED  BY <2>2, <3>2, <3>3 DEF Spares
  <2>12. ASSUME NEW i \in Marked PROVE Spares(i)'
    <3>1. MarkOf(i)' = arena'.marks[Place(i, Marked)]  BY <2>7, <2>8, <2>9
    <3>2. Below(arena', MarkOf(i)') = Below(arena, MarkOf(i))  BY <2>2, <2>8, <3>1 DEF MarkOf
    <3>3. Spares(i)  BY <1>2 DEF CInv, MarksHold
    <3>4. frames'[i] = frames[i]  BY <2>4, <2>6
    <3> QED  BY <2>2, <2>10, <3>2, <3>3, <3>4 DEF Spares
  <2>13. MarksHold'  BY <2>7, <2>11, <2>12 DEF MarksHold
  <2> QED  BY <2>4, <2>5, <2>13 DEF CInv
<1> QED  BY <1>15, <1>16

(* The calls after a rewind to the mark of the innermost one's entry.      *)
LEMMA RewindCells ==
    ASSUME IInv, CInv, Reading, InEntry(Top), FreeAt(Len(frames)), Top.pushed,
           NEW g \in FrameType, frames' = WithTop(g), SameCell(Top, g), ~InEntry(g), g.key.to = 0,
           walk' = walk, nodes' \in Nat, nodes <= nodes', decls' = decls,
           Below(arena, MarkOf(Len(frames))) \subseteq Live'
    PROVE  FramesCells' /\ DeclsHeld'
<1> PICK n \in Nat : n = Len(frames)  BY IInvShape
<1>1. /\ Top = frames[n] /\ n > 0 /\ frames \in Seq(FrameType) /\ DOMAIN frames = 1..n
      /\ FramesCells /\ nodes \in Nat /\ Top \in FrameType
  BY IInvShape DEF Shape, CInv
<1>2. n \in Marked  BY <1>1 DEF Marked
<1>3. Spares(n)  BY <1>2 DEF CInv, MarksHold
<1>4. ASSUME NEW x \in Live, x <= Top.key.from PROVE x \in Live'  BY <1>1, <1>3, <1>4 DEF Spares
<1>5. /\ frames' \in Seq(FrameType) /\ Len(frames') = n /\ frames'[n] = g /\ DOMAIN frames' = 1..n
      /\ \A i \in 1..n-1 : frames'[i] = frames[i]
  BY <1>1, StayExact
<1>6. \A i \in 1..n : SameCell(frames[i], frames'[i])
  <2> TAKE i \in 1..n
  <2>1. i = n \/ i \in 1..n-1  BY <1>1
  <2> QED  BY <1>1, <1>5, <2>1 DEF SameCell
<1>7. Numbered(Top, nodes) /\ IsCollection(Top)  BY Around DEF Numbered
<1>8. \A f \in FrameType : f.first \in Nat /\ f.id \in Nat /\ f.key.from \in Nat /\ f.key.to \in Nat
  BY DEF FrameType
<1>9. ASSUME NEW i \in 1..n PROVE ~frames[i].inKey /\ frames[i].kind \notin {"anchor", "explicit"}
  <2>1. ~frames[i].inKey /\ frames[i].kind # "anchor"  BY DEF FreeAt
  <2>2. ASSUME frames[i].kind = "explicit" PROVE FALSE
    <3>1. i # n  BY <1>1, <1>7, <2>2 DEF IsCollection
    <3>2. i+1 \in 1..n /\ i \in 1..n-1  BY <3>1
    <3>3. ~frames[i+1].inKey  BY <3>2 DEF FreeAt
    <3>4. frames[i+1].kind = "quiet"
      <4>1. ReadsKey(frames[i], frames[i+1])  BY <1>1, <3>2 DEF FramesCells
      <4> QED  BY <2>2, <3>3, <4>1 DEF ReadsKey
    <3>5. CASE i = n-1  BY <1>1, <1>7, <3>4, <3>5 DEF IsCollection
    <3>6. CASE i # n-1
      <4>1. i \in 1..n-2  BY <3>2, <3>6
      <4> QED  BY <1>1, <2>2, <3>3, <4>1 DEF FramesCells
    <3> QED  BY <3>5, <3>6
  <2> QED  BY <2>1, <2>2
<1>10. ~walk.keeping
  <2>1. Entered \subseteq 1..n  BY <1>1 DEF Entered
  <2>2. \A j \in 1..n : j <= n  OBVIOUS
  <2> QED  BY <1>1, <2>1, <2>2 DEF FreeAt, KeptAt
<1>11. ASSUME NEW i \in 1..n
       PROVE  Numbered(frames[i], nodes)' /\ Held(i)' /\ Declares(frames[i])'
  <2>1. Numbered(frames[i], nodes) /\ Held(i) /\ Declares(frames[i])  BY <1>1 DEF FramesCells
  <2>2. frames[i] \in FrameType  BY <1>1
  <2>3. frames[i].id <= Top.key.from
    <3>1. CASE i = n  BY <1>1, <1>7, <3>1 DEF Numbered
    <3>2. CASE i # n
      <4>1. Before(frames[i], frames[n])  BY <1>1, <3>2 DEF FramesCells
      <4>2. Top.first <= Top.key.from  BY <1>7 DEF Numbered
      <4> QED  BY <1>1, <1>8, <2>2, <4>1, <4>2 DEF Before
    <3> QED  BY <3>1, <3>2
  <2>4. frames'[i].id # 0 => frames'[i].id \in Live'
    BY <1>4, <1>6, <2>1, <2>3 DEF Held, SameCell
  <2>5. ~Whole(i)'
    <3>1. ~walk'.keeping  BY <1>10
    <3> QED  BY <1>6, <1>9, <3>1 DEF Whole, SameCell, KeptAt
  <2>6. Declares(frames[i])'  BY <1>6, <2>1 DEF Declares, SameCell
  <2>7. CASE i = n
    <3>1. KeyHeld(frames[i], Live)'  BY <1>5, <2>7 DEF KeyHeld, InEntry
    <3>2. Numbered(frames[i], nodes)'
      <4>1. frames[i].first <= nodes' /\ frames[i].id <= nodes'
        BY <1>1, <1>8, <2>1, <2>2 DEF Numbered
      <4> QED  BY <1>5, <1>6, <2>7, <4>1 DEF Numbered, SameCell
    <3> QED  BY <2>4, <2>5, <2>6, <3>1, <3>2 DEF Held
  <2>8. CASE i # n
    <3>1. frames'[i] = frames[i]  BY <1>5, <2>8
    <3>2. KeyHeld(frames[i], Live)'
      <4>1. Before(frames[i], frames[n])  BY <1>1, <2>8 DEF FramesCells
      <4>2. Top.first <= Top.key.from  BY <1>7 DEF Numbered
      <4>3. \A x \in Built(frames[i].key.from, frames[i].key.to) : x <= Top.key.from
        BY <1>1, <1>8, <2>2, <4>1, <4>2 DEF Built, Before
      <4>4. KeyHeld(frames[i], Live)  BY <2>1 DEF Held
      <4> QED  BY <1>4, <3>1, <4>3, <4>4 DEF KeyHeld
    <3>3. Numbered(frames[i], nodes)'
      BY <1>1, <1>8, <2>1, <2>2, <3>1 DEF Numbered
    <3> QED  BY <2>4, <2>5, <2>6, <3>2, <3>3 DEF Held
  <2> QED  BY <2>7, <2>8
<1>12. \A j \in DOMAIN frames' : \A i \in 1..j-1 : Before(frames'[i], frames'[j])
  <2> TAKE j \in DOMAIN frames'
  <2> TAKE i \in 1..j-1
  <2>1. j \in 1..n /\ i \in 1..n-1  BY <1>5
  <2>2. Before(frames[i], frames[j])  BY <1>1, <2>1 DEF FramesCells
  <2> QED  BY <1>5, <1>6, <2>1, <2>2 DEF Before, SameCell
<1>13. \A i \in 1..n-1 : ReadsKey(frames'[i], frames'[i+1])
  <2> TAKE i \in 1..n-1
  <2>1. i+1 \in 1..n /\ ReadsKey(frames[i], frames[i+1])  BY <1>1 DEF FramesCells
  <2> QED  BY <1>5, <1>6, <2>1 DEF ReadsKey, SameCell
<1>14. \A i \in 1..n-2 : frames'[i].kind = "explicit" => frames'[i+1].inKey
  <2> TAKE i \in 1..n-2
  <2>1. i \in 1..n-1 /\ i \in 1..n  BY <1>1
  <2> QED  BY <1>5, <1>9, <2>1
<1>15. ~(Top'.slot = "key")
  <2>1. Top' = g  BY <1>5 DEF Top, Last
  <2> QED  BY <2>1 DEF InEntry
<1>16. FramesCells'  BY <1>5, <1>11, <1>12, <1>13, <1>14, <1>15 DEF FramesCells
<1>17. DeclsHeld'
  <2> SUFFICES ASSUME NEW d \in DOMAIN decls PROVE Named(d) \subseteq Live'
    BY DEF DeclsHeld, Named
  <2> QED  BY <1>1, <1>3 DEF Spares
<1> QED  BY <1>16, <1>17

(* rewindNodes, and hold of the entry's node before it. *)
LEMMA EndEntryCells ==
    ASSUME IInv, CInv, EndEntry
    PROVE  CInv'
<1> PICK n \in Nat : n = Len(frames)  BY IInvShape
<1>1. /\ Shape /\ MarksMatch /\ Top = frames[n] /\ Top \in FrameType /\ walk \in WalkType
      /\ nodes \in Nat /\ n > 0 /\ frames \in Seq(FrameType) /\ DOMAIN frames = 1..n
      /\ ArenaOK(arena)
  BY IInvShape DEF Shape
<1>2. Reading /\ InEntry(Top)  BY DEF EndEntry, InEntry
<1> DEFINE g == [Top EXCEPT !.slot = "between", !.pushed = FALSE, !.key = Frame.key,
                            !.alone = FALSE, !.told = 0]
           builds == Top.kind = "mapping"
           built == IF builds THEN TakeCell(arena, "entry", nodes + 1) ELSE arena
           free == KeepsNothing
<1>3. /\ g \in FrameType /\ SameCell(Top, g) /\ ~g.pushed /\ ~InEntry(g) /\ g.key.to = 0
  <2>1. Frame.key \in [from : Nat, to : Nat] /\ Frame.key.to = 0  BY DEF Frame
  <2>2. PICK k \in [from : Nat, to : Nat] : k = Frame.key  BY <2>1
  <2>3. PICK f \in FrameType : f = Top  BY <1>1
  <2>4. g = [f EXCEPT !.slot = "between", !.pushed = FALSE, !.key = k, !.alone = FALSE, !.told = 0]
    BY <2>2, <2>3
  <2> HIDE DEF g
  <2>5. /\ g \in FrameType /\ g.slot = "between" /\ ~g.pushed /\ g.key = k
        /\ g.kind = f.kind /\ g.id = f.id /\ g.first = f.first
        /\ g.inKey = f.inKey /\ g.entered = f.entered /\ g.decl = f.decl
    BY <2>4 DEF FrameType, FrameSlot
  <2>6. g.key.to = 0  BY <2>1, <2>2, <2>5
  <2> QED  BY <2>3, <2>5, <2>6 DEF SameCell, InEntry
<1>4. frames' = WithTop(g)  BY DEF EndEntry
<1>5. free <=> FreeAt(n)  BY <1>1, <1>2, KeepsNothingIsFree
<1>6. Top.pushed <=> free  BY <1>1, <1>2, <1>5 DEF MarksMatch
<1>7. /\ arena' = IF free THEN Pop(built) ELSE built
      /\ nodes' = IF builds THEN nodes + 1 ELSE nodes
      /\ walk' = walk /\ decls' = decls /\ (builds => nodes < MaxNodes)
  BY DEF EndEntry
<1>8. ArenaOK(built) /\ built.marks = arena.marks
  <2>1. "entry" \in Types /\ nodes + 1 \in Nat  BY <1>1, DescentAssumption
  <2> QED  BY <1>1, <2>1, TakeCellOK
<1>9. Grew(arena, built) /\ (LiveNodes(built) \subseteq Live \cup Built(nodes, nodes'))
  <2>1. CASE builds
    <3>1. "entry" \in Types /\ nodes + 1 \in Nat  BY <1>1, DescentAssumption
    <3>2. LiveNodes(built) = Live \cup {nodes + 1} /\ Grew(arena, built)
      BY <1>1, <2>1, <3>1, TakeCellNodes DEF Live
    <3>3. nodes + 1 \in Built(nodes, nodes')  BY <1>1, <1>7, <2>1 DEF Built
    <3> QED  BY <3>2, <3>3
  <2>2. CASE ~builds
    <3>1. built = arena  BY <2>2
    <3> HIDE DEF built
    <3> QED  BY <3>1 DEF Grew, Live
  <2> QED  BY <2>1, <2>2
<1>10. nodes' \in Nat /\ nodes <= nodes'  BY <1>1, <1>7
<1>11. CASE ~free
  <2>1. Grown /\ Grew(arena, arena')
    <3>1. CASE builds
      <4>1. Build("entry")  BY <1>7, <1>11, <3>1 DEF Build
      <4>2. "entry" \in Types  BY DescentAssumption
      <4> QED  BY <1>1, <4>1, <4>2, BuildData
    <3>2. CASE ~builds
      <4>1. arena' = arena /\ nodes' = nodes  BY <1>7, <1>11, <3>2
      <4> QED  BY <1>1, <4>1, SameData
    <3> QED  BY <3>1, <3>2
  <2>2. DeclsStand /\ DeclsKept  BY <1>7, SameDecls
  <2> HIDE DEF g
  <2>3. KeyHeld(g, Live')  BY <1>3 DEF KeyHeld, InEntry
  <2>4. Numbered(g, nodes')
    <3>1. Numbered(Top, nodes) /\ Top.first \in Nat /\ Top.id \in Nat
      BY <1>1, Around DEF FrameType
    <3> QED  BY <1>1, <1>3, <1>10, <3>1 DEF SameCell, Numbered
  <2>5. ~Top.pushed /\ g.slot # "key"  BY <1>3, <1>6, <1>11 DEF InEntry
  <2> QED  BY <1>2, <1>3, <1>4, <1>7, <2>1, <2>2, <2>3, <2>4, <2>5, StayCells
<1>12. CASE free
  <2> DEFINE l == Len(arena.marks)
  <2>1. arena' = Pop(built)  BY <1>7, <1>12
  <2>2. n \in Marked /\ Marked \in SUBSET (1..n)  BY <1>1, <1>6, <1>12, SortsAreFrames DEF Marked
  <2>3. l = Cardinality(Marked) /\ l \in Nat
    <3>1. Cardinality(Marked) \in Nat  BY <2>2, PlaceBounds
    <3> QED  BY <1>1, <1>2, <3>1 DEF MarksMatch
  <2>4. Place(n, Marked) = l
    <3>1. \A j \in Marked : j <= n  BY <2>2
    <3>2. {j \in Marked : j <= n} = Marked  BY <3>1
    <3> QED  BY <2>3, <3>2 DEF Place
  <2>5. l > 0
    <3>1. Place(n, Marked) \in 1..Cardinality(Marked)  BY <2>2, PlaceBounds
    <3> QED  BY <2>3, <3>1
  <2> HIDE DEF l, built, g, free
  <2>6. l = Len(built.marks) /\ DOMAIN arena.marks = 1..l
    BY <1>1, <1>8 DEF l, ArenaOK, ArenaType, ArenaMarks
  <2>7. /\ Live' = Below(built, arena.marks[l])
        /\ \A j \in 1..l-1 : Below(built, arena.marks[j]) \subseteq Below(arena', arena'.marks[j])
    BY <1>8, <2>1, <2>5, <2>6, PopNodes DEF Live
  <2>8. \A j \in 1..l : Below(arena, arena.marks[j]) \subseteq Below(built, arena.marks[j])
    BY <1>8, <1>9, <2>6 DEF Grew
  <2>9. Below(arena, MarkOf(n)) \subseteq Live'
    <3>1. l \in 1..l  BY <2>3, <2>5
    <3> QED  BY <2>4, <2>7, <2>8, <3>1 DEF MarkOf
  <2>10. FramesCells' /\ DeclsHeld'
    <3>1. FreeAt(Len(frames)) /\ Top.pushed  BY <1>5, <1>6, <1>12
    <3> QED  BY <1>2, <1>3, <1>4, <1>7, <1>10, <2>9, <3>1, RewindCells
  <2>11. Live' \subseteq Live \cup Built(nodes, nodes')  BY <1>9, <2>7 DEF Below
  <2>12. /\ \A i \in 1..n-1 : frames'[i] = frames[i]
         /\ frames'[n] = g /\ DOMAIN frames' = 1..n
    <3>1. /\ frames' \in Seq(FrameType) /\ Len(frames') = n /\ frames'[n] = g
          /\ \A i \in 1..n-1 : frames'[i] = frames[i]
      BY <1>1, <1>3, <1>4, StayExact
    <3> QED  BY <3>1
  <2>13. Marked' = Marked \ {n}
    <3>1. \A i \in 1..n : i = n \/ i \in 1..n-1  BY <1>1
    <3> QED  BY <1>1, <1>3, <2>12, <3>1 DEF Marked
  <2>14. ASSUME NEW i \in Marked'
         PROVE  i \in 1..n-1 /\ i \in Marked /\ Place(i, Marked') = Place(i, Marked)
                /\ Place(i, Marked) \in 1..l-1
    <3>1. n \in Nat \ {0}  BY <1>1
    <3>2. /\ Marked \ {n} \in SUBSET (1..n-1)
          /\ Cardinality(Marked \ {n}) = Cardinality(Marked) - (IF n \in Marked THEN 1 ELSE 0)
          /\ \A j \in Marked \ {n} : Place(j, Marked \ {n}) = Place(j, Marked)
      BY <2>2, <3>1, Shrinks
    <3>3. n-1 \in Nat /\ Cardinality(Marked \ {n}) = l-1  BY <1>1, <2>2, <2>3, <3>2
    <3>4. \A j \in Marked \ {n} : Place(j, Marked \ {n}) \in 1..Cardinality(Marked \ {n})
      BY <3>2, <3>3, PlaceBounds
    <3> QED  BY <2>13, <3>2, <3>3, <3>4
  <2>15. ASSUME NEW i \in Marked' PROVE Spares(i)'
    <3> DEFINE j == Place(i, Marked)
    <3>1. j \in 1..l-1 /\ j \in 1..l /\ i \in Marked /\ i \in 1..n-1  BY <2>3, <2>14
    <3>2. MarkOf(i)' = arena'.marks[j] /\ MarkOf(i) = arena.marks[j]
      <4>1. MarkOf(i)' = arena'.marks[Place(i, Marked')]  BY DEF MarkOf, Place
      <4> QED  BY <2>14, <4>1 DEF MarkOf
    <3> HIDE DEF j
    <3>3. Below(arena, MarkOf(i)) \subseteq Below(arena', MarkOf(i)')
      BY <2>7, <2>8, <3>1, <3>2
    <3>4. Spares(i)  BY <1>2, <3>1 DEF CInv, MarksHold
    <3>5. frames'[i] = frames[i]  BY <2>12, <3>1
    <3>6. frames[i].key.from <= nodes /\ frames[i].key.from \in Nat
      <4>1. InEntry(frames[i]) /\ i \in DOMAIN frames  BY <1>2, <3>1, MarkPlaces
      <4>2. Numbered(frames[i], nodes) /\ frames[i] \in FrameType
        BY <1>1, <4>1 DEF CInv, FramesCells
      <4> QED  BY <4>1, <4>2 DEF Numbered, FrameType
    <3>7. ASSUME NEW x \in Live', x <= frames'[i].key.from PROVE x \in Below(arena', MarkOf(i)')
      <4>1. x \in Live
        <5>1. x \in Live \/ x \in nodes+1..nodes'  BY <2>11 DEF Built
        <5>2. ~(x \in nodes+1..nodes')  BY <1>1, <1>10, <3>5, <3>6, <3>7
        <5> QED  BY <5>1, <5>2
      <4> QED  BY <3>3, <3>4, <3>5, <3>7, <4>1 DEF Spares
    <3>8. ASSUME NEW d \in DOMAIN decls' PROVE Named(d)' \subseteq Below(arena', MarkOf(i)')
      <4>1. d \in DOMAIN decls /\ Named(d)' = Named(d)  BY <1>7 DEF Named
      <4> QED  BY <3>3, <3>4, <4>1 DEF Spares
    <3> QED  BY <3>7, <3>8 DEF Spares
  <2> QED  BY <2>10, <2>15 DEF CInv, MarksHold
<1> QED  BY <1>11, <1>12

LEMMA CommitData ==
    ASSUME Shape, nodes' = nodes, arena' = Commit(arena)
    PROVE  /\ Grown /\ Grew(arena, arena') /\ Live' = Live
           /\ \A k \in DOMAIN arena'.marks : Below(arena', arena'.marks[k]) = Live'
<1>1. ArenaOK(arena) /\ nodes \in Nat /\ Built(nodes, nodes) = {} /\ nodes <= nodes
  BY DEF Shape, Built
<1>2. /\ Live' = Live /\ Grew(arena, arena')
      /\ \A k \in DOMAIN arena'.marks : Below(arena', arena'.marks[k]) = Live'
  BY <1>1, CommitNodes DEF Live
<1> QED  BY <1>1, <1>2 DEF Grown

(* A node has been read: what was read of a key is still whole. *)
LEMMA ReturnCells ==
    ASSUME IInv, CInv, Closing, ReturnsFrom(Top), Grown, Grew(arena, arena'), DeclsStand,
           DeclsKept, nodes' = nodes, NEW u \in FrameType, SameCell(Under, u),
           u.key = Under.key, u.slot = Under.slot, u.alone <=> Under.alone,
           u.pushed <=> Under.pushed, NEW called,
           frames' = Returned(Read(Told(u, called), nodes))
    PROVE  CInv'
<1> PICK n \in Nat : n = Len(frames)  BY IInvShape
<1>1. ~Top.pushed /\ n > 1 /\ Reading  BY ClosingIsNoEntry DEF Closing
<1>2. /\ Shape /\ frames \in Seq(FrameType) /\ Waiting /\ Under = frames[n-1]
      /\ Top = frames[n] /\ Under \in FrameType /\ nodes \in Nat
  BY <1>1, IInvShape DEF Shape
<1>3. Waits(Under) /\ Waits(u)  BY <1>1, <1>2 DEF Waiting, Waits
<1>4. /\ Numbered(Under, nodes) /\ KeyHeld(Under, Live) /\ ReadsKey(Under, Top) /\ Held(n)
  BY <1>1, Around
<1>5. Numbered(u, nodes) /\ KeyHeld(u, Live)
  <2>1. IsCollection(u) <=> IsCollection(Under)  BY DEF SameCell, IsCollection
  <2>2. InEntry(u) <=> InEntry(Under)  BY DEF InEntry
  <2> QED  BY <1>4, <2>1, <2>2 DEF Numbered, KeyHeld, SameCell
<1>6. u.slot = "key" /\ ~u.alone => Built(u.key.from, nodes') \subseteq Live'
  <2> SUFFICES ASSUME u.slot = "key", ~u.alone PROVE Built(u.key.from, nodes') \subseteq Live'
    OBVIOUS
  <2>1. Top.first = u.key.from /\ (Top.inKey \/ Top.kind = "explicit")  BY <1>4 DEF ReadsKey
  <2>2. Built(Top.first, nodes) \subseteq Live  BY <1>2, <1>4, <2>1 DEF Held, Whole
  <2> QED  BY <2>1, <2>2 DEF Grown
<1> DEFINE g == Read(Told(u, called), nodes)
<1>7. ReadAs(u, g, nodes)  BY <1>2, <1>3, ReadFrame
<1>8. KeyHeld(g, Live') /\ Numbered(g, nodes')  BY <1>3, <1>5, <1>6, ReadHolds
<1>9. frames' = Returned(g)  OBVIOUS
<1> HIDE DEF g
<1>10. /\ g \in FrameType /\ (g.pushed <=> Under.pushed) /\ g.slot # "key"
       /\ g.key.from = Under.key.from
  BY <1>7 DEF ReadAs
<1>11. SameCell(Under, g)  BY <1>7 DEF ReadAs, SameCell
<1>12. /\ frames' \in Seq(FrameType) /\ Len(frames') = n-1 /\ frames'[n-1] = g
       /\ \A i \in 1..n-2 : frames'[i] = frames[i]
  BY <1>1, <1>2, <1>9, <1>10, ReturnExact
<1> QED  BY <1>1, <1>8, <1>10, <1>11, <1>12, PopCells

LEMMA LeaveCells ==
    ASSUME IInv, CInv, Closing, Top.kind # "quiet", NEW answer \in OnLeave(walk),
           LeaveTop(answer), Grown, Grew(arena, arena'), DeclsStand, DeclsKept, nodes' = nodes
    PROVE  CInv'
<1>1. ~Top.pushed /\ Len(frames) > 1  BY ClosingIsNoEntry
<1>2. Under \in FrameType /\ Top \in FrameType /\ walk \in WalkType  BY <1>1, IInvShape DEF Shape
<1>3. answer \in LeaveAnswers  BY OnLeaveAnswers
<1> DEFINE left == Leave(walk, answer)
           decl == IF Under.kind = "tag" /\ Top.kind = "anchor" THEN Top.decl ELSE Under.decl
           u == [Under EXCEPT !.decl = decl]
           again == Under.slot = "key" /\ HandsKey(left)
           called == again /\ Calls(left)
<1>4. frames' = Returned(Read(Told(u, called), nodes))  BY DEF LeaveTop
<1>5. decl \in Nat /\ (Under.kind = "anchor" => decl = Under.decl)  BY <1>2 DEF FrameType
<1>6. SameLevels(walk', left)
  <2>1. left \in WalkType  BY <1>2, <1>3, LeaveOK DEF Leaves
  <2>2. PICK next \in IF again THEN OnHand(left) ELSE {"nil"} :
            walk' = IF Under.slot = "key" THEN HandKey(left, next) ELSE left
    BY DEF LeaveTop
  <2>3. next \in LeaveAnswers  BY <2>2 DEF OnHand, LeaveAnswers
  <2> HIDE DEF left
  <2> QED  BY <2>1, <2>2, <2>3, HandKeyOK, SameLevelsReflexive
<1>7. ReturnsFrom(Top)  BY <1>2, <1>3, <1>6, LeaveReturns
<1> HIDE DEF called, decl
<1>8. /\ u \in FrameType /\ SameCell(Under, u) /\ u.key = Under.key /\ u.slot = Under.slot
      /\ (u.alone <=> Under.alone) /\ (u.pushed <=> Under.pushed)
  BY <1>2, <1>5 DEF FrameType, SameCell
<1> HIDE DEF u
<1> QED  BY <1>4, <1>7, <1>8, ReturnCells

LEMMA CloseCollectionCells ==
    ASSUME IInv, CInv, CloseCollection
    PROVE  CInv'
<1>1. PICK answer \in OnLeave(walk) : LeaveTop(answer)  BY DEF CloseCollection
<1>2. Closing /\ Top.kind # "quiet" /\ nodes' = nodes  BY DEF CloseCollection, IsCollection
<1>3. Grown /\ Grew(arena, arena') /\ DeclsStand /\ DeclsKept
  BY IInvShape, SameData, SameDecls DEF CloseCollection
<1> QED  BY <1>1, <1>2, <1>3, LeaveCells

LEMMA CloseExplicitKeyCells ==
    ASSUME IInv, CInv, CloseExplicitKey
    PROVE  CInv'
<1>1. PICK answer \in OnLeave(walk) : LeaveTop(answer)  BY DEF CloseExplicitKey
<1>2. Closing /\ Top.kind # "quiet" /\ nodes' = nodes  BY DEF CloseExplicitKey
<1>3. Grown /\ Grew(arena, arena') /\ DeclsStand /\ DeclsKept
  BY IInvShape, SameData, SameDecls DEF CloseExplicitKey
<1> QED  BY <1>1, <1>2, <1>3, LeaveCells

(* Commit: what the anchor names is spared by every mark. *)
LEMMA CloseAnchorCells ==
    ASSUME IInv, CInv, CloseAnchor
    PROVE  CInv'
<1>1. PICK answer \in OnLeave(walk) : LeaveTop(answer)  BY DEF CloseAnchor
<1>2. Closing /\ Top.kind = "anchor" /\ nodes' = nodes /\ arena' = Commit(arena)
  BY DEF CloseAnchor
<1>3. Shape /\ decls \in Seq(DeclType) /\ Top = frames[Len(frames)]  BY IInvShape DEF Shape
<1>4. /\ Grown /\ Grew(arena, arena') /\ Live' = Live
      /\ \A k \in DOMAIN arena'.marks : Below(arena', arena'.marks[k]) = Live'
  BY <1>2, <1>3, CommitData
<1> PICK d : d = Top.decl  OBVIOUS
<1> DEFINE e == [decls[d] EXCEPT !.to = nodes]
<1>5. d \in DOMAIN decls /\ decls[d].from = Top.first
  <2>1. Declares(Top)  BY Around
  <2> QED  BY <1>2, <2>1 DEF Declares
<1>6. Built(Top.first, nodes) \subseteq Live
  <2>1. Len(frames) > 1  BY <1>2 DEF Closing
  <2>2. Held(Len(frames))  BY <2>1, Around
  <2> QED  BY <1>2, <1>3, <2>2 DEF Held, Whole
<1>7. decls' = [decls EXCEPT ![d] = e]  BY DEF CloseAnchor
<1>8. e.from = decls[d].from /\ e.to = nodes
  <2>1. decls[d] \in DeclType  BY <1>3, <1>5
  <2> QED  BY <2>1 DEF DeclType
<1> HIDE DEF e
<1>9. /\ DOMAIN decls' = DOMAIN decls /\ decls'[d] = e
      /\ \A i \in DOMAIN decls : i # d => decls'[i] = decls[i]
  BY <1>3, <1>5, <1>7
<1>10. DeclsStand  BY <1>5, <1>8, <1>9 DEF DeclsStand
<1>11. DeclsKept
  <2>1. Named(d)' \subseteq Live'  BY <1>4, <1>5, <1>6, <1>8, <1>9 DEF Named
  <2> QED  BY <1>4, <1>9, <2>1 DEF DeclsKept
<1> QED  BY <1>1, <1>2, <1>4, <1>10, <1>11, LeaveCells

LEMMA CloseTagCells ==
    ASSUME IInv, CInv, CloseTag
    PROVE  CInv'
<1>1. PICK answer \in OnLeave(walk) : LeaveTop(answer)  BY DEF CloseTag
<1>2. Closing /\ Top.kind # "quiet" /\ nodes' = nodes  BY DEF CloseTag
<1>3. Shape /\ decls \in Seq(DeclType)  BY IInvShape DEF Shape
<1>4. Grown /\ Grew(arena, arena')  BY <1>3, SameData DEF CloseTag
<1>5. DeclsStand /\ DeclsKept
  <2>1. CASE Top.decl = 0  BY <2>1, SameDecls DEF CloseTag
  <2>2. CASE Top.decl # 0
    <3> DEFINE d == Top.decl e == [decls[d] EXCEPT !.tagged = TRUE]
    <3>1. decls' = [decls EXCEPT ![d] = e]  BY <2>2 DEF CloseTag
    <3>2. d \in DOMAIN decls => e.from = decls[d].from /\ e.to = decls[d].to
      <4>1. d \in DOMAIN decls => decls[d] \in DeclType  BY <1>3
      <4> QED  BY <4>1 DEF DeclType
    <3> HIDE DEF e, d
    <3>3. /\ DOMAIN decls' = DOMAIN decls
          /\ \A i \in DOMAIN decls : decls'[i] = IF i = d THEN e ELSE decls[i]
      BY <1>3, <3>1
    <3> QED  BY <3>2, <3>3 DEF DeclsStand, DeclsKept
  <2> QED  BY <2>1, <2>2
<1> QED  BY <1>1, <1>2, <1>4, <1>5, LeaveCells

LEMMA CloseQuietCells ==
    ASSUME IInv, CInv, CloseQuiet
    PROVE  CInv'
<1>1. Closing /\ Top.kind = "quiet" /\ Len(frames) > 1  BY DEF CloseQuiet, Closing
<1>2. Shape /\ Under \in FrameType /\ walk \in WalkType  BY <1>1, IInvShape DEF Shape
<1> DEFINE w == Loud(walk) called == Calls(w) /\ HandsKey(w)
<1>3. /\ w \in WalkType /\ w.in = walk.in /\ w.skip = walk.skip /\ (w.keeping <=> walk.keeping)
  BY <1>2 DEF Loud, WalkType
<1>4. SameLevels(walk', w)
  <2>1. \E answer \in AnswersLeaf(w, Under) : walk' = HandLeaf(w, Under, answer)
    BY DEF CloseQuiet
  <2> HIDE DEF w
  <2> QED  BY <1>3, <2>1, HandLeafOK
<1>5. frames' = Returned(Read(Told(Under, called), nodes)) /\ nodes' = nodes  BY DEF CloseQuiet
<1>6. Grown /\ Grew(arena, arena') /\ DeclsStand /\ DeclsKept
  BY <1>2, SameData, SameDecls DEF CloseQuiet
<1> HIDE DEF w, called
<1>7. ReturnsFrom(Top)  BY <1>1, <1>3, <1>4 DEF ReturnsFrom, SameLevels
<1>8. SameCell(Under, Under)  BY DEF SameCell
<1> QED  BY <1>1, <1>2, <1>5, <1>6, <1>7, <1>8, ReturnCells

(* A call that returns what it deferred, and nothing more. *)
LEMMA UnwindReturns ==
    ASSUME IInv, Unwind
    PROVE  ReturnsFrom(Top) /\ ~Reading'
<1>1. walk \in WalkType /\ refused' = refused  BY IInvShape DEF Shape, Unwind
<1>2. PICK answer \in (IF Top.kind = "quiet" THEN {"nil"} ELSE OnLeave(walk)) :
          /\ ~Reading \/ (Closing /\ answer = "stop")
          /\ LET returns == ~walk.stopped /\ answer # "stop"
                 left == IF Top.kind = "quiet" THEN walk ELSE Leave(walk, answer)
             IN  walk' = IF Top.kind = "quiet" /\ returns THEN Loud(left) ELSE left
  BY DEF Unwind
<1>3. CASE Top.kind = "quiet"
  <2>1. ~Reading /\ (walk' = Loud(walk) \/ walk' = walk)  BY <1>2, <1>3
  <2>2. /\ walk' \in WalkType /\ walk'.in = walk.in /\ walk'.skip = walk.skip
        /\ walk'.keeping = walk.keeping /\ walk'.stopped = walk.stopped
    BY <1>1, <2>1 DEF Loud, WalkType
  <2> QED  BY <1>1, <1>3, <2>1, <2>2 DEF ReturnsFrom, Reading
<1>4. CASE Top.kind # "quiet"
  <2>1. answer \in OnLeave(walk) /\ walk' = Leave(walk, answer)  BY <1>2, <1>4
  <2>2. answer \in LeaveAnswers  BY <2>1, OnLeaveAnswers
  <2>3. Leaves(walk', walk, answer)  BY <1>1, <2>1, <2>2, LeaveOK
  <2>4. SameLevels(walk', Leave(walk, answer))
    BY <2>1, <2>3, SameLevelsReflexive DEF Leaves
  <2>5. ReturnsFrom(Top)  BY <1>1, <1>4, <2>2, <2>4, LeaveReturns
  <2>6. answer = "stop" => walk'.stopped  BY <2>1, <2>3, OnLeaveAnswers DEF Leaves
  <2> QED  BY <1>1, <1>2, <2>3, <2>5, <2>6 DEF Leaves, Reading
<1> QED  BY <1>3, <1>4

LEMMA UnwindCells ==
    ASSUME IInv, CInv, Unwind
    PROVE  CInv'
<1> PICK n \in Nat : n = Len(frames)  BY IInvShape
<1>1. n > 1 /\ nodes' = nodes /\ frames' = Front(frames)  BY DEF Unwind
<1>2. Shape /\ frames \in Seq(FrameType) /\ Under = frames[n-1]  BY <1>1, IInvShape DEF Shape
<1>3. Grown /\ Grew(arena, arena') /\ DeclsStand /\ DeclsKept /\ Live' = Live
  BY <1>2, SameData, SameDecls DEF Unwind, Live
<1>4. ReturnsFrom(Top) /\ ~Reading'  BY UnwindReturns
<1>5. /\ frames' \in Seq(FrameType) /\ Len(frames') = n-1
      /\ \A i \in 1..n-1 : frames'[i] = frames[i]
  BY <1>1, <1>2, FrontExact
<1>6. frames'[n-1] = Under /\ \A i \in 1..n-2 : frames'[i] = frames[i]
  <2>1. n-1 \in 1..n-1 /\ \A i \in 1..n-2 : i \in 1..n-1  BY <1>1
  <2> QED  BY <1>2, <1>5, <2>1
<1>7. Numbered(Under, nodes') /\ KeyHeld(Under, Live')  BY <1>1, <1>3, Around
<1>8. SameCell(Under, Under)  BY DEF SameCell
<1> PICK g : g = Under  OBVIOUS
<1>9. frames'[n-1] = g /\ SameCell(Under, g) /\ Numbered(g, nodes') /\ KeyHeld(g, Live')
  BY <1>6, <1>7, <1>8
<1> QED  BY <1>1, <1>3, <1>4, <1>5, <1>6, <1>9, PopCells

(* A document whose node is still to be read. *)
Opening ==
    /\ DOMAIN frames = {1} /\ Len(frames) = 1 /\ nodes \in Nat /\ decls = <<>>
    /\ frames[1].kind = "document" /\ frames[1].slot = "node" /\ frames[1].id = 0
    /\ ~frames[1].inKey /\ ~frames[1].entered /\ ~frames[1].pushed
    /\ frames[1].key.to = 0 /\ frames[1].first <= nodes

LEMMA OpeningCells == Opening => CInv
<1> SUFFICES ASSUME Opening PROVE CInv  OBVIOUS
<1>1. Top = frames[1]  BY DEF Opening, Top, Last
<1>2. Numbered(frames[1], nodes)  BY DEF Opening, Numbered, InEntry
<1>3. Held(1) /\ Declares(frames[1])  BY DEF Opening, Held, KeyHeld, Whole, Declares
<1>4. FramesCells
  <2>1. \A j \in DOMAIN frames : 1..j-1 = {}  BY DEF Opening
  <2>2. 1..Len(frames)-1 = {} /\ 1..Len(frames)-2 = {}  BY DEF Opening
  <2>3. Top.slot # "key"  BY <1>1 DEF Opening
  <2> QED  BY <1>2, <1>3, <2>1, <2>2, <2>3 DEF FramesCells, Opening
<1>5. DOMAIN decls = {} /\ Marked = {}  BY DEF Opening, Marked
<1> QED  BY <1>4, <1>5 DEF CInv, DeclsHeld, MarksHold

LEMMA NextDocumentCells ==
    ASSUME IInv, Closes, NextDocument
    PROVE  Opening'
<1>1. Top \in FrameType /\ nodes \in Nat  BY IInvShape DEF Shape
<1> DEFINE doc == Top.doc + 1 g == [Frame EXCEPT !.doc = doc, !.first = nodes]
<1>2. frames' = <<g>> /\ decls' = <<>> /\ nodes' = nodes  BY DEF NextDocument
<1>3. /\ g.kind = "document" /\ g.slot = "node" /\ g.id = 0 /\ ~g.inKey /\ ~g.entered
      /\ ~g.pushed /\ g.key.to = 0 /\ g.first = nodes
  BY DEF Frame
<1> HIDE DEF g
<1>4. DOMAIN frames' = {1} /\ Len(frames') = 1 /\ frames'[1] = g  BY <1>2
<1> QED  BY <1>1, <1>2, <1>3, <1>4 DEF Opening

LEMMA FreshOpens == Fresh => Opening
BY DEF Fresh, Opening, Frame

-----------------------------------------------------------------------------
(* The invariant, and what it says of the cells. *)

LEMMA InitCells == Init => CInv
BY InitFresh, FreshOpens, OpeningCells

LEMMA NextCells == IInv /\ Closes /\ CInv /\ [Next]_vars => CInv'
<1> SUFFICES ASSUME IInv, Closes, CInv, [Next]_vars PROVE CInv'  OBVIOUS
<1>1. CASE UNCHANGED vars  BY <1>1, UnchangedCells DEF vars, Reading
<1>2. ASSUME Next PROVE CInv' \/ Opening' \/ Fresh'
  <2>1. CASE Scalar  BY <2>1, ScalarCells
  <2>2. CASE \E name \in Name : Alias(name)  BY <2>2, AliasCells
  <2>3. CASE \E kind \in {"mapping", "sequence"} : OpenCollection(kind)
    BY <2>3, OpenCollectionCells
  <2>4. CASE \E name \in Name : OpenAnchor(name)  BY <2>4, OpenAnchorCells
  <2>5. CASE OpenTag  BY <2>5, OpenTagCells
  <2>6. CASE OpenExplicitKey  BY <2>6, OpenExplicitKeyCells
  <2>7. CASE OpenQuiet  BY <2>7, OpenQuietCells
  <2>8. CASE BeginEntry  BY <2>8, BeginEntryCells
  <2>9. CASE EndEntry  BY <2>9, EndEntryCells
  <2>10. CASE CloseCollection  BY <2>10, CloseCollectionCells
  <2>11. CASE CloseAnchor  BY <2>11, CloseAnchorCells
  <2>12. CASE CloseTag  BY <2>12, CloseTagCells
  <2>13. CASE CloseExplicitKey  BY <2>13, CloseExplicitKeyCells
  <2>14. CASE CloseQuiet  BY <2>14, CloseQuietCells
  <2>15. CASE Refuse \/ RefuseAnchorName  BY <2>15, RefuseCells
  <2>16. CASE Unwind  BY <2>16, UnwindCells
  <2>17. CASE EndDocument  BY <2>17, EndDocumentCells
  <2>18. CASE NextDocument  BY <2>18, NextDocumentCells
  <2>19. CASE NextWalk  BY <2>19, NextWalkFresh
  <2> QED  BY <1>2, <2>1, <2>2, <2>3, <2>4, <2>5, <2>6, <2>7, <2>8, <2>9, <2>10, <2>11, <2>12,
              <2>13, <2>14, <2>15, <2>16, <2>17, <2>18, <2>19 DEF Next
<1>3. Fresh' => Opening'  BY FreshOpens, PTL
<1>4. Opening' => CInv'  BY OpeningCells, PTL
<1> QED  BY <1>1, <1>2, <1>3, <1>4

LEMMA CellsHeld == CInv => CellsLive
<1> SUFFICES ASSUME CInv PROVE CellsLive  OBVIOUS
<1>1. FramesCells /\ DeclsHeld  BY DEF CInv
<1>2. ASSUME NEW i \in DOMAIN frames
      PROVE  LET f == frames[i] IN
             /\ f.id # 0 => f.id \in Live
             /\ (f.slot \in {"value", "end"} /\ ~f.alone) => Built(f.key.from, f.key.to) \subseteq Live
             /\ (f.kind = "anchor" \/ f.inKey) => Built(f.first, nodes) \subseteq Live
             /\ (walk.keeping /\ f.entered /\ \A j \in Entered : j <= i)
                 => Built(f.first, nodes) \subseteq Live
  BY <1>1 DEF FramesCells, Held, KeyHeld, Whole, KeptAt
<1>3. \A i \in DOMAIN decls : Built(decls[i].from, decls[i].to) \subseteq Live
  BY <1>1 DEF DeclsHeld, Named
<1> QED  BY <1>2, <1>3 DEF CellsLive

(* Arena.Commit, keepsNothing, rewindNodes: for any stream, whatever the   *)
(* visitor declines, keeps or fails on, a rewind reuses the cell of no     *)
(* node that is still read: none of a collection that is open, of a key    *)
(* whose value is being read, of what is read whole, nor of what an anchor *)
(* of the document names.                                                  *)
THEOREM NoCellComesBackEarly == Spec => []CellsLive
<1>1. Init => CInv  BY InitCells
<1>2. (IInv /\ Closes) /\ CInv /\ [Next]_vars => CInv'  BY NextCells
<1>3. Spec => [](IInv /\ Closes)  BY Invariant
<1>4. CInv => CellsLive  BY CellsHeld
<1> QED  BY <1>1, <1>2, <1>3, <1>4, PTL DEF Spec
=============================================================================
