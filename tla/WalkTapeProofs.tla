--------------------------- MODULE WalkTapeProofs ---------------------------
(* Theorems about WalkTape, over those of TokenArena: for every number of  *)
(* tokens, of chunks of tokens and of levels, every size of either kind of *)
(* chunk and any number of streams.                                        *)
EXTENDS WalkTape, TokenArenaProofs, WellFoundedInduction

USE CellsAssumption

-----------------------------------------------------------------------------
(* A run of cells. *)

(* The chunks whose cells may still be read. *)
InUse(r) == r.full \cup ({r.filling} \ {0})
Listed(list) == {list[i] : i \in DOMAIN list}
Distinct(list) == \A i, j \in DOMAIN list : list[i] = list[j] => i = j

CellChunk == [seqs : Seq(Nat), checked : Nat, unknown : BOOLEAN]
RunType == [chunks : Seq(CellChunk), filling : Nat, full : SUBSET Nat, free : Seq(Nat)]
RunOK(r) ==
    /\ r \in RunType
    /\ InUse(r) \subseteq 1..Len(r.chunks) /\ Listed(r.free) \subseteq 1..Len(r.chunks)
    /\ Distinct(r.free)
    /\ InUse(r) \cap Listed(r.free) = {}
    /\ r.filling \notin r.full
    /\ \A c \in DOMAIN r.chunks : r.chunks[c].checked <= Len(r.chunks[c].seqs)

(* A cell was taken from the run for a token. *)
Before(r, c) == IF c \in InUse(r) THEN r.chunks[c] ELSE Cell!EmptyChunk
Filled1(old, k, seq) ==
    k.seqs = Append(old.seqs, seq) /\ k.checked = old.checked /\ k.unknown = (old.unknown \/ seq = 0)
Taken(r, later, seq) ==
    LET c == later.filling IN
    /\ RunOK(later)
    /\ c # 0 /\ InUse(later) = InUse(r) \cup {c}
    /\ c \in InUse(r) => c = r.filling
    /\ r.full \subseteq later.full
    /\ \A d \in InUse(r) \ {c} : later.chunks[d] = r.chunks[d]
    /\ Filled1(Before(r, c), later.chunks[c], seq)

LEMMA NewRunOK == RunOK(Cell!NewRun) /\ InUse(Cell!NewRun) = {}
BY DEF RunOK, RunType, CellChunk, InUse, Listed, Distinct, Cell!NewRun, Cell!NoCells

LEMMA WithoutLast ==
    ASSUME NEW list \in Seq(Nat), list # <<>>, Distinct(list)
    PROVE  /\ Cell!Last(list) \in Listed(list)
           /\ Cell!Front(list) \in Seq(Nat) /\ Distinct(Cell!Front(list))
           /\ Listed(Cell!Front(list)) \subseteq Listed(list) \ {Cell!Last(list)}
<1> DEFINE m == Len(list)
           front == SubSeq(list, 1, m-1)
<1>1. m \in Nat /\ m >= 1 /\ DOMAIN list = 1..m  OBVIOUS
<1>2. front \in Seq(Nat) /\ DOMAIN front = 1..m-1 /\ \A i \in 1..m-1 : front[i] = list[i]
  BY <1>1
<1>3. \A i \in 1..m-1 : i \in DOMAIN list /\ i # m
  <2> HIDE DEF m
  <2> QED  BY <1>1
<1>4. Cell!Last(list) = list[m] /\ m \in DOMAIN list /\ Cell!Front(list) = front
  BY <1>1 DEF Cell!Last, Cell!Front
<1>5. \A i \in DOMAIN front : i \in DOMAIN list /\ i # m /\ front[i] = list[i]
  BY <1>2, <1>3
<1>6. \A i \in DOMAIN list : i # m => list[i] # list[m]  BY <1>4 DEF Distinct
<1> HIDE DEF front, m
<1>7. Distinct(front)  BY <1>5 DEF Distinct
<1>8. Listed(front) \subseteq Listed(list) \ {list[m]}  BY <1>5, <1>6 DEF Listed
<1>9. list[m] \in Listed(list)  BY <1>4 DEF Listed
<1> QED  BY <1>2, <1>4, <1>7, <1>8, <1>9

LEMMA AdvanceCells ==
    ASSUME NEW r, RunOK(r), Cell!MustAdvance(r)
    PROVE  LET later == Cell!Advance(r)
               c == later.filling
           IN  /\ RunOK(later)
               /\ c # 0 /\ c \notin InUse(r) /\ InUse(later) = InUse(r) \cup {c}
               /\ r.full \subseteq later.full
               /\ \A d \in InUse(r) : later.chunks[d] = r.chunks[d]
               /\ later.chunks[c] = Cell!EmptyChunk
<1> DEFINE later == Cell!Advance(r)
           n == Len(r.chunks)
           m == Len(r.free)
<1>0. /\ r.chunks \in Seq(CellChunk) /\ r.free \in Seq(Nat) /\ r.filling \in Nat /\ r.full \subseteq Nat
      /\ n \in Nat /\ m \in Nat /\ DOMAIN r.chunks = 1..n /\ DOMAIN r.free = 1..m
  BY DEF RunOK, RunType
<1>1. Cell!EmptyChunk \in CellChunk /\ Cell!EmptyChunk.checked = 0 /\ Len(Cell!EmptyChunk.seqs) = 0
  BY DEF Cell!EmptyChunk, CellChunk
<1>2. Cell!Retired(r) = InUse(r)
  BY DEF Cell!Retired, Cell!NoCells, InUse
<1>3. CASE r.free # <<>>
  <2> DEFINE c == Cell!Last(r.free)
             front == Cell!Front(r.free)
  <2>1. Distinct(r.free)  BY DEF RunOK
  <2>2. /\ c \in Listed(r.free) /\ front \in Seq(Nat) /\ Distinct(front)
        /\ Listed(front) \subseteq Listed(r.free) \ {c}
    BY <1>0, <1>3, <2>1, WithoutLast
  <2>3. c \in 1..n /\ c \notin InUse(r) /\ c # 0  BY <1>0, <2>2 DEF RunOK
  <2>6. later = [chunks |-> [r.chunks EXCEPT ![c] = Cell!EmptyChunk], filling |-> c,
                 full |-> InUse(r), free |-> front]
    BY <1>2, <1>3, <2>2 DEF Cell!Advance, RunOK, RunType
  <2> HIDE DEF c, front
  <2> DEFINE ch == [r.chunks EXCEPT ![c] = Cell!EmptyChunk]
  <2>8. ch \in Seq(CellChunk) /\ Len(ch) = n /\ ch[c] = Cell!EmptyChunk
        /\ \A d \in 1..n : d # c => ch[d] = r.chunks[d]
    BY <1>0, <1>1, <2>3
  <2> HIDE DEF ch
  <2>9. later = [chunks |-> ch, filling |-> c, full |-> InUse(r), free |-> front]
    BY <2>6 DEF ch
  <2> HIDE DEF later
  <2>10. InUse(later) = InUse(r) \cup {c}  BY <2>3, <2>9 DEF InUse
  <2>11. InUse(r) \subseteq 1..n /\ r.full \subseteq InUse(r)  BY DEF RunOK, InUse
  <2>12. later \in RunType  BY <1>0, <2>2, <2>3, <2>8, <2>9, <2>11 DEF RunType
  <2>13. RunOK(later)
    <3>0. \A d \in 1..n : r.chunks[d].checked <= Len(r.chunks[d].seqs)  BY <1>0 DEF RunOK
    <3>1. \A d \in 1..n : ch[d].checked <= Len(ch[d].seqs)  BY <1>1, <2>8, <3>0
    <3>2. (InUse(r) \cup {c}) \cap Listed(front) = {} /\ Listed(front) \subseteq 1..n
      BY <2>2 DEF RunOK
    <3>3. DOMAIN ch = 1..n  BY <2>8
    <3> QED  BY <2>2, <2>3, <2>8, <2>9, <2>10, <2>11, <2>12, <3>1, <3>2, <3>3 DEF RunOK
  <2> QED  BY <2>3, <2>8, <2>9, <2>10, <2>11, <2>13 DEF later
<1>4. CASE r.free = <<>>
  <2> DEFINE c == n + 1
             ch == Append(r.chunks, Cell!EmptyChunk)
  <2>3. c \notin InUse(r) /\ c # 0 /\ c \in Nat  BY <1>0 DEF RunOK
  <2>8. ch \in Seq(CellChunk) /\ Len(ch) = n + 1 /\ DOMAIN ch = 1..n+1 /\ ch[c] = Cell!EmptyChunk
        /\ \A d \in 1..n : ch[d] = r.chunks[d]
    BY <1>0, <1>1
  <2>9. later = [chunks |-> ch, filling |-> c, full |-> InUse(r), free |-> r.free]
    BY <1>2, <1>4 DEF Cell!Advance, RunOK, RunType
  <2> HIDE DEF ch, later
  <2>10. InUse(later) = InUse(r) \cup {c}  BY <2>3, <2>9 DEF InUse
  <2>11. InUse(r) \subseteq 1..n /\ r.full \subseteq InUse(r)  BY DEF RunOK, InUse
  <2>12. later \in RunType  BY <1>0, <2>3, <2>8, <2>9, <2>11 DEF RunType
  <2>13. RunOK(later)
    <3>1. \A d \in 1..n+1 : ch[d].checked <= Len(ch[d].seqs)
      <4>1. \A d \in 1..n : r.chunks[d].checked <= Len(r.chunks[d].seqs)  BY <1>0 DEF RunOK
      <4>2. \A d \in 1..n+1 : d = c \/ d \in 1..n  BY <1>0, SMTT(30)
      <4> QED  BY <1>1, <2>8, <4>1, <4>2
    <3>2. Listed(r.free) = {} /\ Distinct(r.free)  BY <1>4 DEF Listed, Distinct
    <3>3. InUse(later) \subseteq 1..n+1  BY <1>0, <2>10, <2>11
    <3> QED  BY <2>3, <2>8, <2>9, <2>10, <2>12, <3>1, <3>2, <3>3 DEF RunOK
  <2>14. \A d \in InUse(r) : d \in 1..n  BY <2>11
  <2> QED  BY <2>3, <2>8, <2>9, <2>10, <2>11, <2>13, <2>14 DEF later
<1> QED  BY <1>3, <1>4

Fill(r, seq) == [r EXCEPT !.chunks[r.filling].seqs = Append(@, seq),
                          !.chunks[r.filling].unknown = @ \/ seq = 0]

LEMMA FillCells ==
    ASSUME NEW r, RunOK(r), r.filling # 0, NEW seq \in Nat, NEW later, later = Fill(r, seq)
    PROVE  /\ RunOK(later) /\ later.filling = r.filling /\ later.full = r.full
           /\ \A d \in InUse(r) \ {r.filling} : later.chunks[d] = r.chunks[d]
           /\ Filled1(r.chunks[r.filling], later.chunks[r.filling], seq)
<1> DEFINE n == Len(r.chunks)
           c == r.filling
           old == r.chunks[c]
           q == Append(old.seqs, seq)
           u == old.unknown \/ seq = 0
           new == [old EXCEPT !.seqs = q, !.unknown = u]
           ch == [r.chunks EXCEPT ![c] = new]
<1>0. /\ r.chunks \in Seq(CellChunk) /\ r.free \in Seq(Nat) /\ r.filling \in Nat /\ r.full \subseteq Nat
      /\ n \in Nat /\ DOMAIN r.chunks = 1..n
  BY DEF RunOK, RunType
<1>1. c \in 1..n  BY DEF RunOK, InUse
<1>2. old \in CellChunk /\ old.checked <= Len(old.seqs)  BY <1>0, <1>1 DEF RunOK
<1>3. later = [r EXCEPT !.chunks = ch]
  <2>1. later = [r EXCEPT !.chunks[r.filling].seqs = Append(@, seq),
                          !.chunks[r.filling].unknown = @ \/ seq = 0]
    BY DEF Fill
  <2> QED  BY <1>0, <1>1, <2>1 DEF RunOK, RunType
<1>4. q \in Seq(Nat) /\ Len(q) = Len(old.seqs) + 1 /\ u \in BOOLEAN  BY <1>2 DEF CellChunk
<1>5. Filled1(old, new, seq) /\ new \in CellChunk /\ new.checked <= Len(new.seqs)
  <2> HIDE DEF q, u
  <2>1. new.seqs = q /\ new.checked = old.checked /\ new.unknown = u /\ new \in CellChunk
    BY <1>2, <1>4 DEF CellChunk
  <2>2. old.checked \in Nat /\ Len(old.seqs) \in Nat  BY <1>2 DEF CellChunk
  <2> HIDE DEF new
  <2>3. new.checked <= Len(new.seqs)  BY <1>2, <1>4, <2>1, <2>2
  <2> QED  BY <2>1, <2>3 DEF Filled1, q, u
<1> HIDE DEF new
<1>6. ch \in Seq(CellChunk) /\ Len(ch) = n /\ DOMAIN ch = 1..n /\ ch[c] = new
      /\ \A d \in 1..n : d # c => ch[d] = r.chunks[d]
  BY <1>0, <1>1, <1>5
<1> HIDE DEF ch
<1>7. \A d \in 1..n : ch[d].checked <= Len(ch[d].seqs)
  <2>1. \A d \in 1..n : r.chunks[d].checked <= Len(r.chunks[d].seqs)  BY <1>0 DEF RunOK
  <2> QED  BY <1>5, <1>6, <2>1
<1>8. later.chunks = ch /\ later.filling = r.filling /\ later.full = r.full /\ later.free = r.free
      /\ later \in RunType
  BY <1>3, <1>6 DEF RunOK, RunType
<1>9. InUse(later) = InUse(r) /\ InUse(r) \subseteq 1..n  BY <1>8 DEF InUse, RunOK
<1>10. RunOK(later)  BY <1>6, <1>7, <1>8, <1>9 DEF RunOK
<1>11. \A d \in InUse(r) \ {c} : later.chunks[d] = r.chunks[d]  BY <1>6, <1>8, <1>9
<1> QED  BY <1>1, <1>5, <1>6, <1>8, <1>10, <1>11

LEMMA TakeCells ==
    ASSUME NEW r, RunOK(r), NEW seq \in Nat
    PROVE  Taken(r, Cell!Take(r, seq), seq)
<1> DEFINE a == IF Cell!MustAdvance(r) THEN Cell!Advance(r) ELSE r
           later == Cell!Take(r, seq)
<1>1. /\ RunOK(a) /\ a.filling # 0 /\ InUse(a) = InUse(r) \cup {a.filling}
      /\ a.filling \in InUse(r) => a.filling = r.filling
      /\ r.full \subseteq a.full
      /\ \A d \in InUse(r) : a.chunks[d] = r.chunks[d]
      /\ a.chunks[a.filling] = Before(r, a.filling)
  <2>1. CASE Cell!MustAdvance(r)
    BY <2>1, AdvanceCells DEF Before
  <2>2. CASE ~Cell!MustAdvance(r)
    <3>1. r.filling # 0  BY <2>2 DEF Cell!MustAdvance, Cell!NoCells
    <3> QED  BY <2>2, <3>1 DEF Before, InUse
  <2> QED  BY <2>1, <2>2
<1>2. later = Fill(a, seq)  BY DEF Cell!Take, Fill
<1> HIDE DEF a, later
<1>3. /\ RunOK(later) /\ later.filling = a.filling /\ later.full = a.full
      /\ \A d \in InUse(a) \ {a.filling} : later.chunks[d] = a.chunks[d]
      /\ Filled1(a.chunks[a.filling], later.chunks[a.filling], seq)
  BY <1>1, <1>2, FillCells
<1>4. InUse(later) = InUse(a)  BY <1>3 DEF InUse
<1> DEFINE c == a.filling
<1>5. \A d \in InUse(r) \ {c} : later.chunks[d] = r.chunks[d]  BY <1>1, <1>3
<1> QED  BY <1>1, <1>3, <1>4, <1>5 DEF Taken, later

LEMMA LeastExists ==
    ASSUME NEW S \in SUBSET Nat, S # {}
    PROVE  \E m \in S : \A n \in S : m <= n
<1> DEFINE R == OpToRel(<, Nat)
<1>1. IsWellFoundedOn(R, Nat)  BY NatLessThanWellFounded, Zenon
<1>2. \A x, y \in Nat : <<y, x>> \in R <=> y < x  BY DEF OpToRel
<1> HIDE DEF R
<1>3. PICK m \in S : \A n \in S : ~(<<n, m>> \in R)  BY <1>1, WFMin
<1>4. ASSUME NEW n \in S PROVE m <= n
  <2>1. m \in Nat /\ n \in Nat  OBVIOUS
  <2>2. ~(n < m)  BY <2>1, <1>2, <1>3
  <2> QED  BY <2>1, <2>2
<1>5. QED  BY <1>4

LEMMA Sequenced ==
    ASSUME NEW S \in SUBSET Nat, IsFiniteSet(S)
    PROVE  LET list == Cell!SetToSeq(S)
           IN  list \in Seq(Nat) /\ Distinct(list) /\ Listed(list) \subseteq S
<1> DEFINE n == Cardinality(S)
           list == Cell!SetToSeq(S)
<1>1. n \in Nat /\ ExistsBijection(1..n, S)  BY FS_CardinalityType
<1>2. PICK f \in [1..n -> S] : \A a, b \in 1..n : f[a] = f[b] => a = b
  BY <1>1 DEF ExistsBijection, Bijection, Injection, IsInjective
<1>3. \E g \in [1..n -> S] : Cell!IsInjective(g)  BY <1>2 DEF Cell!IsInjective
<1>4. list \in [1..n -> S] /\ Cell!IsInjective(list)
  <2>1. Cell!Cardinality(S) = Cardinality(S)  BY Zenon DEF Cell!Cardinality, Cardinality
  <2> QED  BY <1>3, <2>1, Zenon DEF Cell!SetToSeq
<1> HIDE DEF list, n
<1>5. list \in Seq(Nat)
  <2>1. list \in [1..n -> Nat]  BY <1>4
  <2> QED  BY <1>1, <2>1
<1>6. Distinct(list)  BY <1>4 DEF Distinct, Cell!IsInjective
<1> QED  BY <1>4, <1>5, <1>6 DEF Listed, list

(* finished: the cursor is between where it stood and the end, and every   *)
(* cell it passes is done with; at the end, all are.                       *)
LEMMA CursorPasses ==
    ASSUME NEW k \in CellChunk, k.checked <= Len(k.seqs), NEW dead
    PROVE  LET i == Cell!Cursor(k, dead)
           IN  /\ i \in Nat /\ k.checked <= i /\ i <= Len(k.seqs)
               /\ \A j \in k.checked+1 .. i : k.seqs[j] \in dead
               /\ i # Len(k.seqs) => k.seqs[i+1] \notin dead
<1> DEFINE n == Len(k.seqs)
           c == k.checked
           Stops(i) == /\ \A j \in c+1 .. i : k.seqs[j] \in dead
                       /\ i = n \/ (i < n /\ k.seqs[i+1] \notin dead)
           B == {j \in c+1 .. n : k.seqs[j] \notin dead}
<1>1. n \in Nat /\ c \in Nat /\ c <= n  BY DEF CellChunk
<1> HIDE DEF n, c
<1>2. \E i \in c .. n : Stops(i)
  <2>1. CASE B = {}
    <3>1. n \in c .. n /\ \A j \in c+1 .. n : k.seqs[j] \in dead  BY <1>1, <2>1
    <3> QED  BY <3>1
  <2>2. CASE B # {}
    <3>1. B \in SUBSET Nat  BY <1>1
    <3> HIDE DEF B
    <3>2. PICK m \in B : \A j \in B : m <= j  BY <2>2, <3>1, LeastExists
    <3>3. m \in c+1 .. n /\ k.seqs[m] \notin dead /\ m \in Nat  BY <3>1, <3>2 DEF B
    <3>4. ASSUME NEW j \in c+1 .. m-1 PROVE k.seqs[j] \in dead
      <4>1. j \in c+1 .. n /\ ~(m <= j)  BY <1>1, <3>3
      <4> QED  BY <3>2, <4>1 DEF B
    <3>5. m-1 \in c .. n /\ m-1 < n /\ (m-1)+1 = m  BY <1>1, <3>3
    <3> QED  BY <3>3, <3>4, <3>5
  <2> QED  BY <2>1, <2>2
<1>3. Cell!Cursor(k, dead) = CHOOSE i \in c .. n : Stops(i)
  BY DEF Cell!Cursor, n, c
<1> HIDE DEF Stops
<1>4. Cell!Cursor(k, dead) \in c .. n /\ Stops(Cell!Cursor(k, dead))  BY <1>2, <1>3
<1> DEFINE i == Cell!Cursor(k, dead)
<1> HIDE DEF i
<1>5. i \in c .. n /\ Stops(i)  BY <1>4 DEF i
<1>6. i \in Nat /\ c <= i /\ i <= n  BY <1>1, <1>5
<1>7. /\ \A j \in c+1 .. i : k.seqs[j] \in dead
      /\ i # n => k.seqs[i+1] \notin dead
  BY <1>5 DEF Stops
<1> QED  BY <1>6, <1>7 DEF i, c, n

(* Chunks go back to the free list: they are no longer in use, and the     *)
(* list stays one of distinct chunks.                                      *)
LEMMA GiveBack ==
    ASSUME NEW list \in Seq(Nat), Distinct(list), NEW S \in SUBSET Nat, IsFiniteSet(S),
           S \cap Listed(list) = {}
    PROVE  LET longer == list \o Cell!SetToSeq(S)
           IN  longer \in Seq(Nat) /\ Distinct(longer) /\ Listed(longer) \subseteq Listed(list) \cup S
<1> DEFINE more == Cell!SetToSeq(S)
           m == Len(list)
           n == Len(more)
           longer == list \o more
<1>1. more \in Seq(Nat) /\ Distinct(more) /\ Listed(more) \subseteq S  BY Sequenced
<1> HIDE DEF more
<1>2. m \in Nat /\ n \in Nat /\ DOMAIN list = 1..m /\ DOMAIN more = 1..n  BY <1>1
<1>3. /\ longer \in Seq(Nat) /\ DOMAIN longer = 1..m+n
      /\ \A i \in 1..m+n : longer[i] = IF i <= m THEN list[i] ELSE more[i-m]
  BY <1>1, <1>2
<1> HIDE DEF longer, m, n
<1>4. \A i \in 1..m+n : \/ i \in DOMAIN list /\ longer[i] = list[i] /\ longer[i] \in Listed(list)
                        \/ i-m \in DOMAIN more /\ longer[i] = more[i-m] /\ longer[i] \in Listed(more)
  <2> SUFFICES ASSUME NEW i \in 1..m+n
               PROVE  \/ i \in DOMAIN list /\ longer[i] = list[i] /\ longer[i] \in Listed(list)
                      \/ i-m \in DOMAIN more /\ longer[i] = more[i-m] /\ longer[i] \in Listed(more)
    OBVIOUS
  <2>1. CASE i <= m
    <3>1. i \in DOMAIN list /\ longer[i] = list[i]  BY <1>2, <1>3, <2>1
    <3> QED  BY <3>1 DEF Listed
  <2>2. CASE ~(i <= m)
    <3>1. i-m \in DOMAIN more /\ longer[i] = more[i-m]  BY <1>2, <1>3, <2>2
    <3> QED  BY <3>1 DEF Listed
  <2> QED  BY <2>1, <2>2
<1>5. Listed(longer) \subseteq Listed(list) \cup S  BY <1>1, <1>3, <1>4 DEF Listed
<1>6. ASSUME NEW i \in 1..m+n, NEW j \in 1..m+n, longer[i] = longer[j] PROVE i = j
  <2>1. CASE i \in DOMAIN list /\ longer[i] = list[i] /\ longer[i] \in Listed(list)
    <3>1. j \in DOMAIN list /\ longer[j] = list[j]  BY <1>1, <1>4, <1>6, <2>1
    <3> QED  BY <1>6, <2>1, <3>1 DEF Distinct
  <2>2. CASE i-m \in DOMAIN more /\ longer[i] = more[i-m] /\ longer[i] \in Listed(more)
    <3>1. j-m \in DOMAIN more /\ longer[j] = more[j-m]  BY <1>1, <1>4, <1>6, <2>2
    <3>2. i-m = j-m  BY <1>1, <1>6, <2>2, <3>1 DEF Distinct
    <3>3. i \in Int /\ j \in Int /\ m \in Int  BY <1>2
    <3> QED  BY <3>2, <3>3
  <2> QED  BY <1>4, <2>1, <2>2
<1>7. Distinct(longer)  BY <1>3, <1>6 DEF Distinct
<1> QED  BY <1>3, <1>5, <1>7 DEF longer, more

Dies(k, dead) == ~k.unknown /\ \A j \in k.checked+1 .. Len(k.seqs) : k.seqs[j] \in dead
Swept1(k, later, dead) ==
    /\ later.seqs = k.seqs /\ later.unknown = k.unknown
    /\ \A j \in 1..later.checked : j <= k.checked \/ k.seqs[j] \in dead
    /\ k.unknown \/ \E j \in 1..Len(k.seqs) : k.seqs[j] \notin dead

LEMMA ReleaseCells ==
    ASSUME NEW r, RunOK(r), NEW dead
    PROVE  LET later == Cell!Release(r, dead)
           IN  /\ RunOK(later)
               /\ later.filling = r.filling
               /\ r.filling # 0 => later.chunks[r.filling] = r.chunks[r.filling]
               /\ later.full = {c \in r.full : ~Dies(r.chunks[c], dead)}
               /\ \A c \in later.full : Swept1(r.chunks[c], later.chunks[c], dead)
<1> DEFINE n == Len(r.chunks)
           done(c) == Cell!Finished(r.chunks[c], dead)
           swept(c) == IF r.chunks[c].unknown THEN r.chunks[c]
                       ELSE IF done(c) THEN Cell!EmptyChunk
                       ELSE [r.chunks[c] EXCEPT !.checked = Cell!Cursor(r.chunks[c], dead)]
           back == {c \in r.full : done(c)}
           ch == [c \in DOMAIN r.chunks |-> IF c \in r.full THEN swept(c) ELSE r.chunks[c]]
           list == r.free \o Cell!SetToSeq(back)
           later == Cell!Release(r, dead)
<1>0. /\ r.chunks \in Seq(CellChunk) /\ r.free \in Seq(Nat) /\ r.filling \in Nat /\ r.full \subseteq Nat
      /\ n \in Nat /\ DOMAIN r.chunks = 1..n
  BY DEF RunOK, RunType
<1>1. r.full \subseteq 1..n /\ InUse(r) \subseteq 1..n  BY DEF RunOK, InUse
<1>2. \A c \in 1..n : r.chunks[c] \in CellChunk /\ r.chunks[c].checked <= Len(r.chunks[c].seqs)
  BY <1>0 DEF RunOK
<1>3. ASSUME NEW c \in 1..n
      PROVE  /\ done(c) <=> Dies(r.chunks[c], dead)
             /\ swept(c) \in CellChunk /\ swept(c).checked <= Len(swept(c).seqs)
             /\ ~done(c) => Swept1(r.chunks[c], swept(c), dead)
  <2> DEFINE k == r.chunks[c]
             i == Cell!Cursor(k, dead)
  <2>1. k \in CellChunk /\ k.checked <= Len(k.seqs)  BY <1>2
  <2>2. /\ i \in Nat /\ k.checked <= i /\ i <= Len(k.seqs)
        /\ \A j \in k.checked+1 .. i : k.seqs[j] \in dead
        /\ i # Len(k.seqs) => k.seqs[i+1] \notin dead
    BY <2>1, CursorPasses
  <2>3. done(c) <=> ~k.unknown /\ i = Len(k.seqs)  BY DEF Cell!Finished
  <2>4. swept(c) = IF k.unknown THEN k ELSE IF done(c) THEN Cell!EmptyChunk
                   ELSE [k EXCEPT !.checked = i]
    OBVIOUS
  <2>5. k.checked \in Nat /\ Len(k.seqs) \in Nat /\ k.unknown \in BOOLEAN  BY <2>1 DEF CellChunk
  <2> HIDE DEF k, i, swept, done
  <2>6. i # Len(k.seqs) => i+1 \in k.checked+1 .. Len(k.seqs) /\ i+1 \in 1..Len(k.seqs)
    BY <2>2, <2>5
  <2>7. done(c) <=> Dies(k, dead)
    <3>1. CASE i = Len(k.seqs)  BY <2>2, <2>3, <3>1 DEF Dies
    <3>2. CASE i # Len(k.seqs)  BY <2>2, <2>3, <2>6, <3>2 DEF Dies
    <3> QED  BY <3>1, <3>2
  <2>8. CASE k.unknown
    <3>1. \A j \in 1..k.checked : j <= k.checked  BY <2>5
    <3> QED  BY <2>1, <2>3, <2>4, <2>7, <2>8, <3>1 DEF Swept1, k
  <2>9. CASE ~k.unknown /\ done(c)
    <3>1. Cell!EmptyChunk \in CellChunk /\ Cell!EmptyChunk.checked <= Len(Cell!EmptyChunk.seqs)
      BY DEF Cell!EmptyChunk, CellChunk
    <3> QED  BY <2>4, <2>7, <2>9, <3>1 DEF k
  <2>10. CASE ~k.unknown /\ ~done(c)
    <3>1. swept(c) = [k EXCEPT !.checked = i]  BY <2>4, <2>10
    <3>2. /\ swept(c) \in CellChunk /\ swept(c).checked = i
          /\ swept(c).seqs = k.seqs /\ swept(c).unknown = k.unknown
      BY <2>1, <2>2, <3>1 DEF CellChunk
    <3>3. i # Len(k.seqs)  BY <2>3, <2>10
    <3>4. \A j \in 1..i : j <= k.checked \/ k.seqs[j] \in dead
      <4>1. \A j \in 1..i : j <= k.checked \/ j \in k.checked+1 .. i  BY <2>2, <2>5
      <4> QED  BY <2>2, <4>1
    <3>5. \E j \in 1..Len(k.seqs) : k.seqs[j] \notin dead  BY <2>2, <2>6, <3>3
    <3>6. Swept1(k, swept(c), dead)  BY <3>2, <3>4, <3>5 DEF Swept1
    <3> QED  BY <2>2, <2>7, <3>2, <3>6 DEF k
  <2> QED  BY <2>8, <2>9, <2>10
<1>4. later = [r EXCEPT !.full = r.full \ back, !.free = list, !.chunks = ch]
  BY DEF Cell!Release
<1> HIDE DEF swept, done, later
<1>5. back \in SUBSET Nat /\ IsFiniteSet(back) /\ back \subseteq r.full
  <2>1. IsFiniteSet(1..n)  BY <1>0, FS_Interval
  <2>2. back \in SUBSET (1..n)  BY <1>1
  <2> QED  BY <1>0, <2>1, <2>2, FS_Subset
<1>6. Distinct(r.free) /\ back \cap Listed(r.free) = {}  BY <1>5 DEF RunOK, InUse
<1> HIDE DEF back
<1>7. list \in Seq(Nat) /\ Distinct(list) /\ Listed(list) \subseteq Listed(r.free) \cup back
  BY <1>0, <1>5, <1>6, GiveBack
<1> HIDE DEF list
<1>8. /\ ch \in Seq(CellChunk) /\ Len(ch) = n /\ DOMAIN ch = 1..n
      /\ \A c \in 1..n : ch[c] = IF c \in r.full THEN swept(c) ELSE r.chunks[c]
  <2>1. ch \in [1..n -> CellChunk]  BY <1>0, <1>2, <1>3
  <2> QED  BY <1>0, <2>1
<1> HIDE DEF ch
<1>9. /\ later.chunks = ch /\ later.filling = r.filling /\ later.full = r.full \ back
      /\ later.free = list /\ later \in RunType
  BY <1>0, <1>4, <1>7, <1>8 DEF RunOK, RunType
<1>10. InUse(later) \subseteq InUse(r) \ back
  <2>1. r.filling \notin back  BY <1>5 DEF RunOK
  <2> QED  BY <1>9, <2>1 DEF InUse
<1>11. RunOK(later)
  <2>1. \A c \in 1..n : ch[c].checked <= Len(ch[c].seqs)  BY <1>2, <1>3, <1>8
  <2>2. InUse(later) \cap Listed(list) = {} /\ Listed(list) \subseteq 1..n
    BY <1>1, <1>5, <1>7, <1>10 DEF RunOK
  <2>3. later.filling \notin later.full  BY <1>9 DEF RunOK
  <2> QED  BY <1>1, <1>7, <1>8, <1>9, <1>10, <2>1, <2>2, <2>3 DEF RunOK
<1>12. r.filling # 0 => ch[r.filling] = r.chunks[r.filling]
  <2>1. r.filling \notin r.full  BY DEF RunOK
  <2>2. r.filling # 0 => r.filling \in 1..n  BY <1>1 DEF InUse
  <2> QED  BY <1>8, <2>1, <2>2
<1>13. later.full = {c \in r.full : ~Dies(r.chunks[c], dead)}  BY <1>1, <1>3, <1>9 DEF back
<1>14. ASSUME NEW c \in later.full PROVE Swept1(r.chunks[c], ch[c], dead)
  <2>1. c \in r.full /\ c \in 1..n /\ ~done(c)  BY <1>1, <1>9 DEF back
  <2> QED  BY <1>3, <1>8, <2>1
<1> QED  BY <1>9, <1>11, <1>12, <1>13, <1>14 DEF later

LEMMA RecycleCells ==
    ASSUME NEW r, RunOK(r)
    PROVE  RunOK(Cell!Recycle(r)) /\ InUse(Cell!Recycle(r)) = {} /\ Cell!Recycle(r).filling = 0
<1> DEFINE n == Len(r.chunks)
           S == Cell!Retired(r)
           list == r.free \o Cell!SetToSeq(S)
           ch == [c \in DOMAIN r.chunks |-> Cell!EmptyChunk]
           later == Cell!Recycle(r)
<1>0. /\ r.chunks \in Seq(CellChunk) /\ r.free \in Seq(Nat) /\ r.filling \in Nat /\ r.full \subseteq Nat
      /\ n \in Nat /\ DOMAIN r.chunks = 1..n
  BY DEF RunOK, RunType
<1>1. S = InUse(r) /\ InUse(r) \subseteq 1..n  BY DEF Cell!Retired, Cell!NoCells, InUse, RunOK
<1>2. IsFiniteSet(1..n)  BY <1>0, FS_Interval
<1>3. S \in SUBSET (1..n) /\ S \in SUBSET Nat  BY <1>0, <1>1
<1> HIDE DEF S
<1>4. IsFiniteSet(S)  BY <1>2, <1>3, FS_Subset
<1>5. Distinct(r.free) /\ S \cap Listed(r.free) = {}  BY <1>1 DEF RunOK
<1>6. list \in Seq(Nat) /\ Distinct(list) /\ Listed(list) \subseteq Listed(r.free) \cup S
  BY <1>0, <1>3, <1>4, <1>5, GiveBack
<1>7. later = [r EXCEPT !.full = {}, !.filling = 0, !.free = list, !.chunks = ch]
  BY DEF Cell!Recycle, Cell!NoCells, S
<1> HIDE DEF list, later
<1>8. Cell!EmptyChunk \in CellChunk /\ Cell!EmptyChunk.checked <= Len(Cell!EmptyChunk.seqs)
  BY DEF Cell!EmptyChunk, CellChunk
<1>9. /\ ch \in Seq(CellChunk) /\ Len(ch) = n /\ DOMAIN ch = 1..n
      /\ \A c \in 1..n : ch[c] = Cell!EmptyChunk
  <2>1. ch \in [1..n -> CellChunk]  BY <1>0, <1>8
  <2> QED  BY <1>0, <2>1
<1> HIDE DEF ch
<1>10. /\ later.chunks = ch /\ later.filling = 0 /\ later.full = {}
       /\ later.free = list /\ later \in RunType
  BY <1>0, <1>6, <1>7, <1>9 DEF RunOK, RunType
<1>11. InUse(later) = {}  BY <1>10 DEF InUse
<1>12. Listed(list) \subseteq 1..n  BY <1>3, <1>6 DEF RunOK
<1>13. RunOK(later)  BY <1>6, <1>8, <1>9, <1>10, <1>11, <1>12 DEF RunOK
<1> QED  BY <1>10, <1>11, <1>13 DEF later

-----------------------------------------------------------------------------
(* The inductive invariant of the walk, beside that of the tape. *)

Typed ==
    /\ kind \in [Token -> Kind] /\ cellOf \in [Token -> [chunk : Nat, slot : Nat]]
    /\ at \in Nat /\ sweptAt \in Nat /\ late \subseteq Nat
    /\ open \in Seq([what : {"map", "entry"}, key : Token])

(* The tape: nothing is known of a token not cut yet, no pin is held, and  *)
(* the tail stays behind the body; a level holds the chunk of its key.     *)
TapeUsed ==
    /\ \A s \in Token : s >= next => kind[s] = "value"
    /\ frozen = 0 /\ tail <= at
HoldsKey(i) == run[i] = [kind |-> "run", from |-> open[i].key, to |-> open[i].key]
LevelsHold ==
    /\ \A i \in DOMAIN open : /\ i \in Holder /\ IsKey(open[i].key)
                              /\ kind[open[i].key] = "key" => HoldsKey(i)
    /\ \A h \in Holder : h \notin DOMAIN open => run[h] = NoRun

(* The cells: each is of a token that was cut, a cursor has passed only    *)
(* what is gone from the tape, and the cell of a key still read is in use. *)
Stands(r, cell, s) ==
    /\ cell.chunk \in InUse(r)
    /\ cell.slot \in DOMAIN r.chunks[cell.chunk].seqs
    /\ r.chunks[cell.chunk].seqs[cell.slot] = s
Known(k, n) == \A j \in DOMAIN k.seqs : k.seqs[j] < n
Behind(k, H) == \A j \in 1..k.checked : k.seqs[j] \notin H
CellsKept ==
    /\ RunOK(cells)
    /\ \A c \in InUse(cells) : Known(cells.chunks[c], next) /\ Behind(cells.chunks[c], Held)
    /\ \A s \in StillRead : Stands(cells, cellOf[s], s)

(* What is done with while the count stands was being filled at the sweep. *)
Over(k, H) == ~k.unknown /\ \A j \in DOMAIN k.seqs : k.seqs[j] \notin H
SweptUp ==
    /\ sweptAt <= released
    /\ sweptAt = released =>
         \E f \in late \cup {cells.filling} : \A c \in InUse(cells) \ {f} : ~Over(cells.chunks[c], Held)

WInv == Typed /\ TapeUsed /\ LevelsHold /\ CellsKept /\ SweptUp

-----------------------------------------------------------------------------
(* What the steps of a walk do to the tape. *)

LEMMA TapeTyped ==
    ASSUME IInv
    PROVE  /\ next \in Nat /\ tail \in Nat /\ released \in Nat /\ MaxTokens \in Nat
           /\ next <= MaxTokens /\ run \in [Holder -> Run]
           /\ \A s \in Token : s \in Nat
           /\ \A s \in Nat : s < next => s \in Token
<1>1. /\ next \in 0 .. MaxTokens /\ tail \in 0 .. MaxTokens /\ released \in Nat
      /\ run \in [Holder -> Run] /\ MaxTokens \in Nat
  <2>1. TypeOK  BY DEF IInv
  <2>2. next \in 0 .. MaxTokens /\ tail \in 0 .. MaxTokens /\ released \in Nat  BY <2>1 DEF TypeOK
  <2>3. run \in [Holder -> Run]  BY <2>1 DEF TypeOK
  <2>4. MaxTokens \in Nat  BY BoundAssumption
  <2> QED  BY <2>2, <2>3, <2>4
<1>2. next \in Nat /\ tail \in Nat /\ next <= MaxTokens  BY <1>1
<1>3. \A s \in Token : s \in Nat  BY <1>1 DEF Token
<1>4. \A s \in Nat : s < next => s \in Token  BY <1>1, <1>2 DEF Token
<1> QED  BY <1>1, <1>2, <1>3, <1>4

LEMMA AddIsNext ==
    ASSUME IInv, Add
    PROVE  Next /\ IInv' /\ next' = next + 1 /\ next < MaxTokens
           /\ UNCHANGED <<tail, frozen, released, run>>
<1>1. Next  BY DEF Add, Next
<1>2. IInv'  BY <1>1, NextInv
<1>3. next' = next + 1 /\ next < MaxTokens /\ UNCHANGED <<tail, frozen, released, run>>
  BY DEF Add, AddInHand, AddGrowing
<1> QED  BY <1>1, <1>2, <1>3

LEMMA AddHolds ==
    ASSUME IInv, Add
    PROVE  Held' = Held \cup {next}
<1>1. /\ Next /\ IInv' /\ next' = next + 1 /\ next \in Nat
  BY AddIsNext, TapeTyped
<1>2. Tape!TapeNext \/ UNCHANGED Tape!tapeVars
  BY <1>1, StepImplements
<1>3. next' # next /\ next' # 0  BY <1>1
<1> QED  BY <1>2, <1>3 DEF Tape!TapeNext, Tape!tapeVars, Tape!TapeAdd, Tape!TapeSetTail, Tape!TapePin,
            Tape!TapeUnpin, Tape!TapeSave, Tape!TapeRelease, Tape!TapeReleaseAll, Tape!TapeEmpty

(* A step that only loses tokens, and counts when it does. *)
Loses == /\ Held' \subseteq Held /\ released <= released' /\ next' = next
         /\ released' = released => Held' = Held

LEMMA TailLoses ==
    ASSUME IInv, NEW s \in 0 .. MaxTokens, SetTail(s)
    PROVE  Next /\ IInv' /\ Loses /\ UNCHANGED <<frozen, run>> /\ tail' = IF s > tail THEN s ELSE tail
<1> DEFINE gone == IF frozen > 0 THEN {} ELSE Passed(tail')
           C == gone \ {c \in gone : saves[c] > 0}
<1>1. Next  BY DEF Next
<1>2. IInv'  BY <1>1, NextInv
<1>3. FreeChunks(C) /\ UNCHANGED <<next, frozen, since, run>>
      /\ tail' = (IF s > tail THEN s ELSE tail)
  BY DEF SetTail, Sweep, history
<1>4. C \in SUBSET InHand  BY DEF Passed, InHand
<1> HIDE DEF C
<1>5. Tape!Forget  BY <1>2, <1>3, <1>4, FreeForgets
<1>6. released \in Nat /\ released' \in Nat  BY <1>2 DEF IInv, TypeOK
<1>7. Loses  BY <1>3, <1>5, <1>6 DEF Tape!Forget, Loses
<1> QED  BY <1>1, <1>2, <1>3, <1>7

LEMMA ReleaseLoses ==
    ASSUME IInv, NEW h \in Holder, Release(h)
    PROVE  Next /\ IInv' /\ Loses /\ UNCHANGED <<frozen, tail>> /\ run' = [run EXCEPT ![h] = NoRun]
<1> DEFINE visited == {c \in ChunksIn(run[h].from, run[h].to) : saves[c] > 0}
           C == {c \in visited : saves[c] = 1 /\ onSaved[c]}
<1>1. Next  BY DEF Next
<1>2. IInv'  BY <1>1, NextInv
<1>3. FreeChunks(C) /\ UNCHANGED <<next, frozen, tail>> /\ run' = [run EXCEPT ![h] = NoRun]
  BY DEF Release
<1>4. C \in SUBSET InHand  BY DEF ChunksIn, IInv, Structure, IndexExact
<1> HIDE DEF C
<1>5. Tape!Forget  BY <1>2, <1>3, <1>4, FreeForgets
<1>6. released \in Nat /\ released' \in Nat  BY <1>2 DEF IInv, TypeOK
<1>7. Loses  BY <1>3, <1>5, <1>6 DEF Tape!Forget, Loses
<1> QED  BY <1>1, <1>2, <1>3, <1>7

LEMMA HoldKeeps ==
    ASSUME IInv, NEW h \in Holder, NEW s \in Token, HoldRun(h, s, s)
    PROVE  Next /\ IInv' /\ Held' = Held /\ UNCHANGED <<next, frozen, tail, released>>
           /\ run' = [run EXCEPT ![h] = [kind |-> "run", from |-> s, to |-> s]]
<1>1. Next  BY DEF Next
<1>2. IInv'  BY <1>1, NextInv
<1>3. HeldExact /\ HeldExact'  BY <1>2, HeldFromIndex, HeldFromIndexNext
<1>4. Held' = Held  BY <1>3 DEF HoldRun, HeldExact
<1> QED  BY <1>1, <1>2, <1>4 DEF HoldRun

(* The body reads nothing the tape has lost. *)
LEMMA FromTailHeld ==
    ASSUME IInv, TapeUsed, Typed, NEW s \in Nat, at <= s, s < next
    PROVE  s \in Held
<1>1. FloorReadable  BY FloorFromInv
<1>2. Floor = tail /\ tail <= s  BY TapeTyped DEF Floor, TapeUsed, Typed
<1> QED  BY <1>1, <1>2, TapeTyped DEF FloorReadable

LEMMA StillHeld ==
    ASSUME IInv, Typed, TapeUsed, LevelsHold, NEW s \in StillRead
    PROVE  s \in Held /\ s < next /\ s \in Nat
<1>1. s \in Token /\ s \in Nat /\ kind[s] = "key"  BY TapeTyped DEF StillRead
<1>2. s < next  BY <1>1, TapeTyped DEF TapeUsed
<1>3. CASE s >= at  BY <1>1, <1>2, <1>3, FromTailHeld DEF Typed
<1>4. ASSUME NEW i \in DOMAIN open, open[i].key = s PROVE s \in Held
  <2>1. i \in Holder /\ run[i] = [kind |-> "run", from |-> s, to |-> s]
    BY <1>1, <1>4 DEF LevelsHold, HoldsKey
  <2>2. s \in Kept(i)  BY <1>1, <2>1 DEF Kept
  <2> QED  BY <2>1, <2>2, RunFromInv DEF RunReadable
<1> QED  BY <1>1, <1>2, <1>3, <1>4 DEF StillRead

-----------------------------------------------------------------------------
(* What the steps of a walk do to the cells. *)

CellsIn(r, n, H) == \A c \in InUse(r) : Known(r.chunks[c], n) /\ Behind(r.chunks[c], H)
NoneOver(r, f, H) == \A c \in InUse(r) \ {f} : ~Over(r.chunks[c], H)

LEMMA ChunkTyped ==
    ASSUME NEW r, RunOK(r), NEW c \in InUse(r)
    PROVE  /\ r.chunks[c] \in CellChunk /\ r.chunks[c].seqs \in Seq(Nat)
           /\ Len(r.chunks[c].seqs) \in Nat /\ r.chunks[c].checked \in Nat
           /\ r.chunks[c].checked <= Len(r.chunks[c].seqs)
           /\ DOMAIN r.chunks[c].seqs = 1..Len(r.chunks[c].seqs)
<1>1. c \in DOMAIN r.chunks /\ r.chunks \in Seq(CellChunk)  BY DEF RunOK, RunType
<1>2. r.chunks[c] \in CellChunk  BY <1>1
<1> QED  BY <1>1, <1>2 DEF RunOK, CellChunk

(* The tape gained a token, or lost some. *)
LEMMA TapeMoves ==
    ASSUME NEW r, RunOK(r), NEW n \in Nat, NEW m \in Nat, n <= m, NEW H, NEW G, G \subseteq H \cup {n},
           CellsIn(r, n, H)
    PROVE  CellsIn(r, m, G)
<1> SUFFICES ASSUME NEW c \in InUse(r)
             PROVE  Known(r.chunks[c], m) /\ Behind(r.chunks[c], G)
  BY DEF CellsIn
<1> DEFINE k == r.chunks[c]
<1>1. /\ k.seqs \in Seq(Nat) /\ Len(k.seqs) \in Nat /\ k.checked \in Nat
      /\ k.checked <= Len(k.seqs) /\ DOMAIN k.seqs = 1..Len(k.seqs)
  BY ChunkTyped
<1>2. Known(k, n) /\ Behind(k, H)  BY DEF CellsIn
<1> HIDE DEF k
<1>3. \A j \in DOMAIN k.seqs : k.seqs[j] \in Nat /\ k.seqs[j] < n  BY <1>1, <1>2 DEF Known
<1>4. Known(k, m)  BY <1>3 DEF Known
<1>5. \A j \in 1..k.checked : j \in DOMAIN k.seqs  BY <1>1
<1>6. Behind(k, G)  BY <1>2, <1>3, <1>5 DEF Behind
<1> QED  BY <1>4, <1>6 DEF k

LEMMA OverStays ==
    ASSUME NEW r, NEW H, NEW G, H \subseteq G, NEW f, NoneOver(r, f, H)
    PROVE  NoneOver(r, f, G)
BY DEF NoneOver, Over

(* A cell was taken: it stands for its token, and what stood, stands.      *)
TakenWell(r, later, seq, n, H) ==
    /\ CellsIn(later, n, H)
    /\ \A cell, s : Stands(r, cell, s) => Stands(later, cell, s)
    /\ Stands(later, Cell!LastTaken(later), seq)
    /\ Cell!LastTaken(later) \in [chunk : Nat, slot : Nat]
    /\ \A L : (\E f \in L \cup {r.filling} : NoneOver(r, f, H)) =>
              (\E f \in L \cup (later.full \ r.full) \cup {later.filling} : NoneOver(later, f, H))

LEMMA CellTaken ==
    ASSUME NEW r, RunOK(r), NEW later, NEW seq \in Nat, Taken(r, later, seq),
           NEW n \in Nat, seq < n, NEW H, CellsIn(r, n, H), seq \in H \/ seq = 0
    PROVE  TakenWell(r, later, seq, n, H)
<1> DEFINE c == later.filling
           k == later.chunks[c]
           old == Before(r, c)
           q == old.seqs
<1>1. /\ RunOK(later) /\ c # 0 /\ InUse(later) = InUse(r) \cup {c} /\ r.full \subseteq later.full
      /\ \A d \in InUse(r) \ {c} : later.chunks[d] = r.chunks[d]
      /\ k.seqs = Append(q, seq) /\ k.checked = old.checked
      /\ k.unknown = (old.unknown \/ seq = 0)
      /\ c \in InUse(r) => c = r.filling
  BY DEF Taken, Filled1
<1>2. q \in Seq(Nat) /\ Len(q) \in Nat /\ old.checked \in Nat /\ old.checked <= Len(q)
      /\ DOMAIN q = 1..Len(q) /\ old.unknown \in BOOLEAN
      /\ (\A j \in 1..Len(q) : q[j] < n) /\ (\A j \in 1..old.checked : q[j] \notin H)
  <2>1. CASE c \in InUse(r)
    <3>1. old = r.chunks[c]  BY <2>1 DEF Before
    <3>2. Known(old, n) /\ Behind(old, H)  BY <2>1, <3>1 DEF CellsIn
    <3>3. old \in CellChunk /\ old.checked <= Len(q)  BY <2>1, <3>1, ChunkTyped
    <3> HIDE DEF old
    <3> QED  BY <3>2, <3>3 DEF Known, Behind, CellChunk
  <2>2. CASE c \notin InUse(r)
    <3>1. old = Cell!EmptyChunk  BY <2>2 DEF Before
    <3> HIDE DEF old
    <3> QED  BY <3>1 DEF Cell!EmptyChunk
  <2> QED  BY <2>1, <2>2
<1> HIDE DEF old, q
<1> DEFINE m == Len(q) + 1
<1>3. /\ k.seqs \in Seq(Nat) /\ DOMAIN k.seqs = 1..m /\ Len(k.seqs) = m /\ k.seqs[m] = seq
      /\ \A j \in 1..Len(q) : k.seqs[j] = q[j]
  BY <1>1, <1>2
<1>4. m \in 1..m /\ \A j \in 1..m : j = m \/ j \in 1..Len(q)  BY <1>2
<1> HIDE DEF k, m
<1>5. Known(k, n)  BY <1>2, <1>3, <1>4 DEF Known
<1>6. Behind(k, H)
  <2>1. \A j \in 1..old.checked : j \in 1..Len(q)  BY <1>2
  <2> QED  BY <1>1, <1>2, <1>3, <2>1 DEF Behind
<1>7. CellsIn(later, n, H)
  <2> SUFFICES ASSUME NEW d \in InUse(later)
               PROVE  Known(later.chunks[d], n) /\ Behind(later.chunks[d], H)
    BY DEF CellsIn
  <2>1. CASE d = c  BY <1>5, <1>6, <2>1 DEF k
  <2>2. CASE d # c
    <3>1. d \in InUse(r) /\ later.chunks[d] = r.chunks[d]  BY <1>1, <2>2
    <3> QED  BY <3>1 DEF CellsIn
  <2> QED  BY <2>1, <2>2
<1>8. ASSUME NEW cell, NEW s, Stands(r, cell, s) PROVE Stands(later, cell, s)
  <2> DEFINE d == cell.chunk
  <2>1. /\ d \in InUse(r) /\ d \in InUse(later)
        /\ cell.slot \in DOMAIN r.chunks[d].seqs /\ r.chunks[d].seqs[cell.slot] = s
    BY <1>1, <1>8 DEF Stands
  <2>2. CASE d # c
    BY <1>1, <2>1, <2>2 DEF Stands
  <2>3. CASE d = c
    <3>1. old = r.chunks[d] /\ q = r.chunks[d].seqs  BY <2>1, <2>3 DEF Before, old, q
    <3> HIDE DEF d
    <3>2. cell.slot \in 1..Len(q) /\ q[cell.slot] = s  BY <1>2, <2>1, <3>1
    <3>3. \A x \in 1..Len(q) : x \in 1..m
      <4>1. \A n0 \in Nat : \A x \in 1..n0 : x \in 1..n0+1  OBVIOUS
      <4> QED  BY <1>2, <4>1 DEF m
    <3>4. cell.slot \in DOMAIN k.seqs /\ k.seqs[cell.slot] = s  BY <1>3, <3>2, <3>3
    <3>5. later.chunks[d] = k  BY <2>3 DEF k
    <3> QED  BY <2>1, <3>4, <3>5 DEF Stands, d
  <2> QED  BY <2>2, <2>3
<1>9. c \in Nat  BY <1>1 DEF RunOK, RunType
<1>10. Cell!LastTaken(later) = [chunk |-> c, slot |-> m] /\ m \in Nat
  <2>1. Cell!LastTaken(later) = [chunk |-> c, slot |-> Len(later.chunks[c].seqs)]
    BY Zenon DEF Cell!LastTaken
  <2>2. Len(later.chunks[c].seqs) = Len(k.seqs)  BY DEF k
  <2>3. m \in Nat
    <3>1. \A x \in Nat : x+1 \in Nat  OBVIOUS
    <3> QED  BY <1>2, <3>1 DEF m
  <2> QED  BY <1>3, <2>1, <2>2, <2>3
<1>11. Stands(later, Cell!LastTaken(later), seq)
  <2> DEFINE cell == Cell!LastTaken(later)
  <2>1. cell.chunk = c /\ cell.slot = m /\ c \in InUse(later)  BY <1>1, <1>10
  <2>2. later.chunks[c] = k  BY DEF k
  <2> HIDE DEF cell
  <2>3. Stands(later, cell, seq)  BY <1>3, <1>4, <2>1, <2>2 DEF Stands
  <2> QED  BY <2>3 DEF cell
<1>12. ~Over(k, H)
  <2>1. CASE seq \in H  BY <1>3, <1>4, <2>1 DEF Over
  <2>2. CASE seq = 0
    <3>1. k.unknown  BY <1>1, <2>2 DEF k
    <3> QED  BY <3>1 DEF Over
  <2> QED  BY <2>1, <2>2
<1>13. ASSUME NEW L, NEW f \in L \cup {r.filling}, NoneOver(r, f, H)
       PROVE  \E g \in L \cup (later.full \ r.full) \cup {c} : NoneOver(later, g, H)
  <2>1. NoneOver(later, f, H)
    <3> SUFFICES ASSUME NEW d \in InUse(later) \ {f} PROVE ~Over(later.chunks[d], H)
      BY DEF NoneOver
    <3>1. CASE d = c  BY <1>12, <3>1 DEF k
    <3>2. CASE d # c
      <4>1. d \in InUse(r) \ {f} /\ later.chunks[d] = r.chunks[d]  BY <1>1, <3>2
      <4> QED  BY <1>13, <4>1 DEF NoneOver
    <3> QED  BY <3>1, <3>2
  <2>2. CASE f \in L \/ f = c  BY <2>1, <2>2
  <2>3. CASE f = r.filling /\ f # c /\ f # 0
    <3>1. f \in later.full /\ f \notin r.full  BY <1>1, <2>3 DEF InUse, RunOK
    <3> QED  BY <2>1, <3>1
  <2>4. CASE f = r.filling /\ f = 0
    <3>1. f \notin InUse(later)  BY <1>1, <2>4 DEF InUse, RunOK
    <3>2. NoneOver(later, c, H)  BY <2>1, <3>1 DEF NoneOver
    <3> QED  BY <3>2
  <2> QED  BY <2>2, <2>3, <2>4
<1> QED  BY <1>7, <1>8, <1>9, <1>10, <1>11, <1>13 DEF TakenWell

(* The cells were swept: what has died went back, and a cell whose token is *)
(* still on the tape stands where it stood.                                *)
SweptWell(r, later, n, G) ==
    /\ RunOK(later) /\ later.filling = r.filling
    /\ CellsIn(later, n, G)
    /\ \A cell, s : s \in G /\ Stands(r, cell, s) => Stands(later, cell, s)
    /\ NoneOver(later, r.filling, G)

LEMMA CellsSwept ==
    ASSUME NEW r, RunOK(r), NEW dead, NEW n \in Nat, NEW H, NEW G, G \subseteq H, CellsIn(r, n, H),
           \A s \in Nat : s < n => (s \in dead <=> s \notin G)
    PROVE  SweptWell(r, Cell!Release(r, dead), n, G)
<1> DEFINE later == Cell!Release(r, dead)
<1>1. /\ RunOK(later)
      /\ later.filling = r.filling
      /\ r.filling # 0 => later.chunks[r.filling] = r.chunks[r.filling]
      /\ later.full = {c \in r.full : ~Dies(r.chunks[c], dead)}
      /\ \A c \in later.full : Swept1(r.chunks[c], later.chunks[c], dead)
  BY ReleaseCells
<1> HIDE DEF later
<1>2. CellsIn(r, n, G)  BY DEF CellsIn, Behind
<1>3. /\ \A c \in InUse(r) : (c = r.filling /\ r.filling # 0) \/ c \in r.full
      /\ \A c \in InUse(later) : (c = r.filling /\ r.filling # 0) \/ c \in later.full
      /\ r.full \subseteq InUse(r) /\ later.full \subseteq InUse(later) /\ later.full \subseteq r.full
      /\ r.filling # 0 => r.filling \in InUse(r) /\ r.filling \in InUse(later)
      /\ r.filling \notin r.full
  BY <1>1 DEF InUse, RunOK
<1>4. ASSUME NEW c \in later.full
      PROVE  /\ Known(later.chunks[c], n) /\ Behind(later.chunks[c], G)
             /\ ~Over(later.chunks[c], G)
  <2> DEFINE k == r.chunks[c]
             l == later.chunks[c]
  <2>1. Swept1(k, l, dead) /\ Known(k, n) /\ Behind(k, G)  BY <1>1, <1>2, <1>3 DEF CellsIn
  <2>2. /\ k.seqs \in Seq(Nat) /\ Len(k.seqs) \in Nat /\ DOMAIN k.seqs = 1..Len(k.seqs)
    BY <1>3, ChunkTyped
  <2>3. l.checked \in Nat /\ l.checked <= Len(l.seqs)
    BY <1>1, <1>3, ChunkTyped
  <2> HIDE DEF k, l
  <2>4. \A j \in 1..Len(k.seqs) : k.seqs[j] \in Nat /\ k.seqs[j] < n  BY <2>1, <2>2 DEF Known
  <2>5. l.seqs = k.seqs /\ l.unknown = k.unknown  BY <2>1 DEF Swept1
  <2>6. Known(l, n)  BY <2>1, <2>5 DEF Known
  <2>7. \A j \in 1..l.checked : j \in 1..Len(k.seqs)  BY <2>2, <2>3, <2>5
  <2>8. ASSUME NEW j \in 1..l.checked PROVE l.seqs[j] \notin G
    <3>1. CASE j <= k.checked
      <4>1. j \in 1..k.checked
        <5>1. k.checked \in Nat  BY <1>3, ChunkTyped DEF k
        <5> QED  BY <2>3, <3>1, <5>1
      <4> QED  BY <2>1, <2>5, <4>1 DEF Behind
    <3>2. CASE k.seqs[j] \in dead  BY <2>4, <2>5, <2>7, <3>2
    <3> QED  BY <2>1, <3>1, <3>2 DEF Swept1
  <2>9. Behind(l, G)  BY <2>8 DEF Behind
  <2>10. ~Over(l, G)
    <3>1. CASE k.unknown  BY <2>5, <3>1 DEF Over
    <3>2. CASE ~k.unknown
      <4>1. PICK j \in 1..Len(k.seqs) : k.seqs[j] \notin dead  BY <2>1, <3>2 DEF Swept1
      <4> QED  BY <2>2, <2>4, <2>5, <4>1 DEF Over
    <3> QED  BY <3>1, <3>2
  <2> QED  BY <2>6, <2>9, <2>10 DEF l
<1>5. CellsIn(later, n, G)
  <2> SUFFICES ASSUME NEW c \in InUse(later)
               PROVE  Known(later.chunks[c], n) /\ Behind(later.chunks[c], G)
    BY DEF CellsIn
  <2>1. CASE c = r.filling /\ r.filling # 0  BY <1>1, <1>2, <1>3, <2>1 DEF CellsIn
  <2> QED  BY <1>3, <1>4, <2>1
<1>6. ASSUME NEW cell, NEW s \in G, Stands(r, cell, s) PROVE Stands(later, cell, s)
  <2> DEFINE c == cell.chunk
             k == r.chunks[c]
  <2>1. c \in InUse(r) /\ cell.slot \in DOMAIN k.seqs /\ k.seqs[cell.slot] = s  BY <1>6 DEF Stands
  <2>2. CASE c = r.filling /\ r.filling # 0  BY <1>1, <1>3, <2>1, <2>2 DEF Stands
  <2>3. CASE c \in r.full
    <3>1. Known(k, n) /\ Behind(k, G)  BY <1>2, <2>1 DEF CellsIn
    <3>2. /\ k.seqs \in Seq(Nat) /\ Len(k.seqs) \in Nat /\ k.checked \in Nat
          /\ DOMAIN k.seqs = 1..Len(k.seqs)
      BY <2>1, ChunkTyped
    <3> HIDE DEF k
    <3>3. cell.slot \notin 1..k.checked  BY <2>1, <3>1 DEF Behind
    <3>4. cell.slot \in k.checked+1 .. Len(k.seqs)  BY <2>1, <3>2, <3>3
    <3>5. s \in Nat /\ s < n  BY <2>1, <3>1, <3>2 DEF Known
    <3>6. ~Dies(k, dead)  BY <2>1, <3>4, <3>5 DEF Dies
    <3>7. c \in later.full  BY <1>1, <2>3, <3>6 DEF k
    <3>8. later.chunks[c].seqs = k.seqs  BY <1>1, <3>7 DEF Swept1, k
    <3> QED  BY <1>3, <2>1, <3>7, <3>8 DEF Stands
  <2> QED  BY <1>3, <2>1, <2>2, <2>3
<1>7. NoneOver(later, r.filling, G)
  <2> SUFFICES ASSUME NEW c \in InUse(later) \ {r.filling} PROVE ~Over(later.chunks[c], G)
    BY DEF NoneOver
  <2> QED  BY <1>3, <1>4
<1> QED  BY <1>1, <1>5, <1>6, <1>7 DEF SweptWell, later

-----------------------------------------------------------------------------
(* The steps of a walk. *)

Level == [what : {"map", "entry"}, key : Token]

(* What a step does to the tape, and all the cells need to know of it. *)
TapeStep ==
    /\ [Next]_vars /\ IInv'
    /\ next <= next' /\ released <= released'
    /\ Held' \subseteq Held \cup {next}
    /\ released' = released => Held \subseteq Held'

LEMMA StillsTape ==
    ASSUME IInv, UNCHANGED vars
    PROVE  TapeStep /\ Held' = Held
<1>1. IInv'  BY NextInv
<1>2. Held' = Held /\ next' = next /\ released' = released  BY DEF vars, Held, ChunkOf
<1>3. next <= next' /\ released <= released'  BY <1>2, TapeTyped
<1> QED  BY <1>1, <1>2, <1>3 DEF TapeStep

LEMMA AddSteps ==
    ASSUME IInv, Add
    PROVE  TapeStep
<1>1. /\ Next /\ IInv' /\ next' = next + 1 /\ released' = released /\ Held' = Held \cup {next}
  BY AddIsNext, AddHolds
<1>2. next <= next' /\ released <= released'  BY <1>1, TapeTyped
<1> QED  BY <1>1, <1>2 DEF TapeStep

LEMMA LossSteps ==
    ASSUME IInv, Next, IInv', Loses
    PROVE  TapeStep
<1>1. next <= next'  BY TapeTyped DEF Loses
<1> QED  BY <1>1 DEF TapeStep, Loses

(* A step that leaves the cells alone: what it still reads, it read before. *)
LEMMA SameCells ==
    ASSUME IInv, WInv, TapeStep, UNCHANGED <<cells, sweptAt, late, cellOf>>, StillRead' \subseteq StillRead
    PROVE  CellsKept' /\ SweptUp'
<1>1. /\ next \in Nat /\ next' \in Nat /\ next <= next' /\ Held' \subseteq Held \cup {next}
      /\ released \in Nat /\ released' \in Nat /\ released <= released' /\ sweptAt \in Nat
  <2>1. next \in Nat /\ released \in Nat  BY TapeTyped
  <2>2. next' \in Nat /\ released' \in Nat  BY DEF TapeStep, IInv, TypeOK
  <2> QED  BY <2>1, <2>2 DEF TapeStep, WInv, Typed
<1>2. RunOK(cells) /\ CellsIn(cells, next, Held) /\ \A s \in StillRead : Stands(cells, cellOf[s], s)
  BY DEF WInv, CellsKept, CellsIn
<1>3. CellsIn(cells, next', Held')  BY <1>1, <1>2, TapeMoves
<1>4. CellsKept'  BY <1>2, <1>3 DEF CellsKept, CellsIn
<1>5. sweptAt <= released /\ (sweptAt = released =>
        \E f \in late \cup {cells.filling} : NoneOver(cells, f, Held))
  BY DEF WInv, SweptUp, NoneOver
<1>6. sweptAt <= released' /\ (sweptAt = released' => released' = released)
  BY <1>1, <1>5
<1>7. sweptAt = released' => \E f \in late \cup {cells.filling} : NoneOver(cells, f, Held')
  <2> SUFFICES ASSUME sweptAt = released'
               PROVE  \E f \in late \cup {cells.filling} : NoneOver(cells, f, Held')
    OBVIOUS
  <2>1. Held \subseteq Held' /\ sweptAt = released  BY <1>6 DEF TapeStep
  <2>2. PICK f \in late \cup {cells.filling} : NoneOver(cells, f, Held)  BY <1>5, <2>1
  <2> QED  BY <2>1, <2>2, OverStays
<1>8. SweptUp'  BY <1>6, <1>7 DEF SweptUp, NoneOver
<1> QED  BY <1>4, <1>8

LEMMA ScanInv ==
    ASSUME IInv, WInv, Scan
    PROVE  TapeStep /\ WInv'
<1>1. /\ TapeStep /\ Add /\ UNCHANGED <<cells, sweptAt, late, cellOf, kind, at, open>>
  BY AddSteps DEF Scan, grouper
<1>2. next' = next + 1 /\ next \in Nat /\ UNCHANGED <<tail, frozen, run>>
  BY <1>1, AddIsNext, TapeTyped
<1>3. StillRead' = StillRead  BY <1>1 DEF StillRead
<1>4. CellsKept' /\ SweptUp'  BY <1>1, <1>3, SameCells
<1>5. Typed'  BY <1>1 DEF WInv, Typed
<1>6. TapeUsed'
  <2>1. \A s \in Token : s >= next' => s >= next  BY <1>2, TapeTyped
  <2> QED  BY <1>1, <1>2, <2>1 DEF WInv, TapeUsed
<1>7. LevelsHold'  BY <1>1, <1>2 DEF WInv, LevelsHold, HoldsKey, IsKey
<1> QED  BY <1>1, <1>4, <1>5, <1>6, <1>7 DEF WInv

(* The descent enters a level over the key the body stands at. *)
Entered(w) == HoldLevel(SeqOf(at)) /\ open' = Append(open, [what |-> w, key |-> at])

LEMMA EnterHolds ==
    ASSUME IInv, WInv, Ready, IsKey(at), NEW w \in {"map", "entry"}, Entered(w), kind' = kind
    PROVE  /\ TapeStep /\ Held' = Held /\ UNCHANGED <<next, tail, frozen, released>>
           /\ at \in Token /\ at < next
           /\ open' \in Seq(Level) /\ LevelsHold'
           /\ \A i \in DOMAIN open' : (i \in DOMAIN open /\ open'[i] = open[i]) \/ open'[i].key = at
<1> DEFINE n == Len(open)
           s == SeqOf(at)
           now == [what |-> w, key |-> at]
           held == [kind |-> "run", from |-> s, to |-> s]
<1>1. /\ open \in Seq(Level) /\ n \in Nat /\ DOMAIN open = 1..n /\ at \in Nat
      /\ n+1 \in Holder /\ open' = Append(open, now)
  BY DEF WInv, Typed, Level, Entered, HoldLevel
<1>2. at < next /\ at \in Token
  <2>1. at < next  BY <1>1, TapeTyped DEF Ready
  <2> QED  BY <1>1, <2>1, TapeTyped
<1>3. at \in Held  BY <1>1, <1>2, FromTailHeld DEF WInv
<1>4. /\ TapeStep /\ Held' = Held /\ UNCHANGED <<next, tail, frozen, released>>
      /\ s \in Held => run' = [run EXCEPT ![n+1] = held]
      /\ s \notin Held => run' = run
  <2>1. CASE s \in Held
    <3>1. HoldRun(n+1, s, s) /\ s \in Token  BY <2>1 DEF Entered, HoldLevel, Held
    <3>2. Next /\ IInv' /\ Held' = Held /\ UNCHANGED <<next, frozen, tail, released>>
          /\ run' = [run EXCEPT ![n+1] = held]
      BY <1>1, <3>1, HoldKeeps
    <3>3. next <= next' /\ released <= released'  BY <3>2, TapeTyped
    <3> QED  BY <2>1, <3>2, <3>3 DEF TapeStep
  <2>2. CASE s \notin Held
    <3>1. UNCHANGED vars  BY <2>2 DEF Entered, HoldLevel
    <3> QED  BY <2>2, <3>1, StillsTape DEF vars
  <2> QED  BY <2>1, <2>2
<1>5. kind[at] = "key" => s = at  BY DEF SeqOf
<1> HIDE DEF s
<1>6. now \in Level  BY <1>2 DEF Level
<1> HIDE DEF now
<1>7. /\ open' \in Seq(Level) /\ DOMAIN open' = 1..n+1 /\ open'[n+1] = now
      /\ \A i \in 1..n : open'[i] = open[i]
  BY <1>1, <1>6
<1> HIDE DEF n
<1>8. /\ \A i \in 1..n+1 : i \in 1..n \/ i = n+1
      /\ \A i \in 1..n : i \in 1..n+1 /\ i # n+1
      /\ n+1 \in 1..n+1
  BY <1>1
<1>9. run \in [Holder -> Run]  BY TapeTyped
<1>10. \A h \in Holder : h # n+1 => run'[h] = run[h]  BY <1>4, <1>9
<1>11. ASSUME NEW i \in DOMAIN open'
       PROVE  i \in Holder /\ IsKey(open[i].key)'
              /\ (kind'[open'[i].key] = "key" => HoldsKey(i)')
  <2>1. CASE i \in 1..n
    <3>1. i \in DOMAIN open /\ open'[i] = open[i] /\ i \in Holder /\ run'[i] = run[i]
      BY <1>1, <1>7, <1>8, <1>10, <2>1 DEF WInv, LevelsHold
    <3> QED  BY <3>1 DEF WInv, LevelsHold, HoldsKey, IsKey
  <2>2. CASE i = n+1
    <3>1. open'[i].key = at  BY <1>7, <2>2 DEF now
    <3>2. kind[at] = "key" => run'[n+1] = [kind |-> "run", from |-> at, to |-> at]
      BY <1>1, <1>3, <1>4, <1>5, <1>9
    <3> QED  BY <1>1, <2>2, <3>1, <3>2 DEF IsKey, HoldsKey
  <2> QED  BY <1>7, <1>8, <2>1, <2>2
<1>12. ASSUME NEW h \in Holder, h \notin DOMAIN open' PROVE run'[h] = NoRun
  <2>1. h \notin DOMAIN open /\ h # n+1  BY <1>1, <1>7, <1>8, <1>12
  <2> QED  BY <1>10, <2>1 DEF WInv, LevelsHold
<1>13. LevelsHold'  BY <1>11, <1>12 DEF LevelsHold
<1>14. ASSUME NEW i \in DOMAIN open'
       PROVE  (i \in DOMAIN open /\ open'[i] = open[i]) \/ open'[i].key = at
  BY <1>1, <1>7, <1>8 DEF now
<1> QED  BY <1>2, <1>4, <1>7, <1>13, <1>14

LEMMA PastUnit ==
    ASSUME NEW s \in Nat
    PROVE  UnitEnd(s) \in Nat /\ s < UnitEnd(s)
BY DEF UnitEnd

LEMMA OpenInv ==
    ASSUME IInv, WInv, OpenMapping \/ OpenEntry
    PROVE  TapeStep /\ WInv'
<1>1. PICK w \in {"map", "entry"} : Entered(w)
  BY DEF OpenMapping, OpenEntry, Entered
<1>2. Ready /\ IsKey(at) /\ UNCHANGED <<cells, sweptAt, late, cellOf, kind>>
  BY DEF OpenMapping, OpenEntry, grouper
<1>3. /\ TapeStep /\ Held' = Held /\ UNCHANGED <<next, tail, frozen, released>>
      /\ at \in Token /\ at < next
      /\ open' \in Seq(Level) /\ LevelsHold'
      /\ \A i \in DOMAIN open' : (i \in DOMAIN open /\ open'[i] = open[i]) \/ open'[i].key = at
  BY <1>1, <1>2, EnterHolds
<1>4. at \in Nat /\ at' \in Nat /\ at <= at'
  <2>1. at \in Nat  BY DEF WInv, Typed
  <2>2. at' = at \/ at' = UnitEnd(at)  BY DEF OpenMapping, OpenEntry
  <2> QED  BY <2>1, <2>2, PastUnit
<1>5. \A s \in Token : s \in Nat  BY TapeTyped
<1>6. StillRead' \subseteq StillRead
  <2> SUFFICES ASSUME NEW s \in StillRead' PROVE s \in StillRead
    OBVIOUS
  <2>1. s \in Token /\ kind[s] = "key"  BY <1>2 DEF StillRead
  <2>2. s >= at' \/ \E i \in DOMAIN open' : open'[i].key = s  BY DEF StillRead
  <2>3. s >= at \/ \E i \in DOMAIN open : open[i].key = s
    <3>1. CASE s >= at'  BY <1>4, <1>5, <2>1, <3>1
    <3>2. ASSUME NEW i \in DOMAIN open', open'[i].key = s
          PROVE  s >= at \/ \E j \in DOMAIN open : open[j].key = s
      BY <1>3, <1>4, <3>2
    <3> QED  BY <2>2, <3>1, <3>2
  <2> QED  BY <2>1, <2>3 DEF StillRead
<1>7. CellsKept' /\ SweptUp'  BY <1>2, <1>3, <1>6, SameCells
<1>8. Typed'  BY <1>2, <1>3, <1>4 DEF WInv, Typed, Level
<1>9. TapeUsed'
  <2>1. tail <= at'
    <3>1. tail <= at /\ tail \in Nat  BY TapeTyped DEF WInv, TapeUsed
    <3> QED  BY <1>4, <3>1
  <2> QED  BY <1>2, <1>3, <2>1 DEF WInv, TapeUsed
<1> QED  BY <1>3, <1>7, <1>8, <1>9 DEF WInv

LEMMA ReadValueInv ==
    ASSUME IInv, WInv, ReadValue
    PROVE  TapeStep /\ WInv'
<1>1. UNCHANGED <<vars, cells, sweptAt, late, cellOf, kind, open>> /\ at' = UnitEnd(at)
  BY DEF ReadValue, grouper
<1>2. TapeStep /\ UNCHANGED <<next, tail, frozen, run>>  BY <1>1, StillsTape DEF vars
<1>3. at \in Nat /\ at' \in Nat /\ at <= at'
  <2>1. at \in Nat  BY DEF WInv, Typed
  <2> QED  BY <1>1, <2>1, PastUnit
<1>4. StillRead' \subseteq StillRead
  <2>1. \A s \in Token : s >= at' => s >= at  BY <1>3, TapeTyped
  <2> QED  BY <1>1, <2>1 DEF StillRead
<1>5. CellsKept' /\ SweptUp'  BY <1>1, <1>2, <1>4, SameCells
<1>6. Typed'  BY <1>1, <1>3 DEF WInv, Typed
<1>7. TapeUsed'
  <2>1. tail <= at'
    <3>1. tail <= at /\ tail \in Nat  BY TapeTyped DEF WInv, TapeUsed
    <3> QED  BY <1>3, <3>1
  <2> QED  BY <1>1, <1>2, <2>1 DEF WInv, TapeUsed
<1>8. LevelsHold'  BY <1>1, <1>2 DEF WInv, LevelsHold, HoldsKey, IsKey
<1> QED  BY <1>2, <1>5, <1>6, <1>7, <1>8 DEF WInv

LEMMA CloseInv ==
    ASSUME IInv, WInv, Close
    PROVE  TapeStep /\ WInv'
<1> DEFINE n == Len(open)
<1>1. /\ open \in Seq(Level) /\ n \in Nat /\ DOMAIN open = 1..n /\ n >= 1
      /\ open' = SubSeq(open, 1, n-1)
      /\ UNCHANGED <<cells, sweptAt, late, cellOf, kind, at>>
  BY DEF Close, WInv, Typed, Level, grouper
<1>2. n \in DOMAIN open /\ n \in Holder  BY <1>1 DEF WInv, LevelsHold
<1>3. /\ open' \in Seq(Level) /\ DOMAIN open' = 1..n-1 /\ \A i \in 1..n-1 : open'[i] = open[i]
  BY <1>1
<1>4. run \in [Holder -> Run]  BY TapeTyped
<1>5. /\ TapeStep /\ UNCHANGED <<next, tail, frozen>>
      /\ \A h \in Holder : h # n => run'[h] = run[h]
      /\ run'[n] = NoRun
  <2>1. CASE run[n] = NoRun
    <3>1. UNCHANGED vars  BY <2>1 DEF Close
    <3> QED  BY <2>1, <3>1, StillsTape DEF vars
  <2>2. CASE run[n] # NoRun
    <3>1. Release(n)  BY <2>2 DEF Close
    <3> HIDE DEF n
    <3>2. Next /\ IInv' /\ Loses /\ UNCHANGED <<frozen, tail>> /\ run' = [run EXCEPT ![n] = NoRun]
      BY <1>2, <3>1, ReleaseLoses
    <3> QED  BY <1>2, <1>4, <3>2, LossSteps DEF Loses
  <2> QED  BY <2>1, <2>2
<1> HIDE DEF n
<1>6. /\ \A i \in 1..n-1 : i \in 1..n /\ i # n
      /\ \A i \in 1..n : i \in 1..n-1 \/ i = n
  BY <1>1
<1>7. \A i \in DOMAIN open' : i \in DOMAIN open /\ i # n /\ open'[i] = open[i]
  BY <1>1, <1>3, <1>6
<1>8. StillRead' \subseteq StillRead
  <2> SUFFICES ASSUME NEW s \in StillRead' PROVE s \in StillRead
    OBVIOUS
  <2>1. s \in Token /\ kind[s] = "key"  BY <1>1 DEF StillRead
  <2>2. s >= at \/ \E i \in DOMAIN open' : open'[i].key = s  BY <1>1 DEF StillRead
  <2>3. s >= at \/ \E i \in DOMAIN open : open[i].key = s  BY <1>7, <2>2
  <2> QED  BY <2>1, <2>3 DEF StillRead
<1>9. CellsKept' /\ SweptUp'  BY <1>1, <1>5, <1>8, SameCells
<1>10. Typed'  BY <1>1, <1>3 DEF WInv, Typed, Level
<1>11. TapeUsed'  BY <1>1, <1>5 DEF WInv, TapeUsed
<1>12. ASSUME NEW i \in DOMAIN open'
       PROVE  i \in Holder /\ IsKey(open[i].key)'
              /\ (kind'[open'[i].key] = "key" => HoldsKey(i)')
  <2>1. i \in DOMAIN open /\ open'[i] = open[i] /\ i \in Holder /\ run'[i] = run[i]
    BY <1>5, <1>7 DEF WInv, LevelsHold
  <2> QED  BY <1>1, <2>1 DEF WInv, LevelsHold, HoldsKey, IsKey
<1>13. ASSUME NEW h \in Holder, h \notin DOMAIN open' PROVE run'[h] = NoRun
  <2>1. CASE h = n  BY <1>5, <2>1
  <2>2. CASE h # n
    <3>1. h \notin DOMAIN open  BY <1>1, <1>3, <1>6, <1>13, <2>2
    <3> QED  BY <1>5, <2>2, <3>1 DEF WInv, LevelsHold
  <2> QED  BY <2>1, <2>2
<1>14. LevelsHold'  BY <1>12, <1>13 DEF LevelsHold
<1> QED  BY <1>5, <1>9, <1>10, <1>11, <1>14 DEF WInv

StillOnTape == StillRead \subseteq Held

LEMMA AllStillHeld == IInv /\ Typed /\ TapeUsed /\ LevelsHold => StillOnTape
BY StillHeld DEF StillOnTape

LEMMA AllStillHeldNext == IInv' /\ Typed' /\ TapeUsed' /\ LevelsHold' => StillOnTape'
BY AllStillHeld, PTL

LEMMA ReadToInv ==
    ASSUME IInv, WInv, ReadTo
    PROVE  TapeStep /\ WInv'
<1> DEFINE s == SeqOf(at)
<1>1. /\ Ready /\ SetTail(s) /\ UNCHANGED <<kind, cellOf, at, open>>
  BY DEF ReadTo
<1>2. at \in Nat /\ tail \in Nat /\ tail <= at /\ next \in Nat /\ MaxTokens \in Nat /\ next <= MaxTokens
  BY TapeTyped DEF WInv, Typed, TapeUsed
<1>3. s \in 0 .. MaxTokens /\ s <= at
  <2>1. at < next  BY <1>1, <1>2 DEF Ready
  <2>2. CASE s = 0  BY <1>2, <2>2
  <2>3. CASE s = at  BY <1>2, <2>1, <2>3
  <2> QED  BY <2>2, <2>3 DEF SeqOf
<1> HIDE DEF s
<1>4. /\ Next /\ IInv' /\ Loses /\ UNCHANGED <<frozen, run>>
      /\ tail' = IF s > tail THEN s ELSE tail
  BY <1>1, <1>3, TailLoses
<1>5. TapeStep /\ next' = next  BY <1>4, LossSteps DEF Loses
<1>6. tail' \in Nat /\ tail' <= at  BY <1>2, <1>3, <1>4
<1>7. StillRead' = StillRead  BY <1>1 DEF StillRead
<1>8. TapeUsed'  BY <1>1, <1>4, <1>5, <1>6 DEF WInv, TapeUsed
<1>9. LevelsHold'  BY <1>1, <1>4 DEF WInv, LevelsHold, HoldsKey, IsKey
<1>10. released' \in Nat  BY <1>4 DEF IInv, TypeOK
<1>11. Typed'
  <2>1. CASE sweptAt' = sweptAt /\ late' = late  BY <1>1, <2>1 DEF WInv, Typed
  <2>2. CASE sweptAt' = released' /\ late' = {}  BY <1>1, <1>10, <2>2 DEF WInv, Typed
  <2> QED  BY <2>1, <2>2 DEF ReadTo, SweepCells
<1>12. CASE released' = sweptAt
  <2>1. UNCHANGED <<cells, sweptAt, late>>  BY <1>12 DEF ReadTo, SweepCells
  <2>2. CellsKept' /\ SweptUp'  BY <1>1, <1>5, <1>7, <2>1, SameCells
  <2> QED  BY <1>5, <1>8, <1>9, <1>11, <2>2 DEF WInv
<1>13. CASE released' # sweptAt
  <2> DEFINE dead == {t \in Token : ChunkOf(t)' = NoChunk}
  <2>1. sweptAt' = released' /\ cells' = Cell!Release(cells, dead) /\ late' = {}
    BY <1>13 DEF ReadTo, SweepCells
  <2>2. \A t \in Nat : t < next => (t \in dead <=> t \notin Held')
    <3>1. \A t \in Token : t \in dead <=> t \notin Held'  BY DEF Held
    <3> QED  BY <3>1, TapeTyped
  <2>3. RunOK(cells) /\ CellsIn(cells, next, Held) /\ \A t \in StillRead : Stands(cells, cellOf[t], t)
    BY DEF WInv, CellsKept, CellsIn
  <2> HIDE DEF dead
  <2>4. Held' \subseteq Held  BY <1>4 DEF Loses
  <2>5. SweptWell(cells, cells', next, Held')
    BY <1>2, <2>1, <2>2, <2>3, <2>4, CellsSwept
  <2>6. StillRead' \subseteq Held'  BY <1>4, <1>8, <1>9, <1>11, AllStillHeldNext DEF StillOnTape
  <2>7. \A t \in StillRead' : Stands(cells', cellOf'[t], t)
    BY <1>1, <1>7, <2>3, <2>5, <2>6 DEF SweptWell
  <2>8. CellsKept'  BY <1>5, <2>5, <2>7 DEF CellsKept, SweptWell, CellsIn
  <2>9. NoneOver(cells', cells'.filling, Held')  BY <2>5 DEF SweptWell
  <2>10. SweptUp'  BY <1>10, <2>1, <2>9 DEF SweptUp, NoneOver
  <2> QED  BY <1>5, <1>8, <1>9, <1>11, <2>8, <2>10 DEF WInv
<1> QED  BY <1>12, <1>13

(* The run of cells as the scanner finds it, its token already on the tape. *)
LEMMA CellsBeforeTake ==
    ASSUME IInv, WInv, Add
    PROVE  /\ TapeStep /\ IInv' /\ next \in Token /\ next \in Nat
           /\ next' = next + 1 /\ next' \in Nat /\ Held' = Held \cup {next}
           /\ UNCHANGED <<tail, frozen, released, run>>
           /\ RunOK(cells) /\ CellsIn(cells, next', Held')
           /\ \A s \in StillRead : Stands(cells, cellOf[s], s) /\ s < next
           /\ sweptAt <= released
           /\ sweptAt = released => \E f \in late \cup {cells.filling} : NoneOver(cells, f, Held')
<1>1. /\ TapeStep /\ IInv' /\ next' = next + 1 /\ next < MaxTokens /\ Held' = Held \cup {next}
      /\ UNCHANGED <<tail, frozen, released, run>>
  BY AddSteps, AddIsNext, AddHolds
<1>2. next \in Nat /\ next' \in Nat /\ next <= next' /\ next \in Token
  <2>1. next \in Nat /\ MaxTokens \in Nat  BY TapeTyped
  <2> QED  BY <1>1, <2>1 DEF Token
<1>3. RunOK(cells) /\ CellsIn(cells, next, Held) /\ \A s \in StillRead : Stands(cells, cellOf[s], s)
  BY DEF WInv, CellsKept, CellsIn
<1>4. CellsIn(cells, next', Held')  BY <1>1, <1>2, <1>3, TapeMoves
<1>5. \A s \in StillRead : s < next  BY StillHeld DEF WInv
<1>6. sweptAt <= released /\ (sweptAt = released =>
        \E f \in late \cup {cells.filling} : NoneOver(cells, f, Held))
  BY DEF WInv, SweptUp, NoneOver
<1>7. sweptAt = released => \E f \in late \cup {cells.filling} : NoneOver(cells, f, Held')
  <2> SUFFICES ASSUME sweptAt = released
               PROVE  \E f \in late \cup {cells.filling} : NoneOver(cells, f, Held')
    OBVIOUS
  <2>1. PICK f \in late \cup {cells.filling} : NoneOver(cells, f, Held)  BY <1>6
  <2> QED  BY <1>1, <2>1, OverStays
<1> QED  BY <1>1, <1>2, <1>3, <1>4, <1>5, <1>6, <1>7

(* What a key was found for, or a ':', changes no level. *)
LEMMA LevelsNamed ==
    ASSUME WInv, UNCHANGED <<run, open>>, NEW new \in SUBSET Token,
           \A s \in new : kind[s] = "value", \A s \in Token \ new : kind'[s] = kind[s]
    PROVE  LevelsHold'
<1>1. ASSUME NEW i \in DOMAIN open
      PROVE  i \in Holder /\ IsKey(open[i].key)' /\ (kind'[open[i].key] = "key" => HoldsKey(i)')
  <2>1. open[i].key \in Token
    <3>1. open \in Seq(Level)  BY DEF WInv, Typed, Level
    <3>2. open[i] \in Level  BY <3>1
    <3> QED  BY <3>2 DEF Level
  <2>2. i \in Holder /\ IsKey(open[i].key) /\ (kind[open[i].key] = "key" => HoldsKey(i))
    BY DEF WInv, LevelsHold
  <2>3. kind'[open[i].key] = kind[open[i].key]  BY <2>1, <2>2 DEF IsKey
  <2> QED  BY <2>2, <2>3 DEF IsKey, HoldsKey
<1> QED  BY <1>1 DEF WInv, LevelsHold

LEMMA ScanColonInv ==
    ASSUME IInv, WInv, ScanColon
    PROVE  TapeStep /\ WInv'
<1> DEFINE s == next - 1
<1>1. /\ Add /\ next > 0 /\ s >= at /\ kind[s] = "value"
      /\ cells' = Cell!Take(cells, s)
      /\ cellOf' = [cellOf EXCEPT ![s] = Cell!LastTaken(cells')]
      /\ kind' = [kind EXCEPT ![s] = "key", ![next] = "colon"]
      /\ late' = late \cup (cells'.full \ cells.full)
      /\ UNCHANGED <<sweptAt, at, open>>
  BY DEF ScanColon, Cell!RetiredBetween
<1>2. /\ TapeStep /\ IInv' /\ next \in Token /\ next \in Nat
      /\ next' = next + 1 /\ next' \in Nat /\ Held' = Held \cup {next}
      /\ UNCHANGED <<tail, frozen, released, run>>
      /\ RunOK(cells) /\ CellsIn(cells, next', Held')
      /\ \A t \in StillRead : Stands(cells, cellOf[t], t) /\ t < next
      /\ sweptAt <= released
      /\ sweptAt = released => \E f \in late \cup {cells.filling} : NoneOver(cells, f, Held')
  BY <1>1, CellsBeforeTake
<1>3. s \in Nat /\ s < next /\ s < next' /\ s # next /\ at \in Nat /\ at <= s
  <2>1. at \in Nat  BY DEF WInv, Typed
  <2> QED  BY <1>1, <1>2, <2>1
<1> HIDE DEF s
<1>4. s \in Held' /\ s \in Token
  <2>1. s \in Held  BY <1>3, FromTailHeld DEF WInv
  <2> QED  BY <1>2, <1>3, <2>1, TapeTyped
<1>5. Taken(cells, cells', s)  BY <1>1, <1>2, <1>3, TakeCells
<1>6. TakenWell(cells, cells', s, next', Held')  BY <1>2, <1>3, <1>4, <1>5, CellTaken
<1>7. Cell!LastTaken(cells') \in [chunk : Nat, slot : Nat]  BY <1>6 DEF TakenWell
<1> DEFINE cell == Cell!LastTaken(cells')
<1>8. cell \in [chunk : Nat, slot : Nat] /\ cellOf' = [cellOf EXCEPT ![s] = cell] /\ Stands(cells', cell, s)
  BY <1>1, <1>6, <1>7 DEF TakenWell
<1> HIDE DEF cell
<1>9. kind \in [Token -> Kind] /\ cellOf \in [Token -> [chunk : Nat, slot : Nat]]
  BY DEF WInv, Typed
<1>10. /\ kind' \in [Token -> Kind] /\ kind'[s] = "key"
       /\ \A t \in Token : t # s /\ t # next => kind'[t] = kind[t]
       /\ kind'[next] = "colon"
  BY <1>1, <1>2, <1>3, <1>4, <1>9 DEF Kind
<1>11. /\ cellOf' \in [Token -> [chunk : Nat, slot : Nat]] /\ cellOf'[s] = cell
       /\ \A t \in Token : t # s => cellOf'[t] = cellOf[t]
  <2> DEFINE Place == [chunk : Nat, slot : Nat]
  <2>1. cellOf \in [Token -> Place] /\ cell \in Place /\ s \in Token
        /\ cellOf' = [cellOf EXCEPT ![s] = cell]
    BY <1>4, <1>8, <1>9
  <2> HIDE DEF Place
  <2>2. cellOf' \in [Token -> Place]  BY <2>1
  <2>3. cellOf'[s] = cell /\ \A t \in Token : t # s => cellOf'[t] = cellOf[t]  BY <2>1
  <2> QED  BY <2>2, <2>3 DEF Place
<1>12. \A t \in StillRead' : t = s \/ (t \in StillRead /\ t # s)
  BY <1>1, <1>10 DEF StillRead
<1>13. ASSUME NEW t \in StillRead' PROVE Stands(cells', cellOf'[t], t)
  <2>1. CASE t = s  BY <1>8, <1>11, <2>1
  <2>2. CASE t \in StillRead /\ t # s
    <3>1. cellOf'[t] = cellOf[t]  BY <1>11, <2>2 DEF StillRead
    <3> QED  BY <1>2, <1>6, <2>2, <3>1 DEF TakenWell
  <2> QED  BY <1>12, <2>1, <2>2
<1>14. CellsKept'  BY <1>5, <1>6, <1>13 DEF CellsKept, Taken, TakenWell, CellsIn
<1>15. SweptUp'
  <2>1. sweptAt' <= released'  BY <1>1, <1>2
  <2>2. sweptAt' = released' =>
          \E f \in late' \cup {cells'.filling} : NoneOver(cells', f, Held')
    BY <1>1, <1>2, <1>6 DEF TakenWell
  <2> QED  BY <2>1, <2>2 DEF SweptUp, NoneOver
<1>16. Typed'
  <2>1. cells'.full \subseteq Nat  BY <1>5 DEF Taken, RunOK, RunType
  <2> QED  BY <1>1, <1>10, <1>11, <2>1 DEF WInv, Typed
<1>17. TapeUsed'
  <2>1. \A t \in Token : t >= next' => t >= next /\ t # next /\ t # s
    BY <1>2, <1>3, TapeTyped
  <2> QED  BY <1>1, <1>2, <1>10, <2>1 DEF WInv, TapeUsed
<1>18. LevelsHold'
  <2> DEFINE new == {s, next}
  <2>1. kind[next] = "value"  BY <1>2 DEF WInv, TapeUsed
  <2>2. new \in SUBSET Token /\ \A t \in new : kind[t] = "value"  BY <1>1, <1>2, <1>4, <2>1
  <2>3. \A t \in Token \ new : kind'[t] = kind[t]  BY <1>10
  <2> HIDE DEF new
  <2> QED  BY <1>1, <1>2, <2>2, <2>3, LevelsNamed
<1> QED  BY <1>2, <1>14, <1>15, <1>16, <1>17, <1>18 DEF WInv

LEMMA ScanAbsentKeyInv ==
    ASSUME IInv, WInv, ScanAbsentKey
    PROVE  TapeStep /\ WInv'
<1> DEFINE null == Cell!Take(cells, next)
           cell == Cell!LastTaken(null)
<1>1. /\ Add
      /\ cells' = Cell!Take(null, 0)
      /\ cellOf' = [cellOf EXCEPT ![next] = cell]
      /\ kind' = [kind EXCEPT ![next] = "absent"]
      /\ late' = late \cup (cells'.full \ cells.full)
      /\ UNCHANGED <<sweptAt, at, open>>
  BY DEF ScanAbsentKey, Cell!RetiredBetween
<1>2. /\ TapeStep /\ IInv' /\ next \in Token /\ next \in Nat
      /\ next' = next + 1 /\ next' \in Nat /\ Held' = Held \cup {next}
      /\ UNCHANGED <<tail, frozen, released, run>>
      /\ RunOK(cells) /\ CellsIn(cells, next', Held')
      /\ \A t \in StillRead : Stands(cells, cellOf[t], t) /\ t < next
      /\ sweptAt <= released
      /\ sweptAt = released => \E f \in late \cup {cells.filling} : NoneOver(cells, f, Held')
  BY <1>1, CellsBeforeTake
<1>3. next < next' /\ 0 < next' /\ next \in Held'  BY <1>2
<1>4. Taken(cells, null, next)  BY <1>2, TakeCells
<1> HIDE DEF null
<1>5. TakenWell(cells, null, next, next', Held')  BY <1>2, <1>3, <1>4, CellTaken
<1>6. RunOK(null) /\ CellsIn(null, next', Held')  BY <1>4, <1>5 DEF Taken, TakenWell
<1>7. Taken(null, cells', 0)  BY <1>1, <1>6, TakeCells
<1>8. TakenWell(null, cells', 0, next', Held')  BY <1>2, <1>3, <1>6, <1>7, CellTaken
<1>9. /\ \A k, t : Stands(cells, k, t) => Stands(cells', k, t)
      /\ cell \in [chunk : Nat, slot : Nat]
      /\ cells.full \subseteq null.full /\ null.full \subseteq cells'.full
  BY <1>4, <1>5, <1>7, <1>8 DEF TakenWell, Taken
<1> HIDE DEF cell
<1>10. kind \in [Token -> Kind] /\ cellOf \in [Token -> [chunk : Nat, slot : Nat]]
  BY DEF WInv, Typed
<1>11. /\ kind' \in [Token -> Kind] /\ kind'[next] = "absent"
       /\ \A t \in Token : t # next => kind'[t] = kind[t]
  BY <1>1, <1>2, <1>10 DEF Kind
<1>12. /\ cellOf' \in [Token -> [chunk : Nat, slot : Nat]]
       /\ \A t \in Token : t # next => cellOf'[t] = cellOf[t]
  <2> DEFINE Place == [chunk : Nat, slot : Nat]
  <2>1. cellOf \in [Token -> Place] /\ cell \in Place /\ next \in Token
        /\ cellOf' = [cellOf EXCEPT ![next] = cell]
    BY <1>1, <1>2, <1>9, <1>10
  <2> HIDE DEF Place
  <2>2. cellOf' \in [Token -> Place]  BY <2>1
  <2>3. \A t \in Token : t # next => cellOf'[t] = cellOf[t]  BY <2>1
  <2> QED  BY <2>2, <2>3 DEF Place
<1>13. \A t \in StillRead' : t \in StillRead /\ t # next /\ t \in Token
  BY <1>1, <1>11 DEF StillRead
<1>14. \A t \in StillRead' : Stands(cells', cellOf'[t], t)
  BY <1>2, <1>9, <1>12, <1>13
<1>15. CellsKept'  BY <1>7, <1>8, <1>14 DEF CellsKept, Taken, TakenWell, CellsIn
<1>16. SweptUp'
  <2> SUFFICES ASSUME sweptAt' = released'
               PROVE  \E f \in late' \cup {cells'.filling} : NoneOver(cells', f, Held')
    BY <1>1, <1>2 DEF SweptUp, NoneOver
  <2> DEFINE L == late \cup (null.full \ cells.full)
  <2>1. \E f \in late \cup {cells.filling} : NoneOver(cells, f, Held')  BY <1>1, <1>2
  <2>2. \E f \in L \cup {null.filling} : NoneOver(null, f, Held')
    BY <1>5, <2>1 DEF TakenWell
  <2> HIDE DEF L
  <2>3. \E f \in L \cup (cells'.full \ null.full) \cup {cells'.filling} : NoneOver(cells', f, Held')
    BY <1>8, <2>2 DEF TakenWell
  <2>4. L \cup (cells'.full \ null.full) \subseteq late'  BY <1>1, <1>9 DEF L
  <2> QED  BY <2>3, <2>4
<1>17. Typed'
  <2>1. cells'.full \subseteq Nat  BY <1>7 DEF Taken, RunOK, RunType
  <2> QED  BY <1>1, <1>11, <1>12, <2>1 DEF WInv, Typed
<1>18. TapeUsed'
  <2>1. \A t \in Token : t >= next' => t >= next /\ t # next
    BY <1>2, <1>3, TapeTyped
  <2> QED  BY <1>1, <1>2, <1>11, <2>1 DEF WInv, TapeUsed
<1>19. LevelsHold'
  <2> DEFINE new == {next}
  <2>1. new \in SUBSET Token /\ \A t \in new : kind[t] = "value"  BY <1>2 DEF WInv, TapeUsed
  <2>2. \A t \in Token \ new : kind'[t] = kind[t]  BY <1>11
  <2> HIDE DEF new
  <2> QED  BY <1>1, <1>2, <2>1, <2>2, LevelsNamed
<1> QED  BY <1>2, <1>15, <1>16, <1>17, <1>18, <1>19 DEF WInv

(* Nothing is over in a run no chunk of which is in use. *)
LEMMA EmptyWalk ==
    ASSUME RunOK(cells), InUse(cells) = {}, tail = 0, frozen = 0, released \in Nat, sweptAt = 0,
           kind = [s \in Token |-> "value"], cellOf = [s \in Token |-> NoCell],
           at = 0, open = <<>>, late = {}, run = [h \in Holder |-> NoRun]
    PROVE  WInv
<1>1. Typed  BY DEF Typed, Kind, NoCell
<1>2. TapeUsed  BY DEF TapeUsed
<1>3. LevelsHold  BY DEF LevelsHold
<1>4. CellsKept  BY DEF CellsKept, StillRead
<1>5. SweptUp
  <2>1. cells.filling \in late \cup {cells.filling}  OBVIOUS
  <2> QED  BY <2>1 DEF SweptUp
<1> QED  BY <1>1, <1>2, <1>3, <1>4, <1>5 DEF WInv

EmptyNow ==
    /\ RunOK(cells) /\ InUse(cells) = {} /\ tail = 0 /\ frozen = 0 /\ released \in Nat /\ sweptAt = 0
    /\ kind = [s \in Token |-> "value"] /\ cellOf = [s \in Token |-> NoCell]
    /\ at = 0 /\ open = <<>> /\ late = {} /\ run = [h \in Holder |-> NoRun]

LEMMA EmptyNowInv == EmptyNow => WInv
BY EmptyWalk DEF EmptyNow

LEMMA EmptyNextInv == EmptyNow' => WInv'
BY EmptyNowInv, PTL

LEMMA WalkInitInv == WalkInit => IInv /\ WInv
<1> SUFFICES ASSUME WalkInit PROVE IInv /\ WInv
  OBVIOUS
<1>1. IInv  BY InitInv DEF WalkInit
<1>2. EmptyNow  BY NewRunOK DEF WalkInit, Init, EmptyNow
<1> QED  BY <1>1, <1>2, EmptyNowInv

LEMMA NewStreamInv ==
    ASSUME IInv, WInv, NewStream
    PROVE  Next /\ IInv' /\ WInv'
<1>1. Next  BY DEF NewStream, Next
<1>2. IInv'  BY <1>1, NextInv
<1>3. RunOK(cells') /\ InUse(cells') = {}
  <2>1. RunOK(cells)  BY DEF WInv, CellsKept
  <2> QED  BY <2>1, RecycleCells DEF NewStream
<1>4. EmptyNow'  BY <1>3 DEF NewStream, Recycle, EmptyTape, EmptyNow
<1> QED  BY <1>1, <1>2, <1>4, EmptyNextInv

LEMMA WalkNextInv == IInv /\ WInv /\ [WalkNext]_walkVars => [Next]_vars /\ IInv' /\ WInv'
<1> SUFFICES ASSUME IInv, WInv, [WalkNext]_walkVars PROVE [Next]_vars /\ IInv' /\ WInv'
  OBVIOUS
<1>1. CASE Scan  BY <1>1, ScanInv DEF TapeStep
<1>2. CASE ScanColon  BY <1>2, ScanColonInv DEF TapeStep
<1>3. CASE ScanAbsentKey  BY <1>3, ScanAbsentKeyInv DEF TapeStep
<1>4. CASE OpenMapping \/ OpenEntry  BY <1>4, OpenInv DEF TapeStep
<1>5. CASE ReadValue  BY <1>5, ReadValueInv DEF TapeStep
<1>6. CASE ReadTo  BY <1>6, ReadToInv DEF TapeStep
<1>7. CASE Close  BY <1>7, CloseInv DEF TapeStep
<1>8. CASE NewStream  BY <1>8, NewStreamInv
<1>9. CASE UNCHANGED walkVars
  <2>1. UNCHANGED vars  BY <1>9 DEF walkVars
  <2>2. IInv'  BY <2>1, NextInv
  <2>3. Held' = Held  BY <2>1, StillsTape
  <2>4. StillRead' = StillRead  BY <1>9 DEF walkVars, StillRead
  <2>5. WInv'
    BY <1>9, <2>1, <2>3, <2>4 DEF walkVars, vars, WInv, Typed, TapeUsed, LevelsHold, HoldsKey, IsKey,
                                  CellsKept, SweptUp
  <2> QED  BY <2>1, <2>2, <2>5
<1> QED  BY <1>1, <1>2, <1>3, <1>4, <1>5, <1>6, <1>7, <1>8, <1>9 DEF WalkNext

LEMMA WalkInvariance == WalkSpec => [](IInv /\ WInv)
<1>1. WalkInit => IInv /\ WInv  BY WalkInitInv
<1>2. (IInv /\ WInv) /\ [WalkNext]_walkVars => (IInv /\ WInv)'  BY WalkNextInv
<1> QED  BY <1>1, <1>2, PTL DEF WalkSpec

-----------------------------------------------------------------------------
(* The theorems. *)

(* Every walk is a use of the tape: what the scanner and the descent do to *)
(* it between them are calls of the arena and nothing else, so what holds  *)
(* of the tape holds under them (readTo, holdRun, Grouper.Release).        *)
THEOREM WalkUsesTape == WalkSpec => Spec
<1>1. WalkInit => Init  BY DEF WalkInit
<1>2. IInv /\ WInv /\ [WalkNext]_walkVars => [Next]_vars  BY WalkNextInv
<1> QED  BY <1>1, <1>2, WalkInvariance, PTL DEF WalkSpec, Spec

LEMMA StandsFromInv == WInv => CellsStand
<1> SUFFICES ASSUME WInv, NEW s \in StillRead PROVE Cell!TokenIn(cells, cellOf[s]) = s
  BY DEF CellsStand
<1>1. RunOK(cells) /\ Stands(cells, cellOf[s], s)  BY DEF WInv, CellsKept
<1> DEFINE k == cells.chunks[cellOf[s].chunk]
<1>2. /\ cellOf[s].chunk \in DOMAIN cells.chunks
      /\ cellOf[s].slot \in DOMAIN k.seqs /\ k.seqs[cellOf[s].slot] = s
  BY <1>1 DEF Stands, RunOK, RunType
<1>3. cellOf[s].slot <= Len(k.seqs)
  <2>1. k.seqs \in Seq(Nat) /\ DOMAIN k.seqs = 1..Len(k.seqs) /\ Len(k.seqs) \in Nat
    BY <1>1, ChunkTyped DEF Stands
  <2> HIDE DEF k
  <2> QED  BY <1>2, <2>1
<1> QED  BY <1>2, <1>3 DEF Cell!TokenIn

(* The cell of a key stands for it until the key has been read, whatever   *)
(* went back meanwhile: a chunk of cells goes back with the last of its    *)
(* tokens, and the levels hold the chunks of the keys above (Run.Release,  *)
(* finished, holdRun).                                                     *)
THEOREM StandsCorrect == WalkSpec => []CellsStand
BY WalkInvariance, StandsFromInv, PTL

LEMMA BackFromInv == IInv /\ WInv => CellsComeBack
<1> SUFFICES ASSUME IInv, WInv, sweptAt = released
             PROVE  LET waiting == {c \in cells.full : Done(c)}
                    IN  Cardinality(waiting) <= 1 /\ waiting \subseteq late
  BY DEF CellsComeBack
<1> DEFINE waiting == {c \in cells.full : Done(c)}
<1>1. PICK f \in late \cup {cells.filling} : \A c \in InUse(cells) \ {f} : ~Over(cells.chunks[c], Held)
  BY DEF WInv, SweptUp
<1>2. waiting \subseteq {f} /\ waiting \subseteq cells.full
  BY <1>1 DEF Done, Over, InUse
<1>3. cells.filling \notin cells.full  BY DEF WInv, CellsKept, RunOK
<1>4. waiting \subseteq late  BY <1>1, <1>2, <1>3
<1> HIDE DEF waiting
<1>5. Cardinality(waiting) <= 1
  <2>1. CASE waiting = {}
    <3>1. Cardinality(waiting) = 0  BY <2>1, FS_EmptySet
    <3> QED  BY <3>1
  <2>2. CASE waiting = {f}
    <3>1. Cardinality(waiting) = 1  BY <2>2, FS_Singleton
    <3> QED  BY <3>1
  <2> QED  BY <1>2, <2>1, <2>2
<1> QED  BY <1>4, <1>5 DEF waiting

(* Cells come back as fast as the tape lets go of their tokens: swept at   *)
(* the count the tape stands at, at most one retired chunk is done with,   *)
(* and that one was being filled then (Grouper.Release, sweptAt).          *)
THEOREM CellsReturn == WalkSpec => []CellsComeBack
BY WalkInvariance, BackFromInv, PTL
=============================================================================
