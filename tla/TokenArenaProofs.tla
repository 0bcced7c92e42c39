-------------------------- MODULE TokenArenaProofs --------------------------
(* Theorems about TokenArena, for every chunk size, number of chunks,      *)
(* number of holders and bound.                                            *)
EXTENDS TokenArena, FiniteSetTheorems, TLAPS

USE ChunkSizeAssumption, BoundAssumption

-----------------------------------------------------------------------------
(* Arithmetic of chunks: the slot of byIndex a sequence number falls in.   *)

(* The chunk of a sequence number starts at or below it and ends above it. *)
LEMMA DivBounds ==
    ASSUME NEW s \in Nat
    PROVE  /\ s \div ChunkSize \in Nat
           /\ ChunkSize * (s \div ChunkSize) <= s
           /\ s < ChunkSize * (s \div ChunkSize) + ChunkSize
OBVIOUS

(* Multiples of the chunk size are at least one chunk apart. *)
LEMMA MultiplesApart ==
    ASSUME NEW i \in Nat, NEW j \in Nat, i < j
    PROVE  ChunkSize * i + ChunkSize <= ChunkSize * j
<1>1. PICK d \in Nat : j = i + 1 + d
  BY j = i + 1 + (j - i - 1)
<1>2. ChunkSize * (i + 1 + d) = ChunkSize * i + ChunkSize + ChunkSize * d
  OBVIOUS
<1>3. ChunkSize * d >= 0
  OBVIOUS
<1>4. ChunkSize * d \in Int /\ ChunkSize * i \in Int
  OBVIOUS
<1> QED BY <1>1, <1>2, <1>3, <1>4

(* Only one chunk's span holds a sequence number. *)
LEMMA DivUnique ==
    ASSUME NEW s \in Nat, NEW i \in Nat,
           ChunkSize * i <= s, s < ChunkSize * i + ChunkSize
    PROVE  s \div ChunkSize = i
<1> DEFINE q == s \div ChunkSize
<1>1. /\ q \in Nat /\ ChunkSize * q <= s /\ s < ChunkSize * q + ChunkSize
  BY DivBounds
<1>2. ~(q < i)
  <2> SUFFICES ASSUME q < i PROVE FALSE
    OBVIOUS
  <2>1. ChunkSize * q + ChunkSize <= ChunkSize * i
    BY <1>1, MultiplesApart
  <2> QED BY <2>1, <1>1
<1>3. ~(i < q)
  <2> SUFFICES ASSUME i < q PROVE FALSE
    OBVIOUS
  <2>1. ChunkSize * i + ChunkSize <= ChunkSize * q
    BY <1>1, MultiplesApart
  <2> QED BY <2>1, <1>1
<1> QED BY <1>1, <1>2, <1>3

-----------------------------------------------------------------------------
(* Type correctness. *)

(* Sets of chunks and of holders can be counted. *)
LEMMA Countable ==
    /\ \A C \in SUBSET Chunk : IsFiniteSet(C) /\ Cardinality(C) \in Nat
    /\ \A H \in SUBSET Holder : IsFiniteSet(H) /\ Cardinality(H) \in Nat
BY ChunkAssumption, HolderAssumption, FS_Subset, FS_CardinalityType

(* Freeing chunks keeps the types of what it writes. *)
LEMMA FreeChunksType ==
    ASSUME TypeOK, NEW C \in SUBSET Chunk, FreeChunks(C)
    PROVE  /\ free' \subseteq Chunk
           /\ byIndex' \in [Index -> Chunk \cup {NoChunk}]
           /\ released' \in Nat
BY Countable DEF TypeOK, FreeChunks

(* A sweep keeps the types of what it writes. *)
LEMMA SweepType ==
    ASSUME TypeOK, NEW t, NEW pins, Sweep(t, pins)
    PROVE  /\ live' \subseteq Chunk /\ free' \subseteq Chunk /\ saved' \subseteq Chunk
           /\ onSaved' \in [Chunk -> BOOLEAN]
           /\ byIndex' \in [Index -> Chunk \cup {NoChunk}]
           /\ released' \in Nat
<1> DEFINE gone == IF pins > 0 THEN {} ELSE Passed(t)
           keep == {c \in gone : saves[c] > 0}
<1>1. gone \subseteq live /\ live \subseteq Chunk
  BY DEF Passed, TypeOK
<1>2. FreeChunks(gone \ keep) /\ gone \ keep \in SUBSET Chunk
  BY <1>1 DEF Sweep
<1>3. /\ free' \subseteq Chunk /\ byIndex' \in [Index -> Chunk \cup {NoChunk}]
      /\ released' \in Nat
  BY <1>2, FreeChunksType
<1>4. live' \subseteq Chunk /\ saved' \subseteq Chunk
  BY <1>1 DEF Sweep, TypeOK
<1>5. onSaved' \in [Chunk -> BOOLEAN]
  BY DEF Sweep, TypeOK
<1> QED BY <1>3, <1>4, <1>5

(* The initial state is well typed. *)
LEMMA InitTypeOK == Init => TypeOK
BY DEF Init, TypeOK, Run, Token, Slot, NoToken

(* Every operation keeps the types. *)
LEMMA NextTypeOK == TypeOK /\ [Next]_vars => TypeOK'
<1> SUFFICES ASSUME TypeOK, [Next]_vars PROVE TypeOK'
  OBVIOUS
<1> USE DEF TypeOK
<1>1. CASE AddInHand
  BY <1>1, ChunkAssumption
     DEF AddInHand, HeadFull, lists, Token, Slot, NoToken
<1>2. ASSUME NEW c \in Chunk, AddGrowing(c) PROVE TypeOK'
  <2>1. buf' \in [Chunk -> [Slot -> Token \cup {NoToken}]]
    <3>1. [i \in Slot |-> IF i = 0 THEN next ELSE NoToken] \in [Slot -> Token \cup {NoToken}]
      BY <1>2 DEF AddGrowing, Token
    <3> QED BY <1>2, <3>1 DEF AddGrowing
  <2>2. handed' \in [Token -> {NoAddress} \cup [chunk : Chunk, slot : Slot]]
    <3>1. 0 \in Slot
      BY DEF Slot
    <3>2. handed' = [handed EXCEPT ![next] = [chunk |-> c, slot |-> 0]]
      BY <1>2 DEF AddGrowing
    <3> QED BY <3>1, <3>2
  <2>3. byIndex' \in [Index -> Chunk \cup {NoChunk}]
    BY <1>2 DEF AddGrowing
  <2>4. /\ base' \in [Chunk -> Nat] /\ pos' \in [Chunk -> 0 .. ChunkSize]
        /\ saves' \in [Chunk -> Nat] /\ onSaved' \in [Chunk -> BOOLEAN]
    BY <1>2 DEF AddGrowing
  <2> QED BY <1>2, <2>1, <2>2, <2>3, <2>4 DEF AddGrowing
<1>3. ASSUME NEW s \in 0 .. MaxTokens, SetTail(s) PROVE TypeOK'
  <2>1. Sweep(tail', frozen)
    BY <1>3 DEF SetTail
  <2> QED BY <2>1, <1>3, SweepType DEF SetTail, history
<1>4. CASE Pin
  BY <1>4 DEF Pin, lists, chunks
<1>5. CASE Unpin
  <2>1. Sweep(tail, frozen')
    BY <1>5 DEF Unpin
  <2> QED BY <2>1, <1>5, SweepType DEF Unpin
<1>6. ASSUME NEW h \in Holder, NEW from \in Token, NEW to \in Token, HoldRun(h, from, to)
      PROVE TypeOK'
  BY <1>6 DEF HoldRun, SaveRun, Run, lists
<1>7. ASSUME NEW h \in Holder, NEW from \in Token, NEW to \in 0 .. MaxTokens,
             SaveAnchor(h, from, to)
      PROVE TypeOK'
  BY <1>7 DEF SaveAnchor, SaveRun, Run, Token, lists
<1>8. ASSUME NEW h \in Holder, Release(h) PROVE TypeOK'
  <2> DEFINE visited == {c \in ChunksIn(run[h].from, run[h].to) : saves[c] > 0}
             freed == {c \in visited : saves[c] = 1 /\ onSaved[c]}
  <2>1. freed \in SUBSET Chunk
    BY DEF ChunksIn
  <2>2. FreeChunks(freed)
    BY <1>8 DEF Release
  <2>3. /\ free' \subseteq Chunk /\ byIndex' \in [Index -> Chunk \cup {NoChunk}]
        /\ released' \in Nat
    BY <2>1, <2>2, FreeChunksType
  <2>4. saves' \in [Chunk -> Nat] /\ onSaved' \in [Chunk -> BOOLEAN] /\ saved' \subseteq Chunk
    BY <1>8 DEF Release
  <2> QED BY <1>8, <2>3, <2>4 DEF Release, Run
<1>9. CASE ReleaseAll
  <2>1. FreeChunks(saved) /\ saved \in SUBSET Chunk
    BY <1>9 DEF ReleaseAll
  <2>2. /\ free' \subseteq Chunk /\ byIndex' \in [Index -> Chunk \cup {NoChunk}]
        /\ released' \in Nat
    BY <2>1, FreeChunksType
  <2> QED BY <1>9, <2>2 DEF ReleaseAll, Run
<1>10. CASE Recycle
  BY <1>10 DEF Recycle, EmptyTape, InHand, Run
<1>11. CASE Reset
  BY <1>11 DEF Reset, EmptyTape, Run, Slot, NoToken, Token
<1>12. CASE UNCHANGED vars
  BY <1>12 DEF vars
<1> QED BY <1>1, <1>2, <1>3, <1>4, <1>5, <1>6, <1>7, <1>8, <1>9, <1>10, <1>11, <1>12 DEF Next

(* Every state the arena reaches is well typed. *)
THEOREM TypeCorrect == Spec => []TypeOK
BY InitTypeOK, NextTypeOK, PTL DEF Spec

-----------------------------------------------------------------------------
(* The inductive invariant.  What the properties say of tokens follows     *)
(* from what is true of chunks: a chunk in hand starts at a multiple of    *)
(* the chunk size, is found by byIndex, and is full unless it is the head. *)

ListsApart == live \cap free = {} /\ live \cap saved = {} /\ saved \cap free = {}

HeadLast ==
    /\ head = NoChunk => InHand = {} /\ next = 0
    /\ head # NoChunk => head \in live /\ base[head] + pos[head] = next

ChunksAligned ==
    \A c \in InHand :
        /\ base[c] \div ChunkSize \in Index
        /\ base[c] = ChunkSize * (base[c] \div ChunkSize)
        /\ byIndex[base[c] \div ChunkSize] = c
        /\ pos[c] > 0 /\ base[c] + pos[c] <= next
        /\ c # head => pos[c] = ChunkSize /\ base[c] + ChunkSize <= base[head]

IndexExact ==
    \A i \in Index : byIndex[i] # NoChunk =>
        byIndex[i] \in InHand /\ base[byIndex[i]] = ChunkSize * i

Filled ==
    \A c \in InHand : \A i \in 0 .. pos[c]-1 :
        buf[c][i] = base[c] + i /\ handed[base[c] + i] = [chunk |-> c, slot |-> i]

Structure == ListsApart /\ HeadLast /\ ChunksAligned /\ IndexExact /\ Filled

(* Nothing at or above the floor has left the tape. *)
FloorLive ==
    /\ tail <= next
    /\ frozen > 0 => since <= tail
    /\ \A s \in Floor .. next-1 : byIndex[s \div ChunkSize] \in live

(* The runs that touch chunk c. *)
Savers(c) == {h \in Holder : /\ run[h].kind # "none"
                             /\ run[h].from < base[c] + pos[c]
                             /\ run[h].to >= base[c]}

RunsHeld ==
    \A h \in Holder : run[h].kind # "none" =>
        /\ run[h].from <= run[h].to /\ run[h].to < next
        /\ \A s \in Kept(h) : byIndex[s \div ChunkSize] # NoChunk

SavesExact ==
    \A c \in InHand : /\ saves[c] = Cardinality(Savers(c))
                      /\ onSaved[c] <=> c \in saved

IInv == TypeOK /\ Structure /\ FloorLive /\ RunsHeld /\ SavesExact

-----------------------------------------------------------------------------
(* What the structure says about looking tokens up. *)

(* A token below next is found exactly where byIndex has a chunk for it. *)
LEMMA LookUp ==
    ASSUME TypeOK, Structure, NEW s \in Token
    PROVE  /\ s \div ChunkSize \in Index
           /\ s < next /\ byIndex[s \div ChunkSize] # NoChunk
                => /\ ChunkOf(s) = byIndex[s \div ChunkSize]
                   /\ ChunkOf(s) \in InHand /\ ChunkOf(s) # NoChunk
                   /\ base[ChunkOf(s)] <= s /\ s < base[ChunkOf(s)] + pos[ChunkOf(s)]
                   /\ At(s) = s /\ Read(s) = s
           /\ s \in Held <=> s < next /\ byIndex[s \div ChunkSize] # NoChunk
<1> DEFINE i == s \div ChunkSize
<1>1. i \in Nat /\ ChunkSize * i <= s /\ s < ChunkSize * i + ChunkSize /\ s \in Nat
  BY DivBounds DEF Token
<1>2. i \in Index
  <2> DEFINE m == MaxTokens \div ChunkSize
  <2>1. m \in Nat /\ MaxTokens < ChunkSize * m + ChunkSize
    BY DivBounds
  <2>2. ~(m < i)
    <3> SUFFICES ASSUME m < i PROVE FALSE
      OBVIOUS
    <3>1. ChunkSize * m + ChunkSize <= ChunkSize * i
      BY <1>1, <2>1, MultiplesApart
    <3> QED BY <1>1, <2>1, <3>1 DEF Token
  <2> QED BY <1>1, <2>1, <2>2 DEF Index
<1>3. ASSUME s < next, byIndex[i] # NoChunk
      PROVE  /\ ChunkOf(s) = byIndex[i] /\ byIndex[i] \in InHand
             /\ base[byIndex[i]] <= s /\ s < base[byIndex[i]] + pos[byIndex[i]]
             /\ At(s) = s /\ Read(s) = s
  <2> DEFINE c == byIndex[i]
  <2>1. c \in InHand /\ base[c] = ChunkSize * i /\ c \in Chunk
    BY <1>2, <1>3 DEF Structure, IndexExact, TypeOK
  <2>2. base[c] <= s /\ s < base[c] + pos[c]
    <3>1. CASE c = head
      <4>1. base[c] + pos[c] = next
        BY <2>1, <3>1, ChunkAssumption DEF Structure, HeadLast
      <4> QED BY <1>1, <1>3, <2>1, <4>1
    <3>2. CASE c # head
      <4>1. pos[c] = ChunkSize
        BY <2>1, <3>2 DEF Structure, ChunksAligned
      <4> QED BY <1>1, <2>1, <4>1
    <3> QED BY <3>1, <3>2
  <2>3. ChunkOf(s) = c
    BY <2>1, <2>2, <1>1, <1>3 DEF ChunkOf, TypeOK
  <2> DEFINE k == s - base[c]
  <2>4. k \in 0 .. pos[c]-1 /\ base[c] + k = s /\ c # NoChunk
    BY <2>1, <2>2, <1>1, ChunkAssumption DEF TypeOK
  <2>5. buf[c][k] = s /\ handed[s] = [chunk |-> c, slot |-> k]
    BY <2>1, <2>4 DEF Structure, Filled
  <2>6. At(s) = s
    BY <2>3, <2>4, <2>5 DEF At
  <2>7. Read(s) = s
    BY <2>4, <2>5 DEF Read, NoAddress
  <2> QED BY <2>1, <2>2, <2>3, <2>6, <2>7
<1>4. ASSUME s \in Held PROVE s < next /\ byIndex[i] # NoChunk
  <2>1. byIndex[i] # NoChunk /\ s < base[byIndex[i]] + pos[byIndex[i]]
    BY <1>4, <1>1, <1>2 DEF Held, ChunkOf, TypeOK
  <2>2. base[byIndex[i]] + pos[byIndex[i]] <= next
    BY <1>2, <2>1 DEF Structure, IndexExact, ChunksAligned
  <2>3. base[byIndex[i]] \in Nat /\ pos[byIndex[i]] \in Nat /\ next \in Nat
    BY <1>2, <2>1 DEF TypeOK
  <2> QED BY <1>1, <2>1, <2>2, <2>3
<1>5. ASSUME s < next, byIndex[i] # NoChunk PROVE s \in Held
  BY <1>3, <1>5, <1>2 DEF Held
<1> QED BY <1>2, <1>3, <1>4, <1>5

(* eachChunkIn visits exactly the chunks in hand that the run touches. *)
LEMMA Visits ==
    ASSUME TypeOK, Structure, NEW from \in Nat, NEW to \in Nat, NEW c
    PROVE  c \in ChunksIn(from, to)
             <=> c \in InHand /\ from < base[c] + pos[c] /\ to >= base[c]
<1>1. ASSUME c \in ChunksIn(from, to)
      PROVE  c \in InHand /\ from < base[c] + pos[c] /\ to >= base[c]
  BY <1>1 DEF ChunksIn, Structure, IndexExact
<1>2. ASSUME c \in InHand, from < base[c] + pos[c], to >= base[c]
      PROVE  c \in ChunksIn(from, to)
  <2> DEFINE i == base[c] \div ChunkSize
             f == from \div ChunkSize
             t == to \div ChunkSize
  <2>1. i \in Index /\ i \in Nat /\ base[c] = ChunkSize * i /\ byIndex[i] = c /\ pos[c] > 0
    BY <1>2 DEF Structure, ChunksAligned, Index
  <2>2. c \in Chunk /\ c # NoChunk /\ pos[c] \in 0 .. ChunkSize /\ base[c] \in Nat
    BY <1>2, ChunkAssumption DEF TypeOK, InHand
  <2>3. f \in Nat /\ ChunkSize * f <= from /\ t \in Nat /\ to < ChunkSize * t + ChunkSize
    BY DivBounds
  <2>4. f <= i
    <3> SUFFICES ASSUME i < f PROVE FALSE
      BY <2>1, <2>3
    <3>1. ChunkSize * i + ChunkSize <= ChunkSize * f
      BY <2>1, <2>3, MultiplesApart
    <3> QED BY <3>1, <2>1, <2>2, <2>3, <1>2
  <2>5. i <= t
    <3> SUFFICES ASSUME t < i PROVE FALSE
      BY <2>1, <2>3
    <3>1. ChunkSize * t + ChunkSize <= ChunkSize * i
      BY <2>1, <2>3, MultiplesApart
    <3> QED BY <3>1, <2>1, <2>2, <2>3, <1>2
  <2> QED BY <1>2, <2>1, <2>2, <2>4, <2>5 DEF ChunksIn
<1> QED BY <1>1, <1>2

(* Freeing chunks in hand clears their entries of byIndex and no other. *)
LEMMA Unindexed ==
    ASSUME TypeOK, Structure, NEW C \in SUBSET InHand, FreeChunks(C)
    PROVE  byIndex' = [i \in Index |-> IF byIndex[i] \in C THEN NoChunk ELSE byIndex[i]]
<1>1. ASSUME NEW i \in Index, byIndex[i] \in C
      PROVE  base[byIndex[i]] \div ChunkSize = i
  <2>1. byIndex[i] \in InHand /\ byIndex[i] # NoChunk
    BY <1>1, ChunkAssumption DEF InHand, TypeOK
  <2>2. base[byIndex[i]] = ChunkSize * i /\ i \in Nat
    BY <2>1 DEF Structure, IndexExact, Index
  <2> QED BY <2>2, DivUnique
<1> QED BY <1>1 DEF FreeChunks

(* A step that only lets chunks other than the head go, or moves them      *)
(* between live and saved, keeps the structure.                            *)
LEMMA LetGo ==
    ASSUME TypeOK, Structure, NEW C \in SUBSET InHand, FreeChunks(C),
           head \notin C,
           live' \subseteq InHand, saved' \subseteq InHand, live' \cap saved' = {},
           live' \cup saved' = InHand \ C,
           head # NoChunk => head \in live',
           UNCHANGED <<head, base, pos, buf, next, handed>>
    PROVE  Structure'
<1>1. InHand' = InHand \ C
  BY DEF InHand
<1>2. \A i \in Index : byIndex'[i] = IF byIndex[i] \in C THEN NoChunk ELSE byIndex[i]
  BY Unindexed
<1>3. ListsApart'
  BY DEF ListsApart, FreeChunks, Structure, InHand
<1>4. HeadLast'
  BY <1>1 DEF HeadLast, Structure
<1>5. ChunksAligned'
  BY <1>1, <1>2 DEF ChunksAligned, Structure
<1>6. IndexExact'
  BY <1>1, <1>2 DEF IndexExact, Structure
<1>7. Filled'
  BY <1>1 DEF Filled, Structure
<1> QED BY <1>3, <1>4, <1>5, <1>6, <1>7 DEF Structure

(* A sweep lets go only of chunks that no run touches and that lie below   *)
(* the tail it was given.                                                  *)
LEMMA SweepLetsGo ==
    ASSUME TypeOK, Structure, NEW t \in Nat, NEW pins \in Nat, Sweep(t, pins),
           UNCHANGED <<head, base, pos, buf, next, handed>>
    PROVE  /\ Structure'
           /\ \A i \in Index : byIndex[i] # NoChunk /\ byIndex'[i] # byIndex[i] =>
                  saves[byIndex[i]] = 0 /\ byIndex'[i] = NoChunk
           /\ \A c \in live : pins > 0 \/ base[c] + pos[c] > t =>
                  c \in live' /\ byIndex'[base[c] \div ChunkSize] = c
           /\ InHand' \subseteq InHand
           /\ \A c \in InHand' : (onSaved[c] <=> c \in saved) => (onSaved'[c] <=> c \in saved')
<1> DEFINE gone == IF pins > 0 THEN {} ELSE Passed(t)
           keep == {c \in gone : saves[c] > 0}
           C == gone \ keep
<1>1. gone \subseteq live /\ head \notin gone /\ live \subseteq Chunk
      /\ \A c \in gone : ~(base[c] + pos[c] > t)
  <2>1. ASSUME NEW c \in Passed(t) PROVE c \in live /\ c # head /\ base[c] + pos[c] <= t
    BY DEF Passed, TypeOK
  <2> QED BY <2>1 DEF TypeOK
<1>2. FreeChunks(C) /\ live' = live \ gone /\ saved' = saved \cup keep
      /\ onSaved' = [c \in Chunk |-> onSaved[c] \/ c \in keep]
  BY DEF Sweep
<1>3. C \in SUBSET InHand /\ head \notin C
  BY <1>1 DEF InHand
<1>4. live' \cap saved' = {} /\ live' \cup saved' = InHand \ C
      /\ live' \subseteq InHand /\ saved' \subseteq InHand
  BY <1>1, <1>2 DEF Structure, ListsApart, InHand
<1>5. head # NoChunk => head \in live'
  BY <1>1, <1>2 DEF Structure, HeadLast
<1>6. Structure'
  BY <1>2, <1>3, <1>4, <1>5, LetGo
<1>7. \A i \in Index : byIndex'[i] = IF byIndex[i] \in C THEN NoChunk ELSE byIndex[i]
  BY <1>2, <1>3, Unindexed
<1>8. \A c \in C : saves[c] = 0
  BY <1>1 DEF TypeOK
<1>9. ASSUME NEW c \in live, pins > 0 \/ base[c] + pos[c] > t
      PROVE  c \in live' /\ byIndex'[base[c] \div ChunkSize] = c
  <2>1. c \notin gone
    BY <1>9, <1>1
  <2>2. base[c] \div ChunkSize \in Index /\ byIndex[base[c] \div ChunkSize] = c
    BY DEF Structure, ChunksAligned, InHand
  <2> QED BY <2>1, <2>2, <1>2, <1>7
<1>10. InHand' = InHand \ C
  BY <1>4 DEF InHand
<1>11. ASSUME NEW c \in InHand', onSaved[c] <=> c \in saved
       PROVE  onSaved'[c] <=> c \in saved'
  BY <1>11, <1>10, <1>2 DEF TypeOK, InHand
<1> QED BY <1>6, <1>7, <1>8, <1>9, <1>10, <1>11

-----------------------------------------------------------------------------
(* Saved runs. *)

(* Every token of a run stands in a chunk in hand that counts the run. *)
LEMMA KeptIsSaved ==
    ASSUME IInv, NEW h \in Holder, NEW s \in Kept(h)
    PROVE  /\ s \in Token /\ s < next /\ s \div ChunkSize \in Index
           /\ byIndex[s \div ChunkSize] \in InHand
           /\ byIndex[s \div ChunkSize] # NoChunk
           /\ h \in Savers(byIndex[s \div ChunkSize])
           /\ saves[byIndex[s \div ChunkSize]] > 0
<1> DEFINE c == byIndex[s \div ChunkSize]
<1>1. /\ run[h].kind # "none" /\ s \in run[h].from .. run[h].to
      /\ run[h].from \in Token /\ run[h].to \in Token
  <2>1. run[h] \in Run /\ run[h].kind # "none" /\ s \in run[h].from .. run[h].to
    BY DEF Kept, IInv, TypeOK
  <2> QED BY <2>1 DEF Run, NoRun
<1>2. s \in Token /\ s < next /\ c # NoChunk
  <2>1. run[h].to < next /\ c # NoChunk
    BY <1>1 DEF IInv, RunsHeld
  <2>2. next \in 0 .. MaxTokens
    BY DEF IInv, TypeOK
  <2> QED BY <1>1, <2>1, <2>2 DEF Token
<1>3. ChunkOf(s) = c /\ c \in InHand /\ base[c] <= s /\ s < base[c] + pos[c]
      /\ s \div ChunkSize \in Index
  BY <1>2, LookUp DEF IInv
<1>4. h \in Savers(c)
  <2>1. base[c] \in Nat /\ pos[c] \in Nat
    BY <1>3 DEF IInv, TypeOK, InHand
  <2> QED BY <1>1, <1>2, <1>3, <2>1 DEF Savers, Token
<1>5. Savers(c) \in SUBSET Holder /\ IsFiniteSet(Savers(c))
  BY Countable DEF Savers
<1>6. Cardinality(Savers(c)) # 0 /\ Cardinality(Savers(c)) \in Nat
  BY <1>4, <1>5, Countable, FS_EmptySet
<1>7. saves[c] = Cardinality(Savers(c))
  BY <1>3 DEF IInv, SavesExact
<1> QED BY <1>1, <1>2, <1>3, <1>4, <1>6, <1>7

(* A sweep keeps what the saved runs and the floor ask for. *)
LEMMA SweepKeeps ==
    ASSUME IInv, NEW t \in Nat, NEW pins \in Nat, Sweep(t, pins),
           UNCHANGED <<head, base, pos, saves, buf, next, run, handed>>
    PROVE  /\ Structure' /\ RunsHeld' /\ SavesExact'
           /\ \A s \in 0 .. next-1 :
                byIndex[s \div ChunkSize] \in live /\ (pins > 0 \/ s >= t)
                  => byIndex'[s \div ChunkSize] \in live'
<1>1. TypeOK /\ Structure
  BY DEF IInv
<1>2. /\ Structure'
      /\ \A i \in Index : byIndex[i] # NoChunk /\ byIndex'[i] # byIndex[i] =>
             saves[byIndex[i]] = 0 /\ byIndex'[i] = NoChunk
      /\ \A c \in live : pins > 0 \/ base[c] + pos[c] > t =>
             c \in live' /\ byIndex'[base[c] \div ChunkSize] = c
      /\ InHand' \subseteq InHand
      /\ \A c \in InHand' : (onSaved[c] <=> c \in saved) => (onSaved'[c] <=> c \in saved')
  BY <1>1, SweepLetsGo
<1>3. RunsHeld'
  <2> SUFFICES ASSUME NEW h \in Holder, run[h].kind # "none"
               PROVE  /\ run[h].from <= run[h].to /\ run[h].to < next
                      /\ \A s \in Kept(h) : byIndex'[s \div ChunkSize] # NoChunk
    BY DEF RunsHeld, Kept
  <2>1. ASSUME NEW s \in Kept(h) PROVE byIndex'[s \div ChunkSize] # NoChunk
    BY <1>2, KeptIsSaved
  <2> QED BY <2>1 DEF IInv, RunsHeld
<1>4. SavesExact'
  <2>1. \A c \in Chunk : Savers(c)' = Savers(c)
    BY DEF Savers
  <2>2. InHand \subseteq Chunk
    BY <1>1 DEF TypeOK, InHand
  <2> QED BY <1>2, <2>1, <2>2 DEF IInv, SavesExact
<1>5. ASSUME NEW s \in 0 .. next-1, byIndex[s \div ChunkSize] \in live, pins > 0 \/ s >= t
      PROVE  byIndex'[s \div ChunkSize] \in live'
  <2> DEFINE c == byIndex[s \div ChunkSize]
  <2>1. s \in Token /\ s < next /\ c # NoChunk /\ c \in Chunk
    BY <1>5, <1>1, ChunkAssumption DEF TypeOK, Token
  <2>2. c \in InHand /\ s < base[c] + pos[c] /\ s \div ChunkSize \in Index
    BY <2>1, <1>1, LookUp
  <2>3. base[c] = ChunkSize * (s \div ChunkSize)
    BY <2>1, <2>2, <1>1 DEF Structure, IndexExact
  <2>4. base[c] \div ChunkSize = s \div ChunkSize
    BY <2>2, <2>3, DivUnique DEF Index
  <2>5. pins > 0 \/ base[c] + pos[c] > t
    <3>1. base[c] \in Nat /\ pos[c] \in Nat
      BY <2>1, <1>1 DEF TypeOK
    <3> QED BY <1>5, <2>2, <3>1
  <2> QED BY <1>5, <2>4, <2>5, <1>2
<1> QED BY <1>2, <1>3, <1>4, <1>5

(* Adding a token to the chunk in hand keeps the structure. *)
LEMMA AddInHandInv == IInv /\ AddInHand => Structure' /\ FloorLive' /\ RunsHeld' /\ SavesExact'
<1> SUFFICES ASSUME IInv, AddInHand
             PROVE  Structure' /\ FloorLive' /\ RunsHeld' /\ SavesExact'
  OBVIOUS
<1>1. /\ head \in Chunk /\ head \in live /\ head # NoChunk
      /\ base[head] + pos[head] = next /\ pos[head] < ChunkSize
      /\ next \in Token /\ pos[head] \in Slot /\ base[head] \in Nat /\ pos[head] \in Nat
  <2>1. head # NoChunk /\ pos[head] # ChunkSize
    BY DEF AddInHand, HeadFull
  <2>2. head \in live /\ base[head] + pos[head] = next /\ head \in Chunk
    BY <2>1 DEF IInv, Structure, HeadLast, TypeOK
  <2> QED BY <2>1, <2>2 DEF AddInHand, IInv, TypeOK, Slot, Token
<1>2. /\ live' = live /\ free' = free /\ saved' = saved /\ head' = head /\ base' = base
      /\ saves' = saves /\ onSaved' = onSaved /\ byIndex' = byIndex /\ next' = next + 1
      /\ tail' = tail /\ frozen' = frozen /\ run' = run /\ since' = since
      /\ pos' = [pos EXCEPT ![head] = pos[head] + 1]
      /\ buf' = [buf EXCEPT ![head][pos[head]] = next]
      /\ handed' = [handed EXCEPT ![next] = [chunk |-> head, slot |-> pos[head]]]
      /\ InHand' = InHand
  BY DEF AddInHand, lists, InHand
<1>3. InHand \subseteq Chunk
  BY DEF InHand, IInv, TypeOK
<1>4. /\ pos'[head] = pos[head] + 1
      /\ \A c \in InHand : c # head => pos'[c] = pos[c]
  BY <1>1, <1>2, <1>3 DEF IInv, TypeOK
<1>5. ListsApart' /\ HeadLast' /\ IndexExact'
  BY <1>1, <1>2, <1>4 DEF IInv, Structure, ListsApart, HeadLast, IndexExact
<1>6. ChunksAligned'
  <2> SUFFICES ASSUME NEW c \in InHand
               PROVE  /\ pos'[c] > 0 /\ base[c] + pos'[c] <= next + 1
                      /\ c # head => pos'[c] = ChunkSize
    BY <1>2 DEF IInv, Structure, ChunksAligned
  <2>1. /\ pos[c] > 0 /\ base[c] + pos[c] <= next
        /\ c # head => pos[c] = ChunkSize
    BY DEF IInv, Structure, ChunksAligned
  <2>2. base[c] \in Nat /\ pos[c] \in Nat /\ next \in Nat
    BY <1>3 DEF IInv, TypeOK
  <2> QED BY <2>1, <2>2, <1>1, <1>4
<1>7. Filled'
  <2> SUFFICES ASSUME NEW c \in InHand, NEW i \in 0 .. pos'[c]-1
               PROVE  /\ buf'[c][i] = base[c] + i
                      /\ handed'[base[c] + i] = [chunk |-> c, slot |-> i]
    <3>1. base' = base /\ InHand' = InHand
      BY <1>2
    <3> QED BY <3>1 DEF Filled
  <2>1. CASE c = head /\ i = pos[head]
    BY <2>1, <1>1, <1>2 DEF IInv, TypeOK
  <2>2. CASE ~(c = head /\ i = pos[head])
    <3>1. i \in 0 .. pos[c]-1
      BY <2>2, <1>1, <1>4
    <3>2. buf[c][i] = base[c] + i /\ handed[base[c] + i] = [chunk |-> c, slot |-> i]
      BY <3>1 DEF IInv, Structure, Filled
    <3>3. base[c] + i # next /\ c \in Chunk
      BY <3>1, <1>3 DEF IInv, Structure, ChunksAligned, TypeOK
    <3>4. buf'[c][i] = buf[c][i]
      BY <2>2, <3>3, <1>2 DEF IInv, TypeOK
    <3>5. handed'[base[c] + i] = handed[base[c] + i]
      BY <3>3, <1>2 DEF IInv, TypeOK
    <3> QED BY <3>2, <3>4, <3>5
  <2> QED BY <2>1, <2>2
<1>8. FloorLive'
  <2> SUFFICES ASSUME NEW s \in Floor .. next PROVE byIndex[s \div ChunkSize] \in live
    BY <1>2 DEF IInv, FloorLive, Floor, TypeOK
  <2> next \in Nat /\ s \in Int /\ Floor \in Int
    BY DEF IInv, TypeOK, Floor
  <2>1. CASE s < next
    <3>1. s \in Floor .. next-1
      BY <2>1
    <3> QED BY <3>1 DEF IInv, FloorLive
  <2>2. CASE s = next
    <3>1. base[head] = ChunkSize * (base[head] \div ChunkSize)
          /\ byIndex[base[head] \div ChunkSize] = head /\ base[head] \div ChunkSize \in Nat
      BY <1>1 DEF IInv, Structure, ChunksAligned, InHand, Index
    <3>2. next \div ChunkSize = base[head] \div ChunkSize
      BY <1>1, <3>1, DivUnique DEF Token
    <3> QED BY <1>1, <2>2, <3>1, <3>2
  <2> QED BY <2>1, <2>2
<1>9. RunsHeld'
  <2>1. \A h \in Holder : run[h].to \in Int
    BY DEF IInv, TypeOK, Run, Token, NoRun
  <2>2. next \in Nat
    BY DEF IInv, TypeOK
  <2> QED BY <1>2, <2>1, <2>2 DEF IInv, RunsHeld, Kept
<1>10. SavesExact'
  <2> SUFFICES ASSUME NEW c \in InHand PROVE Savers(c)' = Savers(c)
    BY <1>2 DEF IInv, SavesExact
  <2>1. CASE c # head
    BY <2>1, <1>2, <1>4 DEF Savers
  <2>2. CASE c = head
    <3>1. \A h \in Holder : run[h].kind # "none" =>
              (run[h].from < base[c] + pos[c] + 1 <=> run[h].from < base[c] + pos[c])
      <4>1. \A h \in Holder : run[h].kind # "none" =>
              run[h].from <= run[h].to /\ run[h].to < next /\ run[h].from \in Int /\ run[h].to \in Int
        BY DEF IInv, RunsHeld, TypeOK, Run, Token, NoRun
      <4> QED BY <4>1, <2>2, <1>1
    <3>2. base[c] + pos'[c] = base[c] + pos[c] + 1
      BY <2>2, <1>1, <1>4
    <3> QED BY <3>1, <3>2, <1>2 DEF Savers
  <2> QED BY <2>1, <2>2
<1> QED BY <1>5, <1>6, <1>7, <1>8, <1>9, <1>10 DEF Structure

(* A chunk put at the head of the tape starts at a multiple of the chunk   *)
(* size and was in hand nowhere else.                                      *)
LEMMA AddGrowingInv ==
    ASSUME IInv, NEW c \in Chunk, AddGrowing(c)
    PROVE  Structure' /\ FloorLive' /\ RunsHeld' /\ SavesExact'
<1> DEFINE q == next \div ChunkSize
<1>1. /\ live' = live \cup {c} /\ free' = free \ {c} /\ saved' = saved /\ head' = c
      /\ base' = [base EXCEPT ![c] = next] /\ pos' = [pos EXCEPT ![c] = 1]
      /\ saves' = [saves EXCEPT ![c] = 0] /\ onSaved' = [onSaved EXCEPT ![c] = FALSE]
      /\ buf' = [buf EXCEPT ![c] = [i \in Slot |-> IF i = 0 THEN next ELSE NoToken]]
      /\ byIndex' = [byIndex EXCEPT ![q] = c]
      /\ handed' = [handed EXCEPT ![next] = [chunk |-> c, slot |-> 0]]
      /\ next' = next + 1 /\ tail' = tail /\ frozen' = frozen /\ run' = run /\ since' = since
      /\ next < MaxTokens
  BY DEF AddGrowing
<1>2. c \notin InHand /\ c # NoChunk /\ InHand' = InHand \cup {c} /\ InHand \subseteq Chunk
  BY <1>1, ChunkAssumption
     DEF AddGrowing, MayGrow, InHand, IInv, Structure, ListsApart, TypeOK
<1>3. /\ next \in Nat /\ next \in Token
      /\ \A d \in InHand : d # c /\ base[d] \in Nat /\ pos[d] \in Nat
                           /\ pos[d] > 0 /\ base[d] + pos[d] <= next
  BY <1>1, <1>2 DEF IInv, TypeOK, Token, Structure, ChunksAligned
<1>4. next = ChunkSize * q /\ q \in Index /\ q \in Nat
  <2>1. CASE head = NoChunk
    <3>1. next = 0
      BY <2>1 DEF IInv, Structure, HeadLast
    <3>2. next = ChunkSize * 0
      BY <3>1
    <3>3. q = 0
      BY <3>1, <3>2, DivUnique
    <3> QED BY <3>2, <3>3, <1>3, LookUp DEF IInv
  <2>2. CASE head # NoChunk
    <3> DEFINE i == base[head] \div ChunkSize
    <3>1. head \in InHand /\ base[head] + pos[head] = next /\ pos[head] = ChunkSize
      BY <2>2 DEF IInv, Structure, HeadLast, InHand, AddGrowing, HeadFull
    <3>2. base[head] = ChunkSize * i /\ i \in Nat
      BY <3>1 DEF IInv, Structure, ChunksAligned, Index
    <3>3. next = ChunkSize * (i + 1)
      BY <3>1, <3>2
    <3>4. q = i + 1
      BY <3>2, <3>3, <1>3, DivUnique
    <3> QED BY <3>2, <3>3, <3>4, <1>3, LookUp DEF IInv
  <2> QED BY <2>1, <2>2
<1>5. /\ \A d \in InHand : base'[d] = base[d] /\ pos'[d] = pos[d] /\ buf'[d] = buf[d]
                           /\ saves'[d] = saves[d] /\ onSaved'[d] = onSaved[d]
      /\ base'[c] = next /\ pos'[c] = 1 /\ saves'[c] = 0 /\ onSaved'[c] = FALSE
      /\ byIndex'[q] = c /\ \A i \in Index : i # q => byIndex'[i] = byIndex[i]
  BY <1>1, <1>2, <1>3, <1>4 DEF IInv, TypeOK
<1>6. ListsApart'
  BY <1>1, <1>2 DEF IInv, Structure, ListsApart, InHand
<1>7. HeadLast'
  BY <1>1, <1>2, <1>5 DEF HeadLast
<1>8. ChunksAligned'
  <2>1. \A d \in InHand : base[d] \div ChunkSize # q
    BY <1>3, <1>4 DEF IInv, Structure, ChunksAligned
  <2>2. ASSUME NEW d \in InHand
        PROVE  /\ base[d] \div ChunkSize \in Index
               /\ base[d] = ChunkSize * (base[d] \div ChunkSize)
               /\ byIndex'[base[d] \div ChunkSize] = d
               /\ pos[d] > 0 /\ base[d] + pos[d] <= next + 1
               /\ pos[d] = ChunkSize /\ base[d] + ChunkSize <= next
    <3>1. /\ base[d] \div ChunkSize \in Index
          /\ base[d] = ChunkSize * (base[d] \div ChunkSize)
          /\ byIndex[base[d] \div ChunkSize] = d
          /\ d # head => pos[d] = ChunkSize
      BY DEF IInv, Structure, ChunksAligned
    <3>2. d = head => pos[d] = ChunkSize
      BY <1>2, ChunkAssumption DEF AddGrowing, HeadFull
    <3> QED BY <3>1, <3>2, <2>1, <1>3, <1>5
  <2>3. ASSUME NEW d \in InHand' 
        PROVE  /\ base'[d] \div ChunkSize \in Index
               /\ base'[d] = ChunkSize * (base'[d] \div ChunkSize)
               /\ byIndex'[base'[d] \div ChunkSize] = d
               /\ pos'[d] > 0 /\ base'[d] + pos'[d] <= next'
               /\ d # head' => pos'[d] = ChunkSize /\ base'[d] + ChunkSize <= base'[head']
    <3>1. CASE d = c
      BY <3>1, <1>1, <1>3, <1>4, <1>5
    <3>2. CASE d \in InHand
      <4>1. base'[d] = base[d] /\ pos'[d] = pos[d] /\ base'[head'] = next /\ next' = next + 1
        BY <3>2, <1>1, <1>5
      <4>2. /\ base[d] \div ChunkSize \in Index
            /\ base[d] = ChunkSize * (base[d] \div ChunkSize)
            /\ byIndex'[base[d] \div ChunkSize] = d
            /\ pos[d] > 0 /\ base[d] + pos[d] <= next + 1
            /\ pos[d] = ChunkSize /\ base[d] + ChunkSize <= next
        BY <3>2, <2>2
      <4> QED BY <4>1, <4>2
    <3> QED BY <3>1, <3>2, <1>2
  <2> QED BY <2>3 DEF ChunksAligned
<1>9. IndexExact'
  <2> SUFFICES ASSUME NEW i \in Index, byIndex'[i] # NoChunk
               PROVE  byIndex'[i] \in InHand' /\ base'[byIndex'[i]] = ChunkSize * i
    BY DEF IndexExact
  <2>1. CASE i = q
    BY <2>1, <1>2, <1>4, <1>5
  <2>2. CASE i # q
    BY <2>2, <1>2, <1>5 DEF IInv, Structure, IndexExact
  <2> QED BY <2>1, <2>2
<1>10. Filled'
  <2> SUFFICES ASSUME NEW d \in InHand', NEW i \in 0 .. pos'[d]-1
               PROVE  /\ buf'[d][i] = base'[d] + i
                      /\ handed'[base'[d] + i] = [chunk |-> d, slot |-> i]
    BY DEF Filled
  <2>1. CASE d = c
    <3>1. i = 0 /\ 0 \in Slot
      BY <2>1, <1>5 DEF Slot
    <3>2. buf'[c][0] = next
      BY <3>1, <1>1 DEF IInv, TypeOK
    <3>3. handed'[next] = [chunk |-> c, slot |-> 0]
      BY <1>1, <1>3 DEF IInv, TypeOK
    <3> QED BY <2>1, <3>1, <3>2, <3>3, <1>3, <1>5
  <2>2. CASE d \in InHand
    <3>1. i \in 0 .. pos[d]-1
      BY <2>2, <1>5
    <3>2. buf[d][i] = base[d] + i /\ handed[base[d] + i] = [chunk |-> d, slot |-> i]
      BY <3>1, <2>2 DEF IInv, Structure, Filled
    <3>3. base[d] + i # next
      BY <3>1, <2>2, <1>3
    <3>4. handed'[base[d] + i] = handed[base[d] + i]
      BY <3>3, <1>1 DEF IInv, TypeOK
    <3> QED BY <2>2, <3>2, <3>4, <1>5
  <2> QED BY <2>1, <2>2, <1>2
<1>11. FloorLive'
  <2> Floor' = Floor /\ Floor \in Nat /\ tail \in Nat
    BY <1>1 DEF Floor, IInv, TypeOK
  <2>1. ASSUME NEW s \in Floor .. next PROVE byIndex'[s \div ChunkSize] \in live'
    <3>1. CASE s = next
      BY <3>1, <1>1, <1>5
    <3>2. CASE s # next
      <4>1. s \in Floor .. next-1 /\ s \in Token /\ s \in Nat
        BY <3>2, <1>3 DEF Token
      <4>2. byIndex[s \div ChunkSize] \in live /\ s \div ChunkSize \in Index
        BY <4>1, LookUp DEF IInv, FloorLive
      <4>3. byIndex[s \div ChunkSize] \in InHand
        BY <4>2 DEF InHand
      <4>4. s \div ChunkSize # q
        <5>1. ChunkSize * (s \div ChunkSize) <= s /\ s < next
          BY <4>1, <1>3, DivBounds
        <5> QED BY <5>1, <4>1, <1>3, <1>4
      <4> QED BY <4>2, <4>4, <1>1, <1>5
    <3> QED BY <3>1, <3>2
  <2> QED BY <2>1, <1>1, <1>3 DEF FloorLive, IInv
<1>12. RunsHeld'
  <2>1. \A h \in Holder : run[h].to \in Int
    BY DEF IInv, TypeOK, Run, Token, NoRun
  <2>2. ASSUME NEW h \in Holder, run[h].kind # "none", NEW s \in Kept(h)
        PROVE  byIndex'[s \div ChunkSize] # NoChunk
    BY <1>2, <1>5, KeptIsSaved
  <2> QED BY <2>1, <2>2, <1>1, <1>3 DEF IInv, RunsHeld, Kept
<1>13. SavesExact'
  <2>1. ASSUME NEW d \in InHand
        PROVE  saves'[d] = Cardinality(Savers(d)') /\ (onSaved'[d] <=> d \in saved')
    <3>1. Savers(d)' = Savers(d)
      BY <1>1, <1>5 DEF Savers
    <3> QED BY <3>1, <1>1, <1>5 DEF IInv, SavesExact
  <2>2. saves'[c] = Cardinality(Savers(c)') /\ (onSaved'[c] <=> c \in saved')
    <3>1. \A h \in Holder : run[h].kind # "none" => run[h].to < next /\ run[h].to \in Int
      BY DEF IInv, RunsHeld, TypeOK, Run, Token, NoRun
    <3>2. Savers(c)' = {}
      BY <3>1, <1>1, <1>3, <1>5 DEF Savers
    <3>3. c \notin saved'
      BY <1>1, <1>2 DEF InHand
    <3> QED BY <3>2, <3>3, <1>5, FS_EmptySet
  <2> QED BY <2>1, <2>2, <1>2 DEF SavesExact
<1> QED BY <1>6, <1>7, <1>8, <1>9, <1>10, <1>11, <1>12, <1>13 DEF Structure

(* Saving a run counts it in the chunks that hold its tokens.  "last" is   *)
(* the last token kept: SaveAnchor may name one past the end of the tape.  *)
LEMMA SaveInv ==
    ASSUME IInv, NEW h \in Holder, NEW from \in Token, NEW to \in Nat, NEW last \in Token,
           NEW kind \in {"run", "anchor"}, run[h] = NoRun,
           from <= to, from < next, last = (IF to < next THEN to ELSE next - 1),
           \A s \in from .. last : s \in Held,
           SaveRun(from, to),
           run' = [run EXCEPT ![h] = [kind |-> kind, from |-> from, to |-> last]],
           UNCHANGED <<lists, base, pos, onSaved, buf, byIndex,
                       next, tail, frozen, released, since, handed>>
    PROVE  Structure' /\ FloorLive' /\ RunsHeld' /\ SavesExact'
<1>1. Structure' /\ FloorLive'
  BY DEF IInv, Structure, ListsApart, HeadLast, ChunksAligned, IndexExact, Filled, InHand,
         FloorLive, Floor, lists
<1>2. next \in Nat /\ from \in Nat /\ last \in Nat /\ from <= last /\ last < next /\ last <= to
  BY DEF IInv, TypeOK, Token
<1>3. run'[h] = [kind |-> kind, from |-> from, to |-> last]
      /\ \A g \in Holder : g # h => run'[g] = run[g]
  BY DEF IInv, TypeOK
<1>4. RunsHeld'
  <2> SUFFICES ASSUME NEW g \in Holder, run'[g].kind # "none"
               PROVE  /\ run'[g].from <= run'[g].to /\ run'[g].to < next
                      /\ \A s \in run'[g].from .. run'[g].to : byIndex[s \div ChunkSize] # NoChunk
    BY DEF RunsHeld, Kept
  <2>1. CASE g = h
    <3>1. \A s \in from .. last : s \in Token /\ byIndex[s \div ChunkSize] # NoChunk
      <4> SUFFICES ASSUME NEW s \in from .. last
                   PROVE  s \in Token /\ byIndex[s \div ChunkSize] # NoChunk
        OBVIOUS
      <4>1. s \in Held /\ s \in Token
        BY DEF Held
      <4> QED BY <4>1, LookUp DEF IInv
    <3>2. run'[g].from = from /\ run'[g].to = last
      BY <2>1, <1>3
    <3> QED BY <3>1, <3>2, <1>2
  <2>2. CASE g # h
    BY <2>2, <1>3 DEF IInv, RunsHeld, Kept
  <2> QED BY <2>1, <2>2
<1>5. SavesExact'
  <2> SUFFICES ASSUME NEW c \in InHand
               PROVE  saves'[c] = Cardinality(Savers(c)')
    BY DEF IInv, SavesExact, lists, InHand
  <2>1. c \in Chunk /\ base[c] \in Nat /\ pos[c] \in Nat /\ base[c] + pos[c] <= next /\ pos[c] > 0
        /\ saves[c] = Cardinality(Savers(c))
    BY DEF IInv, TypeOK, InHand, Structure, ChunksAligned, SavesExact
  <2>2. h \notin Savers(c) /\ IsFiniteSet(Savers(c)) /\ Cardinality(Savers(c)) \in Nat
    BY Countable DEF Savers, NoRun
  <2>3. c \in ChunksIn(from, to) <=> from < base[c] + pos[c] /\ to >= base[c]
    BY <1>2, Visits DEF IInv
  <2>4. to >= base[c] <=> last >= base[c]
    BY <2>1, <1>2
  <2>5. CASE c \in ChunksIn(from, to)
    <3>1. Savers(c)' = Savers(c) \cup {h}
      BY <1>3, <2>3, <2>4, <2>5 DEF Savers
    <3>2. saves'[c] = saves[c] + 1
      BY <2>1, <2>5 DEF SaveRun
    <3> QED BY <3>1, <3>2, <2>1, <2>2, FS_AddElement
  <2>6. CASE c \notin ChunksIn(from, to)
    <3>1. Savers(c)' = Savers(c)
      BY <1>3, <2>2, <2>3, <2>4, <2>6 DEF Savers
    <3>2. saves'[c] = saves[c]
      BY <2>1, <2>6 DEF SaveRun
    <3> QED BY <3>1, <3>2, <2>1
  <2> QED BY <2>5, <2>6
<1> QED BY <1>1, <1>4, <1>5

(* Giving one run back frees only chunks no other run touches. *)
LEMMA ReleaseInv ==
    ASSUME IInv, NEW h \in Holder, Release(h)
    PROVE  Structure' /\ FloorLive' /\ RunsHeld' /\ SavesExact'
<1> DEFINE from == run[h].from
           to == run[h].to
           visited == {c \in ChunksIn(from, to) : saves[c] > 0}
           freed == {c \in visited : saves[c] = 1 /\ onSaved[c]}
<1>1. /\ run[h].kind = "run" /\ FreeChunks(freed)
      /\ saves' = [c \in Chunk |-> IF c \in visited THEN saves[c] - 1 ELSE saves[c]]
      /\ saved' = saved \ freed
      /\ onSaved' = [c \in Chunk |-> onSaved[c] /\ c \notin freed]
      /\ run' = [run EXCEPT ![h] = NoRun]
      /\ live' = live /\ head' = head /\ base' = base /\ pos' = pos /\ buf' = buf
      /\ next' = next /\ tail' = tail /\ frozen' = frozen /\ since' = since /\ handed' = handed
  BY DEF Release
<1>2. from \in Nat /\ to \in Nat
  BY <1>1 DEF IInv, TypeOK, Run, Token, NoRun
<1>3. \A c : c \in visited <=> c \in InHand /\ h \in Savers(c)
  <2>1. \A c : c \in ChunksIn(from, to) <=> c \in InHand /\ h \in Savers(c)
    BY <1>1, <1>2, Visits DEF IInv, Savers
  <2>2. ASSUME NEW c \in InHand, h \in Savers(c) PROVE saves[c] > 0
    <3>1. IsFiniteSet(Savers(c)) /\ Cardinality(Savers(c)) \in Nat /\ Cardinality(Savers(c)) # 0
      BY <2>2, Countable, FS_EmptySet DEF Savers
    <3> QED BY <3>1 DEF IInv, SavesExact
  <2> QED BY <2>1, <2>2
<1>4. freed \subseteq saved /\ freed \cap live = {} /\ saved \subseteq InHand
      /\ live \subseteq InHand /\ InHand \subseteq Chunk
  BY <1>3 DEF IInv, SavesExact, Structure, ListsApart, InHand, TypeOK
<1>5. InHand' = InHand \ freed
  BY <1>1, <1>4 DEF InHand
<1>6. Structure'
  <2>1. live' \cap saved' = {} /\ live' \cup saved' = InHand \ freed
        /\ live' \subseteq InHand /\ saved' \subseteq InHand /\ freed \in SUBSET InHand
    BY <1>1, <1>4 DEF IInv, Structure, ListsApart, InHand
  <2>2. (head # NoChunk => head \in live') /\ head \notin freed
    <3>1. head # NoChunk => head \in live
      BY DEF IInv, Structure, HeadLast
    <3>2. NoChunk \notin freed
      BY <1>4, ChunkAssumption
    <3> QED BY <3>1, <3>2, <1>1, <1>4
  <2> QED BY <1>1, <2>1, <2>2, LetGo DEF IInv
<1>7. \A i \in Index : byIndex'[i] = IF byIndex[i] \in freed THEN NoChunk ELSE byIndex[i]
  BY <1>1, <1>4, Unindexed DEF IInv
<1>8. FloorLive'
  <2>1. Floor' = Floor /\ Floor \in Nat /\ next \in 0 .. MaxTokens
    BY <1>1 DEF Floor, IInv, TypeOK
  <2>2. ASSUME NEW s \in Floor .. next-1 PROVE byIndex'[s \div ChunkSize] \in live'
    <3>1. byIndex[s \div ChunkSize] \in live
      BY DEF IInv, FloorLive
    <3> s \in Token
      BY <2>1 DEF Token
    <3>2. s \div ChunkSize \in Index
      BY <3>1, LookUp DEF IInv
    <3> QED BY <3>1, <3>2, <1>1, <1>4, <1>7
  <2> QED BY <1>1, <2>1, <2>2 DEF IInv, FloorLive
<1>9. run'[h] = NoRun /\ \A g \in Holder : g # h => run'[g] = run[g]
  BY <1>1 DEF IInv, TypeOK
<1>10. RunsHeld'
  <2> SUFFICES ASSUME NEW g \in Holder, run'[g].kind # "none"
               PROVE  /\ run'[g].from <= run'[g].to /\ run'[g].to < next'
                      /\ \A s \in Kept(g)' : byIndex'[s \div ChunkSize] # NoChunk
    BY DEF RunsHeld
  <2>1. g # h /\ run'[g] = run[g] /\ Kept(g)' = Kept(g)
    BY <1>9 DEF NoRun, Kept
  <2>2. ASSUME NEW s \in Kept(g) PROVE byIndex'[s \div ChunkSize] # NoChunk
    <3> DEFINE c == byIndex[s \div ChunkSize]
    <3>1. c \in InHand /\ c # NoChunk /\ g \in Savers(c) /\ s \div ChunkSize \in Index
      BY KeptIsSaved
    <3>2. c \notin freed
      <4> SUFFICES ASSUME c \in freed PROVE FALSE
        OBVIOUS
      <4>1. h \in Savers(c) /\ saves[c] = 1
        BY <1>3
      <4>2. /\ IsFiniteSet(Savers(c)) /\ IsFiniteSet(Savers(c) \ {h})
            /\ Cardinality(Savers(c) \ {h}) \in Nat
        BY Countable DEF Savers
      <4>3. Cardinality(Savers(c) \ {h}) = 0
        BY <3>1, <4>1, <4>2, FS_RemoveElement DEF IInv, SavesExact
      <4>4. Savers(c) \ {h} = {}
        BY <4>2, <4>3, FS_EmptySet
      <4> QED BY <3>1, <4>4, <2>1
    <3> QED BY <3>1, <3>2, <1>7
  <2> QED BY <2>1, <2>2, <1>1 DEF IInv, RunsHeld
<1>11. SavesExact'
  <2> SUFFICES ASSUME NEW c \in InHand, c \notin freed
               PROVE  saves'[c] = Cardinality(Savers(c)') /\ (onSaved'[c] <=> c \in saved')
    BY <1>5 DEF SavesExact
  <2>1. c \in Chunk /\ saves[c] = Cardinality(Savers(c)) /\ (onSaved[c] <=> c \in saved)
    BY <1>4 DEF IInv, SavesExact
  <2>2. IsFiniteSet(Savers(c)) /\ Cardinality(Savers(c)) \in Nat
    BY Countable DEF Savers
  <2>3. Savers(c)' = Savers(c) \ {h}
    BY <1>1, <1>9 DEF Savers, NoRun
  <2>4. onSaved'[c] <=> c \in saved'
    BY <2>1, <1>1
  <2>5. CASE h \in Savers(c)
    <3> c \in visited
      BY <1>3, <2>5
    <3>1. saves'[c] = saves[c] - 1
      BY <1>1, <2>1
    <3>2. Cardinality(Savers(c) \ {h}) = Cardinality(Savers(c)) - 1
      BY <2>2, <2>5, FS_RemoveElement
    <3> QED BY <3>1, <3>2, <2>1, <2>3, <2>4
  <2>6. CASE h \notin Savers(c)
    <3>1. saves'[c] = saves[c] /\ Savers(c)' = Savers(c)
      BY <1>1, <1>3, <2>1, <2>3, <2>6
    <3> QED BY <3>1, <2>1, <2>4
  <2> QED BY <2>5, <2>6
<1> QED BY <1>6, <1>8, <1>10, <1>11

(* Giving every run back frees the saved list and nothing the tail has not *)
(* passed.                                                                 *)
LEMMA ReleaseAllInv == IInv /\ ReleaseAll => Structure' /\ FloorLive' /\ RunsHeld' /\ SavesExact'
<1> SUFFICES ASSUME IInv, ReleaseAll
             PROVE  Structure' /\ FloorLive' /\ RunsHeld' /\ SavesExact'
  OBVIOUS
<1>1. /\ FreeChunks(saved) /\ saved' = {} /\ run' = [h \in Holder |-> NoRun]
      /\ saves' = [c \in Chunk |-> IF c \in InHand THEN 0 ELSE saves[c]]
      /\ onSaved' = [c \in Chunk |-> onSaved[c] /\ c \notin saved]
      /\ live' = live /\ head' = head /\ base' = base /\ pos' = pos /\ buf' = buf
      /\ next' = next /\ tail' = tail /\ frozen' = frozen /\ since' = since /\ handed' = handed
  BY DEF ReleaseAll
<1>2. saved \in SUBSET InHand /\ saved \cap live = {} /\ live \subseteq Chunk /\ InHand' = live
      /\ live \subseteq InHand /\ saved \subseteq Chunk
  BY <1>1 DEF IInv, Structure, ListsApart, InHand, TypeOK
<1>3. Structure'
  <2>1. live' \cap saved' = {} /\ live' \cup saved' = InHand \ saved
        /\ live' \subseteq InHand /\ saved' \subseteq InHand
    BY <1>1, <1>2 DEF InHand
  <2>2. (head # NoChunk => head \in live') /\ head \notin saved
    <3>1. head # NoChunk => head \in live
      BY DEF IInv, Structure, HeadLast
    <3>2. NoChunk \notin saved
      BY <1>2, ChunkAssumption
    <3> QED BY <3>1, <3>2, <1>1, <1>2
  <2> QED BY <1>1, <1>2, <2>1, <2>2, LetGo DEF IInv
<1>4. \A i \in Index : byIndex'[i] = IF byIndex[i] \in saved THEN NoChunk ELSE byIndex[i]
  BY <1>1, <1>2, Unindexed DEF IInv
<1>5. FloorLive'
  <2>1. Floor' = Floor /\ Floor \in Nat /\ next \in 0 .. MaxTokens
    BY <1>1 DEF Floor, IInv, TypeOK
  <2>2. ASSUME NEW s \in Floor .. next-1 PROVE byIndex'[s \div ChunkSize] \in live'
    <3>1. byIndex[s \div ChunkSize] \in live
      BY DEF IInv, FloorLive
    <3> s \in Token
      BY <2>1 DEF Token
    <3>2. s \div ChunkSize \in Index
      BY LookUp DEF IInv
    <3> QED BY <3>1, <3>2, <1>1, <1>2, <1>4
  <2> QED BY <1>1, <2>1, <2>2 DEF IInv, FloorLive
<1>6. RunsHeld'
  BY <1>1 DEF RunsHeld, NoRun
<1>7. SavesExact'
  <2>1. \A c \in live : Savers(c)' = {} /\ saves'[c] = 0
    BY <1>1, <1>2 DEF Savers, NoRun
  <2>2. \A c \in live : onSaved'[c] <=> c \in saved'
    BY <1>1, <1>2 DEF IInv, SavesExact
  <2> QED BY <1>2, <2>1, <2>2, FS_EmptySet DEF SavesExact
<1> QED BY <1>3, <1>5, <1>6, <1>7

(* An empty tape, from Init, Recycle or Reset, satisfies everything. *)
LEMMA EmptyInv ==
    ASSUME EmptyTape, free' \subseteq Chunk, TypeOK'
    PROVE  Structure' /\ FloorLive' /\ RunsHeld' /\ SavesExact'
BY DEF EmptyTape, Structure, ListsApart, HeadLast, ChunksAligned, IndexExact, Filled, InHand,
       FloorLive, Floor, RunsHeld, SavesExact, NoRun, Index

LEMMA InitInv == Init => IInv
<1> SUFFICES ASSUME Init PROVE Structure /\ FloorLive /\ RunsHeld /\ SavesExact
  BY InitTypeOK DEF IInv
<1> QED BY DEF Init, Structure, ListsApart, HeadLast, ChunksAligned, IndexExact, Filled, InHand,
               FloorLive, Floor, RunsHeld, SavesExact, NoRun, Index

(* Moving the tail, or taking and giving back a pin. *)
LEMMA SetTailInv ==
    ASSUME IInv, NEW s \in 0 .. MaxTokens, SetTail(s)
    PROVE  Structure' /\ FloorLive' /\ RunsHeld' /\ SavesExact'
<1>1. /\ Sweep(tail', frozen) /\ s <= next /\ tail' = (IF s > tail THEN s ELSE tail)
      /\ UNCHANGED <<head, base, pos, saves, buf, next, run, handed, frozen, since>>
  BY DEF SetTail, history
<1>2. tail' \in Nat /\ tail <= tail' /\ tail' <= next /\ frozen \in Nat /\ tail \in Nat
      /\ since \in Nat /\ next \in Nat
  BY <1>1 DEF IInv, FloorLive, TypeOK
<1>3. /\ Structure' /\ RunsHeld' /\ SavesExact'
      /\ \A x \in 0 .. next-1 :
           byIndex[x \div ChunkSize] \in live /\ (frozen > 0 \/ x >= tail')
             => byIndex'[x \div ChunkSize] \in live'
  BY <1>1, <1>2, SweepKeeps
<1>4. ASSUME NEW x \in Floor' .. next-1 PROVE byIndex'[x \div ChunkSize] \in live'
  <2>1. x \in Floor .. next-1 /\ x \in 0 .. next-1 /\ (frozen > 0 \/ x >= tail')
    BY <1>1, <1>2 DEF Floor
  <2>2. byIndex[x \div ChunkSize] \in live
    BY <2>1 DEF IInv, FloorLive
  <2> QED BY <2>1, <2>2, <1>3
<1>5. FloorLive'
  BY <1>1, <1>2, <1>4 DEF IInv, FloorLive
<1> QED BY <1>3, <1>5

LEMMA PinInv == IInv /\ Pin => Structure' /\ FloorLive' /\ RunsHeld' /\ SavesExact'
<1> SUFFICES ASSUME IInv, Pin PROVE Structure' /\ FloorLive' /\ RunsHeld' /\ SavesExact'
  OBVIOUS
<1>1. /\ UNCHANGED <<live, free, saved, head, base, pos, saves, onSaved, buf, byIndex,
                     next, tail, run, handed>>
      /\ frozen' = frozen + 1 /\ since' = (IF frozen = 0 THEN tail ELSE since)
      /\ frozen \in Nat /\ tail \in Nat
  BY DEF Pin, lists, chunks, IInv, TypeOK
<1>2. Structure' /\ RunsHeld'
  BY <1>1 DEF IInv, Structure, ListsApart, HeadLast, ChunksAligned, IndexExact, Filled, InHand,
              RunsHeld, Kept
<1> SavesExact'
  <2>1. InHand' = InHand /\ \A c : Savers(c)' = Savers(c)
    BY <1>1 DEF Savers, InHand
  <2> QED BY <1>1, <2>1 DEF IInv, SavesExact
<1>3. Floor' = Floor
  BY <1>1 DEF Floor
<1>4. FloorLive'
  BY <1>1, <1>3 DEF IInv, FloorLive
<1> QED BY <1>2, <1>4

LEMMA UnpinInv == IInv /\ Unpin => Structure' /\ FloorLive' /\ RunsHeld' /\ SavesExact'
<1> SUFFICES ASSUME IInv, Unpin PROVE Structure' /\ FloorLive' /\ RunsHeld' /\ SavesExact'
  OBVIOUS
<1>1. /\ Sweep(tail, frozen') /\ frozen > 0 /\ frozen' = frozen - 1
      /\ since' = (IF frozen = 1 THEN 0 ELSE since)
      /\ UNCHANGED <<head, base, pos, saves, buf, next, run, handed, tail>>
  BY DEF Unpin
<1>2. frozen' \in Nat /\ tail \in Nat /\ since \in Nat /\ since <= tail /\ tail <= next
      /\ next \in Nat /\ frozen \in Nat
  BY <1>1 DEF IInv, FloorLive, TypeOK
<1>3. /\ Structure' /\ RunsHeld' /\ SavesExact'
      /\ \A x \in 0 .. next-1 :
           byIndex[x \div ChunkSize] \in live /\ (frozen' > 0 \/ x >= tail)
             => byIndex'[x \div ChunkSize] \in live'
  BY <1>1, <1>2, SweepKeeps
<1>4. ASSUME NEW x \in Floor' .. next-1 PROVE byIndex'[x \div ChunkSize] \in live'
  <2>1. x \in Floor .. next-1 /\ x \in 0 .. next-1 /\ (frozen' > 0 \/ x >= tail)
    BY <1>1, <1>2 DEF Floor
  <2>2. byIndex[x \div ChunkSize] \in live
    BY <2>1 DEF IInv, FloorLive
  <2> QED BY <2>1, <2>2, <1>3
<1>5. FloorLive'
  BY <1>1, <1>2, <1>4 DEF FloorLive
<1> QED BY <1>3, <1>5

(* Every operation keeps the invariant. *)
LEMMA NextInv == IInv /\ [Next]_vars => IInv'
<1> SUFFICES ASSUME IInv, [Next]_vars PROVE IInv'
  OBVIOUS
<1> DEFINE Rest == Structure /\ FloorLive /\ RunsHeld /\ SavesExact
<1>0. TypeOK'
  BY NextTypeOK DEF IInv
<1>1. ASSUME AddInHand PROVE Rest'
  BY <1>1, AddInHandInv
<1>2. ASSUME NEW c \in Chunk, AddGrowing(c) PROVE Rest'
  BY <1>2, AddGrowingInv
<1>3. ASSUME NEW s \in 0 .. MaxTokens, SetTail(s) PROVE Rest'
  BY <1>3, SetTailInv
<1>4. ASSUME Pin PROVE Rest'
  BY <1>4, PinInv
<1>5. ASSUME Unpin PROVE Rest'
  BY <1>5, UnpinInv
<1>6. ASSUME NEW h \in Holder, NEW from \in Token, NEW to \in Token, HoldRun(h, from, to)
      PROVE Rest'
  <2>1. from \in Token /\ to \in Nat /\ next \in Nat /\ to < next /\ from < next
        /\ to = (IF to < next THEN to ELSE next - 1)
    BY <1>6 DEF HoldRun, Token, IInv, TypeOK
  <2>2. \A s \in from .. to : s \in Held
    BY <1>6 DEF HoldRun
  <2> QED BY <1>6, <2>1, <2>2, SaveInv DEF HoldRun
<1>7. ASSUME NEW h \in Holder, NEW from \in Token, NEW to \in 0 .. MaxTokens,
             SaveAnchor(h, from, to)
      PROVE Rest'
  <2> DEFINE last == IF to < next THEN to ELSE next - 1
  <2>1. next \in Nat /\ from < next /\ from <= to /\ to \in Nat /\ next <= MaxTokens
    BY <1>7 DEF SaveAnchor, IInv, TypeOK
  <2>2. last \in Token
    BY <2>1 DEF Token
  <2>3. \A s \in from .. last : s \in Held
    BY <1>7, <2>1 DEF SaveAnchor, Token
  <2>4. run' = [run EXCEPT ![h] = [kind |-> "anchor", from |-> from, to |-> last]]
    BY <1>7 DEF SaveAnchor
  <2> HIDE DEF last
  <2>5. last = (IF to < next THEN to ELSE next - 1)
    BY DEF last
  <2> QED BY <1>7, <2>1, <2>2, <2>3, <2>4, <2>5, SaveInv DEF SaveAnchor
<1>8. ASSUME NEW h \in Holder, Release(h) PROVE Rest'
  BY <1>8, ReleaseInv
<1>9. ASSUME ReleaseAll PROVE Rest'
  BY <1>9, ReleaseAllInv
<1>10. ASSUME Recycle PROVE Rest'
  BY <1>10, <1>0, EmptyInv DEF Recycle, TypeOK
<1>11. ASSUME Reset PROVE Rest'
  BY <1>11, <1>0, EmptyInv DEF Reset, TypeOK
<1>12. ASSUME UNCHANGED vars PROVE Rest'
  <2>1. UNCHANGED <<live, free, saved, head, base, pos, saves, onSaved, buf, byIndex,
                    next, tail, frozen, run, since, handed>>
    BY <1>12 DEF vars
  <2>2. InHand' = InHand /\ \A c : Savers(c)' = Savers(c)
    BY <2>1 DEF Savers, InHand
  <2>3. Structure' /\ RunsHeld' /\ FloorLive'
    BY <2>1, <2>2 DEF IInv, Structure, ListsApart, HeadLast, ChunksAligned, IndexExact, Filled,
                      RunsHeld, Kept, FloorLive, Floor
  <2> QED BY <2>1, <2>2, <2>3 DEF IInv, SavesExact
<1> QED BY <1>0, <1>1, <1>2, <1>3, <1>4, <1>5, <1>6, <1>7, <1>8, <1>9, <1>10, <1>11, <1>12
        DEF Next, IInv

LEMMA Invariance == Spec => []IInv
BY InitInv, NextInv, PTL DEF Spec

-----------------------------------------------------------------------------
(* Nothing is kept that no one needs. *)

(* A chunk stands on saved for a run. *)
SavedNeeded == \A c \in saved : saves[c] > 0

(* A sweep takes all that lies behind the tail: what has come to lie       *)
(* behind it since was the head then, and ends where the tail stands.      *)
Swept == frozen = 0 => \A c \in live \ {head} : base[c] + pos[c] >= tail

LeakInv == SavedNeeded /\ Swept

(* A full chunk behind the tail has only such chunks before it. *)
LEMMA PassedIsBehind ==
    ASSUME TypeOK, Structure, NEW t \in Nat, NEW c \in live, c # head, base[c] + pos[c] <= t
    PROVE  c \in Passed(t)
<1>1. ASSUME NEW d \in live, base[d] <= base[c]
      PROVE  d # head /\ base[d] + pos[d] <= t
  <2>1. /\ c \in InHand /\ d \in InHand
        /\ base[c] \in Nat /\ base[d] \in Nat /\ pos[c] = ChunkSize
        /\ base[c] + ChunkSize <= base[head]
    BY DEF Structure, ChunksAligned, InHand, TypeOK
  <2>2. d # head
    BY <1>1, <2>1
  <2>3. pos[d] = ChunkSize
    BY <2>1, <2>2 DEF Structure, ChunksAligned
  <2> QED BY <1>1, <2>1, <2>2, <2>3
<1> QED BY <1>1 DEF Passed

(* What a sweep leaves behind the tail it was given, and on saved. *)
LEMMA SweepLeaves ==
    ASSUME IInv, LeakInv, NEW t \in Nat, NEW pins \in Nat, Sweep(t, pins),
           UNCHANGED <<head, base, pos, saves>>
    PROVE  /\ SavedNeeded'
           /\ pins = 0 => \A c \in live' \ {head'} : base'[c] + pos'[c] >= t
<1>1. SavedNeeded'
  BY DEF Sweep, SavedNeeded, LeakInv
<1>2. ASSUME pins = 0, NEW c \in live' \ {head'}
      PROVE  base'[c] + pos'[c] >= t
  <2>1. c \in live /\ c # head /\ c \notin Passed(t) /\ base'[c] = base[c] /\ pos'[c] = pos[c]
    BY <1>2 DEF Sweep
  <2>2. ~(base[c] + pos[c] <= t)
    BY <2>1, PassedIsBehind DEF IInv
  <2>3. base[c] \in Nat /\ pos[c] \in Nat
    BY <2>1 DEF IInv, TypeOK
  <2> QED BY <2>1, <2>2, <2>3
<1> QED BY <1>1, <1>2

LEMMA NextLeakInv == IInv /\ LeakInv /\ [Next]_vars => LeakInv'
<1> SUFFICES ASSUME IInv, LeakInv, [Next]_vars PROVE LeakInv'
  OBVIOUS
<1> USE DEF LeakInv
<1>1. ASSUME AddInHand PROVE LeakInv'
  BY <1>1 DEF AddInHand, lists, SavedNeeded, Swept, HeadFull, IInv, TypeOK
<1>2. ASSUME NEW c \in Chunk, AddGrowing(c) PROVE LeakInv'
  <2>1. c \notin live /\ c \notin saved
    BY <1>2 DEF AddGrowing, MayGrow, IInv, Structure, ListsApart
  <2>2. SavedNeeded'
    BY <1>2, <2>1 DEF AddGrowing, SavedNeeded, IInv, TypeOK
  <2>3. ASSUME frozen' = 0, NEW d \in live' \ {head'}
        PROVE  base'[d] + pos'[d] >= tail'
    <3>1. /\ d \in live /\ base'[d] = base[d] /\ pos'[d] = pos[d] /\ tail' = tail /\ frozen = 0
      BY <1>2, <2>1, <2>3 DEF AddGrowing, IInv, TypeOK
    <3>2. CASE d = head
      <4>1. base[d] + pos[d] = next
        BY <3>1, <3>2, ChunkAssumption DEF IInv, Structure, HeadLast, TypeOK
      <4> QED BY <3>1, <4>1 DEF IInv, FloorLive, TypeOK
    <3>3. CASE d # head
      BY <3>1, <3>3 DEF Swept
    <3> QED BY <3>2, <3>3
  <2> QED BY <2>2, <2>3 DEF Swept
<1>3. ASSUME NEW s \in 0 .. MaxTokens, SetTail(s) PROVE LeakInv'
  <2>1. tail' \in Nat /\ frozen \in Nat
    BY <1>3 DEF SetTail, IInv, TypeOK
  <2> QED BY <1>3, <2>1, SweepLeaves DEF SetTail, Swept
<1>4. ASSUME Pin PROVE LeakInv'
  BY <1>4 DEF Pin, lists, chunks, SavedNeeded, Swept, IInv, TypeOK
<1>5. ASSUME Unpin PROVE LeakInv'
  <2>1. tail \in Nat /\ frozen' \in Nat
    BY <1>5 DEF Unpin, IInv, TypeOK
  <2> QED BY <1>5, <2>1, SweepLeaves DEF Unpin, Swept
<1>6. ASSUME NEW from, NEW to, SaveRun(from, to), UNCHANGED <<live, saved, head, base, pos, tail, frozen>>
      PROVE  LeakInv'
  <2>1. \A c \in saved : saves'[c] > 0
    BY <1>6 DEF SaveRun, SavedNeeded, IInv, TypeOK
  <2> QED BY <1>6, <2>1 DEF SavedNeeded, Swept
<1>7. ASSUME NEW h \in Holder, Release(h) PROVE LeakInv'
  <2>1. \A c \in saved' : saves'[c] > 0
    <3> SUFFICES ASSUME NEW c \in saved' PROVE saves'[c] > 0
      OBVIOUS
    <3>0. c \in saved /\ c \in InHand
      BY <1>7 DEF Release, InHand
    <3>1. c \in saved /\ c \in Chunk /\ saves[c] \in Nat /\ saves[c] > 0 /\ onSaved[c]
      BY <3>0 DEF SavedNeeded, IInv, TypeOK, SavesExact
    <3> QED BY <1>7, <3>1 DEF Release
  <2> QED BY <1>7, <2>1 DEF Release, SavedNeeded, Swept
<1>8. ASSUME ReleaseAll PROVE LeakInv'
  BY <1>8 DEF ReleaseAll, SavedNeeded, Swept
<1>9. ASSUME EmptyTape PROVE LeakInv'
  BY <1>9 DEF EmptyTape, SavedNeeded, Swept
<1>10. CASE UNCHANGED vars
  BY <1>10 DEF vars, SavedNeeded, Swept
<1> QED BY <1>1, <1>2, <1>3, <1>4, <1>5, <1>6, <1>7, <1>8, <1>9, <1>10
        DEF Next, HoldRun, SaveAnchor, Recycle, Reset, lists

(* Two chunks behind the tail would both end at it, and be one. *)
LEMMA LeaksFromInv == IInv /\ LeakInv => NothingLeaks
<1> SUFFICES ASSUME IInv, LeakInv PROVE NothingLeaks
  OBVIOUS
<1> DEFINE behind == {c \in live \ {head} : base[c] + pos[c] <= tail}
<1>1. \A c \in saved : saves[c] > 0 /\ onSaved[c]
  BY DEF LeakInv, SavedNeeded, IInv, SavesExact, InHand
<1>2. ASSUME frozen = 0, NEW c \in behind, NEW d \in behind
      PROVE  c = d
  <2>0. c \in InHand \ {head} /\ d \in InHand \ {head} /\ c \in Chunk /\ d \in Chunk
    BY DEF InHand, IInv, TypeOK
  <2>1. /\ base[c] \in Nat /\ base[d] \in Nat /\ tail \in Nat
        /\ pos[c] = ChunkSize /\ pos[d] = ChunkSize
    BY <2>0 DEF IInv, Structure, ChunksAligned, TypeOK
  <2>2. base[c] + pos[c] = tail /\ base[d] + pos[d] = tail
    BY <1>2, <2>1 DEF LeakInv, Swept
  <2>3. base[c] = base[d]
    BY <2>1, <2>2
  <2> QED BY <2>0, <2>3 DEF IInv, Structure, ChunksAligned
<1>3. IsFiniteSet(behind) /\ Cardinality(behind) \in Nat
  BY Countable DEF IInv, TypeOK
<1>4. ASSUME frozen = 0 PROVE Cardinality(behind) <= 1
  <2>1. CASE behind = {}
    <3>1. Cardinality({}) = 0
      BY FS_EmptySet
    <3> HIDE DEF behind
    <3> QED BY <2>1, <3>1
  <2>2. CASE behind # {}
    <3>1. PICK c \in behind : TRUE
      BY <2>2
    <3>2. behind = {c}
      BY <1>2, <1>4, <3>1
    <3>3. Cardinality({c}) = 1
      BY FS_Singleton
    <3> HIDE DEF behind
    <3> QED BY <3>2, <3>3
  <2> QED BY <2>1, <2>2
<1> QED BY <1>1, <1>4 DEF NothingLeaks

(* Recycling keeps up: no chunk stands on saved that no run needs, and     *)
(* with no pin held at most one chunk behind the tail is still on the tape *)
(* (sweep, Release, Unpin).                                                *)
THEOREM LeaksNothing == Spec => []NothingLeaks
<1>1. Init => LeakInv
  BY DEF Init, LeakInv, SavedNeeded, Swept
<1> QED BY <1>1, NextLeakInv, Invariance, LeaksFromInv, PTL DEF Spec

-----------------------------------------------------------------------------
(* The properties the runs check, for every instance. *)

LEMMA FloorFromInv == IInv => FloorReadable
<1> SUFFICES ASSUME IInv, NEW s \in Floor .. next-1 PROVE s \in Held /\ Read(s) = s
  BY DEF FloorReadable
<1>1. s \in Token /\ s < next
  BY DEF IInv, TypeOK, Floor, Token
<1>2. byIndex[s \div ChunkSize] \in live
  BY DEF IInv, FloorLive
<1>3. byIndex[s \div ChunkSize] # NoChunk
  BY <1>2, ChunkAssumption DEF IInv, TypeOK
<1> QED BY <1>1, <1>3, LookUp DEF IInv

(* Whatever was saved, released, pinned and recycled, a token at or above  *)
(* the tail, or at or above where the tail stood when the oldest pin was   *)
(* taken, reads back through its address.                                  *)
THEOREM FloorCorrect == Spec => []FloorReadable
BY Invariance, FloorFromInv, PTL

LEMMA RunFromInv == IInv => RunReadable
<1> SUFFICES ASSUME IInv, NEW h \in Holder, NEW s \in Kept(h) PROVE s \in Held /\ Read(s) = s
  BY DEF RunReadable
<1> QED BY KeptIsSaved, LookUp DEF IInv

(* A saved run reads back until it is given back, whoever shares its       *)
(* chunks.                                                                 *)
THEOREM RunCorrect == Spec => []RunReadable
BY Invariance, RunFromInv, PTL

LEMMA HeldFromInv == IInv => HeldReads
<1> SUFFICES ASSUME IInv, NEW s \in Held PROVE s < next /\ At(s) = s /\ Read(s) = s
  BY DEF HeldReads
<1>1. s \in Token
  BY DEF Held
<1> QED BY <1>1, LookUp DEF IInv

(* Looking a token up by number and reading its address agree. *)
THEOREM HeldCorrect == Spec => []HeldReads
BY Invariance, HeldFromInv, PTL

LEMMA CountFromInv == IInv => SavesCounted
<1> SUFFICES ASSUME IInv, NEW c \in InHand
             PROVE  saves[c] = Cardinality({h \in Holder :
                        Kept(h) \cap base[c] .. (base[c]+pos[c]-1) # {}})
  BY DEF SavesCounted
<1>1. base[c] \in Nat /\ pos[c] \in Nat /\ pos[c] > 0
  BY DEF IInv, TypeOK, InHand, Structure, ChunksAligned
<1>2. ASSUME NEW h \in Holder
      PROVE  h \in Savers(c) <=> Kept(h) \cap base[c] .. (base[c]+pos[c]-1) # {}
  <2>1. CASE run[h].kind = "none"
    BY <2>1 DEF Savers, Kept
  <2>2. CASE run[h].kind # "none"
    <3> DEFINE f == run[h].from
               t == run[h].to
    <3>1. f <= t /\ f \in Nat /\ t \in Nat /\ Kept(h) = f .. t
      BY <2>2 DEF IInv, RunsHeld, Kept, TypeOK, Run, NoRun, Token
    <3>2. h \in Savers(c) <=> f < base[c] + pos[c] /\ t >= base[c]
      BY <2>2 DEF Savers
    <3>3. ASSUME f < base[c] + pos[c], t >= base[c]
          PROVE  (f .. t) \cap (base[c] .. (base[c]+pos[c]-1)) # {}
      <4>1. CASE f >= base[c]
        BY <3>1, <3>3, <4>1, <1>1, f \in (f .. t) \cap (base[c] .. (base[c]+pos[c]-1))
      <4>2. CASE f < base[c]
        BY <3>1, <3>3, <4>2, <1>1, base[c] \in (f .. t) \cap (base[c] .. (base[c]+pos[c]-1))
      <4> QED BY <4>1, <4>2, <3>1, <1>1
    <3>4. ASSUME NEW x \in (f .. t) \cap (base[c] .. (base[c]+pos[c]-1))
          PROVE  f < base[c] + pos[c] /\ t >= base[c]
      BY <3>1, <1>1
    <3> QED BY <3>1, <3>2, <3>3, <3>4
  <2> QED BY <2>1, <2>2
<1>3. Savers(c) = {h \in Holder : Kept(h) \cap base[c] .. (base[c]+pos[c]-1) # {}}
  BY <1>2 DEF Savers
<1> QED BY <1>3 DEF IInv, SavesExact

(* No caller gives back the save of another. *)
THEOREM SavesCorrect == Spec => []SavesCounted
BY Invariance, CountFromInv, PTL

-----------------------------------------------------------------------------
(* The arena implements the tape. *)

(* Held, told by byIndex. *)
HeldExact == Held = {s \in Token : s < next /\ byIndex[s \div ChunkSize] # NoChunk}

PromisedHeld == Tape!Promised \subseteq Held

LEMMA HeldFromIndex == IInv => HeldExact /\ PromisedHeld
<1> SUFFICES ASSUME IInv PROVE HeldExact /\ PromisedHeld
  OBVIOUS
<1>1. HeldExact
  <2>1. \A s \in Token : s \in Held <=> s < next /\ byIndex[s \div ChunkSize] # NoChunk
    BY LookUp DEF IInv
  <2> QED BY <2>1 DEF HeldExact, Held
<1>2. Floor .. next-1 \subseteq Held
  BY FloorFromInv DEF FloorReadable
<1>3. \A h \in Holder : Kept(h) \subseteq Held
  BY RunFromInv DEF RunReadable
<1>4. Tape!Promised = (Floor .. next-1) \cup UNION {Kept(h) : h \in Holder}
  BY DEF Tape!Promised, Tape!Floor, Tape!Kept, Floor, Kept
<1> QED BY <1>1, <1>2, <1>3, <1>4 DEF PromisedHeld

(* The same of the next state. *)
LEMMA HeldFromIndexNext == IInv' => HeldExact' /\ PromisedHeld'
BY HeldFromIndex, PTL

(* Freeing chunks loses tokens only by moving the counter. *)
LEMMA FreeForgets ==
    ASSUME IInv, IInv', NEW C \in SUBSET InHand, FreeChunks(C), next' = next
    PROVE  Tape!Forget /\ (C = {} => Tape!Lose)
<1>1. byIndex' = [i \in Index |-> IF byIndex[i] \in C THEN NoChunk ELSE byIndex[i]]
  BY Unindexed DEF IInv
<1>2. HeldExact /\ HeldExact' /\ PromisedHeld'
  BY HeldFromIndex, HeldFromIndexNext
<1>3. \A s \in Token : s \div ChunkSize \in Index
  BY LookUp DEF IInv
<1>4. Held' \subseteq Held
  BY <1>1, <1>2, <1>3 DEF HeldExact
<1>5. C \in SUBSET Chunk /\ NoChunk \notin C
  BY ChunkAssumption DEF IInv, TypeOK, InHand
<1>6. IsFiniteSet(C) /\ Cardinality(C) \in Nat /\ released' = released + Cardinality(C)
      /\ released \in Nat
  BY <1>5, Countable DEF FreeChunks, IInv, TypeOK
<1>7. ASSUME C = {} PROVE Held' = Held /\ released' = released
  <2>1. Cardinality(C) = 0
    BY <1>7, FS_EmptySet
  <2>2. \A s \in Token : byIndex'[s \div ChunkSize] = byIndex[s \div ChunkSize]
    BY <1>1, <1>3, <1>7
  <2> QED BY <2>1, <2>2, <1>2, <1>6 DEF HeldExact
<1>8. ASSUME Held' # Held PROVE released' > released
  <2>1. C # {}
    BY <1>7, <1>8
  <2>2. Cardinality(C) # 0
    BY <2>1, <1>6, FS_EmptySet
  <2> QED BY <2>2, <1>6
<1> QED BY <1>2, <1>4, <1>6, <1>7, <1>8 DEF Tape!Forget, Tape!Lose, PromisedHeld

LEMMA InitImplements == Init => Tape!TapeInit
<1> SUFFICES ASSUME Init PROVE Held = {}
  BY DEF Init, Tape!TapeInit, NoRun, Tape!NoRun
<1>1. HeldExact /\ next = 0
  BY InitInv, HeldFromIndex DEF Init
<1> QED BY <1>1 DEF HeldExact, Token

(* Every operation of the arena is one of the tape. *)
LEMMA StepImplements == IInv /\ IInv' /\ [Next]_vars => [Tape!TapeNext]_(Tape!tapeVars)
<1> SUFFICES ASSUME IInv, IInv', [Next]_vars PROVE Tape!TapeNext \/ UNCHANGED Tape!tapeVars
  OBVIOUS
<1> USE DEF Tape!TapeNext
<1>0. HeldExact /\ HeldExact'
  BY HeldFromIndex, HeldFromIndexNext
<1>i. \A s \in Token : s \div ChunkSize \in Index
  BY LookUp DEF IInv
<1>n. next \in Nat /\ next <= MaxTokens
  BY DEF IInv, TypeOK
<1>a. ASSUME next < MaxTokens, next' = next + 1,
             UNCHANGED <<tail, frozen, since, run, released>>,
             \A s \in 0 .. next-1 : byIndex'[s \div ChunkSize] = byIndex[s \div ChunkSize]
      PROVE  Tape!TapeNext
  <2>1. next \in Token /\ next \in Tape!Promised'
    <3>1. next \in Floor' .. next'-1
      BY <1>a DEF IInv, FloorLive, Floor, TypeOK
    <3> QED BY <3>1, <1>a, <1>n DEF Token, Tape!Promised, Tape!Floor, Floor
  <2>2. next \in Held'
    BY <2>1, HeldFromIndexNext DEF PromisedHeld
  <2>3. ASSUME NEW s \in Token, s # next PROVE s \in Held' <=> s \in Held
    <3> s \in Int
      BY DEF Token
    <3>0. /\ s \in Held <=> s < next /\ byIndex[s \div ChunkSize] # NoChunk
          /\ s \in Held' <=> s < next' /\ byIndex'[s \div ChunkSize] # NoChunk
      BY <1>0 DEF HeldExact
    <3>1. CASE s < next
      <4>1. s \in 0 .. next-1
        BY <3>1, <1>n DEF Token
      <4>2. byIndex'[s \div ChunkSize] = byIndex[s \div ChunkSize]
        BY <4>1, <1>a
      <4> QED BY <3>0, <3>1, <4>2, <1>a, <1>n
    <3>2. CASE s > next
      BY <3>0, <3>2, <1>a, <1>n
    <3> QED BY <3>1, <3>2, <2>3, <1>n DEF Token
  <2>4. Held' = Held \cup {next}
    BY <2>1, <2>2, <2>3 DEF Held
  <2> QED BY <2>4, <1>a DEF Tape!TapeAdd
<1>1. CASE AddInHand
  BY <1>1, <1>a DEF AddInHand
<1>2. ASSUME NEW c \in Chunk, AddGrowing(c) PROVE Tape!TapeNext
  <2> DEFINE q == next \div ChunkSize
  <2>1. byIndex' = [byIndex EXCEPT ![q] = c] /\ base'[c] = next /\ next \in Token /\ c # NoChunk
    BY <1>2, <1>n, ChunkAssumption DEF AddGrowing, Token, IInv, TypeOK
  <2>2. byIndex'[q] = c /\ q \in Index
    BY <2>1, <1>i DEF IInv, TypeOK
  <2>3. next = ChunkSize * q
    BY <2>1, <2>2 DEF IInv, Structure, IndexExact
  <2>4. ASSUME NEW s \in 0 .. next-1
        PROVE  byIndex'[s \div ChunkSize] = byIndex[s \div ChunkSize]
    <3>1. s \in Nat /\ s < next
      BY <1>n
    <3>2. ChunkSize * (s \div ChunkSize) <= s
      BY <3>1, DivBounds
    <3> s \div ChunkSize # q
      BY <3>1, <3>2, <2>3, <1>n
    <3>3. s \in Token
      BY <3>1, <1>n DEF Token
    <3>4. s \div ChunkSize \in Index
      BY <1>i, <3>3
    <3> QED BY <2>1, <3>4 DEF IInv, TypeOK
  <2> QED BY <1>2, <1>a, <2>4 DEF AddGrowing
<1>3. ASSUME NEW s \in 0 .. MaxTokens, SetTail(s) PROVE Tape!TapeNext
  <2> DEFINE gone == IF frozen > 0 THEN {} ELSE Passed(tail')
             C == gone \ {c \in gone : saves[c] > 0}
  <2>1. FreeChunks(C) /\ UNCHANGED <<next, frozen, since, run>>
        /\ tail' = (IF s > tail THEN s ELSE tail)
    BY <1>3 DEF SetTail, Sweep, history
  <2>2. C \in SUBSET InHand /\ (frozen > 0 => C = {})
    BY DEF Passed, InHand
  <2>3. Tape!Forget /\ (frozen > 0 => Tape!Lose)
    BY <2>1, <2>2, FreeForgets
  <2> QED BY <2>1, <2>3 DEF Tape!TapeSetTail
<1>4. CASE Pin
  <2>1. Held' = Held
    BY <1>4, <1>0 DEF Pin, chunks, HeldExact
  <2> QED BY <1>4, <2>1 DEF Pin, Tape!TapePin, Tape!Lose
<1>5. CASE Unpin
  <2> DEFINE gone == IF frozen' > 0 THEN {} ELSE Passed(tail)
             C == gone \ {c \in gone : saves[c] > 0}
  <2>1. FreeChunks(C) /\ UNCHANGED <<next, tail, run>>
    BY <1>5 DEF Unpin, Sweep
  <2>2. C \in SUBSET InHand
    BY DEF Passed, InHand
  <2>3. Tape!Forget
    BY <2>1, <2>2, FreeForgets
  <2> QED BY <1>5, <2>1, <2>3 DEF Unpin, Tape!TapeUnpin
<1>6. ASSUME NEW h \in Holder, NEW from \in Token, NEW to \in Token, HoldRun(h, from, to)
      PROVE Tape!TapeNext
  <2>1. Held' = Held
    BY <1>6, <1>0 DEF HoldRun, HeldExact
  <2>2. Tape!TapeSave(h, "run", from, to)
    BY <1>6, <2>1 DEF HoldRun, Tape!TapeSave, Tape!Lose, NoRun, Tape!NoRun
  <2> QED BY <2>2 DEF Token
<1>7. ASSUME NEW h \in Holder, NEW from \in Token, NEW to \in 0 .. MaxTokens,
             SaveAnchor(h, from, to)
      PROVE Tape!TapeNext
  <2> DEFINE last == IF to < next THEN to ELSE next - 1
  <2>1. Held' = Held
    BY <1>7, <1>0 DEF SaveAnchor, HeldExact
  <2>2. from < next /\ from <= to
    BY <1>7 DEF SaveAnchor
  <2>3. last \in 0 .. MaxTokens-1 /\ from <= last /\ last <= to /\ last < next /\ from \in Nat
    BY <2>2, <1>n DEF Token
  <2>4. from .. last \subseteq Held
    <3> SUFFICES ASSUME NEW s \in from .. last PROVE s \in Held
      OBVIOUS
    <3>1. s \in from .. to /\ s < next
      BY <2>3, <1>n
    <3> QED BY <1>7, <3>1 DEF SaveAnchor
  <2>5. run' = [run EXCEPT ![h] = [kind |-> "anchor", from |-> from, to |-> last]]
    BY <1>7 DEF SaveAnchor
  <2> HIDE DEF last
  <2>6. Tape!TapeSave(h, "anchor", from, last)
    BY <1>7, <2>1, <2>3, <2>4, <2>5
       DEF SaveAnchor, Tape!TapeSave, Tape!Lose, NoRun, Tape!NoRun
  <2> QED BY <2>3, <2>6 DEF Token
<1>8. ASSUME NEW h \in Holder, Release(h) PROVE Tape!TapeNext
  <2> DEFINE visited == {c \in ChunksIn(run[h].from, run[h].to) : saves[c] > 0}
             freed == {c \in visited : saves[c] = 1 /\ onSaved[c]}
  <2>1. FreeChunks(freed) /\ next' = next
    BY <1>8 DEF Release
  <2>2. freed \in SUBSET InHand
    BY DEF ChunksIn, IInv, Structure, IndexExact
  <2>3. Tape!Forget
    BY <2>1, <2>2, FreeForgets
  <2> QED BY <1>8, <2>3 DEF Release, Tape!TapeRelease, NoRun, Tape!NoRun
<1>9. CASE ReleaseAll
  <2>1. FreeChunks(saved) /\ next' = next /\ saved \in SUBSET InHand
    BY <1>9 DEF ReleaseAll, InHand
  <2>2. Tape!Forget
    BY <2>1, FreeForgets
  <2> QED BY <1>9, <2>2 DEF ReleaseAll, Tape!TapeReleaseAll, NoRun, Tape!NoRun
<1>10. ASSUME EmptyTape PROVE Tape!TapeNext
  <2>1. next' = 0
    BY <1>10 DEF EmptyTape
  <2>2. Held' = {}
    BY <2>1, <1>0 DEF HeldExact, Token
  <2> QED BY <1>10, <2>2 DEF EmptyTape, Tape!TapeEmpty, NoRun, Tape!NoRun
<1>11. CASE UNCHANGED vars
  <2>1. Held' = Held
    BY <1>11, <1>0 DEF vars, HeldExact
  <2> QED BY <1>11, <2>1 DEF vars, Tape!tapeVars
<1> QED BY <1>1, <1>2, <1>3, <1>4, <1>5, <1>6, <1>7, <1>8, <1>9, <1>10, <1>11
        DEF Next, Recycle, Reset

(* The arena implements the tape: nothing a caller was promised is lost,   *)
(* nothing lost comes back, and every loss moves the counter Released      *)
(* returns.                                                                *)
THEOREM ArenaImplementsTape == Spec => ImplementsTape
BY InitImplements, StepImplements, Invariance, PTL
   DEF Spec, ImplementsTape, Tape!TapeSpec
=============================================================================
