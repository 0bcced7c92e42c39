---------------------------- MODULE KeyAliasProofs ----------------------------
(* Theorems about Descent: that each key is handed over once, and that each *)
(* alias names what it should, for every stream, whatever the bounds.       *)
EXTENDS DescentProofs

-----------------------------------------------------------------------------
(* The inductive invariant of the keys, while the visitor declines nothing. *)

Undeclined(w) == ~w.declined /\ ~Done(w)

(* b is the innermost call the visitor is inside: all calls around it are   *)
(* its, and what is inside it is read under quiet.  The key mark is up      *)
(* exactly as long as the key of its entry is to be handed over.            *)
KeyAt(fs, w, b) ==
    /\ b \in 1..Len(fs)
    /\ \A i \in 2..Len(fs) : fs[i].entered <=> i <= b
    /\ b < Len(fs) => fs[b+1].kind = "quiet" /\ (fs[b].slot = "key" \/ b+1 = Len(fs))
    /\ w.keyNext <=> fs[b].slot = "key"
    /\ \A i \in 1..b : fs[i].slot = "key" => fs[i].told = (IF i = b THEN 0 ELSE 1)

ToldOnce(f) ==
    (f.entered /\ f.kind = "mapping") =>
        f.told <= 1 /\ (f.slot \in {"value", "end"} => f.told = 1)

ToldRight(w) == (w.told.reported <=> w.told.right) /\ ~w.keeping

KInv ==
    Undeclined(walk) =>
        /\ ToldRight(walk)
        /\ \A i \in DOMAIN frames : ToldOnce(frames[i])
        /\ ~refused => \E b \in DOMAIN frames : KeyAt(frames, walk, b)

-----------------------------------------------------------------------------
(* What the walk's operations do to the key mark. *)

EnteredAs(v, w, announced, isKey, answer) ==
    /\ Undeclined(w) /\ answer = "nil"
    /\ IF Calls(w)
       THEN /\ ~v.keyNext /\ ~v.keeping
            /\ v.told.reported <=> announced \/ w.keyNext
            /\ v.told.right <=> isKey
       ELSE v.keyNext = w.keyNext /\ v.told = w.told /\ v.keeping = w.keeping

LEMMA EnterKeys ==
    ASSUME NEW w \in WalkType, NEW kind, NEW announced \in BOOLEAN, NEW isKey \in BOOLEAN,
           NEW answer \in OnEnter(w), Undeclined(Enter(w, kind, announced, isKey, answer))
    PROVE  EnteredAs(Enter(w, kind, announced, isKey, answer), w, announced, isKey, answer)
BY DEF EnteredAs, Enter, Answered, Undeclined, Done, Calls, OnEnter, EnterAnswers, WalkType

HandedOver(v, w, announced, isKey) ==
    /\ Undeclined(w) /\ v.keeping = w.keeping
    /\ IF Calls(w)
       THEN /\ ~v.keyNext
            /\ v.told.reported <=> announced \/ w.keyNext
            /\ v.told.right <=> isKey
       ELSE v = w

LEMMA HandKeys ==
    ASSUME NEW w \in WalkType, NEW announced \in BOOLEAN, NEW isKey \in BOOLEAN,
           NEW answer, Undeclined(Hand(w, announced, isKey, answer))
    PROVE  HandedOver(Hand(w, announced, isKey, answer), w, announced, isKey)
BY DEF HandedOver, Hand, Answered, Undeclined, Done, Calls, WalkType

LEMMA LeaveKeys ==
    ASSUME NEW w \in WalkType, NEW answer, Undeclined(Leave(w, answer)), ~w.keeping
    PROVE  LET v == Leave(w, answer)
           IN  /\ Undeclined(w) /\ v.keyNext = w.keyNext /\ v.told = w.told /\ ~v.keeping
               /\ v.quiet = w.quiet /\ v.skip = (IF w.skip > 0 THEN w.skip - 1 ELSE 0)
BY DEF Leave, Answered, Undeclined, Done, WalkType

-----------------------------------------------------------------------------
(* How the innermost call moves. *)

(* It stays where it is, and a call inside a quiet one is made or returns. *)
LEMMA KeyOutside ==
    ASSUME NEW fs \in Seq(FrameType), NEW gs \in Seq(FrameType), NEW w, NEW v, NEW b,
           KeyAt(fs, w, b), NEW m \in 1..Len(fs), b < m,
           Len(gs) = m \/ (Len(gs) = m+1 /\ ~gs[m+1].entered /\ fs[b].slot = "key"),
           \A i \in 1..m-1 : gs[i] = fs[i], gs[m].kind = fs[m].kind,
           gs[m].entered <=> fs[m].entered, v.keyNext <=> w.keyNext
    PROVE  KeyAt(gs, v, b)
<1>1. b \in 1..m-1 /\ b+1 \in 1..m /\ gs[b] = fs[b]  BY DEF KeyAt
<1>2. \A i \in 2..Len(gs) : gs[i].entered <=> i <= b
  <2> TAKE i \in 2..Len(gs)
  <2>1. CASE i \in 2..m-1
    <3>1. i \in 2..Len(fs) /\ gs[i] = fs[i]  BY <2>1
    <3> QED  BY <3>1 DEF KeyAt
  <2>2. CASE i = m
    <3>1. m \in 2..Len(fs)  BY <2>2, <1>1
    <3> QED  BY <2>2, <3>1 DEF KeyAt
  <2>3. CASE i = m+1  BY <2>3, <1>1
  <2> QED  BY <2>1, <2>2, <2>3
<1>3. b < Len(gs) /\ gs[b+1].kind = fs[b+1].kind  BY <1>1
<1>4. gs[b].slot = "key" \/ b+1 = Len(gs)
  <2>1. fs[b].slot = "key" \/ b+1 = Len(fs)  BY <1>1 DEF KeyAt
  <2> QED  BY <1>1, <2>1
<1>5. \A i \in 1..b : gs[i] = fs[i]  BY <1>1
<1>6. fs[b+1].kind = "quiet"  BY <1>1 DEF KeyAt
<1>7. b \in 1..Len(gs)  BY <1>1
<1>8. \A i \in 1..b : gs[i].slot = "key" => gs[i].told = (IF i = b THEN 0 ELSE 1)
  BY <1>5 DEF KeyAt
<1>9. v.keyNext <=> gs[b].slot = "key"  BY <1>1 DEF KeyAt
<1> QED  BY <1>2, <1>3, <1>4, <1>6, <1>7, <1>8, <1>9 DEF KeyAt

(* It is the innermost of all. *)
LEMMA KeyInside ==
    ASSUME NEW fs \in Seq(FrameType), NEW gs \in Seq(FrameType), NEW w, NEW v, NEW b,
           KeyAt(fs, w, b), NEW m \in 1..Len(fs), m <= b,
           \/ Len(gs) = m
           \/ Len(gs) = m+1 /\ gs[m+1].entered /\ (gs[m].slot = "key" => gs[m].told = 1),
           \A i \in 1..m-1 : gs[i] = fs[i], gs[m].entered <=> fs[m].entered,
           v.keyNext <=> gs[Len(gs)].slot = "key",
           gs[Len(gs)].slot = "key" => gs[Len(gs)].told = 0
    PROVE  KeyAt(gs, v, Len(gs))
<1>1. b \in 1..Len(fs)  BY DEF KeyAt
<1>2. \A i \in 2..Len(gs) : gs[i].entered
  <2> TAKE i \in 2..Len(gs)
  <2>1. CASE i \in 2..m-1
    <3>1. i \in 2..Len(fs) /\ gs[i] = fs[i] /\ i <= b  BY <1>1, <2>1
    <3> QED  BY <3>1 DEF KeyAt
  <2>2. CASE i = m
    <3>1. m \in 2..Len(fs)  BY <2>2, <1>1
    <3> QED  BY <2>2, <3>1 DEF KeyAt
  <2>3. CASE i = m+1  BY <2>3, <1>1
  <2> QED  BY <2>1, <2>2, <2>3
<1>3. \A i \in 1..Len(gs) :
          gs[i].slot = "key" => gs[i].told = (IF i = Len(gs) THEN 0 ELSE 1)
  <2> TAKE i \in 1..Len(gs)
  <2>1. CASE i \in 1..m-1
    <3>1. i \in 1..b /\ i # b /\ i # Len(gs) /\ gs[i] = fs[i]  BY <1>1, <2>1
    <3> QED  BY <3>1 DEF KeyAt
  <2>2. CASE i \in {m, m+1}  BY <2>2
  <2> QED  BY <2>1, <2>2
<1> QED  BY <1>2, <1>3 DEF KeyAt

(* A quiet call is made from it. *)
LEMMA KeyGoesQuiet ==
    ASSUME NEW fs \in Seq(FrameType), NEW gs \in Seq(FrameType), NEW w, NEW v, NEW n \in Nat,
           KeyAt(fs, w, n), Len(fs) = n, Len(gs) = n+1,
           \A i \in 1..n-1 : gs[i] = fs[i], gs[n].entered <=> fs[n].entered,
           gs[n].slot = fs[n].slot, gs[n].told = fs[n].told,
           gs[n+1].kind = "quiet", ~gs[n+1].entered, v.keyNext <=> w.keyNext
    PROVE  KeyAt(gs, v, n)
<1>1. n \in 1..n  BY DEF KeyAt
<1>2. \A i \in 2..n+1 : gs[i].entered <=> i <= n
  <2> TAKE i \in 2..n+1
  <2>1. i \in 2..n => (gs[i].entered <=> fs[i].entered) /\ fs[i].entered
    BY DEF KeyAt
  <2> QED  BY <2>1
<1>3. \A i \in 1..n : gs[i].slot = fs[i].slot /\ gs[i].told = fs[i].told  OBVIOUS
<1>4. \A i \in 1..n : gs[i].slot = "key" => gs[i].told = (IF i = n THEN 0 ELSE 1)
  BY <1>3 DEF KeyAt
<1>5. v.keyNext <=> gs[n].slot = "key"  BY DEF KeyAt
<1> QED  BY <1>1, <1>2, <1>4, <1>5 DEF KeyAt

(* Where the visitor is called. *)
LEMMA KeyCalls ==
    ASSUME IInv, Undeclined(walk), ~walk.keeping, NEW b, KeyAt(frames, walk, b)
    PROVE  /\ Calls(walk) <=> b = Len(frames)
           /\ b = Len(frames) => walk.skip = 0 /\ walk.quiet = 0 /\ (b > 1 => Top.entered)
           /\ b < Len(frames) =>
                 /\ walk.quiet > 0 /\ ~Top.entered
                 /\ Top.kind # "quiet" => walk.skip > 0 /\ b+1 < Len(frames)
                 /\ Top.kind = "quiet" =>
                        (walk.quiet - 1 = 0 /\ walk.skip = 0) <=> b+1 = Len(frames)
<1> PICK n \in Nat : n = Len(frames)  BY IInvShape
<1>1. /\ frames \in Seq(FrameType) /\ walk \in WalkType /\ FramesOK /\ SkipMatches
      /\ CountsMatch /\ n > 0 /\ Top = frames[n] /\ ~walk.stopped
  BY IInvShape DEF Shape, Levels, Undeclined, Done
<1>2. b \in 1..n /\ \A i \in 2..n : frames[i].entered <=> i <= b  BY DEF KeyAt
<1>3. Declined \in SUBSET (1..n) /\ Quiets \in SUBSET (1..n)  BY <1>1, SortsAreFrames
<1>4. walk.skip = 0 <=> Declined = {}  BY <1>1, NoneDeclined
<1>5. walk.skip \in Nat /\ walk.quiet \in Nat /\ walk.quiet = Cardinality(Quiets)
      /\ (walk.quiet = 0 <=> Quiets = {})
  <2>1. IsFiniteSet(Quiets) /\ Cardinality(Quiets) \in Nat  BY <1>3, PlaceBounds
  <2>2. Cardinality(Quiets) = 0 <=> Quiets = {}  BY <2>1, FS_EmptySet
  <2> QED  BY <1>1, <2>1, <2>2 DEF CountsMatch, WalkType
<1>6. ~frames[1].entered /\ 1 \notin Quiets /\ \A i \in Quiets : ~frames[i].entered
  BY <1>1 DEF FramesOK, Quiets
<1>7. Calls(walk) <=> walk.skip = 0 /\ walk.quiet = 0  BY DEF Calls, Undeclined
<1>8. CASE b = n
  <2>1. \A i \in 2..n : frames[i].entered  BY <1>2, <1>8
  <2>2. Quiets = {}
    <3>1. \A i \in Quiets : i \in 2..n  BY <1>3, <1>6
    <3> QED  BY <2>1, <3>1, <1>6
  <2>3. Declined = {}
    <3>1. \A i \in Declined : i \in 2..n /\ ~frames[i].entered  BY <1>3 DEF Declined
    <3> QED  BY <2>1, <3>1
  <2> QED  BY <1>1, <1>4, <1>5, <1>7, <1>8, <2>1, <2>2, <2>3
<1>9. CASE b < n
  <2>1. b+1 \in Quiets /\ b+1 \in 2..n
    <3>1. frames[b+1].kind = "quiet"  BY <1>9 DEF KeyAt
    <3> QED  BY <1>1, <1>2, <1>9, <3>1 DEF Quiets
  <2>2. walk.quiet > 0  BY <1>5, <2>1
  <2>3. n \in 2..n /\ ~Top.entered  BY <1>1, <1>2, <1>9
  <2>4. Top.kind # "quiet" => walk.skip > 0 /\ b+1 < n
    <3> SUFFICES ASSUME Top.kind # "quiet" PROVE walk.skip > 0 /\ b+1 < n  OBVIOUS
    <3>1. n \in Declined  BY <1>1, <2>3 DEF Declined
    <3>2. b+1 # n  BY <1>1, <2>1 DEF Quiets
    <3> QED  BY <1>2, <1>4, <1>5, <1>9, <3>1, <3>2
  <2>5. Top.kind = "quiet" => ((walk.quiet - 1 = 0 /\ walk.skip = 0) <=> b+1 = n)
    <3> SUFFICES ASSUME Top.kind = "quiet"
        PROVE (walk.quiet - 1 = 0 /\ walk.skip = 0) <=> b+1 = n  OBVIOUS
    <3>1. n \in Quiets  BY <1>1, <2>3 DEF Quiets
    <3>2. Cardinality(Quiets \ {n}) = walk.quiet - 1 /\ IsFiniteSet(Quiets \ {n})
      <4>1. Quiets \ {n} \in SUBSET (1..n-1)
            /\ Cardinality(Quiets \ {n}) = Cardinality(Quiets) - 1
        <5>1. n \in Nat \ {0}  BY <1>1
        <5>2. /\ Quiets \ {n} \in SUBSET (1..n-1)
              /\ Cardinality(Quiets \ {n}) = Cardinality(Quiets) - (IF n \in Quiets THEN 1 ELSE 0)
          BY <1>3, <5>1, Shrinks
        <5> QED  BY <3>1, <5>2
      <4>2. n-1 \in Nat  BY <1>1
      <4>3. IsFiniteSet(Quiets \ {n})  BY <4>1, <4>2, PlaceBounds
      <4> QED  BY <1>5, <4>1, <4>3
    <3>3. walk.quiet - 1 = 0 <=> Quiets \ {n} = {}  BY <3>2, FS_EmptySet
    <3>4. CASE b+1 = n
      <4>1. \A i \in 2..n-1 : frames[i].entered  BY <1>2, <3>4
      <4>2. \A i \in Quiets \ {n} : i \in 2..n-1  BY <1>3, <1>6
      <4>3. Quiets \ {n} = {}  BY <1>6, <4>1, <4>2
      <4>4. \A i \in Declined : i \in 2..n-1 /\ ~frames[i].entered
        <5>1. \A i \in Declined : i \in 2..n /\ ~frames[i].entered /\ frames[i].kind # "quiet"
          BY <1>3 DEF Declined
        <5>2. frames[n].kind = "quiet"  BY <1>1
        <5> QED  BY <5>1, <5>2
      <4>5. Declined = {}  BY <4>1, <4>4
      <4> QED  BY <1>4, <3>3, <3>4, <4>3, <4>5
    <3>5. CASE b+1 # n
      <4>1. b+1 \in Quiets \ {n}  BY <2>1, <3>5
      <4> QED  BY <3>3, <3>5, <4>1
    <3> QED  BY <3>4, <3>5
  <2> QED  BY <1>1, <1>5, <1>7, <1>9, <2>2, <2>3, <2>4, <2>5
<1> QED  BY <1>1, <1>2, <1>8, <1>9

-----------------------------------------------------------------------------
(* One lemma per action: its step keeps the invariant of the keys. *)

(* What is known before a step of a visitor that has declined nothing. *)
LEMMA KeysBefore ==
    ASSUME IInv, KInv, Undeclined(walk)
    PROVE  /\ walk \in WalkType /\ frames \in Seq(FrameType) /\ ToldRight(walk) /\ ~walk.keeping
           /\ \A i \in 1..Len(frames) : ToldOnce(frames[i])
           /\ DOMAIN frames = 1..Len(frames) /\ Len(frames) \in Nat /\ Len(frames) > 0
           /\ Top = frames[Len(frames)] /\ Top \in FrameType
<1>1. walk \in WalkType /\ frames \in Seq(FrameType)  BY IInvShape DEF Shape
<1>2. DOMAIN frames = 1..Len(frames)  BY <1>1
<1> QED  BY <1>1, <1>2, IInvShape DEF KInv, ToldRight

(* A frame whose node is read, its key handed over or not. *)
LEMMA ToldRead ==
    ASSUME NEW f \in FrameType, Waits(f), NEW n \in Nat, NEW called, ToldOnce(f)
    PROVE  LET g == Read(Told(f, called), n)
           IN  /\ g.kind = f.kind /\ (g.entered <=> f.entered) /\ g.slot # "key"
               /\ g.told = (IF f.slot = "key" /\ called THEN f.told + 1 ELSE f.told)
               /\ (f.slot = "key" => g.told = 1) => ToldOnce(g)
<1> DEFINE t == Told(f, called) g == Read(t, n)
<1>1. /\ t.kind = f.kind /\ (t.entered <=> f.entered) /\ t.slot = f.slot /\ t \in FrameType
      /\ t.told = (IF f.slot = "key" /\ called THEN f.told + 1 ELSE f.told)
  BY DEF Told, FrameType
<1> HIDE DEF t
<1>2. /\ g.kind = t.kind /\ (g.entered <=> t.entered) /\ g.told = t.told
      /\ g.slot = (IF t.slot = "key" THEN "value" ELSE IF t.slot = "value" THEN "end" ELSE "done")
  <2>1. CASE t.slot = "key"
    <3>1. g = [t EXCEPT !.slot = "value", !.key.to = n]  BY <2>1 DEF Read
    <3> QED  BY <1>1, <2>1, <3>1 DEF FrameType
  <2>2. CASE t.slot # "key"  BY <1>1, <2>2 DEF Read, FrameType
  <2> QED  BY <2>1, <2>2
<1> HIDE DEF g
<1>3. f.told \in Nat  BY DEF FrameType
<1>4. (f.slot = "key" => g.told = 1) => ToldOnce(g)
  BY <1>1, <1>2, <1>3 DEF ToldOnce, Waits
<1>5. /\ g.kind = f.kind /\ (g.entered <=> f.entered) /\ g.slot # "key"
      /\ g.told = (IF f.slot = "key" /\ called THEN f.told + 1 ELSE f.told)
  BY <1>1, <1>2
<1> QED  BY <1>4, <1>5 DEF g, t

LEMMA HandLeafKeys ==
    ASSUME NEW w \in WalkType, NEW f, NEW answer, Undeclined(HandLeaf(w, f, answer))
    PROVE  LET v == HandLeaf(w, f, answer)
           IN  /\ Undeclined(w)
               /\ ~Calls(w) => v = w
               /\ (Calls(w) => (w.keyNext <=> f.slot = "key")) /\ ToldRight(w)
                    => ToldRight(v) /\ (Calls(w) => ~v.keyNext)
<1> PICK v : v = HandLeaf(w, f, answer)  OBVIOUS
<1>0. Undeclined(v)  OBVIOUS
<1>1. \/ v = w /\ (f.slot = "key" => ~w.keyNext)
      \/ v = Hand(w, TRUE, TRUE, answer) /\ f.slot = "key"
      \/ v = Hand(w, FALSE, FALSE, answer) /\ f.slot # "key"
  BY DEF HandLeaf, HandKey, HandsKey
<1>2. CASE v = w /\ (f.slot = "key" => ~w.keyNext)
  BY <1>0, <1>2
<1>3. CASE v = Hand(w, TRUE, TRUE, answer) /\ f.slot = "key"
  <2>1. Undeclined(Hand(w, TRUE, TRUE, answer))  BY <1>0, <1>3
  <2>2. HandedOver(Hand(w, TRUE, TRUE, answer), w, TRUE, TRUE)  BY <2>1, HandKeys
  <2> QED  BY <1>3, <2>2 DEF HandedOver, ToldRight
<1>4. CASE v = Hand(w, FALSE, FALSE, answer) /\ f.slot # "key"
  <2>1. Undeclined(Hand(w, FALSE, FALSE, answer))  BY <1>0, <1>4
  <2>2. HandedOver(Hand(w, FALSE, FALSE, answer), w, FALSE, FALSE)  BY <2>1, HandKeys
  <2> QED  BY <1>4, <2>2 DEF HandedOver, ToldRight
<1> QED  BY <1>1, <1>2, <1>3, <1>4

LEMMA LeafKeys ==
    ASSUME IInv, CInv, KInv, AtNode, NEW n \in Nat, NEW answer,
           walk' = HandLeaf(walk, Top, answer), refused' = refused,
           frames' = WithTop(Read(Told(Top, Calls(walk) /\ HandsKey(walk)), n))
    PROVE  KInv'
<1> SUFFICES ASSUME Undeclined(walk')
             PROVE  /\ ToldRight(walk') /\ \A i \in DOMAIN frames' : ToldOnce(frames'[i])
                    /\ \E b \in DOMAIN frames' : KeyAt(frames', walk', b)
  BY DEF KInv
<1>1. Undeclined(walk)
  <2>1. walk \in WalkType  BY IInvShape DEF Shape
  <2> QED  BY <2>1, HandLeafKeys
<1> PICK k \in Nat : k = Len(frames)  BY IInvShape
<1>2. /\ walk \in WalkType /\ frames \in Seq(FrameType) /\ ToldRight(walk) /\ ~walk.keeping
      /\ \A i \in 1..k : ToldOnce(frames[i])
      /\ DOMAIN frames = 1..k /\ k > 0 /\ Top = frames[k] /\ Top \in FrameType
  BY <1>1, KeysBefore
<1>3. PICK b \in 1..k : KeyAt(frames, walk, b)
  BY <1>1, <1>2 DEF KInv, AtNode, Reading
<1>4. /\ Calls(walk) <=> b = k  BY <1>1, <1>2, <1>3, KeyCalls
<1>5. walk.keyNext <=> frames[b].slot = "key"  BY <1>3 DEF KeyAt
<1>6. /\ ToldRight(walk') /\ (~Calls(walk) => walk' = walk) /\ (Calls(walk) => ~walk'.keyNext)
  <2>1. Calls(walk) => (walk.keyNext <=> Top.slot = "key")  BY <1>2, <1>4, <1>5
  <2> QED  BY <1>2, <2>1, HandLeafKeys
<1> DEFINE called == Calls(walk) /\ HandsKey(walk) g == Read(Told(Top, called), n)
<1>7. /\ g \in FrameType /\ g.kind = Top.kind /\ (g.entered <=> Top.entered) /\ g.slot # "key"
      /\ g.told = (IF Top.slot = "key" /\ called THEN Top.told + 1 ELSE Top.told)
      /\ (Top.slot = "key" => g.told = 1) => ToldOnce(g)
  <2>1. Waits(Top)  BY DEF AtNode, Waits
  <2>2. ToldOnce(Top)  BY <1>2
  <2> HIDE DEF called
  <2>3. ReadAs(Top, g, n)  BY <1>2, <2>1, ReadFrame
  <2> QED  BY <1>2, <2>1, <2>2, <2>3, ToldRead DEF ReadAs
<1>8. called <=> Calls(walk) /\ walk.keyNext  BY DEF HandsKey
<1>9. frames' = WithTop(g)  OBVIOUS
<1> HIDE DEF g, called
<1>10. /\ frames' \in Seq(FrameType) /\ Len(frames') = k /\ frames'[k] = g
       /\ \A i \in 1..k-1 : frames'[i] = frames[i]
  BY <1>2, <1>7, <1>9, StayExact
<1>11. ToldOnce(g)
  <2>1. CASE Top.slot = "key" /\ b = k
    <3>1. Top.told = 0  BY <1>2, <1>3, <2>1 DEF KeyAt
    <3> QED  BY <1>2, <1>4, <1>5, <1>7, <1>8, <2>1, <3>1
  <2>2. CASE b # k
    <3>1. ~Top.entered  BY <1>1, <1>2, <1>3, <2>2, KeyCalls
    <3> QED  BY <1>7, <3>1 DEF ToldOnce
  <2> QED  BY <1>7, <2>1, <2>2
<1>12. \A i \in DOMAIN frames' : ToldOnce(frames'[i])
  <2>1. \A i \in 1..k : frames'[i] = IF i = k THEN g ELSE frames[i]  BY <1>10
  <2> QED  BY <1>2, <1>10, <1>11, <2>1
<1>13. \E c \in 1..k : KeyAt(frames', walk', c)
  <2>1. CASE b < k
    <3>1. walk'.keyNext <=> walk.keyNext  BY <1>4, <1>6, <2>1
    <3>2. KeyAt(frames', walk', b)
      BY <1>2, <1>3, <1>7, <1>10, <2>1, <3>1, KeyOutside, SMTT(20)
    <3> QED  BY <3>2
  <2>2. CASE b = k
    <3>1. KeyAt(frames', walk', k)
      BY <1>2, <1>3, <1>4, <1>6, <1>7, <1>10, <2>2, KeyInside, SMTT(20)
    <3> QED  BY <1>2, <3>1
  <2> QED  BY <2>1, <2>2
<1> QED  BY <1>6, <1>10, <1>12, <1>13

LEMMA ScalarKeys ==
    ASSUME IInv, CInv, KInv, Scalar
    PROVE  KInv'
<1>1. nodes + 1 \in Nat  BY IInvShape DEF Shape
<1>2. AtNode /\ refused' = refused  BY DEF Scalar
<1>3. PICK answer : walk' = HandLeaf(walk, Top, answer)  BY DEF Scalar
<1>4. frames' = WithTop(Read(Told(Top, Calls(walk) /\ HandsKey(walk)), nodes + 1))  BY DEF Scalar
<1> QED  BY <1>1, <1>2, <1>3, <1>4, LeafKeys

LEMMA AliasKeys ==
    ASSUME IInv, CInv, KInv, NEW name \in Name, Alias(name)
    PROVE  KInv'
<1>1. nodes \in Nat  BY IInvShape DEF Shape
<1>2. AtNode /\ refused' = refused  BY DEF Alias, Written
<1>3. PICK answer : walk' = HandLeaf(walk, Top, answer)  BY DEF Alias
<1>4. frames' = WithTop(Read(Told(Top, Calls(walk) /\ HandsKey(walk)), nodes))  BY DEF Alias
<1> QED  BY <1>1, <1>2, <1>3, <1>4, LeafKeys

LEMMA CallerTold ==
    ASSUME NEW f \in FrameType, NEW called, NEW b \in BOOLEAN
    PROVE  LET g == [Told(f, called) EXCEPT !.alone = b]
           IN  /\ g \in FrameType /\ g.kind = f.kind /\ (g.entered <=> f.entered)
               /\ g.slot = f.slot
               /\ g.told = (IF f.slot = "key" /\ called THEN f.told + 1 ELSE f.told)
<1> DEFINE t == Told(f, called)
<1>1. /\ t \in FrameType /\ t.kind = f.kind /\ (t.entered <=> f.entered) /\ t.slot = f.slot
      /\ t.told = (IF f.slot = "key" /\ called THEN f.told + 1 ELSE f.told)
  BY DEF Told, FrameType
<1> HIDE DEF t
<1> DEFINE g == [t EXCEPT !.alone = b]
<1>2. /\ g \in FrameType /\ g.kind = t.kind /\ (g.entered <=> t.entered) /\ g.slot = t.slot
      /\ g.told = t.told
  BY <1>1 DEF FrameType
<1> HIDE DEF g
<1>3. /\ g \in FrameType /\ g.kind = f.kind /\ (g.entered <=> f.entered) /\ g.slot = f.slot
      /\ g.told = (IF f.slot = "key" /\ called THEN f.told + 1 ELSE f.told)
  BY <1>1, <1>2
<1> QED  BY <1>3 DEF g, t

(* A node that is called into: its key is told as the visitor enters it. *)
LEMMA CallKeys ==
    ASSUME IInv, CInv, KInv, Reading, refused' = refused,
           NEW frame \in FrameType, ~InEntry(frame), frame.told = 0, NEW kind,
           kind = HandedAs(frame), NEW announced \in BOOLEAN, announced => AtKey,
           NEW pinned, Call(frame, kind, announced, pinned),
           Top.kind = "quiet" => Len(frames) > 1 /\ Under.slot = "key"
    PROVE  KInv'
<1> SUFFICES ASSUME Undeclined(walk')
             PROVE  /\ ToldRight(walk') /\ \A i \in DOMAIN frames' : ToldOnce(frames'[i])
                    /\ \E b \in DOMAIN frames' : KeyAt(frames', walk', b)
  BY DEF KInv
<1>1. PICK answer \in OnEnter(walk) :
          LET takes == Calls(walk) /\ answer \in {"nil", "keep"}
              caller == [Told(Top, Calls(walk)) EXCEPT
                            !.alone = AtKey /\ IsCollection(frame) /\ ~frame.inKey]
          IN  /\ walk' = Enter(walk, kind, announced, AtKey, answer)
              /\ frames' = IF answer = "stop" THEN WithTop(caller)
                           ELSE Append(WithTop(caller),
                                       [frame EXCEPT !.first = nodes, !.entered = takes])
  BY DEF Call
<1>2. walk \in WalkType /\ nodes \in Nat  BY IInvShape DEF Shape
<1>3. EnteredAs(walk', walk, announced, AtKey, answer)
  <2>1. AtKey \in BOOLEAN  BY DEF AtKey
  <2>2. walk' = Enter(walk, kind, announced, AtKey, answer)  BY <1>1
  <2>3. Undeclined(Enter(walk, kind, announced, AtKey, answer))  BY <2>2
  <2>4. EnteredAs(Enter(walk, kind, announced, AtKey, answer), walk, announced, AtKey, answer)
    BY <1>2, <2>1, <2>3, EnterKeys
  <2> QED  BY <2>2, <2>4
<1>a. /\ Undeclined(walk) /\ answer = "nil"
      /\ IF Calls(walk)
         THEN /\ ~walk'.keyNext /\ ~walk'.keeping
              /\ walk'.told.reported <=> announced \/ walk.keyNext
              /\ walk'.told.right <=> AtKey
         ELSE walk'.keyNext = walk.keyNext /\ walk'.told = walk.told /\ walk'.keeping = walk.keeping
  BY <1>3 DEF EnteredAs
<1> PICK k \in Nat : k = Len(frames)  BY IInvShape
<1>4. /\ frames \in Seq(FrameType) /\ ToldRight(walk) /\ ~walk.keeping
      /\ \A i \in 1..k : ToldOnce(frames[i])
      /\ DOMAIN frames = 1..k /\ k > 0 /\ Top = frames[k] /\ Top \in FrameType
  BY <1>a, KeysBefore
<1>5. PICK b \in 1..k : KeyAt(frames, walk, b)  BY <1>a, <1>4 DEF KInv, Reading
<1>6. Calls(walk) <=> b = k  BY <1>a, <1>4, <1>5, KeyCalls
<1>7. walk.keyNext <=> frames[b].slot = "key"  BY <1>5 DEF KeyAt
<1> DEFINE alone == AtKey /\ IsCollection(frame) /\ ~frame.inKey
           takes == Calls(walk) /\ answer \in {"nil", "keep"}
           g == [Told(Top, Calls(walk)) EXCEPT !.alone = alone]
           f == [frame EXCEPT !.first = nodes, !.entered = takes]
<1>8. frames' = Append(WithTop(g), f)  BY <1>1, <1>a
<1>9. /\ g \in FrameType /\ g.kind = Top.kind /\ (g.entered <=> Top.entered)
      /\ g.slot = Top.slot
      /\ g.told = (IF Top.slot = "key" /\ Calls(walk) THEN Top.told + 1 ELSE Top.told)
  <2>1. alone \in BOOLEAN  BY DEF AtKey, IsCollection
  <2> HIDE DEF alone
  <2> QED  BY <1>4, <2>1, CallerTold
<1>10. /\ f \in FrameType /\ f.kind = frame.kind /\ (f.entered <=> Calls(walk))
       /\ f.slot = frame.slot /\ f.told = 0
  <2>1. takes \in BOOLEAN /\ (takes <=> Calls(walk))  BY <1>a DEF Calls, Done
  <2> HIDE DEF takes
  <2> QED  BY <1>2, <2>1 DEF FrameType
<1> HIDE DEF g, f, alone, takes
<1>11. /\ frames' \in Seq(FrameType) /\ Len(frames') = k+1
       /\ frames'[k] = g /\ frames'[k+1] = f
       /\ \A i \in 1..k-1 : frames'[i] = frames[i]
  BY <1>4, <1>8, <1>9, <1>10, PushExact
<1>12. Top.slot = "key" /\ b = k => g.told = 1
  <2>1. Top.slot = "key" /\ b = k => Top.told = 0  BY <1>4, <1>5 DEF KeyAt
  <2> QED  BY <1>6, <1>9, <2>1
<1>13. ToldOnce(g) /\ ToldOnce(f)
  <2>1. CASE b = k  
    <3>1. ToldOnce(Top)  BY <1>4
    <3>2. ToldOnce(g)  BY <1>9, <1>12, <2>1, <3>1 DEF ToldOnce
    <3>3. ToldOnce(f)  BY <1>10 DEF ToldOnce, InEntry
    <3> QED  BY <3>2, <3>3
  <2>2. CASE b # k
    <3>1. ~Top.entered  BY <1>a, <1>4, <1>5, <2>2, KeyCalls
    <3> QED  BY <1>9, <1>10, <3>1 DEF ToldOnce, InEntry
  <2> QED  BY <2>1, <2>2
<1>14. \A i \in DOMAIN frames' : ToldOnce(frames'[i])
  <2>1. \A i \in 1..k+1 : frames'[i] = IF i = k+1 THEN f ELSE IF i = k THEN g ELSE frames[i]
    BY <1>11, SMTT(20)
  <2> QED  BY <1>4, <1>11, <1>13, <2>1
<1>15. ToldRight(walk')
  <2>1. Calls(walk) => (AtKey <=> walk.keyNext)  BY <1>4, <1>6, <1>7 DEF AtKey
  <2> QED  BY <1>a, <1>4, <2>1 DEF ToldRight
<1>16. f.slot # "key"  BY <1>10 DEF InEntry
<1>17. \E c \in 1..k+1 : KeyAt(frames', walk', c)
  <2>1. CASE b < k
    <3>1. frames[b].slot = "key"
      <4>1. frames[b].slot = "key" \/ (b+1 = k /\ frames[k].kind = "quiet")
        BY <1>5, <2>1 DEF KeyAt
      <4>2. k > 1 => Under = frames[k-1]  BY IInvShape
      <4>3. b+1 = k => k > 1 /\ b = k-1  BY <2>1
      <4> QED  BY <1>4, <4>1, <4>2, <4>3
    <3>2. (walk'.keyNext <=> walk.keyNext) /\ ~f.entered  BY <1>a, <1>6, <1>10, <2>1
    <3>3. /\ k \in 1..Len(frames) /\ frames'[k].kind = frames[k].kind
          /\ frames'[k].entered <=> frames[k].entered
          /\ Len(frames') = k+1 /\ ~frames'[k+1].entered
      BY <1>4, <1>9, <1>11, <3>2
    <3>4. KeyAt(frames', walk', b)
      BY <1>4, <1>5, <1>11, <2>1, <3>1, <3>2, <3>3, KeyOutside
    <3> QED  BY <3>4
  <2>2. CASE b = k
    <3>2. /\ k \in 1..Len(frames) /\ k <= b /\ KeyAt(frames, walk, b)
          /\ Len(frames') = k+1
      BY <1>4, <1>5, <1>11, <2>2
    <3>3. frames'[k+1].entered /\ (frames'[k].slot = "key" => frames'[k].told = 1)
      BY <1>6, <1>9, <1>10, <1>11, <1>12, <2>2
    <3>4. frames'[k].entered <=> frames[k].entered  BY <1>4, <1>9, <1>11
    <3>5. frames'[Len(frames')].slot # "key"  BY <1>11, <1>16
    <3>6. ~walk'.keyNext  BY <1>a, <1>6, <2>2
    <3>1. KeyAt(frames', walk', Len(frames'))
      BY <1>4, <1>11, <3>2, <3>3, <3>4, <3>5, <3>6, KeyInside
    <3> QED  BY <1>4, <3>1, <3>2
  <2> QED  BY <2>1, <2>2
<1> QED  BY <1>11, <1>14, <1>15, <1>17

LEMMA OpenCollectionKeys ==
    ASSUME IInv, CInv, KInv, NEW kind \in {"mapping", "sequence"}, OpenCollection(kind)
    PROVE  KInv'
<1>1. nodes + 1 \in Nat  BY IInvShape DEF Shape
<1>2. PICK alone \in BOOLEAN :
          Call([Frame EXCEPT !.kind = kind, !.slot = "between", !.id = nodes + 1,
                             !.inKey = CountsKey /\ ~alone], kind, FALSE, 0)
  BY DEF OpenCollection
<1> DEFINE f == [Frame EXCEPT !.kind = kind, !.slot = "between", !.id = nodes + 1,
                              !.inKey = CountsKey /\ ~alone]
<1>3. f \in FrameType /\ ~InEntry(f) /\ f.told = 0 /\ HandedAs(f) = kind
  <2>1. (CountsKey /\ ~alone) \in BOOLEAN  BY DEF CountsKey, AtKey
  <2> QED  BY <1>1, <2>1 DEF Frame, FrameType, FrameKind, FrameSlot, InEntry, HandedAs
<1> HIDE DEF f
<1>4. Call(f, kind, FALSE, 0)  BY <1>2 DEF f
<1>5. Reading /\ refused' = refused /\ Top.kind # "quiet"
  BY DEF OpenCollection, Written, AtNode
<1> QED  BY <1>3, <1>4, <1>5, CallKeys

LEMMA OpenAnchorKeys ==
    ASSUME IInv, CInv, KInv, NEW name \in Name, OpenAnchor(name)
    PROVE  KInv'
<1>1. /\ Shape /\ FramesOK /\ Top = frames[Len(frames)] /\ Len(frames) \in Nat
      /\ Len(frames) > 0
  BY IInvShape
<1> DEFINE d == Len(decls) + 1
           f == [Frame EXCEPT !.kind = "anchor", !.decl = d, !.inKey = CountsKey]
<1>2. Call(f, "anchor", FALSE, 1)  BY DEF OpenAnchor
<1>3. f \in FrameType /\ ~InEntry(f) /\ f.told = 0 /\ HandedAs(f) = "anchor"
  <2>1. CountsKey \in BOOLEAN  BY DEF CountsKey, AtKey
  <2>2. d \in Nat  BY <1>1 DEF Shape
  <2> HIDE DEF d
  <2> QED  BY <2>1, <2>2 DEF Frame, FrameType, FrameKind, FrameSlot, InEntry, HandedAs
<1> HIDE DEF f
<1>4. Reading /\ refused' = refused /\ (Top.kind = "quiet" => Under.slot = "key")
  BY DEF OpenAnchor, TakesAnchor, Written, AtNode
<1>5. Top.kind = "quiet" => Len(frames) > 1  BY <1>1 DEF FramesOK
<1> QED  BY <1>2, <1>3, <1>4, <1>5, CallKeys

LEMMA OpenTagKeys ==
    ASSUME IInv, CInv, KInv, OpenTag
    PROVE  KInv'
<1> DEFINE f == [Frame EXCEPT !.kind = "tag", !.inKey = CountsKey]
<1>1. Call(f, "tag", FALSE, 0)  BY DEF OpenTag
<1>2. f \in FrameType /\ ~InEntry(f) /\ f.told = 0 /\ HandedAs(f) = "tag"
  <2>1. CountsKey \in BOOLEAN  BY DEF CountsKey, AtKey
  <2> QED  BY <2>1 DEF Frame, FrameType, FrameKind, FrameSlot, InEntry, HandedAs
<1> HIDE DEF f
<1>3. Reading /\ refused' = refused /\ Top.kind # "quiet"  BY DEF OpenTag, Written, AtNode
<1> QED  BY <1>1, <1>2, <1>3, CallKeys

LEMMA OpenExplicitKeyKeys ==
    ASSUME IInv, CInv, KInv, OpenExplicitKey
    PROVE  KInv'
<1> DEFINE f == [Frame EXCEPT !.kind = "explicit"]
<1>1. Call(f, "key", TRUE, 0)  BY DEF OpenExplicitKey
<1>2. f \in FrameType /\ ~InEntry(f) /\ f.told = 0 /\ HandedAs(f) = "key"
  BY DEF Frame, FrameType, FrameKind, FrameSlot, InEntry, HandedAs
<1> HIDE DEF f
<1>3. Reading /\ refused' = refused /\ AtKey  BY DEF OpenExplicitKey
<1>4. Top.kind # "quiet"
  <2>1. Numbered(Top, nodes) /\ InEntry(Top)  BY <1>3, Around DEF InEntry, AtKey
  <2> QED  BY <2>1 DEF Numbered, IsCollection
<1> QED  BY <1>1, <1>2, <1>3, <1>4, CallKeys

LEMMA RefuseKeys ==
    ASSUME KInv, Refuse \/ RefuseAnchorName
    PROVE  KInv'
BY DEF KInv, Refuse, RefuseAnchorName

LEMMA UnchangedKeys ==
    ASSUME KInv, UNCHANGED vars
    PROVE  KInv'
BY DEF KInv, vars

(* quiet: nothing is told until the node read is handed over. *)
LEMMA OpenQuietKeys ==
    ASSUME IInv, CInv, KInv, OpenQuiet
    PROVE  KInv'
<1> SUFFICES ASSUME Undeclined(walk')
             PROVE  /\ ToldRight(walk') /\ \A i \in DOMAIN frames' : ToldOnce(frames'[i])
                    /\ \E b \in DOMAIN frames' : KeyAt(frames', walk', b)
  BY DEF KInv
<1>1. walk \in WalkType /\ nodes \in Nat  BY IInvShape DEF Shape
<1>2. Undeclined(walk) /\ (ToldRight(walk') <=> ToldRight(walk)) /\ walk'.keyNext = walk.keyNext
  <2>1. walk' = Quiet(walk)  BY DEF OpenQuiet
  <2>2. /\ walk'.declined = walk.declined /\ walk'.failed = walk.failed
        /\ walk'.stopped = walk.stopped /\ walk'.told = walk.told
        /\ walk'.keeping = walk.keeping /\ walk'.keyNext = walk.keyNext
    BY <1>1, <2>1 DEF Quiet, WalkType
  <2> QED  BY <2>2 DEF Undeclined, Done, ToldRight
<1> PICK k \in Nat : k = Len(frames)  BY IInvShape
<1>3. /\ frames \in Seq(FrameType) /\ ToldRight(walk) /\ ~walk.keeping
      /\ \A i \in 1..k : ToldOnce(frames[i])
      /\ DOMAIN frames = 1..k /\ k > 0 /\ Top = frames[k] /\ Top \in FrameType
  BY <1>2, KeysBefore
<1>4. Reading /\ refused' = refused /\ Top.kind # "quiet"  BY DEF OpenQuiet, Written, AtNode
<1>5. PICK b \in 1..k : KeyAt(frames, walk, b)  BY <1>2, <1>3, <1>4 DEF KInv, Reading
<1> DEFINE g == [Top EXCEPT !.alone = AtKey]
           f == [Frame EXCEPT !.kind = "quiet", !.first = nodes]
<1>6. frames' = Append(WithTop(g), f)  BY DEF OpenQuiet
<1>7. /\ g \in FrameType /\ g.kind = Top.kind /\ (g.entered <=> Top.entered)
      /\ g.slot = Top.slot /\ g.told = Top.told
  <2>1. AtKey \in BOOLEAN  BY DEF AtKey
  <2> QED  BY <1>3, <2>1 DEF FrameType
<1>8. f \in FrameType /\ f.kind = "quiet" /\ ~f.entered
  BY <1>1 DEF Frame, FrameType, FrameKind, FrameSlot
<1> HIDE DEF g, f
<1>9. /\ frames' \in Seq(FrameType) /\ Len(frames') = k+1
      /\ frames'[k] = g /\ frames'[k+1] = f
      /\ \A i \in 1..k-1 : frames'[i] = frames[i]
  BY <1>3, <1>6, <1>7, <1>8, PushExact
<1>10. ToldOnce(g) /\ ToldOnce(f)
  <2>1. ToldOnce(Top)  BY <1>3
  <2> QED  BY <1>7, <1>8, <2>1 DEF ToldOnce
<1>11. \A i \in DOMAIN frames' : ToldOnce(frames'[i])
  <2>1. \A i \in 1..k+1 : frames'[i] = IF i = k+1 THEN f ELSE IF i = k THEN g ELSE frames[i]
    <3> TAKE i \in 1..k+1
    <3>1. i \in 1..k-1 \/ i = k \/ i = k+1  BY <1>3
    <3> QED  BY <1>9, <3>1
  <2> QED  BY <1>3, <1>9, <1>10, <2>1
<1>12. \E c \in 1..k+1 : KeyAt(frames', walk', c)
  <2>1. CASE b < k
    <3>1. frames[b].slot = "key"
      <4>1. frames[b+1].kind = "quiet" /\ (frames[b].slot = "key" \/ b+1 = k)
        BY <1>5, <2>1 DEF KeyAt
      <4> QED  BY <1>3, <1>4, <4>1
    <3>2. /\ k \in 1..Len(frames) /\ frames'[k].kind = frames[k].kind
          /\ frames'[k].entered <=> frames[k].entered
          /\ Len(frames') = k+1 /\ ~frames'[k+1].entered
      BY <1>3, <1>7, <1>8, <1>9
    <3>3. KeyAt(frames', walk', b)
      BY <1>2, <1>3, <1>5, <1>9, <2>1, <3>1, <3>2, KeyOutside
    <3> QED  BY <3>3
  <2>2. CASE b = k
    <3>1. KeyAt(frames', walk', k)
      BY <1>2, <1>3, <1>5, <1>7, <1>8, <1>9, <2>2, KeyGoesQuiet
    <3> QED  BY <1>3, <3>1
  <2> QED  BY <2>1, <2>2
<1> QED  BY <1>2, <1>3, <1>9, <1>11, <1>12

(* A step of the innermost call that makes none. *)
LEMMA TopKeys ==
    ASSUME IInv, KInv, Reading, refused' = refused, NEW g \in FrameType, frames' = WithTop(g),
           g.kind = Top.kind, g.entered <=> Top.entered, ToldOnce(g),
           g.slot = "key" => g.told = 0,
           Undeclined(walk') => Undeclined(walk) /\ ToldRight(walk'),
           \A b \in 1..Len(frames) : Undeclined(walk) /\ KeyAt(frames, walk, b) =>
               IF b = Len(frames) THEN walk'.keyNext <=> g.slot = "key"
               ELSE walk'.keyNext <=> walk.keyNext
    PROVE  KInv'
<1> SUFFICES ASSUME Undeclined(walk')
             PROVE  /\ ToldRight(walk') /\ \A i \in DOMAIN frames' : ToldOnce(frames'[i])
                    /\ \E b \in DOMAIN frames' : KeyAt(frames', walk', b)
  BY DEF KInv
<1> PICK k \in Nat : k = Len(frames)  BY IInvShape
<1>1. /\ frames \in Seq(FrameType) /\ \A i \in 1..k : ToldOnce(frames[i])
      /\ DOMAIN frames = 1..k /\ k > 0 /\ Top = frames[k]
  BY KeysBefore
<1>2. PICK b \in 1..k : KeyAt(frames, walk, b)  BY <1>1 DEF KInv, Reading
<1>3. /\ frames' \in Seq(FrameType) /\ Len(frames') = k /\ frames'[k] = g
      /\ \A i \in 1..k-1 : frames'[i] = frames[i]
  BY <1>1, StayExact
<1>4. \A i \in DOMAIN frames' : ToldOnce(frames'[i])
  <2>1. \A i \in 1..k : i \in 1..k-1 \/ i = k  OBVIOUS
  <2> QED  BY <1>1, <1>3, <2>1
<1>5. k \in 1..Len(frames) /\ frames'[k].kind = frames[k].kind
      /\ (frames'[k].entered <=> frames[k].entered)
  BY <1>1, <1>3
<1>6. CASE b < k
  <2>1. walk'.keyNext <=> walk.keyNext  BY <1>1, <1>2, <1>6
  <2>2. KeyAt(frames', walk', b)
    BY <1>1, <1>2, <1>3, <1>5, <1>6, <2>1, KeyOutside
  <2> QED  BY <1>3, <1>4, <2>2
<1>7. CASE b = k
  <2>1. walk'.keyNext <=> g.slot = "key"  BY <1>1, <1>2, <1>7
  <2>2. KeyAt(frames', walk', k)
    BY <1>1, <1>2, <1>3, <1>5, <1>7, <2>1, KeyInside
  <2> QED  BY <1>3, <1>4, <2>2
<1> QED  BY <1>6, <1>7

(* markKey. *)
LEMMA BeginEntryKeys ==
    ASSUME IInv, CInv, KInv, BeginEntry
    PROVE  KInv'
<1>1. /\ Shape /\ walk \in WalkType /\ nodes \in Nat /\ frames \in Seq(FrameType)
      /\ Top \in FrameType /\ Top = frames[Len(frames)] /\ Len(frames) \in Nat
  BY IInvShape DEF Shape
<1> DEFINE slot == IF Top.kind = "mapping" THEN "key" ELSE "value"
           g == [Top EXCEPT !.slot = slot, !.pushed = KeepsNothing, !.told = 0, !.key.from = nodes]
<1>2. /\ Reading /\ refused' = refused /\ frames' = WithTop(g) /\ IsCollection(Top)
      /\ Top.slot = "between" /\ walk' = IF Top.kind = "mapping" THEN MarkKey(walk) ELSE walk
  BY DEF BeginEntry
<1>3. /\ g \in FrameType /\ g.kind = Top.kind /\ (g.entered <=> Top.entered)
      /\ g.slot = slot /\ g.told = 0
  <2>1. KeepsNothing \in BOOLEAN  BY DEF KeepsNothing
  <2>2. slot \in FrameSlot  BY DEF FrameSlot
  <2> HIDE DEF slot
  <2> QED  BY <1>1, <2>1, <2>2 DEF FrameType
<1> HIDE DEF g
<1>4. ToldOnce(g)  BY <1>3 DEF ToldOnce
<1>5. /\ walk'.declined = walk.declined /\ walk'.failed = walk.failed
      /\ walk'.stopped = walk.stopped /\ walk'.told = walk.told
      /\ walk'.keeping = walk.keeping
      /\ walk'.keyNext = (IF Top.kind = "mapping" THEN TRUE ELSE walk.keyNext)
  BY <1>1, <1>2 DEF MarkKey, WalkType
<1>6. Undeclined(walk') => Undeclined(walk) /\ ToldRight(walk')
  <2>1. (Undeclined(walk') <=> Undeclined(walk)) /\ (ToldRight(walk') <=> ToldRight(walk))
    BY <1>5 DEF Undeclined, Done, ToldRight
  <2> QED  BY <2>1 DEF KInv
<1>7. ASSUME NEW b \in 1..Len(frames), Undeclined(walk) /\ KeyAt(frames, walk, b)
      PROVE  IF b = Len(frames) THEN walk'.keyNext <=> g.slot = "key"
             ELSE walk'.keyNext <=> walk.keyNext
  <2>1. CASE b = Len(frames)
    <3>1. ~walk.keyNext  BY <1>1, <1>2, <1>7, <2>1 DEF KeyAt
    <3> QED  BY <1>3, <1>5, <2>1, <3>1
  <2>2. CASE b # Len(frames)
    <3>1. b < Len(frames) /\ b+1 \in 1..Len(frames)  BY <1>1, <2>2
    <3>2. frames[b].slot = "key"
      <4>1. frames[b+1].kind = "quiet" /\ (frames[b].slot = "key" \/ b+1 = Len(frames))
        BY <1>7, <3>1 DEF KeyAt
      <4> QED  BY <1>1, <1>2, <4>1 DEF IsCollection
    <3>3. walk.keyNext  BY <1>7, <3>2 DEF KeyAt
    <3> QED  BY <1>5, <2>2, <3>3
  <2> QED  BY <2>1, <2>2
<1> QED  BY <1>2, <1>3, <1>4, <1>6, <1>7, TopKeys

LEMMA EndEntryKeys ==
    ASSUME IInv, CInv, KInv, EndEntry
    PROVE  KInv'
<1>1. Top \in FrameType /\ Top = frames[Len(frames)]  BY IInvShape
<1> DEFINE g == [Top EXCEPT !.slot = "between", !.pushed = FALSE,
                            !.key = Frame.key, !.alone = FALSE, !.told = 0]
<1>2. /\ Reading /\ refused' = refused /\ frames' = WithTop(g) /\ walk' = walk
      /\ Top.slot = "end"
  BY DEF EndEntry
<1>3. /\ g \in FrameType /\ g.kind = Top.kind /\ (g.entered <=> Top.entered)
      /\ g.slot = "between" /\ g.told = 0
  BY <1>1 DEF Frame, FrameType, FrameSlot
<1> HIDE DEF g
<1>4. ToldOnce(g)  BY <1>3 DEF ToldOnce
<1>5. Undeclined(walk') => Undeclined(walk) /\ ToldRight(walk')  BY <1>2 DEF KInv
<1>6. \A b \in 1..Len(frames) : Undeclined(walk) /\ KeyAt(frames, walk, b) =>
          IF b = Len(frames) THEN walk'.keyNext <=> g.slot = "key"
          ELSE walk'.keyNext <=> walk.keyNext
  BY <1>1, <1>2, <1>3 DEF KeyAt
<1> QED  BY <1>2, <1>3, <1>4, <1>5, <1>6, TopKeys

LEMMA EndDocumentKeys ==
    ASSUME IInv, CInv, KInv, EndDocument
    PROVE  KInv'
<1>1. /\ Top \in FrameType /\ Top = frames[Len(frames)] /\ FramesOK
  BY IInvShape
<1> DEFINE g == [Top EXCEPT !.slot = "closed"]
<1>2. /\ Reading /\ refused' = refused /\ frames' = WithTop(g) /\ walk' = walk
      /\ Top.slot = "done" /\ Len(frames) = 1
  BY DEF EndDocument
<1>3. /\ g \in FrameType /\ g.kind = Top.kind /\ (g.entered <=> Top.entered)
      /\ g.slot = "closed"
  BY <1>1 DEF FrameType, FrameSlot
<1> HIDE DEF g
<1>4. ToldOnce(g)
  <2>1. ~Top.entered  BY <1>1, <1>2 DEF FramesOK
  <2> QED  BY <1>3, <2>1 DEF ToldOnce
<1>5. Undeclined(walk') => Undeclined(walk) /\ ToldRight(walk')  BY <1>2 DEF KInv
<1>6. \A b \in 1..Len(frames) : Undeclined(walk) /\ KeyAt(frames, walk, b) =>
          IF b = Len(frames) THEN walk'.keyNext <=> g.slot = "key"
          ELSE walk'.keyNext <=> walk.keyNext
  BY <1>1, <1>2, <1>3 DEF KeyAt
<1> QED  BY <1>2, <1>3, <1>4, <1>5, <1>6, TopKeys

(* A node that is left: where the visitor stands around it, its key is     *)
(* told now, unless it was told before.                                    *)
TellsAround(b, called) ==
    /\ ToldRight(walk')
    /\ IF b >= Len(frames) - 1
       THEN ~walk'.keyNext /\ (Under.slot = "key" => (called <=> Under.told = 0))
       ELSE walk'.keyNext <=> walk.keyNext

LEMMA ReturnKeys ==
    ASSUME IInv, KInv, Closing, refused' = refused,
           NEW u \in FrameType, u.kind = Under.kind, u.entered <=> Under.entered,
           u.slot = Under.slot, u.told = Under.told, NEW called,
           frames' = Returned(Read(Told(u, called), nodes)),
           Undeclined(walk') => Undeclined(walk),
           \A b \in 1..Len(frames) :
               Undeclined(walk') /\ KeyAt(frames, walk, b) => TellsAround(b, called)
    PROVE  KInv'
<1> SUFFICES ASSUME Undeclined(walk')
             PROVE  /\ ToldRight(walk') /\ \A i \in DOMAIN frames' : ToldOnce(frames'[i])
                    /\ \E b \in DOMAIN frames' : KeyAt(frames', walk', b)
  BY DEF KInv
<1> PICK k \in Nat : k = Len(frames)  BY IInvShape
<1>1. /\ frames \in Seq(FrameType) /\ \A i \in 1..k : ToldOnce(frames[i])
      /\ DOMAIN frames = 1..k
  BY KeysBefore
<1>2. k > 1 /\ k-1 \in 1..k  BY DEF Closing
<1>3. Under = frames[k-1] /\ Under \in FrameType /\ Waiting /\ nodes \in Nat
  BY <1>2, IInvShape DEF Shape
<1>4. PICK b \in 1..k : KeyAt(frames, walk, b)  BY <1>1 DEF KInv, Closing, Reading
<1>5. TellsAround(b, called)  BY <1>1, <1>4
<1> DEFINE g == Read(Told(u, called), nodes)
<1>6. Waits(Under) /\ Waits(u)
  <2>1. k-1 \in 1..k-1  BY <1>2
  <2>2. Waits(Under)  BY <1>3, <2>1 DEF Waiting
  <2> QED  BY <2>2 DEF Waits
<1>7. /\ g \in FrameType /\ g.kind = Under.kind /\ (g.entered <=> Under.entered)
      /\ g.slot # "key"
      /\ g.told = (IF Under.slot = "key" /\ called THEN Under.told + 1 ELSE Under.told)
      /\ (Under.slot = "key" => g.told = 1) => ToldOnce(g)
  <2>1. ToldOnce(Under)  BY <1>1, <1>2, <1>3
  <2>2. ToldOnce(u)  BY <2>1 DEF ToldOnce
  <2>3. ReadAs(u, g, nodes)  BY <1>3, <1>6, ReadFrame
  <2> QED  BY <1>3, <1>6, <2>2, <2>3, ToldRead DEF ReadAs
<1>8. frames' = Returned(g)  OBVIOUS
<1> HIDE DEF g
<1>9. /\ frames' \in Seq(FrameType) /\ Len(frames') = k-1 /\ frames'[k-1] = g
      /\ \A i \in 1..k-2 : frames'[i] = frames[i]
  BY <1>1, <1>2, <1>7, <1>8, ReturnExact
<1>10. /\ k-1 \in 1..Len(frames) /\ frames'[k-1].kind = frames[k-1].kind
       /\ (frames'[k-1].entered <=> frames[k-1].entered)
       /\ \A i \in 1..(k-1)-1 : frames'[i] = frames[i]
  BY <1>2, <1>3, <1>7, <1>9
<1>11. CASE b < k-1
  <2>1. ToldOnce(g)
    <3>1. ~Under.entered
      <4>1. k-1 \in 2..k  BY <1>4, <1>11
      <4> QED  BY <1>3, <1>4, <1>11, <4>1 DEF KeyAt
    <3> QED  BY <1>7, <3>1 DEF ToldOnce
  <2>2. walk'.keyNext <=> walk.keyNext  BY <1>5, <1>11 DEF TellsAround
  <2>3. KeyAt(frames', walk', b)
    BY <1>1, <1>4, <1>9, <1>10, <1>11, <2>2, KeyOutside
  <2>4. \A i \in 1..k-1 : i \in 1..k-2 \/ i = k-1  BY <1>2
  <2>5. \A i \in DOMAIN frames' : ToldOnce(frames'[i])
    <3>1. DOMAIN frames' = 1..k-1 /\ \A i \in 1..k-2 : i \in 1..k  BY <1>2, <1>9
    <3> QED  BY <1>1, <1>9, <2>1, <2>4, <3>1
  <2>6. b \in DOMAIN frames'  BY <1>4, <1>9, <1>11
  <2> QED  BY <1>5, <2>3, <2>5, <2>6 DEF TellsAround
<1>12. CASE b >= k-1
  <2>1. ~walk'.keyNext /\ (Under.slot = "key" => (called <=> Under.told = 0))
    BY <1>5, <1>12 DEF TellsAround
  <2>2. ToldOnce(g)
    <3>1. Under.slot = "key" => Under.told \in {0, 1}
      <4>1. k-1 \in 1..b  BY <1>2, <1>4, <1>12
      <4> QED  BY <1>3, <1>4, <4>1 DEF KeyAt
    <3> QED  BY <1>7, <2>1, <3>1
  <2>3. KeyAt(frames', walk', k-1)
    <3>1. k-1 <= b /\ frames'[Len(frames')].slot # "key"  BY <1>7, <1>9, <1>12
    <3> QED  BY <1>1, <1>4, <1>9, <1>10, <2>1, <3>1, KeyInside
  <2>4. \A i \in 1..k-1 : i \in 1..k-2 \/ i = k-1  BY <1>2
  <2>5. \A i \in DOMAIN frames' : ToldOnce(frames'[i])
    <3>1. DOMAIN frames' = 1..k-1 /\ \A i \in 1..k-2 : i \in 1..k  BY <1>2, <1>9
    <3> QED  BY <1>1, <1>9, <2>2, <2>4, <3>1
  <2>6. k-1 \in DOMAIN frames'  BY <1>2, <1>9
  <2> QED  BY <1>5, <2>3, <2>5, <2>6 DEF TellsAround
<1> QED  BY <1>2, <1>4, <1>11, <1>12

LEMMA LeaveTopKeys ==
    ASSUME IInv, KInv, Closing, Top.kind # "quiet", refused' = refused,
           NEW answer \in OnLeave(walk), LeaveTop(answer)
    PROVE  KInv'
<1> PICK k \in Nat : k = Len(frames)  BY IInvShape
<1>1. k > 1 /\ Reading  BY DEF Closing
<1>2. /\ Under \in FrameType /\ Top \in FrameType /\ walk \in WalkType /\ Top = frames[k]
      /\ Under = frames[k-1]
  BY <1>1, IInvShape DEF Shape
<1>3. Top.slot # "key"  BY DEF Closing
<1>4. answer \in LeaveAnswers  BY OnLeaveAnswers
<1> PICK left : left = Leave(walk, answer)  OBVIOUS
<1>5. left \in WalkType  BY <1>2, <1>4, LeaveOK DEF Leaves
<1> DEFINE decl == IF Under.kind = "tag" /\ Top.kind = "anchor" THEN Top.decl ELSE Under.decl
           u == [Under EXCEPT !.decl = decl]
           again == Under.slot = "key" /\ HandsKey(left)
           called == again /\ Calls(left)
<1>6. frames' = Returned(Read(Told(u, called), nodes))  BY DEF LeaveTop
<1>7. PICK next : walk' = IF Under.slot = "key" THEN HandKey(left, next) ELSE left
  BY DEF LeaveTop
<1>8. /\ u \in FrameType /\ u.kind = Under.kind /\ (u.entered <=> Under.entered)
      /\ u.slot = Under.slot /\ u.told = Under.told
  <2>1. decl \in Nat  BY <1>2 DEF FrameType
  <2> HIDE DEF decl
  <2> QED  BY <1>2, <2>1 DEF FrameType
<1>9. called <=> Under.slot = "key" /\ left.keyNext /\ Calls(left)  BY DEF HandsKey
<1> HIDE DEF u, called
<1>10. Undeclined(walk') => Undeclined(left)
  <2>1. walk' = left \/ walk' = Hand(left, TRUE, TRUE, next)  BY <1>7 DEF HandKey
  <2>2. Undeclined(Hand(left, TRUE, TRUE, next)) => Undeclined(left)
    <3> SUFFICES ASSUME Undeclined(Hand(left, TRUE, TRUE, next)) PROVE Undeclined(left)  OBVIOUS
    <3>1. HandedOver(Hand(left, TRUE, TRUE, next), left, TRUE, TRUE)  BY <1>5, HandKeys
    <3> QED  BY <3>1 DEF HandedOver
  <2> QED  BY <2>1, <2>2
<1>11. Undeclined(left) => Undeclined(walk)
  BY <1>2 DEF Leave, Answered, Undeclined, Done, WalkType
<1>12. ASSUME NEW b \in 1..k, Undeclined(walk'), KeyAt(frames, walk, b)
       PROVE  TellsAround(b, called)
  <2>1. Undeclined(left) /\ Undeclined(walk)  BY <1>10, <1>11, <1>12
  <2>2. ToldRight(walk) /\ ~walk.keeping  BY <2>1, KeysBefore
  <2>3. /\ left.keyNext = walk.keyNext /\ left.told = walk.told /\ ~left.keeping
        /\ left.quiet = walk.quiet
    <3>1. Undeclined(Leave(walk, answer))  BY <2>1
    <3> QED  BY <1>2, <2>2, <3>1, LeaveKeys
  <2>4. walk.keyNext <=> frames[b].slot = "key"  BY <1>12 DEF KeyAt
  <2>5. CASE b = k
    <3>1. ~left.keyNext  BY <1>2, <1>3, <2>3, <2>4, <2>5
    <3>2. walk' = left /\ ~called  BY <1>7, <1>9, <3>1 DEF HandKey, HandsKey
    <3>3. Under.slot = "key" => Under.told = 1
      <4>1. k-1 \in 1..b /\ k-1 # b  BY <1>1, <2>5
      <4> QED  BY <1>2, <1>12, <4>1 DEF KeyAt
    <3>4. b >= Len(frames) - 1  BY <2>5
    <3> QED  BY <2>2, <2>3, <3>1, <3>2, <3>3, <3>4 DEF TellsAround, ToldRight
  <2>6. CASE b # k
    <3>1. b < k /\ walk.quiet > 0 /\ b+1 < k
      <4>1. b < k  BY <2>6
      <4> QED  BY <1>12, <2>1, <2>2, <4>1, KeyCalls
    <3>2. ~Calls(left)  BY <1>2, <2>3, <3>1 DEF Calls, WalkType
    <3>3. walk' = left  BY <1>7, <3>2 DEF HandKey, Hand
    <3>4. ~(b >= Len(frames) - 1)  BY <3>1
    <3> QED  BY <2>2, <2>3, <3>3, <3>4 DEF TellsAround, ToldRight
  <2> QED  BY <2>5, <2>6
<1> QED  BY <1>6, <1>8, <1>10, <1>11, <1>12, ReturnKeys

LEMMA CloseKeys ==
    ASSUME IInv, KInv, CloseCollection \/ CloseAnchor \/ CloseTag \/ CloseExplicitKey
    PROVE  KInv'
<1>1. CASE CloseCollection
  <2>1. Closing /\ Top.kind # "quiet" /\ refused' = refused
    BY <1>1 DEF CloseCollection, IsCollection
  <2>2. PICK answer \in OnLeave(walk) : LeaveTop(answer)  BY <1>1 DEF CloseCollection
  <2> QED  BY <2>1, <2>2, LeaveTopKeys
<1>2. CASE CloseAnchor
  <2>1. Closing /\ Top.kind # "quiet" /\ refused' = refused  BY <1>2 DEF CloseAnchor
  <2>2. PICK answer \in OnLeave(walk) : LeaveTop(answer)  BY <1>2 DEF CloseAnchor
  <2> QED  BY <2>1, <2>2, LeaveTopKeys
<1>3. CASE CloseTag
  <2>1. Closing /\ Top.kind # "quiet" /\ refused' = refused  BY <1>3 DEF CloseTag
  <2>2. PICK answer \in OnLeave(walk) : LeaveTop(answer)  BY <1>3 DEF CloseTag
  <2> QED  BY <2>1, <2>2, LeaveTopKeys
<1>4. CASE CloseExplicitKey
  <2>1. Closing /\ Top.kind # "quiet" /\ refused' = refused  BY <1>4 DEF CloseExplicitKey
  <2>2. PICK answer \in OnLeave(walk) : LeaveTop(answer)  BY <1>4 DEF CloseExplicitKey
  <2> QED  BY <2>1, <2>2, LeaveTopKeys
<1> QED  BY <1>1, <1>2, <1>3, <1>4

LEMMA CloseQuietKeys ==
    ASSUME IInv, KInv, CloseQuiet
    PROVE  KInv'
<1> PICK k \in Nat : k = Len(frames)  BY IInvShape
<1>1. k > 1 /\ Reading /\ Closing /\ Top.kind = "quiet" /\ refused' = refused
  BY DEF CloseQuiet, Closing
<1>2. /\ Under \in FrameType /\ walk \in WalkType /\ Top = frames[k] /\ Under = frames[k-1]
      /\ FramesOK
  BY <1>1, IInvShape DEF Shape
<1> PICK w : w = Loud(walk)  OBVIOUS
<1>3. /\ w \in WalkType /\ w.keyNext = walk.keyNext /\ w.told = walk.told /\ w.skip = walk.skip
      /\ w.keeping = walk.keeping /\ w.quiet = walk.quiet - 1 /\ w.declined = walk.declined
      /\ w.failed = walk.failed /\ w.stopped = walk.stopped
  BY <1>2, SMTT(20) DEF Loud, WalkType
<1> DEFINE called == Calls(w) /\ HandsKey(w)
<1>4. frames' = Returned(Read(Told(Under, called), nodes))  BY DEF CloseQuiet
<1>5. PICK answer : walk' = HandLeaf(w, Under, answer)  BY DEF CloseQuiet
<1>6. called <=> Calls(w) /\ w.keyNext  BY DEF HandsKey
<1> HIDE DEF called
<1>7. Undeclined(w) <=> Undeclined(walk)  BY <1>3 DEF Undeclined, Done
<1>8. ASSUME Undeclined(walk')
      PROVE  /\ Undeclined(w)
             /\ ~Calls(w) => walk' = w
             /\ (Calls(w) => (w.keyNext <=> Under.slot = "key")) /\ ToldRight(w)
                    => ToldRight(walk') /\ (Calls(w) => ~walk'.keyNext)
  <2>1. Undeclined(HandLeaf(w, Under, answer))  BY <1>5, <1>8
  <2>2. LET v == HandLeaf(w, Under, answer)
        IN  /\ Undeclined(w)
            /\ ~Calls(w) => v = w
            /\ (Calls(w) => (w.keyNext <=> Under.slot = "key")) /\ ToldRight(w)
                 => ToldRight(v) /\ (Calls(w) => ~v.keyNext)
    BY <1>3, <2>1, HandLeafKeys
  <2> QED  BY <1>5, <2>2
<1>9. ASSUME NEW b \in 1..k, Undeclined(walk'), KeyAt(frames, walk, b)
      PROVE  TellsAround(b, called)
  <2>1. Undeclined(w) /\ Undeclined(walk)  BY <1>7, <1>8, <1>9
  <2>2. ToldRight(walk) /\ ~walk.keeping  BY <2>1, KeysBefore
  <2>3. ToldRight(w)  BY <1>3, <2>2 DEF ToldRight
  <2>4. walk.keyNext <=> frames[b].slot = "key"  BY <1>9 DEF KeyAt
  <2>5. b < k
    <3>1. k \in Quiets => ~frames[k].entered  BY <1>2 DEF FramesOK
    <3>2. k \in Quiets
      <4>1. k \in DOMAIN frames  BY <1>1, IInvShape DEF Shape
      <4> QED  BY <1>1, <1>2, <4>1 DEF Quiets
    <3>3. k \in 2..Len(frames)  BY <1>1
    <3> QED  BY <1>9, <3>1, <3>2, <3>3 DEF KeyAt
  <2>6. Calls(w) <=> b+1 = k
    <3>1. (walk.quiet - 1 = 0 /\ walk.skip = 0) <=> b+1 = k
      BY <1>1, <1>9, <2>1, <2>2, <2>5, KeyCalls
    <3>2. Calls(w) <=> w.skip = 0 /\ w.quiet = 0  BY <2>1 DEF Calls, Undeclined
    <3> QED  BY <1>3, <3>1, <3>2
  <2>7. CASE b+1 = k
    <3>1. b = k-1 /\ frames[b] = Under  BY <1>2, <2>7
    <3>2. w.keyNext <=> Under.slot = "key"  BY <1>3, <2>4, <3>1
    <3>3. ToldRight(walk') /\ ~walk'.keyNext  BY <1>8, <1>9, <2>3, <2>6, <2>7, <3>2
    <3>4. Under.slot = "key" => Under.told = 0  BY <1>9, <3>1 DEF KeyAt
    <3>5. Under.slot = "key" => called  BY <1>6, <2>6, <2>7, <3>2
    <3>6. b >= Len(frames) - 1  BY <3>1
    <3> QED  BY <3>3, <3>4, <3>5, <3>6 DEF TellsAround
  <2>8. CASE b+1 # k
    <3>1. walk' = w  BY <1>8, <1>9, <2>6, <2>8
    <3>2. ~(b >= Len(frames) - 1)  BY <2>5, <2>8
    <3> QED  BY <1>3, <2>3, <3>1, <3>2 DEF TellsAround
  <2> QED  BY <2>7, <2>8
<1>10. Undeclined(walk') => Undeclined(walk)  BY <1>7, <1>8
<1> QED  BY <1>1, <1>2, <1>4, <1>9, <1>10, ReturnKeys

LEMMA UnwindKeys ==
    ASSUME IInv, KInv, Unwind
    PROVE  KInv'
<1> SUFFICES ASSUME Undeclined(walk')
             PROVE  /\ ToldRight(walk') /\ \A i \in DOMAIN frames' : ToldOnce(frames'[i])
                    /\ refused'
  BY DEF KInv
<1>1. refused'
  <2>1. ~Reading'  BY UnwindReturns
  <2>2. ~walk'.stopped  BY DEF Undeclined, Done
  <2> QED  BY <2>1, <2>2 DEF Reading
<1>2. walk \in WalkType  BY IInvShape DEF Shape
<1>3. \/ walk' = walk \/ walk' = Loud(walk)
      \/ \E answer \in OnLeave(walk) : walk' = Leave(walk, answer)
  BY DEF Unwind
<1>4. Undeclined(walk)
  BY <1>2, <1>3 DEF Loud, Leave, Answered, Undeclined, Done, WalkType
<1> PICK k \in Nat : k = Len(frames)  BY IInvShape
<1>5. /\ frames \in Seq(FrameType) /\ ToldRight(walk) /\ ~walk.keeping
      /\ \A i \in 1..k : ToldOnce(frames[i])
  BY <1>4, KeysBefore
<1>6. ToldRight(walk')
  <2>1. CASE walk' = walk  BY <1>5, <2>1
  <2>2. CASE walk' = Loud(walk)  BY <1>2, <1>5, <2>2 DEF Loud, WalkType, ToldRight
  <2>3. CASE \E answer \in OnLeave(walk) : walk' = Leave(walk, answer)
    <3>1. PICK answer : walk' = Leave(walk, answer)  BY <2>3
    <3>2. Undeclined(Leave(walk, answer))  BY <3>1
    <3>3. walk'.told = walk.told /\ ~walk'.keeping  BY <1>2, <1>5, <3>1, <3>2, LeaveKeys
    <3> QED  BY <1>5, <3>3 DEF ToldRight
  <2> QED  BY <1>3, <2>1, <2>2, <2>3
<1>7. /\ k > 1 /\ frames' \in Seq(FrameType) /\ Len(frames') = k-1
      /\ \A i \in 1..k-1 : frames'[i] = frames[i]
  <2>1. k > 1 /\ frames' = Front(frames)  BY DEF Unwind
  <2> QED  BY <1>5, <2>1, FrontExact
<1>8. \A i \in DOMAIN frames' : ToldOnce(frames'[i])
  <2>1. DOMAIN frames' = 1..k-1 /\ \A i \in 1..k-1 : i \in 1..k  BY <1>7
  <2> QED  BY <1>5, <1>7, <2>1
<1> QED  BY <1>1, <1>6, <1>8

(* A document is begun: the visitor is inside nothing. *)
Begins ==
    /\ DOMAIN frames = {1} /\ Len(frames) = 1
    /\ frames[1].kind = "document" /\ frames[1].slot = "node"
    /\ Undeclined(walk) => ToldRight(walk) /\ ~walk.keyNext

LEMMA BeginsKeys == Begins => KInv
<1> SUFFICES ASSUME Begins PROVE KInv  OBVIOUS
<1>1. ToldOnce(frames[1])  BY DEF Begins, ToldOnce
<1>2. Undeclined(walk) => KeyAt(frames, walk, 1)
  <2>1. 2..1 = {} /\ 1..1 = {1}  OBVIOUS
  <2> QED  BY <2>1 DEF Begins, KeyAt
<1> QED  BY <1>1, <1>2 DEF Begins, KInv

LEMMA NextDocumentKeys ==
    ASSUME IInv, Closes, KInv, NextDocument
    PROVE  Begins'
<1>1. Top.slot = "closed" /\ Reading /\ walk' = walk  BY DEF NextDocument
<1>2. Len(frames) = 1 /\ Top = frames[1]  BY <1>1, IInvShape DEF Closes
<1> DEFINE f == [Frame EXCEPT !.doc = Top.doc + 1, !.first = nodes]
<1>3. frames' = <<f>>  BY DEF NextDocument
<1>4. f.kind = "document" /\ f.slot = "node"  BY DEF Frame
<1> HIDE DEF f
<1>5. DOMAIN frames' = {1} /\ Len(frames') = 1 /\ frames'[1] = f  BY <1>3
<1>6. Undeclined(walk) => ToldRight(walk) /\ ~walk.keyNext
  <2> SUFFICES ASSUME Undeclined(walk) PROVE ToldRight(walk) /\ ~walk.keyNext  OBVIOUS
  <2>1. ToldRight(walk)  BY KeysBefore
  <2>2. PICK b \in DOMAIN frames : KeyAt(frames, walk, b)  BY <1>1 DEF KInv, Reading
  <2>3. b = 1
    <3>1. b \in 1..1  BY <1>2, <2>2 DEF KeyAt
    <3> QED  BY <3>1
  <2> QED  BY <1>1, <1>2, <2>1, <2>2, <2>3 DEF KeyAt
<1>7. Undeclined(walk') => ToldRight(walk') /\ ~walk'.keyNext  BY <1>1, <1>6
<1> QED  BY <1>4, <1>5, <1>7 DEF Begins

LEMMA FreshBegins == Fresh => Begins
<1> SUFFICES ASSUME Fresh PROVE Begins  OBVIOUS
<1>1. frames = <<Frame>> /\ walk = NewWalk  BY DEF Fresh
<1>2. ToldRight(walk) /\ ~walk.keyNext  BY <1>1 DEF NewWalk, ToldRight
<1> QED  BY <1>1, <1>2 DEF Begins, Frame

LEMMA InitKeys == Init => KInv
BY InitFresh, FreshBegins, BeginsKeys

LEMMA NextKeys == IInv /\ Closes /\ CInv /\ KInv /\ [Next]_vars => KInv'
<1> SUFFICES ASSUME IInv, Closes, CInv, KInv, [Next]_vars PROVE KInv'  OBVIOUS
<1>1. CASE UNCHANGED vars  BY <1>1, UnchangedKeys
<1>2. ASSUME Next PROVE KInv' \/ Begins' \/ Fresh'
  <2>1. CASE Scalar  BY <2>1, ScalarKeys
  <2>2. CASE \E name \in Name : Alias(name)  BY <2>2, AliasKeys
  <2>3. CASE \E kind \in {"mapping", "sequence"} : OpenCollection(kind)
    BY <2>3, OpenCollectionKeys
  <2>4. CASE \E name \in Name : OpenAnchor(name)  BY <2>4, OpenAnchorKeys
  <2>5. CASE OpenTag  BY <2>5, OpenTagKeys
  <2>6. CASE OpenExplicitKey  BY <2>6, OpenExplicitKeyKeys
  <2>7. CASE OpenQuiet  BY <2>7, OpenQuietKeys
  <2>8. CASE BeginEntry  BY <2>8, BeginEntryKeys
  <2>9. CASE EndEntry  BY <2>9, EndEntryKeys
  <2>10. CASE CloseCollection \/ CloseAnchor \/ CloseTag \/ CloseExplicitKey
    BY <2>10, CloseKeys
  <2>11. CASE CloseQuiet  BY <2>11, CloseQuietKeys
  <2>12. CASE Refuse \/ RefuseAnchorName  BY <2>12, RefuseKeys
  <2>13. CASE Unwind  BY <2>13, UnwindKeys
  <2>14. CASE EndDocument  BY <2>14, EndDocumentKeys
  <2>15. CASE NextDocument  BY <2>15, NextDocumentKeys
  <2>16. CASE NextWalk  BY <2>16, NextWalkFresh
  <2> QED  BY <1>2, <2>1, <2>2, <2>3, <2>4, <2>5, <2>6, <2>7, <2>8, <2>9, <2>10, <2>11, <2>12,
              <2>13, <2>14, <2>15, <2>16 DEF Next
<1>3. Fresh' => Begins'  BY FreshBegins, PTL
<1>4. Begins' => KInv'  BY BeginsKeys, PTL
<1> QED  BY <1>1, <1>2, <1>3, <1>4

LEMMA KeysFollow == IInv /\ KInv => KeysToldOnce
<1> SUFFICES ASSUME IInv, KInv, ~walk.declined /\ ~Done(walk)
    PROVE  /\ walk.told.reported = walk.told.right
           /\ \A i \in Entered : frames[i].kind = "mapping" =>
               /\ frames[i].told <= 1
               /\ frames[i].slot \in {"value", "end"} => frames[i].told = 1
  BY DEF KeysToldOnce
<1>1. ToldRight(walk) /\ \A i \in DOMAIN frames : ToldOnce(frames[i])
  BY DEF KInv, Undeclined
<1>2. walk \in WalkType  BY IInvShape DEF Shape
<1>3. walk.told.reported = walk.told.right  BY <1>1, <1>2 DEF ToldRight, WalkType
<1> QED  BY <1>1, <1>3 DEF ToldOnce, Entered

(* handKey, markKey, quiet: for any stream, as long as the visitor declines *)
(* nothing, each key is handed over once and as the key, whether it is a   *)
(* scalar or an alias, a node that encloses others, behind a "?", read     *)
(* quietly and handed over afterwards, or in a document that is refused.   *)
THEOREM EachKeyIsToldOnce == Spec => []KeysToldOnce
<1>1. Init => CInv /\ KInv  BY InitCells, InitKeys
<1>2. (IInv /\ Closes) /\ (CInv /\ KInv) /\ [Next]_vars => (CInv /\ KInv)'
  BY NextCells, NextKeys
<1>3. Spec => [](IInv /\ Closes)  BY Invariant
<1>4. (IInv /\ Closes) /\ (CInv /\ KInv) => KeysToldOnce  BY KeysFollow
<1> QED  BY <1>1, <1>2, <1>3, <1>4, PTL DEF Spec

-----------------------------------------------------------------------------
(* The inductive invariant of the aliases, while a document is read. *)

TargetType == [decl : Nat, tagged : BOOLEAN]
HeldType == [alias : Nat, decl : Nat, tagged : BOOLEAN]
AliasType == [name : Name, target : TargetType, latest : Nat]
TableTyped ==
    /\ table.nodes \in [Name -> TargetType] /\ table.cyclic \in Seq(HeldType)
    /\ aliases \in Seq(AliasType)

IsOpen(d) == \E i \in DOMAIN table.open : table.open[i].decl = d
OpenAs(n) == \E i \in DOMAIN table.open : table.open[i].name = n
IsHeld(j) == \E k \in DOMAIN table.cyclic : table.cyclic[k].alias = j

(* What an alias of the name is pointed at. *)
Stands(t, n) ==
    t.decl \in DOMAIN decls /\ decls[t.decl].name = n /\ (t.tagged <=> decls[t.decl].tagged)

(* No anchor of the name stands inside another of it. *)
Flat(n) == \A j \in DOMAIN decls : decls[j].name = n => ~decls[j].nested

IsLatest(n, d) ==
    IF \E j \in DOMAIN decls : decls[j].name = n
    THEN /\ d \in DOMAIN decls /\ decls[d].name = n
         /\ \A j \in DOMAIN decls : decls[j].name = n => j <= d
    ELSE d = 0

(* The names being read: each the declaration of an anchor, in their order. *)
OpenNames ==
    /\ \A i \in DOMAIN table.open :
           /\ table.open[i].decl \in DOMAIN decls
           /\ decls[table.open[i].decl].name = table.open[i].name
           /\ ~decls[table.open[i].decl].tagged
    /\ \A j \in DOMAIN table.open : \A i \in 1..j-1 : table.open[i].decl < table.open[j].decl

(* The names that were read. *)
NodeNames ==
    \A n \in Name : table.nodes[n].decl # 0 =>
        Stands(table.nodes[n], n) /\ ~IsOpen(table.nodes[n].decl)

(* The latest of a name is the one being read, or the one that was. *)
LatestNames ==
    \A n \in Name : Flat(n) =>
        /\ \A i \in DOMAIN table.open : table.open[i].name = n => IsLatest(n, table.open[i].decl)
        /\ ~OpenAs(n) => IsLatest(n, table.nodes[n].decl)

(* The aliases held, and the others. *)
HeldAliases ==
    \A k \in DOMAIN table.cyclic : LET c == table.cyclic[k] IN
        /\ c.alias \in DOMAIN aliases
        /\ Stands(c, aliases[c.alias].name)
        /\ Flat(aliases[c.alias].name) => c.decl = aliases[c.alias].latest
PointedAliases ==
    \A j \in DOMAIN aliases : ~IsHeld(j) => LET a == aliases[j] IN
        /\ Stands(a.target, a.name) /\ ~IsOpen(a.target.decl)
        /\ Flat(a.name) => a.target.decl = a.latest

TableHolds ==
    TableTyped /\ OpenNames /\ NodeNames /\ LatestNames /\ HeldAliases /\ PointedAliases

(* A tag knows of the anchor under it once that is closed, and no alias was *)
(* pointed at that since.                                                   *)
TagFree(f) == f.kind = "tag" => f.decl = 0
AllFree == \A i \in DOMAIN frames : TagFree(frames[i])
TagsWait ==
    /\ \A i \in 1..Len(frames)-1 : TagFree(frames[i])
    /\ Waits(Top) => TagFree(Top)
TagTop ==
    ~TagFree(Top) =>
        /\ Top.decl \in DOMAIN decls /\ ~IsOpen(Top.decl)
        /\ \A j \in DOMAIN aliases : ~IsHeld(j) => aliases[j].target.decl # Top.decl

Cleared == table = NewTable

AInv ==
    /\ Reading /\ Top.slot # "closed" => TableHolds /\ TagsWait /\ TagTop
    /\ Top.slot = "closed" => Cleared /\ AliasesResolve

-----------------------------------------------------------------------------
(* What is to be shown of a table after a step, alias by alias and name by  *)
(* name.                                                                    *)

LEMMA LatestAfter ==
    ASSUME NEW places, DOMAIN table'.open = places,
           \A n \in Name : Flat(n)' =>
               \A i \in places : table'.open[i].name = n =>
                   \A e : e = table'.open[i].decl => IsLatest(n, e)',
           \A n \in Name : Flat(n)' /\ ~OpenAs(n)' =>
               \A e : e = table'.nodes[n].decl => IsLatest(n, e)'
    PROVE  LatestNames'
<1> SUFFICES ASSUME NEW n \in Name, Flat(n)'
             PROVE  /\ \A i \in DOMAIN table'.open :
                           table'.open[i].name = n => IsLatest(n, table.open[i].decl)'
                    /\ ~OpenAs(n)' => IsLatest(n, table.nodes[n].decl)'
  BY DEF LatestNames
<1>1. ASSUME NEW i \in DOMAIN table'.open, table'.open[i].name = n
      PROVE  IsLatest(n, table.open[i].decl)'
  <2> PICK e : e = table'.open[i].decl  OBVIOUS
  <2>1. IsLatest(n, e)'  BY <1>1
  <2> QED  BY <2>1 DEF IsLatest
<1>2. ASSUME ~OpenAs(n)' PROVE IsLatest(n, table.nodes[n].decl)'
  <2> PICK e : e = table'.nodes[n].decl  OBVIOUS
  <2>1. IsLatest(n, e)'  BY <1>2
  <2> QED  BY <2>1 DEF IsLatest
<1> QED  BY <1>1, <1>2

LEMMA HeldAfter ==
    ASSUME NEW held, table'.cyclic = held, NEW known, aliases' = known,
           \A k \in DOMAIN held : \A c, a : c = held[k] /\ a = known[c.alias] =>
               /\ c.alias \in DOMAIN known /\ Stands(c, a.name)'
               /\ Flat(a.name)' => c.decl = a.latest
    PROVE  HeldAliases'
BY DEF HeldAliases, Stands, Flat

LEMMA PointedAfter ==
    ASSUME NEW known, aliases' = known,
           \A j \in DOMAIN known : ~IsHeld(j)' => \A a, t : a = known[j] /\ t = a.target =>
               /\ Stands(t, a.name)' /\ ~IsOpen(t.decl)'
               /\ Flat(a.name)' => t.decl = a.latest
    PROVE  PointedAliases'
BY DEF PointedAliases, Stands, Flat, IsOpen, IsHeld

-----------------------------------------------------------------------------
(* The frames of tags. *)

LEMMA TopStays ==
    ASSUME frames \in Seq(FrameType), frames # <<>>, NEW g \in FrameType, frames' = WithTop(g),
           TagFree(Top) => TagFree(g), g.slot # "closed", AllFree
    PROVE  AllFree' /\ Top'.slot # "closed" /\ frames' \in Seq(FrameType)
<1> PICK n \in Nat : n = Len(frames)  OBVIOUS
<1>1. /\ frames' \in Seq(FrameType) /\ Len(frames') = n /\ frames'[n] = g
      /\ \A i \in 1..n-1 : frames'[i] = frames[i]
  BY StayExact
<1>2. n > 0 /\ DOMAIN frames = 1..n /\ DOMAIN frames' = 1..n /\ Top = frames[n]  BY <1>1, TopIsFrame
<1>3. TagFree(g)  BY <1>2 DEF AllFree
<1>4. \A i \in 1..n : i \in 1..n-1 \/ i = n  OBVIOUS
<1>5. AllFree'  BY <1>1, <1>2, <1>3, <1>4 DEF AllFree
<1>6. Top' = g  BY <1>1 DEF Top, Last
<1> QED  BY <1>1, <1>5, <1>6

LEMMA TopPushed ==
    ASSUME frames \in Seq(FrameType), frames # <<>>, NEW g \in FrameType, NEW f \in FrameType,
           frames' = Append(WithTop(g), f), TagFree(Top) => TagFree(g), TagFree(f),
           f.slot # "closed", AllFree
    PROVE  AllFree' /\ Top'.slot # "closed" /\ frames' \in Seq(FrameType)
<1> PICK n \in Nat : n = Len(frames)  OBVIOUS
<1>1. /\ frames' \in Seq(FrameType) /\ Len(frames') = n+1 /\ frames'[n] = g /\ frames'[n+1] = f
      /\ \A i \in 1..n-1 : frames'[i] = frames[i]
  BY PushExact
<1>2. n > 0 /\ DOMAIN frames = 1..n /\ DOMAIN frames' = 1..n+1 /\ Top = frames[n]
  BY <1>1, TopIsFrame
<1>3. TagFree(g)  BY <1>2 DEF AllFree
<1>4. \A i \in 1..n+1 : i \in 1..n-1 \/ i = n \/ i = n+1  BY <1>2
<1>5. AllFree'  BY <1>1, <1>2, <1>3, <1>4 DEF AllFree
<1>6. Top' = f  BY <1>1 DEF Top, Last
<1> QED  BY <1>1, <1>5, <1>6

LEMMA TopReturned ==
    ASSUME frames \in Seq(FrameType), Len(frames) > 1, NEW g \in FrameType, frames' = Returned(g),
           g.slot # "closed", \A i \in 1..Len(frames)-1 : TagFree(frames[i])
    PROVE  /\ Top' = g /\ Top'.slot # "closed" /\ frames' \in Seq(FrameType)
           /\ Len(frames') = Len(frames)-1
           /\ \A i \in 1..Len(frames')-1 : TagFree(frames'[i])
           /\ TagFree(g) => AllFree'
<1> PICK n \in Nat : n = Len(frames)  OBVIOUS
<1>1. /\ frames' \in Seq(FrameType) /\ Len(frames') = n-1 /\ frames'[n-1] = g
      /\ \A i \in 1..n-2 : frames'[i] = frames[i]
  BY ReturnExact
<1>2. DOMAIN frames' = 1..n-1 /\ n > 1  BY <1>1
<1>3. \A i \in 1..n-2 : TagFree(frames'[i])
  <2>1. \A i \in 1..n-2 : i \in 1..n-1  OBVIOUS
  <2> QED  BY <1>1, <2>1
<1>4. \A i \in 1..n-1 : i \in 1..n-2 \/ i = n-1  BY <1>2
<1>5. TagFree(g) => AllFree'  BY <1>1, <1>2, <1>3, <1>4 DEF AllFree
<1>6. Top' = g  BY <1>1 DEF Top, Last
<1> QED  BY <1>1, <1>3, <1>5, <1>6

(* What is known before a step. *)
LEMMA FreeBefore ==
    ASSUME IInv, AInv, Reading, Top.slot # "closed"
    PROVE  /\ TableHolds /\ TagsWait /\ TagTop
           /\ Waits(Top) \/ Top.kind # "tag" => AllFree
           /\ frames \in Seq(FrameType) /\ frames # <<>> /\ Top \in FrameType
<1> PICK n \in Nat : n = Len(frames)  BY IInvShape
<1>1. frames \in Seq(FrameType) /\ frames # <<>> /\ Top \in FrameType /\ n > 0 /\ Top = frames[n]
  BY IInvShape DEF Shape
<1>2. TableHolds /\ TagsWait /\ TagTop  BY DEF AInv
<1>3. Waits(Top) \/ Top.kind # "tag" => TagFree(Top)  BY <1>2 DEF TagsWait, TagFree
<1>4. \A i \in DOMAIN frames : i \in 1..n-1 \/ i = n  BY <1>1
<1>5. TagFree(Top) => AllFree  BY <1>1, <1>2, <1>4 DEF TagsWait, AllFree
<1> QED  BY <1>1, <1>2, <1>3, <1>5

LEMMA FreeAfter ==
    ASSUME frames \in Seq(FrameType), frames # <<>>, AllFree
    PROVE  TagsWait /\ TagTop
<1>1. Top = frames[Len(frames)] /\ Len(frames) \in DOMAIN frames  BY TopIsFrame
<1>2. \A i \in 1..Len(frames)-1 : i \in DOMAIN frames  OBVIOUS
<1> QED  BY <1>1, <1>2 DEF AllFree, TagsWait, TagTop

LEMMA SameTable ==
    ASSUME TableHolds, table' = table, decls' = decls, aliases' = aliases
    PROVE  TableHolds'
BY DEF TableHolds, TableTyped, OpenNames, NodeNames, LatestNames, HeldAliases, PointedAliases,
       IsOpen, OpenAs, IsHeld, Stands, Flat, IsLatest

(* A step that neither names nor resolves anything. *)
LEMMA SameNames ==
    ASSUME IInv, AInv, Reading, Top.slot # "closed", AllFree', Top'.slot # "closed",
           frames' \in Seq(FrameType), frames' # <<>>,
           table' = table, decls' = decls, aliases' = aliases
    PROVE  AInv'
<1>1. TableHolds'  BY FreeBefore, SameTable
<1>2. (frames \in Seq(FrameType) /\ frames # <<>> /\ AllFree => TagsWait /\ TagTop)'
  BY FreeAfter, PTL
<1> QED  BY <1>1, <1>2 DEF AInv

LEMMA ToldDecl ==
    ASSUME NEW f \in FrameType, NEW called
    PROVE  LET t == Told(f, called)
           IN  t \in FrameType /\ t.kind = f.kind /\ t.decl = f.decl /\ t.slot = f.slot
BY DEF Told, FrameType

LEMMA ReadDecl ==
    ASSUME NEW f \in FrameType, NEW n \in Nat, NEW called
    PROVE  LET g == Read(Told(f, called), n)
           IN  /\ g \in FrameType /\ g.kind = f.kind /\ g.decl = f.decl /\ g.slot # "closed"
               /\ f.slot = "node" => g.slot = "done"
<1> DEFINE t == Told(f, called) g == Read(t, n)
<1>1. t \in FrameType /\ t.kind = f.kind /\ t.decl = f.decl /\ t.slot = f.slot
  BY ToldDecl
<1> HIDE DEF t
<1>2. /\ g \in FrameType /\ g.kind = t.kind /\ g.decl = t.decl
      /\ g.slot = (IF t.slot = "key" THEN "value" ELSE IF t.slot = "value" THEN "end" ELSE "done")
  <2>1. CASE t.slot = "key"
    <3> DEFINE key == [t.key EXCEPT !.to = n]
    <3>1. g = [t EXCEPT !.slot = "value", !.key = key]  BY <2>1 DEF Read
    <3>2. key \in [from : Nat, to : Nat]  BY <1>1 DEF FrameType
    <3> HIDE DEF key, g
    <3> QED  BY <1>1, <2>1, <3>1, <3>2 DEF FrameType, FrameSlot
  <2>2. CASE t.slot = "value"
    <3>1. g = [t EXCEPT !.slot = "end"]  BY <2>2 DEF Read
    <3> HIDE DEF g
    <3> QED  BY <1>1, <2>2, <3>1 DEF FrameType, FrameSlot
  <2>3. CASE t.slot \notin {"key", "value"}
    <3>1. g = [t EXCEPT !.slot = "done"]  BY <2>3 DEF Read
    <3> HIDE DEF g
    <3> QED  BY <1>1, <2>3, <3>1 DEF FrameType, FrameSlot
  <2> QED  BY <2>1, <2>2, <2>3
<1> HIDE DEF g
<1>3. /\ g \in FrameType /\ g.kind = f.kind /\ g.decl = f.decl /\ g.slot # "closed"
      /\ f.slot = "node" => g.slot = "done"
  BY <1>1, <1>2
<1> QED  BY <1>3 DEF g, t

LEMMA ReadFree ==
    ASSUME frames \in Seq(FrameType), frames # <<>>, Top \in FrameType, AllFree, NEW n \in Nat,
           NEW called, frames' = WithTop(Read(Told(Top, called), n))
    PROVE  AllFree' /\ Top'.slot # "closed" /\ frames' \in Seq(FrameType) /\ frames' # <<>>
<1> DEFINE g == Read(Told(Top, called), n)
<1>1. g \in FrameType /\ g.kind = Top.kind /\ g.decl = Top.decl /\ g.slot # "closed"
  BY ReadDecl
<1> HIDE DEF g
<1>2. frames' = WithTop(g)  BY DEF g
<1>3. TagFree(Top) => TagFree(g)  BY <1>1 DEF TagFree
<1>4. Len(frames') = Len(frames) /\ Len(frames) > 0  BY <1>1, <1>2, StayExact
<1> QED  BY <1>1, <1>2, <1>3, <1>4, TopStays

LEMMA ScalarNames ==
    ASSUME IInv, AInv, Scalar
    PROVE  AInv'
<1>1. Reading /\ Waits(Top) /\ Top.slot # "closed"  BY DEF Scalar, AtNode, Waits
<1>2. AllFree /\ frames \in Seq(FrameType) /\ frames # <<>> /\ Top \in FrameType
  BY <1>1, FreeBefore
<1>3. nodes + 1 \in Nat  BY IInvShape DEF Shape
<1>4. frames' = WithTop(Read(Told(Top, Calls(walk) /\ HandsKey(walk)), nodes + 1))  BY DEF Scalar
<1>5. AllFree' /\ Top'.slot # "closed" /\ frames' \in Seq(FrameType) /\ frames' # <<>>
  BY <1>2, <1>3, <1>4, ReadFree
<1>6. table' = table /\ decls' = decls /\ aliases' = aliases  BY DEF Scalar
<1> QED  BY <1>1, <1>5, <1>6, SameNames

LEMMA CallFree ==
    ASSUME frames \in Seq(FrameType), frames # <<>>, Top \in FrameType, AllFree, Waits(Top),
           nodes \in Nat, NEW frame \in FrameType, TagFree(frame), frame.slot # "closed",
           NEW kind, NEW announced, NEW pinned, Call(frame, kind, announced, pinned)
    PROVE  AllFree' /\ Top'.slot # "closed" /\ frames' \in Seq(FrameType) /\ frames' # <<>>
<1>1. PICK answer : LET takes == Calls(walk) /\ answer \in {"nil", "keep"}
                        caller == [Told(Top, Calls(walk)) EXCEPT
                                      !.alone = AtKey /\ IsCollection(frame) /\ ~frame.inKey]
                    IN  frames' = IF answer = "stop" THEN WithTop(caller)
                                  ELSE Append(WithTop(caller),
                                              [frame EXCEPT !.first = nodes, !.entered = takes])
  BY DEF Call
<1> DEFINE alone == AtKey /\ IsCollection(frame) /\ ~frame.inKey
           takes == Calls(walk) /\ answer \in {"nil", "keep"}
           t == Told(Top, Calls(walk))
           g == [t EXCEPT !.alone = alone]
           f == [frame EXCEPT !.first = nodes, !.entered = takes]
<1>2. \/ frames' = WithTop(g) \/ frames' = Append(WithTop(g), f)  BY <1>1
<1>3. g \in FrameType /\ g.kind = Top.kind /\ g.decl = Top.decl /\ g.slot = Top.slot
  <2>1. alone \in BOOLEAN  BY DEF AtKey, IsCollection
  <2>2. t \in FrameType /\ t.kind = Top.kind /\ t.decl = Top.decl /\ t.slot = Top.slot
    BY ToldDecl
  <2> HIDE DEF alone, t
  <2> QED  BY <2>1, <2>2 DEF FrameType
<1>4. f \in FrameType /\ f.kind = frame.kind /\ f.decl = frame.decl /\ f.slot = frame.slot
  <2>1. takes \in BOOLEAN  BY DEF Calls, Done
  <2> HIDE DEF takes
  <2> QED  BY <2>1 DEF FrameType
<1> HIDE DEF g, f
<1>5. /\ (TagFree(Top) => TagFree(g)) /\ g.slot # "closed" /\ TagFree(f) /\ f.slot # "closed"
  BY <1>3, <1>4 DEF TagFree, Waits
<1>6. CASE frames' = WithTop(g)
  <2>1. Len(frames') = Len(frames) /\ Len(frames) > 0  BY <1>3, <1>6, StayExact
  <2> QED  BY <1>3, <1>5, <1>6, <2>1, TopStays
<1>7. CASE frames' = Append(WithTop(g), f)
  <2>1. Len(frames') = Len(frames)+1 /\ Len(frames) > 0  BY <1>3, <1>4, <1>7, PushExact
  <2> QED  BY <1>3, <1>4, <1>5, <1>7, <2>1, TopPushed
<1> QED  BY <1>2, <1>6, <1>7

LEMMA OpenCollectionNames ==
    ASSUME IInv, AInv, NEW kind \in {"mapping", "sequence"}, OpenCollection(kind)
    PROVE  AInv'
<1>1. Reading /\ Waits(Top) /\ Top.slot # "closed"
  BY DEF OpenCollection, Written, AtNode, Waits
<1>2. AllFree /\ frames \in Seq(FrameType) /\ frames # <<>> /\ Top \in FrameType
  BY <1>1, FreeBefore
<1>3. nodes \in Nat  BY IInvShape DEF Shape
<1>4. PICK alone \in BOOLEAN :
          Call([Frame EXCEPT !.kind = kind, !.slot = "between", !.id = nodes + 1,
                             !.inKey = CountsKey /\ ~alone], kind, FALSE, 0)
  BY DEF OpenCollection
<1> DEFINE inKey == CountsKey /\ ~alone
           f == [Frame EXCEPT !.kind = kind, !.slot = "between", !.id = nodes + 1, !.inKey = inKey]
<1>5. f \in FrameType /\ TagFree(f) /\ f.slot # "closed"
  <2>1. inKey \in BOOLEAN  BY DEF CountsKey, AtKey
  <2>2. nodes + 1 \in Nat  BY <1>3
  <2> HIDE DEF inKey
  <2>3. f \in FrameType /\ f.kind = kind /\ f.slot = "between"
    BY <2>1, <2>2 DEF Frame, FrameType, FrameKind, FrameSlot
  <2> HIDE DEF f
  <2> QED  BY <2>3 DEF TagFree
<1> HIDE DEF f
<1>6. Call(f, kind, FALSE, 0)  BY <1>4 DEF f
<1>7. AllFree' /\ Top'.slot # "closed" /\ frames' \in Seq(FrameType) /\ frames' # <<>>
  BY <1>1, <1>2, <1>3, <1>5, <1>6, CallFree
<1>8. table' = table /\ decls' = decls /\ aliases' = aliases  BY DEF OpenCollection
<1> QED  BY <1>1, <1>7, <1>8, SameNames

LEMMA OpenTagNames ==
    ASSUME IInv, AInv, OpenTag
    PROVE  AInv'
<1>1. Reading /\ Waits(Top) /\ Top.slot # "closed"  BY DEF OpenTag, Written, AtNode, Waits
<1>2. AllFree /\ frames \in Seq(FrameType) /\ frames # <<>> /\ Top \in FrameType
  BY <1>1, FreeBefore
<1>3. nodes \in Nat  BY IInvShape DEF Shape
<1> DEFINE f == [Frame EXCEPT !.kind = "tag", !.inKey = CountsKey]
<1>4. Call(f, "tag", FALSE, 0)  BY DEF OpenTag
<1>5. f \in FrameType /\ TagFree(f) /\ f.slot # "closed"
  <2>1. CountsKey \in BOOLEAN  BY DEF CountsKey, AtKey
  <2> QED  BY <2>1 DEF Frame, FrameType, FrameKind, FrameSlot, TagFree
<1> HIDE DEF f
<1>6. AllFree' /\ Top'.slot # "closed" /\ frames' \in Seq(FrameType) /\ frames' # <<>>
  BY <1>1, <1>2, <1>3, <1>4, <1>5, CallFree
<1>7. table' = table /\ decls' = decls /\ aliases' = aliases  BY DEF OpenTag
<1> QED  BY <1>1, <1>6, <1>7, SameNames

LEMMA OpenExplicitKeyNames ==
    ASSUME IInv, AInv, OpenExplicitKey
    PROVE  AInv'
<1>1. Reading /\ Waits(Top) /\ Top.slot # "closed"  BY DEF OpenExplicitKey, AtKey, Waits
<1>2. AllFree /\ frames \in Seq(FrameType) /\ frames # <<>> /\ Top \in FrameType
  BY <1>1, FreeBefore
<1>3. nodes \in Nat  BY IInvShape DEF Shape
<1> DEFINE f == [Frame EXCEPT !.kind = "explicit"]
<1>4. Call(f, "key", TRUE, 0)  BY DEF OpenExplicitKey
<1>5. f \in FrameType /\ TagFree(f) /\ f.slot # "closed"
  BY DEF Frame, FrameType, FrameKind, FrameSlot, TagFree
<1> HIDE DEF f
<1>6. AllFree' /\ Top'.slot # "closed" /\ frames' \in Seq(FrameType) /\ frames' # <<>>
  BY <1>1, <1>2, <1>3, <1>4, <1>5, CallFree
<1>7. table' = table /\ decls' = decls /\ aliases' = aliases  BY DEF OpenExplicitKey
<1> QED  BY <1>1, <1>6, <1>7, SameNames

LEMMA OpenQuietNames ==
    ASSUME IInv, AInv, OpenQuiet
    PROVE  AInv'
<1>1. Reading /\ Waits(Top) /\ Top.slot # "closed"  BY DEF OpenQuiet, Written, AtNode, Waits
<1>2. AllFree /\ frames \in Seq(FrameType) /\ frames # <<>> /\ Top \in FrameType
  BY <1>1, FreeBefore
<1>3. nodes \in Nat  BY IInvShape DEF Shape
<1> DEFINE g == [Top EXCEPT !.alone = AtKey]
           f == [Frame EXCEPT !.kind = "quiet", !.first = nodes]
<1>4. frames' = Append(WithTop(g), f)  BY DEF OpenQuiet
<1>5. g \in FrameType /\ (TagFree(Top) => TagFree(g))
  <2>1. AtKey \in BOOLEAN  BY DEF AtKey
  <2> QED  BY <1>2, <2>1 DEF FrameType, TagFree
<1>6. f \in FrameType /\ TagFree(f) /\ f.slot # "closed"
  BY <1>3 DEF Frame, FrameType, FrameKind, FrameSlot, TagFree
<1> HIDE DEF f, g
<1>7. Len(frames') = Len(frames)+1 /\ Len(frames) > 0  BY <1>2, <1>4, <1>5, <1>6, PushExact
<1>8. AllFree' /\ Top'.slot # "closed" /\ frames' \in Seq(FrameType) /\ frames' # <<>>
  BY <1>2, <1>4, <1>5, <1>6, <1>7, TopPushed
<1>9. table' = table /\ decls' = decls /\ aliases' = aliases  BY DEF OpenQuiet
<1> QED  BY <1>1, <1>8, <1>9, SameNames

LEMMA BeginEntryNames ==
    ASSUME IInv, AInv, BeginEntry
    PROVE  AInv'
<1>1. Reading /\ IsCollection(Top) /\ Top.slot = "between"  BY DEF BeginEntry
<1>2. AllFree /\ frames \in Seq(FrameType) /\ frames # <<>> /\ Top \in FrameType
  BY <1>1, FreeBefore DEF IsCollection
<1>3. nodes \in Nat  BY IInvShape DEF Shape
<1> DEFINE key == [Top.key EXCEPT !.from = nodes]
           slot == IF Top.kind = "mapping" THEN "key" ELSE "value"
           g == [Top EXCEPT !.slot = slot, !.pushed = KeepsNothing, !.told = 0, !.key = key]
<1>4. frames' = WithTop(g)  BY DEF BeginEntry
<1>5. g \in FrameType /\ (TagFree(Top) => TagFree(g)) /\ g.slot # "closed"
  <2>1. KeepsNothing \in BOOLEAN  BY DEF KeepsNothing
  <2>2. key \in [from : Nat, to : Nat]  BY <1>2, <1>3 DEF FrameType
  <2>3. slot \in FrameSlot /\ slot # "closed"  BY DEF FrameSlot
  <2> HIDE DEF key, slot
  <2> QED  BY <1>2, <2>1, <2>2, <2>3 DEF FrameType, TagFree
<1> HIDE DEF g
<1>6. Len(frames') = Len(frames) /\ Len(frames) > 0  BY <1>2, <1>4, <1>5, StayExact
<1>7. AllFree' /\ Top'.slot # "closed" /\ frames' \in Seq(FrameType) /\ frames' # <<>>
  BY <1>2, <1>4, <1>5, <1>6, TopStays
<1>8. table' = table /\ decls' = decls /\ aliases' = aliases  BY DEF BeginEntry
<1> QED  BY <1>1, <1>7, <1>8, SameNames

LEMMA EndEntryNames ==
    ASSUME IInv, CInv, AInv, EndEntry
    PROVE  AInv'
<1>1. Reading /\ Top.slot = "end"  BY DEF EndEntry
<1>2. IsCollection(Top)  BY <1>1, Around DEF Numbered, InEntry
<1>3. AllFree /\ frames \in Seq(FrameType) /\ frames # <<>> /\ Top \in FrameType
  BY <1>1, <1>2, FreeBefore DEF IsCollection
<1> DEFINE g == [Top EXCEPT !.slot = "between", !.pushed = FALSE,
                            !.key = Frame.key, !.alone = FALSE, !.told = 0]
<1>4. frames' = WithTop(g)  BY DEF EndEntry
<1>5. g \in FrameType /\ (TagFree(Top) => TagFree(g)) /\ g.slot # "closed"
  BY <1>3 DEF Frame, FrameType, FrameSlot, TagFree
<1> HIDE DEF g
<1>6. Len(frames') = Len(frames) /\ Len(frames) > 0  BY <1>3, <1>4, <1>5, StayExact
<1>7. AllFree' /\ Top'.slot # "closed" /\ frames' \in Seq(FrameType) /\ frames' # <<>>
  BY <1>3, <1>4, <1>5, <1>6, TopStays
<1>8. table' = table /\ decls' = decls /\ aliases' = aliases  BY DEF EndEntry
<1> QED  BY <1>1, <1>7, <1>8, SameNames

(* A call that returns. *)
LEMMA UnderIsFree ==
    ASSUME IInv, AInv, Closing
    PROVE  /\ Reading /\ Len(frames) > 1 /\ Top.slot # "closed" /\ nodes \in Nat
           /\ frames \in Seq(FrameType) /\ Under \in FrameType /\ Top \in FrameType
           /\ Top = frames[Len(frames)] /\ Under = frames[Len(frames)-1]
           /\ TagFree(Under) /\ \A i \in 1..Len(frames)-1 : TagFree(frames[i])
<1> PICK n \in Nat : n = Len(frames)  BY IInvShape
<1>1. Reading /\ n > 1 /\ Top.slot # "closed"  BY DEF Closing
<1>2. /\ frames \in Seq(FrameType) /\ Under \in FrameType /\ Under = frames[n-1] /\ nodes \in Nat
      /\ Top = frames[n] /\ Top \in FrameType
  BY <1>1, IInvShape DEF Shape
<1>3. \A i \in 1..n-1 : TagFree(frames[i])  BY <1>1, FreeBefore DEF TagsWait
<1>4. n-1 \in 1..n-1  BY <1>1
<1> QED  BY <1>1, <1>2, <1>3, <1>4

LEMMA ReturnFree ==
    ASSUME IInv, AInv, Closing, NEW u \in FrameType, u.kind = Under.kind, u.slot = Under.slot, NEW called,
           frames' = Returned(Read(Told(u, called), nodes))
    PROVE  /\ Top' \in FrameType /\ Top'.kind = Under.kind /\ Top'.decl = u.decl
           /\ Top'.slot # "closed" /\ (Under.slot = "node" => Top'.slot = "done")
           /\ frames' \in Seq(FrameType) /\ frames' # <<>>
           /\ \A i \in 1..Len(frames')-1 : TagFree(frames'[i])
           /\ TagFree(u) => AllFree'
<1> DEFINE g == Read(Told(u, called), nodes)
<1>1. /\ g \in FrameType /\ g.kind = u.kind /\ g.decl = u.decl /\ g.slot # "closed"
      /\ u.slot = "node" => g.slot = "done"
  BY UnderIsFree, ReadDecl
<1> HIDE DEF g
<1>2. frames' = Returned(g)  BY DEF g
<1>3. /\ Top' = g /\ Top'.slot # "closed" /\ frames' \in Seq(FrameType)
      /\ Len(frames') = Len(frames)-1
      /\ \A i \in 1..Len(frames')-1 : TagFree(frames'[i])
      /\ TagFree(g) => AllFree'
  BY <1>1, <1>2, UnderIsFree, TopReturned
<1>4. TagFree(u) => TagFree(g)  BY <1>1 DEF TagFree
<1>5. frames' # <<>>
  <2>1. Len(frames) > 1 /\ Len(frames) \in Nat  BY UnderIsFree
  <2> QED  BY <1>3, <2>1
<1> QED  BY <1>1, <1>3, <1>4, <1>5

(* What LeaveTop leaves of the frames; a tag learns of the anchor under it. *)
Learned == [Under EXCEPT !.decl = IF Under.kind = "tag" /\ Top.kind = "anchor" THEN Top.decl ELSE @]

LEMMA LeaveFree ==
    ASSUME IInv, AInv, Closing, NEW answer, LeaveTop(answer)
    PROVE  /\ Top' \in FrameType /\ Top'.kind = Under.kind
           /\ Top'.decl = IF Under.kind = "tag" /\ Top.kind = "anchor" THEN Top.decl ELSE Under.decl
           /\ Top'.slot # "closed" /\ (Under.slot = "node" => Top'.slot = "done")
           /\ frames' \in Seq(FrameType) /\ frames' # <<>>
           /\ \A i \in 1..Len(frames')-1 : TagFree(frames'[i])
           /\ (Under.kind # "tag" \/ Top.kind # "anchor") => AllFree'
<1> DEFINE left == Leave(walk, answer)
           called == (Under.slot = "key" /\ HandsKey(left)) /\ Calls(left)
           decl == IF Under.kind = "tag" /\ Top.kind = "anchor" THEN Top.decl ELSE Under.decl
           u == [Under EXCEPT !.decl = decl]
<1>1. frames' = Returned(Read(Told(u, called), nodes))  BY DEF LeaveTop
<1>2. /\ u \in FrameType /\ u.kind = Under.kind /\ u.slot = Under.slot /\ u.decl = decl
      /\ TagFree(Under)
  <2>1. Under \in FrameType /\ Top \in FrameType /\ TagFree(Under)  BY UnderIsFree
  <2>2. decl \in Nat  BY <2>1 DEF FrameType
  <2> HIDE DEF decl
  <2> QED  BY <2>1, <2>2 DEF FrameType
<1>3. (Under.kind # "tag" \/ Top.kind # "anchor") => TagFree(u)
  <2>1. decl \in Nat  BY UnderIsFree DEF FrameType
  <2> QED  BY <1>2, <2>1 DEF TagFree
<1> HIDE DEF u, called
<1> QED  BY <1>1, <1>2, <1>3, ReturnFree

LEMMA CloseNames ==
    ASSUME IInv, AInv, CloseCollection \/ CloseExplicitKey \/ (CloseTag /\ Top.decl = 0)
    PROVE  AInv'
<1>1. Closing /\ Top.kind # "anchor"
  BY DEF CloseCollection, CloseExplicitKey, CloseTag, IsCollection
<1>2. PICK answer : LeaveTop(answer)  BY DEF CloseCollection, CloseExplicitKey, CloseTag
<1>3. AllFree' /\ Top'.slot # "closed" /\ frames' \in Seq(FrameType) /\ frames' # <<>>
  BY <1>1, <1>2, LeaveFree
<1>4. table' = table /\ decls' = decls /\ aliases' = aliases
  BY DEF CloseCollection, CloseExplicitKey, CloseTag
<1>5. Reading /\ Top.slot # "closed"  BY <1>1, UnderIsFree
<1> QED  BY <1>3, <1>4, <1>5, SameNames

LEMMA CloseQuietNames ==
    ASSUME IInv, AInv, CloseQuiet
    PROVE  AInv'
<1>1. Closing  BY DEF CloseQuiet
<1> DEFINE called == Calls(Loud(walk)) /\ HandsKey(Loud(walk))
<1>2. frames' = Returned(Read(Told(Under, called), nodes))  BY DEF CloseQuiet
<1> HIDE DEF called
<1>3. Reading /\ Top.slot # "closed" /\ Under \in FrameType /\ TagFree(Under)
  BY <1>1, UnderIsFree
<1>4. AllFree' /\ Top'.slot # "closed" /\ frames' \in Seq(FrameType) /\ frames' # <<>>
  BY <1>1, <1>2, <1>3, ReturnFree
<1>5. table' = table /\ decls' = decls /\ aliases' = aliases  BY DEF CloseQuiet
<1> QED  BY <1>3, <1>4, <1>5, SameNames

LEMMA RefuseNames ==
    ASSUME AInv, Refuse \/ RefuseAnchorName
    PROVE  AInv'
BY DEF AInv, Refuse, RefuseAnchorName, TakesAnchor, Written, AtNode, Reading, Top

LEMMA UnwindNames ==
    ASSUME IInv, Unwind
    PROVE  AInv'
<1> PICK n \in Nat : n = Len(frames)  BY IInvShape
<1>1. n > 1 /\ frames' = Front(frames) /\ frames \in Seq(FrameType) /\ Waiting
  BY IInvShape DEF Unwind, Shape
<1>2. Len(frames') = n-1 /\ \A i \in 1..n-1 : frames'[i] = frames[i]  BY <1>1, FrontExact
<1>3. n-1 \in 1..n-1  BY <1>1
<1>4. Top' = frames[n-1]  BY <1>2, <1>3 DEF Top, Last
<1>5. Top'.slot # "closed"  BY <1>1, <1>3, <1>4 DEF Waiting, Waits
<1>6. ~Reading'  BY UnwindReturns
<1> QED  BY <1>5, <1>6 DEF AInv

(* A document, or a walk, is begun: nothing is named. *)
Unnamed ==
    /\ Len(frames) = 1 /\ DOMAIN frames = {1} /\ frames[1].kind = "document"
    /\ frames[1].slot = "node"
    /\ table = NewTable /\ decls = <<>> /\ aliases = <<>>

LEMMA UnnamedHolds == Unnamed => AInv
<1> SUFFICES ASSUME Unnamed PROVE AInv  OBVIOUS
<1>1. Top = frames[1] /\ Top.slot = "node"  BY DEF Unnamed, Top, Last
<1>2. TagFree(frames[1])  BY DEF Unnamed, TagFree
<1>3. TagsWait /\ TagTop  BY <1>1, <1>2 DEF Unnamed, TagsWait, TagTop
<1>4. /\ table.nodes = [n \in Name |-> Nothing] /\ table.open = <<>> /\ table.cyclic = <<>>
      /\ decls = <<>> /\ aliases = <<>>
  BY DEF Unnamed, NewTable
<1>5. Nothing \in TargetType /\ \A n \in Name : table.nodes[n].decl = 0
  BY <1>4 DEF Nothing, TargetType
<1>6. TableTyped
  <2>1. table.nodes \in [Name -> TargetType]  BY <1>4, <1>5
  <2> QED  BY <1>4, <2>1 DEF TableTyped
<1>7. DOMAIN table.open = {} /\ DOMAIN table.cyclic = {} /\ DOMAIN decls = {} /\ DOMAIN aliases = {}
  BY <1>4
<1>8. OpenNames /\ NodeNames /\ LatestNames /\ HeldAliases /\ PointedAliases
  BY <1>5, <1>7 DEF OpenNames, NodeNames, LatestNames, IsLatest, HeldAliases, PointedAliases
<1> QED  BY <1>1, <1>3, <1>6, <1>8 DEF AInv, TableHolds

LEMMA NextDocumentNames ==
    ASSUME AInv, NextDocument
    PROVE  Unnamed'
<1> DEFINE f == [Frame EXCEPT !.doc = Top.doc + 1, !.first = nodes]
<1>1. frames' = <<f>> /\ table' = table /\ decls' = <<>> /\ aliases' = <<>>  BY DEF NextDocument
<1>2. f.kind = "document" /\ f.slot = "node"  BY DEF Frame
<1> HIDE DEF f
<1>3. table = NewTable  BY DEF NextDocument, AInv, Cleared
<1> QED  BY <1>1, <1>2, <1>3 DEF Unnamed

LEMMA InitNames == Init => Unnamed
BY DEF Init, Unnamed, Frame

LEMMA NextWalkNames == NextWalk => Unnamed'
BY DEF NextWalk, Unnamed, Frame

LEMMA UnchangedNames == AInv /\ UNCHANGED vars => AInv'
BY DEF AInv, vars, Reading, Top, TagsWait, TagTop, TagFree, Waits, Cleared, AliasesResolve,
       TableHolds, TableTyped, OpenNames, NodeNames, LatestNames, HeldAliases, PointedAliases,
       IsOpen, OpenAs, IsHeld, Stands, Flat, IsLatest

-----------------------------------------------------------------------------
(* The end of a document. *)

PointedAt(i) ==
    IF Filled(table, i) = {} THEN aliases[i].target ELSE CHOOSE t \in Filled(table, i) : TRUE

LEMMA FilledIn ==
    ASSUME TableHolds, NEW i \in DOMAIN aliases
    PROVE  LET t == PointedAt(i)
           IN  /\ t.tagged \in BOOLEAN /\ Stands(t, aliases[i].name)
               /\ Flat(aliases[i].name) => t.decl = aliases[i].latest
<1> DEFINE t == PointedAt(i)
<1>1. TableTyped /\ aliases[i] \in AliasType  BY DEF TableHolds, TableTyped
<1>2. CASE Filled(table, i) = {}
  <2>1. t = aliases[i].target  BY <1>2 DEF PointedAt
  <2>2. ~IsHeld(i)
    <3> SUFFICES ASSUME NEW k \in DOMAIN table.cyclic, table.cyclic[k].alias = i PROVE FALSE
      BY DEF IsHeld
    <3>1. [decl |-> table.cyclic[k].decl, tagged |-> table.cyclic[k].tagged] \in Filled(table, i)
      BY DEF Filled
    <3> QED  BY <1>2, <3>1
  <2>3. Stands(t, aliases[i].name) /\ (Flat(aliases[i].name) => t.decl = aliases[i].latest)
    BY <2>1, <2>2 DEF TableHolds, PointedAliases
  <2>4. t.tagged \in BOOLEAN  BY <1>1, <2>1 DEF AliasType, TargetType
  <2> QED  BY <2>3, <2>4
<1>3. CASE Filled(table, i) # {}
  <2>1. t \in Filled(table, i)  BY <1>3 DEF PointedAt
  <2> HIDE DEF t
  <2>2. PICK k \in DOMAIN table.cyclic :
            /\ t = [decl |-> table.cyclic[k].decl, tagged |-> table.cyclic[k].tagged]
            /\ table.cyclic[k].alias = i
    BY <2>1 DEF Filled
  <2> PICK c : c = table.cyclic[k]  OBVIOUS
  <2>3. t.decl = c.decl /\ t.tagged = c.tagged /\ c.alias = i  BY <2>2
  <2>4. Stands(c, aliases[i].name) /\ (Flat(aliases[i].name) => c.decl = aliases[i].latest)
    BY <2>3 DEF TableHolds, HeldAliases
  <2>5. c \in HeldType  BY <1>1 DEF TableTyped
  <2>6. c.tagged \in BOOLEAN  BY <2>5 DEF HeldType
  <2>7. Stands(t, aliases[i].name)  BY <2>3, <2>4 DEF Stands
  <2> QED  BY <2>3, <2>4, <2>6, <2>7 DEF t
<1> QED  BY <1>2, <1>3

LEMMA EndDocumentNames ==
    ASSUME IInv, AInv, EndDocument
    PROVE  AInv'
<1>1. Reading /\ Top.slot = "done" /\ decls' = decls /\ table' = Take(table)  BY DEF EndDocument
<1>2. TableHolds /\ TableTyped /\ frames \in Seq(FrameType) /\ frames # <<>> /\ Top \in FrameType
  BY <1>1, FreeBefore DEF TableHolds
<1>3. decls \in Seq(DeclType) /\ TableOK(table)  BY IInvShape DEF Shape
<1>4. table' = NewTable
  <2>1. DOMAIN table = {"nodes", "open", "cyclic"}  BY <1>3 DEF TableOK
  <2> QED  BY <1>1, <2>1 DEF Take, NewTable
<1>5. Top'.slot = "closed"
  <2> DEFINE g == [Top EXCEPT !.slot = "closed"]
  <2>1. frames' = WithTop(g)  BY DEF EndDocument
  <2>2. g \in FrameType /\ g.slot = "closed"  BY <1>2 DEF FrameType, FrameSlot
  <2> HIDE DEF g
  <2>3. Len(frames') = Len(frames) /\ frames'[Len(frames)] = g  BY <1>2, <2>1, <2>2, StayExact
  <2> QED  BY <2>2, <2>3 DEF Top, Last
<1>6. AliasesResolve'
  <2>1. aliases' = [i \in DOMAIN aliases |-> [aliases[i] EXCEPT !.target = PointedAt(i)]]
    BY DEF EndDocument, PointedAt
  <2> SUFFICES ASSUME NEW i \in DOMAIN aliases'
               PROVE  LET a == aliases'[i] IN
                      /\ a.target.decl \in DOMAIN decls /\ decls[a.target.decl].name = a.name
                      /\ (\A j \in DOMAIN decls : decls[j].name = a.name => ~decls[j].nested)
                          => a.target.decl = a.latest
                      /\ a.target.tagged = decls[a.target.decl].tagged
    BY <1>1 DEF AliasesResolve
  <2>2. i \in DOMAIN aliases  BY <2>1
  <2> PICK t : t = PointedAt(i)  OBVIOUS
  <2> PICK a : a = aliases[i]  OBVIOUS
  <2>3. a \in AliasType  BY <1>2, <2>2 DEF TableTyped
  <2>4. aliases'[i] = [a EXCEPT !.target = t]  BY <2>1, <2>2
  <2>5. aliases'[i].target = t /\ aliases'[i].name = a.name /\ aliases'[i].latest = a.latest
    BY <2>3, <2>4 DEF AliasType
  <2>6. /\ t.tagged \in BOOLEAN /\ Stands(t, a.name) /\ (Flat(a.name) => t.decl = a.latest)
    BY <1>2, <2>2, FilledIn
  <2>7. decls[t.decl].tagged \in BOOLEAN
    <3>1. decls[t.decl] \in DeclType  BY <1>3, <2>6 DEF Stands
    <3> QED  BY <3>1 DEF DeclType
  <2> QED  BY <2>5, <2>6, <2>7 DEF Stands, Flat
<1> QED  BY <1>4, <1>5, <1>6 DEF AInv, Cleared

-----------------------------------------------------------------------------
(* An alias. *)

LEMMA OpenDeclIs ==
    ASSUME IInv, TableHolds, NEW name
    PROVE  IF OpenAs(name)
           THEN /\ OpenDecl(table, name) # 0
                /\ \E i \in DOMAIN table.open :
                       table.open[i].name = name /\ OpenDecl(table, name) = table.open[i].decl
           ELSE OpenDecl(table, name) = 0
<1> DEFINE at == {i \in DOMAIN table.open : table.open[i].name = name}
<1>1. table.open \in Seq(OpenType) /\ decls \in Seq(DeclType)  BY IInvShape DEF Shape, TableOK
<1>2. CASE at = {}  BY <1>2 DEF OpenDecl, OpenAs
<1>3. CASE at # {}
  <2>1. at \in SUBSET (1..Len(table.open)) /\ Len(table.open) \in Nat  BY <1>1
  <2>2. PICK m \in at : \A x \in at : m >= x  BY <1>3, <2>1, GreatestExists
  <2>3. \A x \in at : x <= m  BY <2>1, <2>2
  <2> DEFINE i == CHOOSE i \in at : \A j \in at : j <= i
  <2>4. i \in at  BY <2>2, <2>3
  <2>5. OpenDecl(table, name) = table.open[i].decl  BY <1>3 DEF OpenDecl
  <2> HIDE DEF i
  <2>6. i \in DOMAIN table.open /\ table.open[i].name = name  BY <2>4
  <2>7. table.open[i].decl \in DOMAIN decls  BY <2>6 DEF TableHolds, OpenNames
  <2>8. table.open[i].decl # 0  BY <1>1, <2>7
  <2> QED  BY <2>5, <2>6, <2>8 DEF OpenAs
<1> QED  BY <1>2, <1>3

LEMMA LatestIs ==
    ASSUME decls \in Seq(DeclType), NEW name
    PROVE  Latest(name) \in Nat /\ \A d : IsLatest(name, d) => d = Latest(name)
<1> DEFINE at == {i \in DOMAIN decls : decls[i].name = name}
<1>1. CASE at = {}  BY <1>1 DEF Latest, IsLatest
<1>2. CASE at # {}
  <2>1. at \in SUBSET (1..Len(decls)) /\ Len(decls) \in Nat  OBVIOUS
  <2>2. PICK m \in at : \A x \in at : m >= x  BY <1>2, <2>1, GreatestExists
  <2>3. \A x \in at : x <= m  BY <2>1, <2>2
  <2> DEFINE i == CHOOSE i \in at : \A j \in at : j <= i
  <2>4. i \in at /\ \A j \in at : j <= i  BY <2>2, <2>3
  <2>5. Latest(name) = i  BY <1>2 DEF Latest
  <2> HIDE DEF i
  <2>6. ASSUME NEW d, IsLatest(name, d) PROVE d = i
    <3>1. d \in at /\ \A j \in at : j <= d  BY <1>2, <2>6 DEF IsLatest
    <3>2. i <= d /\ d <= i /\ i \in Int /\ d \in Int  BY <2>1, <2>4, <3>1
    <3> QED  BY <3>2
  <2> QED  BY <2>1, <2>4, <2>5, <2>6
<1> QED  BY <1>1, <1>2

(* The alias that is added, after the others. *)
Points(a) ==
    /\ table'.cyclic = table.cyclic
    /\ Stands(a.target, a.name) /\ ~IsOpen(a.target.decl)
    /\ Flat(a.name) => a.target.decl = a.latest
Holds(a, c) ==
    /\ table'.cyclic = Append(table.cyclic, c) /\ c.alias = Len(aliases) + 1
    /\ Stands(c, a.name)
    /\ Flat(a.name) => c.decl = a.latest

LEMMA AddedNames ==
    ASSUME TableHolds, decls' = decls, NEW a \in AliasType, aliases' = Append(aliases, a),
           table'.nodes = table.nodes, table'.open = table.open,
           Points(a) \/ \E c \in HeldType : Holds(a, c)
    PROVE  TableHolds'
<1> PICK m \in Nat : m = Len(aliases)  BY DEF TableHolds, TableTyped
<1> PICK l \in Nat : l = Len(table.cyclic)  BY DEF TableHolds, TableTyped
<1>1. /\ aliases \in Seq(AliasType) /\ table.cyclic \in Seq(HeldType)
      /\ table.nodes \in [Name -> TargetType]
  BY DEF TableHolds, TableTyped
<1>2. /\ aliases' \in Seq(AliasType) /\ DOMAIN aliases = 1..m /\ DOMAIN aliases' = 1..m+1
      /\ aliases'[m+1] = a /\ \A j \in 1..m : aliases'[j] = aliases[j]
  BY <1>1
<1>3. /\ \A t, n : Stands(t, n)' <=> Stands(t, n)
      /\ \A n : Flat(n)' <=> Flat(n)
      /\ \A d : IsOpen(d)' <=> IsOpen(d)
  BY DEF Stands, Flat, IsOpen
<1>4. OpenNames' /\ NodeNames' /\ LatestNames'
  BY DEF TableHolds, OpenNames, NodeNames, LatestNames, IsOpen, OpenAs, Stands, Flat, IsLatest
<1>5. /\ table'.cyclic \in Seq(HeldType) /\ DOMAIN table.cyclic = 1..l
      /\ \A k \in 1..l : k \in DOMAIN table'.cyclic /\ table'.cyclic[k] = table.cyclic[k]
  <2> PICK cs \in Seq(HeldType) : cs = table.cyclic  BY <1>1
  <2> PICK ds : ds = table'.cyclic  OBVIOUS
  <2>1. ds = cs \/ \E c \in HeldType : ds = Append(cs, c)  BY DEF Points, Holds
  <2>2. Len(cs) = l  OBVIOUS
  <2>3. ds \in Seq(HeldType) /\ \A k \in 1..l : k \in DOMAIN ds /\ ds[k] = cs[k]
    <3>1. CASE ds = cs  BY <2>2, <3>1
    <3>2. ASSUME NEW c \in HeldType, ds = Append(cs, c)
          PROVE  ds \in Seq(HeldType) /\ \A k \in 1..l : k \in DOMAIN ds /\ ds[k] = cs[k]
      BY <2>2, <3>2
    <3> QED  BY <2>1, <3>1, <3>2
  <2> QED  BY <2>2, <2>3
<1>6. ASSUME NEW k \in DOMAIN table.cyclic
      PROVE  /\ table.cyclic[k].alias \in 1..m
             /\ Stands(table.cyclic[k], aliases[table.cyclic[k].alias].name)
             /\ Flat(aliases[table.cyclic[k].alias].name)
                    => table.cyclic[k].decl = aliases[table.cyclic[k].alias].latest
  <2>1. HeldAliases  BY DEF TableHolds
  <2>2. table.cyclic[k].alias \in DOMAIN aliases  BY <2>1 DEF HeldAliases
  <2> QED  BY <1>2, <2>1, <2>2 DEF HeldAliases
<1>7. HeldAliases'
  <2> SUFFICES ASSUME NEW k \in DOMAIN table'.cyclic
               PROVE  /\ table'.cyclic[k].alias \in 1..m+1
                      /\ Stands(table'.cyclic[k], aliases'[table'.cyclic[k].alias].name)
                      /\ Flat(aliases'[table'.cyclic[k].alias].name)
                           => table'.cyclic[k].decl = aliases'[table'.cyclic[k].alias].latest
    BY <1>2, <1>3 DEF HeldAliases
  <2>1. CASE k \in 1..l
    <3> PICK c : c = table.cyclic[k]  OBVIOUS
    <3>1. table'.cyclic[k] = c /\ k \in DOMAIN table.cyclic  BY <1>5, <2>1
    <3>2. c.alias \in 1..m  BY <1>6, <3>1
    <3>3. aliases'[c.alias] = aliases[c.alias] /\ c.alias \in 1..m+1  BY <1>2, <3>2
    <3> QED  BY <1>6, <3>1, <3>3
  <2>2. CASE ~(k \in 1..l)
    <3>1. ~Points(a)  BY <1>5, <2>2 DEF Points
    <3>2. PICK c \in HeldType : Holds(a, c)  BY <3>1
    <3>3. k = l+1 /\ table'.cyclic[k] = c  BY <1>1, <2>2, <3>2 DEF Holds
    <3>4. c.alias = m+1  BY <3>2 DEF Holds
    <3> QED  BY <1>2, <3>2, <3>3, <3>4 DEF Holds
  <2> QED  BY <2>1, <2>2
<1>8. PointedAliases'
  <2> SUFFICES ASSUME NEW j \in 1..m+1, ~IsHeld(j)'
               PROVE  /\ Stands(aliases'[j].target, aliases'[j].name)
                      /\ ~IsOpen(aliases'[j].target.decl)
                      /\ Flat(aliases'[j].name) => aliases'[j].target.decl = aliases'[j].latest
    BY <1>2, <1>3 DEF PointedAliases
  <2>1. CASE j \in 1..m
    <3>1. ~IsHeld(j)
      <4> SUFFICES ASSUME NEW k \in DOMAIN table.cyclic, table.cyclic[k].alias = j PROVE FALSE
        BY DEF IsHeld
      <4>1. k \in DOMAIN table'.cyclic /\ table'.cyclic[k] = table.cyclic[k]  BY <1>5
      <4> QED  BY <4>1 DEF IsHeld
    <3>2. j \in DOMAIN aliases /\ aliases'[j] = aliases[j]  BY <1>2, <2>1
    <3> QED  BY <3>1, <3>2 DEF TableHolds, PointedAliases
  <2>2. CASE j = m+1
    <3>1. aliases'[j] = a  BY <1>2, <2>2
    <3>2. Points(a)
      <4> SUFFICES ASSUME NEW c \in HeldType, Holds(a, c) PROVE FALSE  OBVIOUS
      <4>1. l+1 \in DOMAIN table'.cyclic /\ table'.cyclic[l+1] = c  BY <1>1 DEF Holds
      <4> QED  BY <2>2, <4>1 DEF IsHeld, Holds
    <3> QED  BY <3>1, <3>2 DEF Points
  <2> QED  BY <2>1, <2>2
<1> QED  BY <1>1, <1>2, <1>4, <1>5, <1>7, <1>8 DEF TableHolds, TableTyped

LEMMA AliasNames ==
    ASSUME IInv, AInv, NEW name \in Name, Alias(name)
    PROVE  AInv'
<1>1. Reading /\ Waits(Top) /\ Top.slot # "closed"  BY DEF Alias, Written, AtNode, Waits
<1>2. /\ AllFree /\ frames \in Seq(FrameType) /\ frames # <<>> /\ Top \in FrameType
      /\ TableHolds
  BY <1>1, FreeBefore
<1>3. nodes \in Nat /\ decls \in Seq(DeclType) /\ TableOK(table)  BY IInvShape DEF Shape
<1>4. frames' = WithTop(Read(Told(Top, Calls(walk) /\ HandsKey(walk)), nodes))  BY DEF Alias
<1>5. AllFree' /\ Top'.slot # "closed" /\ frames' \in Seq(FrameType) /\ frames' # <<>>
  BY <1>2, <1>3, <1>4, ReadFree
<1>6. TableTyped  BY <1>2 DEF TableHolds
<1> PICK m \in Nat : m = Len(aliases)  BY <1>6 DEF TableTyped
<1> PICK d : d = OpenDecl(table, name)  OBVIOUS
<1> PICK latest : latest = Latest(name)  OBVIOUS
<1>7. latest \in Nat /\ \A e : IsLatest(name, e) => e = latest  BY <1>3, LatestIs
<1> DEFINE a == [name |-> name, target |-> Target(table, name), latest |-> latest]
<1>8. aliases' = Append(aliases, a) /\ table' = HoldCyclic(table, name, m + 1) /\ decls' = decls
  BY DEF Alias
<1>9. table.nodes[name] \in TargetType /\ Nothing \in TargetType
  BY <1>6 DEF TableTyped, Nothing, TargetType
<1>10. a \in AliasType /\ a.name = name /\ a.target = Target(table, name) /\ a.latest = latest
  <2>1. Target(table, name) \in TargetType  BY <1>9 DEF Target
  <2> QED  BY <1>7, <2>1 DEF AliasType
<1> HIDE DEF a
<1>11. table'.nodes = table.nodes /\ table'.open = table.open
  BY <1>3, <1>8 DEF HoldCyclic, TableOK
<1>12. ASSUME d = 0 PROVE TableHolds'
  <2>1. table' = table /\ a.target = table.nodes[name]
    BY <1>8, <1>10, <1>12 DEF HoldCyclic, Target
  <2>2. table.nodes[name].decl # 0  BY <1>12 DEF Alias, Known
  <2>3. ~OpenAs(name)  BY <1>2, <1>12, OpenDeclIs
  <2>4. Stands(a.target, name) /\ ~IsOpen(a.target.decl)
    BY <1>2, <2>1, <2>2 DEF TableHolds, NodeNames
  <2>5. Flat(name) => a.target.decl = latest
    BY <1>2, <1>7, <2>1, <2>3 DEF TableHolds, LatestNames
  <2>6. Points(a)  BY <1>10, <2>1, <2>4, <2>5 DEF Points
  <2> QED  BY <1>2, <1>8, <1>10, <1>11, <2>6, AddedNames
<1>13. ASSUME d # 0 PROVE TableHolds'
  <2>1. PICK i \in DOMAIN table.open : table.open[i].name = name /\ d = table.open[i].decl
    BY <1>2, <1>13, OpenDeclIs
  <2> DEFINE c == [alias |-> m + 1, decl |-> d, tagged |-> FALSE]
  <2>2. d \in DOMAIN decls /\ decls[d].name = name /\ ~decls[d].tagged
    BY <1>2, <2>1 DEF TableHolds, OpenNames
  <2>3. c \in HeldType /\ c.alias = m+1 /\ c.decl = d /\ ~c.tagged
    BY <1>3, <2>2 DEF HeldType
  <2>4. table'.cyclic = Append(table.cyclic, c)
    BY <1>3, <1>8, <1>13 DEF HoldCyclic, TableOK
  <2> HIDE DEF c
  <2>5. Stands(c, name)  BY <2>2, <2>3 DEF Stands
  <2>6. Flat(name) => c.decl = latest
    BY <1>2, <1>7, <2>1, <2>3 DEF TableHolds, LatestNames
  <2>7. Holds(a, c)  BY <1>10, <2>3, <2>4, <2>5, <2>6 DEF Holds
  <2> QED  BY <1>2, <1>8, <1>10, <1>11, <2>3, <2>7, AddedNames
<1>14. TableHolds'  BY <1>12, <1>13
<1>15. (frames \in Seq(FrameType) /\ frames # <<>> /\ AllFree => TagsWait /\ TagTop)'
  BY FreeAfter, PTL
<1> QED  BY <1>5, <1>14, <1>15 DEF AInv

-----------------------------------------------------------------------------
(* An anchor is opened: the latest of its name. *)

LEMMA AppendExact ==
    ASSUME NEW S, NEW s \in Seq(S), NEW x \in S, NEW n \in Nat, n = Len(s)
    PROVE  LET r == Append(s, x)
           IN  /\ DOMAIN s = 1..n /\ DOMAIN r = 1..n+1 /\ r[n+1] = x
               /\ \A i \in 1..n : r[i] = s[i]
OBVIOUS

LEMMA OpenedNames ==
    ASSUME TableHolds, TableOK(table), decls \in Seq(DeclType), NEW name \in Name, NEW new \in DeclType,
           NEW d \in Nat, d = Len(decls) + 1,
           new.name = name, new.nested <=> OpenAs(name), ~new.tagged, decls' = Append(decls, new),
           table' = OpenName(table, name, d), aliases' = aliases
    PROVE  TableHolds'
<1> PICK l \in Nat : l = Len(table.open)  BY DEF TableOK
<1> DEFINE o == [name |-> name, decl |-> d]
<1>1. o \in OpenType /\ o.name = name /\ o.decl = d  BY DEF OpenType
<1>2. table'.open = Append(table.open, o) /\ table'.nodes = table.nodes /\ table'.cyclic = table.cyclic
  BY DEF OpenName, TableOK
<1> HIDE DEF o
<1>3. /\ DOMAIN table.open = 1..l /\ DOMAIN table'.open = 1..l+1 /\ table'.open[l+1] = o
      /\ \A i \in 1..l : table'.open[i] = table.open[i]
  <2> PICK os \in Seq(OpenType) : os = table.open  BY DEF TableOK
  <2> PICK ns : ns = table'.open  OBVIOUS
  <2>1. Len(os) = l /\ ns = Append(os, o)  BY <1>2
  <2>2. o \in OpenType /\ l = Len(os)  BY <1>1, <2>1
  <2> DEFINE r == Append(os, o)
  <2>3. /\ DOMAIN os = 1..l /\ DOMAIN r = 1..l+1 /\ r[l+1] = o
        /\ \A i \in 1..l : r[i] = os[i]
    BY <2>2, AppendExact
  <2>4. ns = r  BY <2>1
  <2> HIDE DEF r
  <2> QED  BY <2>3, <2>4
<1>4. /\ DOMAIN decls = 1..d-1 /\ DOMAIN decls' = 1..d /\ decls'[d] = new
      /\ \A i \in 1..d-1 : decls'[i] = decls[i]
  OBVIOUS
<1>5. \A i \in 1..d : i \in 1..d-1 \/ i = d  OBVIOUS
<1>6. \A i \in 1..l+1 : i \in 1..l \/ i = l+1  OBVIOUS
<1>7. \A i \in 1..d-1 : i # d /\ i \in 1..d /\ i < d  OBVIOUS
<1>8. \A t, n : Stands(t, n) => Stands(t, n)' /\ t.decl # d
  BY <1>4, <1>7 DEF Stands
<1>9. \A n : Flat(n)' => Flat(n)
  BY <1>4, <1>7 DEF Flat
<1>10. \A e : IsOpen(e)' => IsOpen(e) \/ e = d
  BY <1>1, <1>3, <1>6 DEF IsOpen
<1>11. TableTyped'  BY <1>2 DEF TableHolds, TableTyped
<1>12. ASSUME NEW i \in 1..l
       PROVE  /\ table.open[i].decl \in 1..d-1
              /\ decls[table.open[i].decl].name = table.open[i].name
              /\ ~decls[table.open[i].decl].tagged
  BY <1>3, <1>4 DEF TableHolds, OpenNames
<1>13. OpenNames'
  <2>1. ASSUME NEW i \in DOMAIN table'.open
        PROVE  /\ table'.open[i].decl \in 1..d
               /\ decls'[table'.open[i].decl].name = table'.open[i].name
               /\ ~decls'[table'.open[i].decl].tagged
    <3>1. CASE i \in 1..l
      <4> PICK e : e = table.open[i].decl  OBVIOUS
      <4>1. /\ e \in 1..d-1 /\ decls[e].name = table.open[i].name /\ ~decls[e].tagged
            /\ table'.open[i] = table.open[i]
        BY <1>3, <1>12, <3>1
      <4>2. e \in 1..d /\ decls'[e] = decls[e]  BY <1>4, <1>7, <4>1
      <4> QED  BY <4>1, <4>2
    <3>2. CASE i = l+1
      <4>1. d \in 1..d  OBVIOUS
      <4> QED  BY <1>1, <1>3, <1>4, <3>2, <4>1
    <3> QED  BY <1>3, <1>6, <3>1, <3>2
  <2>2. ASSUME NEW j \in DOMAIN table'.open, NEW i \in 1..j-1
        PROVE  table'.open[i].decl < table'.open[j].decl
    <3>1. CASE j \in 1..l
      <4>1. i \in 1..l  BY <3>1
      <4>2. table.open[i].decl < table.open[j].decl  BY <1>3, <3>1 DEF TableHolds, OpenNames
      <4> QED  BY <1>3, <3>1, <4>1, <4>2
    <3>2. CASE j = l+1
      <4>1. i \in 1..l  BY <3>2
      <4>2. table.open[i].decl < d  BY <1>7, <1>12, <4>1
      <4> QED  BY <1>1, <1>3, <3>2, <4>1, <4>2
    <3> QED  BY <1>3, <1>6, <3>1, <3>2
  <2> QED  BY <1>4, <2>1, <2>2 DEF OpenNames
<1>14. NodeNames'
  <2> SUFFICES ASSUME NEW n \in Name, NEW t, t = table.nodes[n], t.decl # 0
               PROVE  Stands(t, n)' /\ ~IsOpen(t.decl)'
    BY <1>2 DEF NodeNames, Stands, IsOpen
  <2>1. Stands(t, n) /\ ~IsOpen(t.decl)  BY DEF TableHolds, NodeNames
  <2> QED  BY <1>8, <1>10, <2>1
<1>15. LatestNames'
  <2>0. PICK places : places = 1..l+1  OBVIOUS
  <2>1. ASSUME NEW n \in Name, Flat(n)', NEW e,
               \/ \E i \in places : table'.open[i].name = n /\ e = table'.open[i].decl
               \/ ~OpenAs(n)' /\ e = table.nodes[n].decl
        PROVE  IsLatest(n, e)'
    <3>1. Flat(n)  BY <1>9, <2>1
    <3>2. CASE n = name
      <4>1. d \in 1..d  OBVIOUS
      <4>2. ~OpenAs(name)  BY <2>1, <1>4, <3>2, <4>1 DEF Flat
      <4>3. OpenAs(n)'
        <5>1. l+1 \in 1..l+1  OBVIOUS
        <5> QED  BY <1>1, <1>3, <3>2, <5>1 DEF OpenAs
      <4>4. ASSUME NEW i \in 1..l+1, table'.open[i].name = n PROVE table'.open[i].decl = d
        <5>1. ~(i \in 1..l)  BY <1>3, <3>2, <4>2, <4>4 DEF OpenAs
        <5>2. i = l+1  BY <1>6, <5>1
        <5> QED  BY <1>1, <1>3, <5>2
      <4>5. \A j \in DOMAIN decls' : j <= d  BY <1>4
      <4>6. e = d  BY <2>0, <2>1, <4>3, <4>4
      <4> QED  BY <1>4, <3>2, <4>1, <4>5, <4>6 DEF IsLatest
    <3>3. CASE n # name
      <4>1. \A j \in 1..d : decls'[j].name = n => j \in 1..d-1 /\ decls[j].name = n
        BY <1>4, <1>5, <3>3
      <4>2. IsLatest(n, e) => IsLatest(n, e)'
        <5> SUFFICES ASSUME IsLatest(n, e) PROVE IsLatest(n, e)'  OBVIOUS
        <5>1. CASE \E j \in 1..d-1 : decls[j].name = n
          <6>1. /\ e \in 1..d-1 /\ decls[e].name = n
                /\ \A j \in 1..d-1 : decls[j].name = n => j <= e
            BY <1>4, <5>1 DEF IsLatest
          <6>2. e \in 1..d /\ decls'[e].name = n  BY <1>4, <1>7, <6>1
          <6>3. \A j \in 1..d : decls'[j].name = n => j <= e  BY <4>1, <6>1
          <6> QED  BY <1>4, <6>2, <6>3 DEF IsLatest
        <5>2. CASE ~ \E j \in 1..d-1 : decls[j].name = n
          <6>1. e = 0  BY <1>4, <5>2 DEF IsLatest
          <6>2. ~ \E j \in 1..d : decls'[j].name = n  BY <4>1, <5>2
          <6> QED  BY <1>4, <6>1, <6>2 DEF IsLatest
        <5> QED  BY <5>1, <5>2
      <4>3. \A i \in 1..l+1 : table'.open[i].name = n => i \in 1..l /\ table'.open[i] = table.open[i]
        BY <1>1, <1>3, <1>6, <3>3
      <4>4. \A i \in 1..l : table.open[i].name = n => IsLatest(n, table.open[i].decl)
        BY <1>3, <3>1 DEF TableHolds, LatestNames
      <4>5. OpenAs(n) => OpenAs(n)'
        <5>1. \A i \in 1..l : i \in 1..l+1  OBVIOUS
        <5> QED  BY <1>3, <5>1 DEF OpenAs
      <4>6. ~OpenAs(n)' => IsLatest(n, table.nodes[n].decl)
        BY <3>1, <4>5 DEF TableHolds, LatestNames
      <4> QED  BY <2>0, <2>1, <4>2, <4>3, <4>4, <4>6
    <3> QED  BY <3>2, <3>3
  <2>2. DOMAIN table'.open = places /\ table'.nodes = table.nodes  BY <1>2, <1>3, <2>0
  <2>3. \A n \in Name : Flat(n)' =>
           \A i \in places : table'.open[i].name = n =>
               \A e : e = table'.open[i].decl => IsLatest(n, e)'
    BY <2>1
  <2>4. \A n \in Name : Flat(n)' /\ ~OpenAs(n)' =>
           \A e : e = table'.nodes[n].decl => IsLatest(n, e)'
    BY <2>1, <2>2
  <2> QED  BY <2>2, <2>3, <2>4, LatestAfter
<1>16. HeldAliases'
  <2> SUFFICES ASSUME NEW k \in DOMAIN table.cyclic, NEW c, NEW a,
                      c = table.cyclic[k], a = aliases[c.alias]
               PROVE  /\ c.alias \in DOMAIN aliases /\ Stands(c, a.name)'
                      /\ Flat(a.name)' => c.decl = a.latest
    BY <1>2, HeldAfter
  <2>1. /\ c.alias \in DOMAIN aliases /\ Stands(c, a.name)
        /\ Flat(a.name) => c.decl = a.latest
    BY DEF TableHolds, HeldAliases
  <2> QED  BY <1>8, <1>9, <2>1
<1>17. PointedAliases'
  <2> SUFFICES ASSUME NEW j \in DOMAIN aliases, ~IsHeld(j), NEW a, a = aliases[j]
               PROVE  /\ Stands(a.target, a.name)' /\ ~IsOpen(a.target.decl)'
                      /\ Flat(a.name)' => a.target.decl = a.latest
    <3>1. \A i : IsHeld(i)' <=> IsHeld(i)  BY <1>2 DEF IsHeld
    <3> QED  BY <1>2, <3>1, PointedAfter
  <2>1. /\ Stands(a.target, a.name) /\ ~IsOpen(a.target.decl)
        /\ Flat(a.name) => a.target.decl = a.latest
    BY DEF TableHolds, PointedAliases
  <2> QED  BY <1>8, <1>9, <1>10, <2>1
<1> QED  BY <1>11, <1>13, <1>14, <1>15, <1>16, <1>17 DEF TableHolds

LEMMA OpenAnchorNames ==
    ASSUME IInv, AInv, NEW name \in Name, OpenAnchor(name)
    PROVE  AInv'
<1>1. Reading /\ Waits(Top) /\ Top.slot # "closed"  BY DEF OpenAnchor, TakesAnchor, Written, AtNode, Waits
<1>2. /\ AllFree /\ frames \in Seq(FrameType) /\ frames # <<>> /\ Top \in FrameType
      /\ TableHolds
  BY <1>1, FreeBefore
<1>3. nodes \in Nat /\ decls \in Seq(DeclType) /\ TableOK(table)  BY IInvShape DEF Shape
<1> DEFINE nested == \E i \in DOMAIN table.open : table.open[i].name = name
           new == [name |-> name, nested |-> nested, tagged |-> FALSE, from |-> nodes, to |-> nodes]
           d == Len(decls) + 1
           f == [Frame EXCEPT !.kind = "anchor", !.decl = d, !.inKey = CountsKey]
<1>4. Call(f, "anchor", FALSE, 1) /\ decls' = Append(decls, new)
      /\ table' = OpenName(table, name, d) /\ aliases' = aliases
  BY DEF OpenAnchor
<1>5. new \in DeclType /\ new.name = name /\ (new.nested <=> OpenAs(name)) /\ ~new.tagged
  <2>1. nested \in BOOLEAN /\ (nested <=> OpenAs(name))  BY DEF OpenAs
  <2> HIDE DEF nested
  <2> QED  BY <1>3, <2>1 DEF DeclType
<1>6. d \in Nat /\ d = Len(decls) + 1  BY <1>3
<1> HIDE DEF d, new
<1>7. TableHolds'  BY <1>2, <1>3, <1>4, <1>5, <1>6, OpenedNames
<1>8. f \in FrameType /\ TagFree(f) /\ f.slot # "closed"
  <2>1. CountsKey \in BOOLEAN  BY DEF CountsKey, AtKey
  <2> QED  BY <1>6, <2>1 DEF Frame, FrameType, FrameKind, FrameSlot, TagFree
<1> HIDE DEF f
<1>9. AllFree' /\ Top'.slot # "closed" /\ frames' \in Seq(FrameType) /\ frames' # <<>>
  BY <1>1, <1>2, <1>3, <1>4, <1>8, CallFree
<1>10. (frames \in Seq(FrameType) /\ frames # <<>> /\ AllFree => TagsWait /\ TagTop)'
  BY FreeAfter, PTL
<1> QED  BY <1>7, <1>9, <1>10 DEF AInv

-----------------------------------------------------------------------------
(* The innermost anchor is closed: its name stands for it. *)

LEMMA FrontOf ==
    ASSUME NEW S, NEW s \in Seq(S), NEW n \in Nat, n = Len(s), n > 0
    PROVE  /\ DOMAIN s = 1..n /\ DOMAIN Front(s) = 1..n-1
           /\ \A i \in 1..n-1 : Front(s)[i] = s[i]
BY DEF Front

(* What the table knows of a declaration does not change with its last node. *)
LEMMA EndedDecl ==
    ASSUME NEW ds \in Seq(DeclType), NEW d \in DOMAIN ds, NEW n \in Nat
    PROVE  LET es == [ds EXCEPT ![d].to = n]
           IN  /\ DOMAIN es = DOMAIN ds
               /\ \A i \in DOMAIN ds : /\ es[i].name = ds[i].name
                                       /\ es[i].nested <=> ds[i].nested
                                       /\ es[i].tagged <=> ds[i].tagged
<1> DEFINE e == [ds[d] EXCEPT !.to = n]
<1>1. ds[d] \in DeclType  OBVIOUS
<1>2. e.name = ds[d].name /\ e.nested = ds[d].nested /\ e.tagged = ds[d].tagged
  BY <1>1 DEF DeclType
<1>3. [ds EXCEPT ![d].to = n] = [ds EXCEPT ![d] = e]  OBVIOUS
<1> HIDE DEF e
<1> QED  BY <1>2, <1>3

LEMMA LastOrBefore ==
    ASSUME NEW l \in Nat
    PROVE  \A i \in 1..l : i \in 1..l-1 \/ i = l
OBVIOUS

LEMMA ClosedNames ==
    ASSUME TableHolds, TableOK(table), decls \in Seq(DeclType), nodes \in Nat,
           NEW l \in Nat, l = Len(table.open), l > 0,
           NEW d, d = table.open[l].decl, NEW name, name = table.open[l].name,
           table' = Keep(table, name, d), decls' = [decls EXCEPT ![d].to = nodes],
           aliases' = aliases
    PROVE  /\ TableHolds' /\ d \in DOMAIN decls' /\ IsOpen(d)
           /\ \A e : IsOpen(e)' => IsOpen(e) /\ e # d
<1> DEFINE t == [decl |-> d, tagged |-> FALSE]
<1>1. DOMAIN table.open = 1..l /\ l \in 1..l /\ table.open[l] \in OpenType
  BY DEF TableOK
<1>2. d \in DOMAIN decls /\ decls[d].name = name /\ ~decls[d].tagged /\ name \in Name /\ d \in Nat
  <2>1. d \in DOMAIN decls /\ decls[d].name = name /\ ~decls[d].tagged
    BY <1>1 DEF TableHolds, OpenNames
  <2> QED  BY <1>1, <2>1 DEF OpenType
<1>3. /\ table'.open = Front(table.open) /\ table'.nodes = [table.nodes EXCEPT ![name] = t]
      /\ table'.cyclic = table.cyclic
  <2>1. DropName(table).open = Front(table.open)  BY DropNameOK
  <2>2. DropName(table).nodes = table.nodes /\ DropName(table).cyclic = table.cyclic
        /\ DOMAIN DropName(table) = {"nodes", "open", "cyclic"}
    BY DEF DropName, TableOK
  <2> QED  BY <2>1, <2>2 DEF Keep
<1>4. t \in TargetType /\ t.decl = d /\ ~t.tagged  BY <1>2 DEF TargetType
<1> HIDE DEF t
<1>5. /\ DOMAIN table'.open = 1..l-1
      /\ \A i \in 1..l-1 : table'.open[i] = table.open[i] /\ i \in 1..l
  <2> PICK os \in Seq(OpenType) : os = table.open  BY DEF TableOK
  <2>1. DOMAIN Front(os) = 1..l-1 /\ \A i \in 1..l-1 : Front(os)[i] = os[i]  BY FrontOf
  <2>2. \A i \in 1..l-1 : i \in 1..l  OBVIOUS
  <2> QED  BY <1>3, <2>1, <2>2
<1>6. /\ DOMAIN decls' = DOMAIN decls
      /\ \A i \in DOMAIN decls : /\ decls'[i].name = decls[i].name
                                 /\ decls'[i].nested <=> decls[i].nested
                                 /\ decls'[i].tagged <=> decls[i].tagged
  BY <1>2, EndedDecl
<1>7. /\ \A u, n : Stands(u, n) => Stands(u, n)'
      /\ \A n : Flat(n)' => Flat(n)
      /\ \A n, e : IsLatest(n, e) => IsLatest(n, e)'
  <2>1. \A u, n : Stands(u, n) => Stands(u, n)'  BY <1>6 DEF Stands
  <2>2. \A n : Flat(n)' => Flat(n)  BY <1>6 DEF Flat
  <2>3. \A n, e : IsLatest(n, e) => IsLatest(n, e)'  BY <1>6 DEF IsLatest
  <2> QED  BY <2>1, <2>2, <2>3
<1>8. \A e : IsOpen(e)' => IsOpen(e)  BY <1>1, <1>5 DEF IsOpen
<1>9. ~IsOpen(d)' /\ IsOpen(d)
  <2>1. ASSUME NEW i \in 1..l-1 PROVE table'.open[i].decl # d
    <3>1. table.open[i].decl < table.open[l].decl  BY <1>1 DEF TableHolds, OpenNames
    <3>2. table.open[i].decl \in DOMAIN decls  BY <1>1, <1>5 DEF TableHolds, OpenNames
    <3> QED  BY <1>2, <1>5, <3>1, <3>2
  <2> QED  BY <1>1, <1>5, <2>1 DEF IsOpen
<1>10. table.nodes \in [Name -> TargetType] /\ table'.nodes[name] = t
       /\ \A n \in Name : n # name => table'.nodes[n] = table.nodes[n]
  BY <1>2, <1>3 DEF TableHolds, TableTyped
<1>11. TableTyped'  BY <1>3, <1>4 DEF TableHolds, TableTyped
<1>12. OpenNames'
  <2>1. ASSUME NEW i \in 1..l-1
        PROVE  /\ table'.open[i].decl \in DOMAIN decls'
               /\ decls'[table'.open[i].decl].name = table'.open[i].name
               /\ ~decls'[table'.open[i].decl].tagged
    <3> PICK o : o = table.open[i]  OBVIOUS
    <3>1. o.decl \in DOMAIN decls /\ decls[o.decl].name = o.name /\ ~decls[o.decl].tagged
      BY <1>1, <1>5 DEF TableHolds, OpenNames
    <3>2. table'.open[i] = o  BY <1>5
    <3> PICK e : e = o.decl  OBVIOUS
    <3>3. e \in DOMAIN decls' /\ decls'[e].name = o.name /\ ~decls'[e].tagged
      BY <1>6, <3>1
    <3> QED  BY <3>2, <3>3
  <2>2. ASSUME NEW j \in 1..l-1, NEW i \in 1..j-1
        PROVE  table'.open[i].decl < table'.open[j].decl
    <3>1. i \in 1..l-1 /\ j \in 1..l  OBVIOUS
    <3>2. table.open[i].decl < table.open[j].decl  BY <1>1, <3>1 DEF TableHolds, OpenNames
    <3> QED  BY <1>5, <3>1, <3>2
  <2> QED  BY <1>5, <2>1, <2>2 DEF OpenNames
<1>13. NodeNames'
  <2> SUFFICES ASSUME NEW n \in Name, table'.nodes[n].decl # 0
               PROVE  Stands(table.nodes[n], n)' /\ ~IsOpen(table.nodes[n].decl)'
    BY DEF NodeNames
  <2> PICK u : u = table'.nodes[n]  OBVIOUS
  <2> SUFFICES Stands(u, n)' /\ ~IsOpen(u.decl)'  BY DEF Stands, IsOpen
  <2>1. CASE n = name
    <3>1. u = t  BY <1>10, <2>1
    <3>2. Stands(u, n)  BY <1>2, <1>4, <2>1, <3>1 DEF Stands
    <3> QED  BY <1>4, <1>7, <1>9, <3>1, <3>2
  <2>2. CASE n # name
    <3>1. u = table.nodes[n]  BY <1>10, <2>2
    <3>2. Stands(u, n) /\ ~IsOpen(u.decl)  BY <3>1 DEF TableHolds, NodeNames
    <3> QED  BY <1>7, <1>8, <3>2
  <2> QED  BY <2>1, <2>2
<1>14. LatestNames'
  <2>0. PICK places : places = 1..l-1  OBVIOUS
  <2>1. DOMAIN table'.open = places  BY <1>5, <2>0
  <2>2. \A n \in Name : Flat(n)' =>
           \A i \in places : table'.open[i].name = n =>
               \A e : e = table'.open[i].decl => IsLatest(n, e)'
    <3> SUFFICES ASSUME NEW n \in Name, Flat(n)', NEW i \in places, table'.open[i].name = n,
                        NEW e, e = table'.open[i].decl
                 PROVE  IsLatest(n, e)'
      OBVIOUS
    <3>1. Flat(n) /\ i \in 1..l /\ table'.open[i] = table.open[i]  BY <1>5, <1>7, <2>0
    <3>2. IsLatest(n, e)  BY <1>1, <3>1 DEF TableHolds, LatestNames
    <3> QED  BY <1>7, <3>2
  <2>3. \A n \in Name : Flat(n)' /\ ~OpenAs(n)' =>
           \A e : e = table'.nodes[n].decl => IsLatest(n, e)'
    <3> SUFFICES ASSUME NEW n \in Name, Flat(n)', ~OpenAs(n)', NEW e, e = table'.nodes[n].decl
                 PROVE  IsLatest(n, e)'
      OBVIOUS
    <3>1. Flat(n)  BY <1>7
    <3>2. CASE n = name
      <4>1. \A i \in 1..l : table.open[i].name = n => IsLatest(n, table.open[i].decl)
        BY <1>1, <3>1 DEF TableHolds, LatestNames
      <4>2. e = table.open[l].decl /\ table.open[l].name = n  BY <1>4, <1>10, <3>2
      <4>3. IsLatest(n, e)  BY <1>1, <4>1, <4>2
      <4> QED  BY <1>7, <4>3
    <3>3. CASE n # name
      <4>1. \A i \in 1..l : i \in 1..l-1 \/ i = l  BY LastOrBefore
      <4>2. ~OpenAs(n)  BY <1>1, <1>5, <3>3, <4>1 DEF OpenAs
      <4>3. IsLatest(n, e)  BY <1>10, <3>1, <3>3, <4>2 DEF TableHolds, LatestNames
      <4> QED  BY <1>7, <4>3
    <3> QED  BY <3>2, <3>3
  <2> QED  BY <2>1, <2>2, <2>3, LatestAfter
<1>15. HeldAliases'
  <2> SUFFICES ASSUME NEW k \in DOMAIN table.cyclic, NEW c, NEW a,
                      c = table.cyclic[k], a = aliases[c.alias]
               PROVE  /\ c.alias \in DOMAIN aliases /\ Stands(c, a.name)'
                      /\ Flat(a.name)' => c.decl = a.latest
    BY <1>3, HeldAfter
  <2>1. /\ c.alias \in DOMAIN aliases /\ Stands(c, a.name)
        /\ Flat(a.name) => c.decl = a.latest
    BY DEF TableHolds, HeldAliases
  <2> QED  BY <1>7, <2>1
<1>16. PointedAliases'
  <2> SUFFICES ASSUME NEW j \in DOMAIN aliases, ~IsHeld(j), NEW a, a = aliases[j]
               PROVE  /\ Stands(a.target, a.name)' /\ ~IsOpen(a.target.decl)'
                      /\ Flat(a.name)' => a.target.decl = a.latest
    <3>1. \A i : IsHeld(i)' <=> IsHeld(i)  BY <1>3 DEF IsHeld
    <3> QED  BY <1>3, <3>1, PointedAfter
  <2>1. /\ Stands(a.target, a.name) /\ ~IsOpen(a.target.decl)
        /\ Flat(a.name) => a.target.decl = a.latest
    BY DEF TableHolds, PointedAliases
  <2> QED  BY <1>7, <1>8, <2>1
<1> QED  BY <1>2, <1>6, <1>8, <1>9, <1>11, <1>12, <1>13, <1>14, <1>15, <1>16 DEF TableHolds

(* The anchor being closed is the last of the open ones. *)
LEMMA TopIsLastOpen ==
    ASSUME IInv, AInv, Closing, Top.kind = "anchor"
    PROVE  /\ Len(table.open) > 0 /\ table.open[Len(table.open)].decl = Top.decl
           /\ table.open[Len(table.open)].name = decls[Top.decl].name
<1> PICK n \in Nat : n = Len(frames)  BY IInvShape
<1> PICK l \in Nat : l = Len(table.open)  BY IInvShape DEF Shape, TableOK
<1>1. n > 1 /\ Top = frames[n] /\ Reading /\ Top.slot # "closed" /\ frames \in Seq(FrameType)
  BY UnderIsFree
<1>2. OpenMatches  BY <1>1, IInvShape DEF Levels, CountsMatch, Reading
<1>3. n \in Anchors  BY <1>1 DEF Anchors
<1>4. \A j \in Anchors : j <= n  BY <1>1 DEF Anchors
<1>5. Place(n, Anchors) = Cardinality(Anchors)
  <2>1. {j \in Anchors : j <= n} = Anchors  BY <1>4
  <2> QED  BY <2>1 DEF Place
<1>6. Place(n, Anchors) \in 1..Cardinality(Anchors)
  <2>1. Anchors \in SUBSET (1..n)  BY <1>1 DEF Anchors
  <2> QED  BY <1>3, <2>1, PlaceBounds
<1>7. Len(table.open) = Cardinality(Anchors) /\ table.open[l].decl = Top.decl
  BY <1>1, <1>2, <1>3, <1>5 DEF OpenMatches
<1>8. l > 0  BY <1>6, <1>7
<1>9. DOMAIN table.open = 1..l  BY IInvShape DEF Shape, TableOK
<1>10. TableHolds  BY <1>1, FreeBefore
<1>11. table.open[l].name = decls[Top.decl].name  BY <1>7, <1>8, <1>9, <1>10 DEF TableHolds, OpenNames
<1> QED  BY <1>7, <1>8, <1>11

LEMMA CloseAnchorNames ==
    ASSUME IInv, CInv, AInv, CloseAnchor
    PROVE  AInv'
<1>1. Closing /\ Top.kind = "anchor"  BY DEF CloseAnchor
<1>2. Reading /\ Top.slot # "closed" /\ TableHolds /\ Len(frames) > 1  BY <1>1, UnderIsFree, FreeBefore
<1>3. decls \in Seq(DeclType) /\ TableOK(table) /\ nodes \in Nat  BY IInvShape DEF Shape
<1> PICK l \in Nat : l = Len(table.open)  BY <1>3 DEF TableOK
<1> PICK d : d = Top.decl  OBVIOUS
<1> PICK name : name = decls[d].name  OBVIOUS
<1>4. l > 0 /\ d = table.open[l].decl /\ name = table.open[l].name  BY <1>1, TopIsLastOpen
<1>5. /\ table' = Keep(table, name, d) /\ decls' = [decls EXCEPT ![d].to = nodes]
      /\ aliases' = aliases
  BY DEF CloseAnchor
<1>6. /\ TableHolds' /\ d \in DOMAIN decls' /\ IsOpen(d)
      /\ \A e : IsOpen(e)' => IsOpen(e) /\ e # d
  BY <1>2, <1>3, <1>4, <1>5, ClosedNames
<1>7. PICK answer : LeaveTop(answer)  BY DEF CloseAnchor
<1>8. /\ Top'.decl = IF Under.kind = "tag" /\ Top.kind = "anchor" THEN Top.decl ELSE Under.decl
      /\ Top'.slot # "closed" /\ (Under.slot = "node" => Top'.slot = "done")
      /\ frames' \in Seq(FrameType) /\ frames' # <<>>
      /\ \A i \in 1..Len(frames')-1 : TagFree(frames'[i])
      /\ (Under.kind # "tag" \/ Top.kind # "anchor") => AllFree'
  BY <1>1, <1>7, LeaveFree
<1>9. TagsWait' /\ TagTop'
  <2>1. CASE Under.kind # "tag"
    <3>1. (frames \in Seq(FrameType) /\ frames # <<>> /\ AllFree => TagsWait /\ TagTop)'
      BY FreeAfter, PTL
    <3> QED  BY <1>8, <2>1, <3>1
  <2>2. CASE Under.kind = "tag"
    <3>1. Under.slot = "node"
      <4>1. Waits(Under)
        <5> PICK n \in Nat : n = Len(frames)  BY IInvShape
        <5>1. n-1 \in 1..n-1 /\ Under = frames[n-1]  BY <1>2, IInvShape
        <5> QED  BY <5>1, IInvShape DEF Waiting
      <4>2. ~IsCollection(Under)  BY <2>2 DEF IsCollection
      <4>3. Numbered(Under, nodes)  BY <1>2, Around
      <4> QED  BY <4>1, <4>2, <4>3 DEF Waits, Numbered, InEntry
    <3>2. Top'.slot = "done" /\ Top'.decl = d  BY <1>1, <1>8, <2>2, <3>1
    <3>3. TagsWait'  BY <1>8, <3>2 DEF TagsWait, Waits
    <3>4. ASSUME NEW j \in DOMAIN aliases, ~IsHeld(j) PROVE aliases[j].target.decl # d
      BY <1>2, <1>6, <3>4 DEF TableHolds, PointedAliases
    <3>5. \A j : IsHeld(j)' <=> IsHeld(j)
      <4>1. table'.cyclic = table.cyclic
        <5>1. DropName(table).cyclic = table.cyclic /\ DOMAIN DropName(table) = {"nodes", "open", "cyclic"}
          BY <1>3 DEF DropName, TableOK
        <5> QED  BY <1>5, <5>1 DEF Keep
      <4> QED  BY <4>1 DEF IsHeld
    <3>6. ~IsOpen(d)'  BY <1>6
    <3>7. TagTop'  BY <1>5, <1>6, <3>2, <3>4, <3>5, <3>6 DEF TagTop, IsOpen
    <3> QED  BY <3>3, <3>7
  <2> QED  BY <2>1, <2>2
<1> QED  BY <1>6, <1>8, <1>9 DEF AInv

-----------------------------------------------------------------------------
(* A tag is closed: what names the anchor under it is the tagged node. *)

LEMMA TaggedDecl ==
    ASSUME NEW ds \in Seq(DeclType), NEW d \in DOMAIN ds
    PROVE  LET es == [ds EXCEPT ![d].tagged = TRUE]
           IN  /\ DOMAIN es = DOMAIN ds
               /\ \A i \in DOMAIN ds : /\ es[i].name = ds[i].name
                                       /\ es[i].nested <=> ds[i].nested
                                       /\ es[i].tagged <=> ds[i].tagged \/ i = d
<1> DEFINE e == [ds[d] EXCEPT !.tagged = TRUE]
<1>1. ds[d] \in DeclType  OBVIOUS
<1>2. e.name = ds[d].name /\ (e.nested <=> ds[d].nested) /\ e.tagged
  BY <1>1 DEF DeclType
<1>3. [ds EXCEPT ![d].tagged = TRUE] = [ds EXCEPT ![d] = e]  OBVIOUS
<1> HIDE DEF e
<1> QED  BY <1>2, <1>3

LEMMA RetagParts ==
    ASSUME TableOK(table), TableTyped, NEW name \in Name, NEW d \in Nat
    PROVE  LET t == Retag(table, name, d)
           IN  /\ t.open = table.open
               /\ t.nodes \in [Name -> TargetType]
               /\ \A n \in Name : /\ t.nodes[n].decl = table.nodes[n].decl
                                  /\ n # name => t.nodes[n] = table.nodes[n]
               /\ t.nodes[name].tagged <=> table.nodes[name].tagged \/ table.nodes[name].decl = d
               /\ t.cyclic \in Seq(HeldType) /\ DOMAIN t.cyclic = DOMAIN table.cyclic
               /\ \A k \in DOMAIN table.cyclic :
                      /\ t.cyclic[k].alias = table.cyclic[k].alias
                      /\ t.cyclic[k].decl = table.cyclic[k].decl
                      /\ t.cyclic[k].tagged <=> table.cyclic[k].tagged \/ table.cyclic[k].decl = d
<1> DEFINE t == Retag(table, name, d)
           tagged == table.nodes[name].tagged \/ table.nodes[name].decl = d
           u == [table.nodes[name] EXCEPT !.tagged = tagged]
           Now(k) == table.cyclic[k].tagged \/ table.cyclic[k].decl = d
           v(k) == [table.cyclic[k] EXCEPT !.tagged = Now(k)]
<1>1. /\ t.open = table.open /\ t.nodes = [table.nodes EXCEPT ![name] = u]
      /\ t.cyclic = [k \in DOMAIN table.cyclic |-> v(k)]
  <2>1. t.open = table.open  BY DEF Retag, TableOK
  <2>2. t.nodes = [table.nodes EXCEPT ![name] = u]  BY DEF Retag, TableOK
  <2>3. t.cyclic = [k \in DOMAIN table.cyclic |-> v(k)]  BY DEF Retag, TableOK
  <2> QED  BY <2>1, <2>2, <2>3
<1>2. /\ u \in TargetType /\ u.decl = table.nodes[name].decl
      /\ u.tagged <=> table.nodes[name].tagged \/ table.nodes[name].decl = d
  <2>1. table.nodes[name] \in TargetType  BY DEF TableTyped
  <2>2. tagged \in BOOLEAN  BY <2>1 DEF TargetType
  <2> HIDE DEF tagged
  <2>3. u \in TargetType /\ u.decl = table.nodes[name].decl /\ (u.tagged <=> tagged)
    BY <2>1, <2>2 DEF TargetType
  <2> HIDE DEF u
  <2> QED  BY <2>3 DEF tagged
<1>3. ASSUME NEW k \in DOMAIN table.cyclic
      PROVE  /\ v(k) \in HeldType /\ v(k).alias = table.cyclic[k].alias
             /\ v(k).decl = table.cyclic[k].decl
             /\ v(k).tagged <=> table.cyclic[k].tagged \/ table.cyclic[k].decl = d
  <2> PICK c : c = table.cyclic[k]  OBVIOUS
  <2>1. c \in HeldType  BY DEF TableTyped
  <2> DEFINE now == c.tagged \/ c.decl = d  w == [c EXCEPT !.tagged = now]
  <2>2. now \in BOOLEAN  BY <2>1 DEF HeldType
  <2> HIDE DEF now
  <2>3. w \in HeldType /\ w.alias = c.alias /\ w.decl = c.decl /\ (w.tagged <=> now)
    BY <2>1, <2>2 DEF HeldType
  <2>4. v(k) = w  BY DEF now
  <2> HIDE DEF v, w
  <2> QED  BY <2>3, <2>4 DEF now
<1> HIDE DEF t, u, v
<1>4. /\ t.nodes \in [Name -> TargetType] /\ t.nodes[name] = u
      /\ \A n \in Name : n # name => t.nodes[n] = table.nodes[n]
  BY <1>1, <1>2 DEF TableTyped
<1>5. /\ t.cyclic \in Seq(HeldType) /\ DOMAIN t.cyclic = DOMAIN table.cyclic
      /\ \A k \in DOMAIN table.cyclic : t.cyclic[k] = v(k)
  <2> PICK l \in Nat : l = Len(table.cyclic)  BY DEF TableTyped
  <2>1. DOMAIN table.cyclic = 1..l  BY DEF TableTyped
  <2>2. t.cyclic \in [1..l -> HeldType]  BY <1>1, <1>3, <2>1
  <2> QED  BY <1>1, <2>1, <2>2
<1> QED  BY <1>1, <1>2, <1>3, <1>4, <1>5 DEF t

LEMMA TaggedNames ==
    ASSUME TableHolds, TableOK(table), decls \in Seq(DeclType), NEW d \in DOMAIN decls, ~IsOpen(d),
           \A j \in DOMAIN aliases : ~IsHeld(j) => aliases[j].target.decl # d,
           table' = Retag(table, decls[d].name, d), decls' = [decls EXCEPT ![d].tagged = TRUE],
           aliases' = aliases
    PROVE  TableHolds'
<1> PICK name : name = decls[d].name  OBVIOUS
<1>1. name \in Name /\ d \in Nat
  <2>1. decls[d] \in DeclType  OBVIOUS
  <2> QED  BY <2>1 DEF DeclType
<1>2. TableTyped  BY DEF TableHolds
<1>3. /\ table'.open = table.open
      /\ table'.nodes \in [Name -> TargetType]
      /\ \A n \in Name : /\ table'.nodes[n].decl = table.nodes[n].decl
                         /\ n # name => table'.nodes[n] = table.nodes[n]
      /\ table'.nodes[name].tagged <=> table.nodes[name].tagged \/ table.nodes[name].decl = d
      /\ table'.cyclic \in Seq(HeldType) /\ DOMAIN table'.cyclic = DOMAIN table.cyclic
      /\ \A k \in DOMAIN table.cyclic :
             /\ table'.cyclic[k].alias = table.cyclic[k].alias
             /\ table'.cyclic[k].decl = table.cyclic[k].decl
             /\ table'.cyclic[k].tagged <=> table.cyclic[k].tagged \/ table.cyclic[k].decl = d
  BY <1>1, <1>2, RetagParts
<1>4. /\ DOMAIN decls' = DOMAIN decls
      /\ \A i \in DOMAIN decls : /\ decls'[i].name = decls[i].name
                                 /\ decls'[i].nested <=> decls[i].nested
                                 /\ decls'[i].tagged <=> decls[i].tagged \/ i = d
  BY TaggedDecl
<1>5. /\ \A t, n : Stands(t, n) /\ t.decl # d => Stands(t, n)'
      /\ \A t, u, n : Stands(t, n) /\ u.decl = t.decl /\ (u.tagged <=> t.tagged \/ t.decl = d)
                          => Stands(u, n)'
      /\ \A n : Flat(n)' => Flat(n)
      /\ \A n, e : IsLatest(n, e) => IsLatest(n, e)'
  BY <1>4 DEF Stands, Flat, IsLatest
<1>6. /\ \A e : IsOpen(e)' <=> IsOpen(e)
      /\ \A n : OpenAs(n)' <=> OpenAs(n)
      /\ \A j : IsHeld(j)' <=> IsHeld(j)
  <2>1. /\ \A e : IsOpen(e)' <=> IsOpen(e)
        /\ \A n : OpenAs(n)' <=> OpenAs(n)
    BY <1>3 DEF IsOpen, OpenAs
  <2>2. \A j : IsHeld(j)' <=> IsHeld(j)
    <3>1. \A k \in DOMAIN table.cyclic : table'.cyclic[k].alias = table.cyclic[k].alias  BY <1>3
    <3>2. DOMAIN table'.cyclic = DOMAIN table.cyclic  BY <1>3
    <3> QED  BY <3>1, <3>2 DEF IsHeld
  <2> QED  BY <2>1, <2>2
<1>7. TableTyped'  BY <1>2, <1>3 DEF TableTyped
<1>8. OpenNames'
  <2>1. ASSUME NEW i \in DOMAIN table.open
        PROVE  /\ table.open[i].decl \in DOMAIN decls'
               /\ decls'[table.open[i].decl].name = table.open[i].name
               /\ ~decls'[table.open[i].decl].tagged
    <3> PICK o : o = table.open[i]  OBVIOUS
    <3> PICK e : e = o.decl  OBVIOUS
    <3>1. e \in DOMAIN decls /\ decls[e].name = o.name /\ ~decls[e].tagged
      BY DEF TableHolds, OpenNames
    <3>2. e # d  BY DEF IsOpen
    <3>3. e \in DOMAIN decls' /\ decls'[e].name = o.name /\ ~decls'[e].tagged
      BY <1>4, <3>1, <3>2
    <3> QED  BY <3>3
  <2>2. \A j \in DOMAIN table.open : \A i \in 1..j-1 : table.open[i].decl < table.open[j].decl
    BY DEF TableHolds, OpenNames
  <2> QED  BY <1>3, <2>1, <2>2 DEF OpenNames
<1>9. NodeNames'
  <2> SUFFICES ASSUME NEW n \in Name, table'.nodes[n].decl # 0
               PROVE  Stands(table.nodes[n], n)' /\ ~IsOpen(table.nodes[n].decl)'
    BY DEF NodeNames
  <2> PICK t : t = table.nodes[n]  OBVIOUS
  <2> PICK u : u = table'.nodes[n]  OBVIOUS
  <2> SUFFICES Stands(u, n)' /\ ~IsOpen(u.decl)'  BY DEF Stands, IsOpen
  <2>1. u.decl = t.decl  BY <1>3
  <2>2. Stands(t, n) /\ ~IsOpen(t.decl)  BY <2>1 DEF TableHolds, NodeNames
  <2>3. Stands(u, n)'
    <3>1. CASE n = name
      <4>1. u.tagged <=> t.tagged \/ t.decl = d  BY <1>3, <3>1
      <4> QED  BY <1>5, <2>1, <2>2, <4>1
    <3>2. CASE n # name
      <4>1. u = t  BY <1>3, <3>2
      <4>2. t.decl # d  BY <2>2, <3>2 DEF Stands
      <4> QED  BY <1>5, <2>2, <4>1, <4>2
    <3> QED  BY <3>1, <3>2
  <2> QED  BY <1>6, <2>1, <2>2, <2>3
<1>10. LatestNames'
  <2> SUFFICES ASSUME NEW n \in Name, Flat(n)'
               PROVE  /\ \A i \in DOMAIN table'.open :
                             table'.open[i].name = n => IsLatest(n, table.open[i].decl)'
                      /\ ~OpenAs(n)' => IsLatest(n, table.nodes[n].decl)'
    BY DEF LatestNames
  <2>1. Flat(n)  BY <1>5
  <2>2. ASSUME NEW i \in DOMAIN table.open, table.open[i].name = n
        PROVE  IsLatest(n, table.open[i].decl)'
    <3> PICK e : e = table.open[i].decl  OBVIOUS
    <3>1. IsLatest(n, e)  BY <2>1, <2>2 DEF TableHolds, LatestNames
    <3>2. IsLatest(n, e)' /\ e = table'.open[i].decl  BY <1>3, <1>5, <3>1
    <3> QED  BY <3>2 DEF IsLatest
  <2>3. ASSUME ~OpenAs(n) PROVE IsLatest(n, table.nodes[n].decl)'
    <3> PICK e : e = table.nodes[n].decl  OBVIOUS
    <3>1. IsLatest(n, e)  BY <2>1, <2>3 DEF TableHolds, LatestNames
    <3>2. IsLatest(n, e)' /\ e = table'.nodes[n].decl  BY <1>3, <1>5, <3>1
    <3> QED  BY <3>2 DEF IsLatest
  <2> QED  BY <1>3, <1>6, <2>2, <2>3
<1>11. HeldAliases'
  <2>0. PICK held : held = table'.cyclic  OBVIOUS
  <2> SUFFICES ASSUME NEW k \in DOMAIN held, NEW c, NEW a, c = held[k], a = aliases[c.alias]
               PROVE  /\ c.alias \in DOMAIN aliases /\ Stands(c, a.name)'
                      /\ Flat(a.name)' => c.decl = a.latest
    <3> PICK known : known = aliases  OBVIOUS
    <3>1. table'.cyclic = held /\ aliases' = known  BY <1>3, <2>0
    <3> QED  BY <3>1, HeldAfter, SMTT(20)
  <2> PICK b : b = table.cyclic[k]  OBVIOUS
  <2>1. /\ b.alias \in DOMAIN aliases /\ Stands(b, aliases[b.alias].name)
        /\ Flat(aliases[b.alias].name) => b.decl = aliases[b.alias].latest
    <3>1. DOMAIN held = DOMAIN table.cyclic  BY <1>3, <2>0
    <3> QED  BY <3>1 DEF TableHolds, HeldAliases
  <2>2. c.alias = b.alias /\ c.decl = b.decl /\ (c.tagged <=> b.tagged \/ b.decl = d)
    BY <1>3, <2>0
  <2>3. Stands(c, a.name)' /\ (Flat(a.name)' => Flat(a.name))  BY <1>5, <2>1, <2>2
  <2> QED  BY <2>1, <2>2, <2>3
<1>12. PointedAliases'
  <2> SUFFICES ASSUME NEW j \in DOMAIN aliases, ~IsHeld(j), NEW a, a = aliases[j]
               PROVE  /\ Stands(a.target, a.name)' /\ ~IsOpen(a.target.decl)'
                      /\ Flat(a.name)' => a.target.decl = a.latest
    BY <1>3, <1>6, PointedAfter
  <2>1. /\ Stands(a.target, a.name) /\ ~IsOpen(a.target.decl)
        /\ Flat(a.name) => a.target.decl = a.latest
    BY DEF TableHolds, PointedAliases
  <2>2. a.target.decl # d  OBVIOUS
  <2> QED  BY <1>5, <1>6, <2>1, <2>2
<1> QED  BY <1>7, <1>8, <1>9, <1>10, <1>11, <1>12 DEF TableHolds

LEMMA CloseTagNames ==
    ASSUME IInv, AInv, CloseTag, Top.decl # 0
    PROVE  AInv'
<1>1. Closing /\ Top.kind = "tag"  BY DEF CloseTag
<1>2. Reading /\ Top.slot # "closed" /\ TableHolds /\ TagTop
  BY <1>1, UnderIsFree, FreeBefore
<1>3. decls \in Seq(DeclType) /\ TableOK(table)  BY IInvShape DEF Shape
<1> PICK d : d = Top.decl  OBVIOUS
<1>4. /\ d \in DOMAIN decls /\ ~IsOpen(d)
      /\ \A j \in DOMAIN aliases : ~IsHeld(j) => aliases[j].target.decl # d
  BY <1>1, <1>2 DEF TagTop, TagFree
<1>5. /\ table' = Retag(table, decls[d].name, d) /\ decls' = [decls EXCEPT ![d].tagged = TRUE]
      /\ aliases' = aliases
  BY DEF CloseTag
<1>6. TableHolds'  BY <1>2, <1>3, <1>4, <1>5, TaggedNames
<1>7. PICK answer : LeaveTop(answer)  BY DEF CloseTag
<1>8. AllFree' /\ Top'.slot # "closed" /\ frames' \in Seq(FrameType) /\ frames' # <<>>
  BY <1>1, <1>7, LeaveFree
<1>9. (frames \in Seq(FrameType) /\ frames # <<>> /\ AllFree => TagsWait /\ TagTop)'
  BY FreeAfter, PTL
<1> QED  BY <1>6, <1>8, <1>9 DEF AInv

-----------------------------------------------------------------------------
LEMMA NextNames == IInv /\ CInv /\ AInv /\ [Next]_vars => AInv'
<1> SUFFICES ASSUME IInv, CInv, AInv, [Next]_vars PROVE AInv'  OBVIOUS
<1>1. CASE UNCHANGED vars  BY <1>1, UnchangedNames
<1>2. ASSUME Next PROVE AInv' \/ Unnamed'
  <2>1. CASE Scalar  BY <2>1, ScalarNames
  <2>2. CASE \E name \in Name : Alias(name)  BY <2>2, AliasNames
  <2>3. CASE \E kind \in {"mapping", "sequence"} : OpenCollection(kind)
    BY <2>3, OpenCollectionNames
  <2>4. CASE \E name \in Name : OpenAnchor(name)  BY <2>4, OpenAnchorNames
  <2>5. CASE OpenTag  BY <2>5, OpenTagNames
  <2>6. CASE OpenExplicitKey  BY <2>6, OpenExplicitKeyNames
  <2>7. CASE OpenQuiet  BY <2>7, OpenQuietNames
  <2>8. CASE BeginEntry  BY <2>8, BeginEntryNames
  <2>9. CASE EndEntry  BY <2>9, EndEntryNames
  <2>10. CASE CloseCollection \/ CloseExplicitKey  BY <2>10, CloseNames
  <2>11. CASE CloseAnchor  BY <2>11, CloseAnchorNames
  <2>12. CASE CloseTag
    <3>1. CASE Top.decl = 0  BY <2>12, <3>1, CloseNames
    <3>2. CASE Top.decl # 0  BY <2>12, <3>2, CloseTagNames
    <3> QED  BY <3>1, <3>2
  <2>13. CASE CloseQuiet  BY <2>13, CloseQuietNames
  <2>14. CASE Refuse \/ RefuseAnchorName  BY <2>14, RefuseNames
  <2>15. CASE Unwind  BY <2>15, UnwindNames
  <2>16. CASE EndDocument  BY <2>16, EndDocumentNames
  <2>17. CASE NextDocument  BY <2>17, NextDocumentNames
  <2>18. CASE NextWalk  BY <2>18, NextWalkNames
  <2> QED  BY <1>2, <2>1, <2>2, <2>3, <2>4, <2>5, <2>6, <2>7, <2>8, <2>9, <2>10, <2>11, <2>12,
              <2>13, <2>14, <2>15, <2>16, <2>17, <2>18 DEF Next
<1>3. Unnamed' => AInv'  BY UnnamedHolds, PTL
<1> QED  BY <1>1, <1>2, <1>3

(* resolveAlias, openNode, keepAnchor, retag and take: for any stream, each *)
(* alias of a document read to its end names an anchor of that document,   *)
(* the latest of its name where none of the name stands inside another,    *)
(* and with the tag written before it, from inside the anchor's own node   *)
(* too: the tag written around an anchor is known of before any alias      *)
(* outside the anchor's node is read.                                      *)
THEOREM AliasesNameTheLatest == Spec => []AliasesResolve
<1>1. Init => CInv /\ AInv  BY InitCells, InitNames, UnnamedHolds
<1>2. (IInv /\ Closes) /\ (CInv /\ AInv) /\ [Next]_vars => (CInv /\ AInv)'
  BY NextCells, NextNames
<1>3. Spec => [](IInv /\ Closes)  BY Invariant
<1>4. AInv => AliasesResolve  BY DEF AInv, AliasesResolve
<1> QED  BY <1>1, <1>2, <1>3, <1>4, PTL DEF Spec
=============================================================================
