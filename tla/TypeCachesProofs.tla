-------------------------- MODULE TypeCachesProofs --------------------------
(* Theorems about TypeCaches, for every number of goroutines, every set of *)
(* types and whatever their fields are, recursive ones included.           *)
EXTENDS TypeCaches, TLAPS

USE TypeCachesAssumption, NoTypeAssumption

-----------------------------------------------------------------------------
(* The inductive invariant. *)

(* What the code's types say of each variable. *)
State ==
    [does : {"idle", "fields", "walk", "walk reads", "take"},
     of : Type \cup {NoType}, mode : Mode \cup {None}, reads : Type \cup {NoType},
     seen : SUBSET Type, todo : SUBSET Type, ok : BOOLEAN, told : Nat, made : Nat]
AnyReading == [type : Type, mode : Mode, by : Goroutine, err : BOOLEAN]
TypeOK ==
    /\ DOMAIN structFieldMaps = Mode
    /\ \A m \in Mode : DOMAIN structFieldMaps[m] = Type
    /\ walkableTypes \in [Mode -> [Type -> {None, "yes", "no"}]]
    /\ registered \in [Type -> Nat]
    /\ goroutine \in [Goroutine -> State]
    /\ read \subseteq [mode : Mode, type : Type, is : AnyReading]
    /\ walked \subseteq [mode : Mode, type : Type, is : {"yes", "no"}]
    /\ taken \subseteq [type : Type, told : Nat, is : Nat]

(* What stands for a type was read from that type, in that mode. *)
MapsHoldReadings ==
    \A m \in Mode, t \in Type :
        structFieldMaps[m][t] \in {NoReading} \cup {Reading(g, m, t) : g \in Goroutine}

(* Every answer of the fields is the reading that stands.                  *)
AnswersStand == \A a \in read : a.is = structFieldMaps[a.mode][a.type]

(* What the typed walk cannot fill. *)
Bad(m) == Unwalkable \cup Duplicated[m]
Fillable(m, t) == Reach(m, t) \cap Bad(m) = {}

(* A walk over the types under one: all it has met can be reached from     *)
(* there; as long as nothing was found, what it is done with is fine and   *)
(* leads only to what it has met or is still to meet; and what it found is *)
(* really there.                                                           *)
WalkSound(at) ==
    /\ at.of \in Type /\ at.mode \in Mode
    /\ at.seen \cup at.todo \subseteq Reach(at.mode, at.of)
    /\ at.does = "walk reads" => at.reads # NoType
    /\ at.ok =>
        /\ at.of \in at.seen \cup at.todo
        /\ at.reads # NoType => at.reads \in at.seen \ Unwalkable
        /\ \A u \in at.seen \ {at.reads} :
              u \notin Bad(at.mode) /\ Under[at.mode][u] \subseteq at.seen \cup at.todo
    /\ ~at.ok => at.todo = {} /\ at.reads = NoType /\ ~Fillable(at.mode, at.of)
WalksSound == \A g \in Goroutine : goroutine[g].does \in {"walk", "walk reads"} => WalkSound(goroutine[g])
FieldsOfAType ==
    \A g \in Goroutine : goroutine[g].does = "fields" => goroutine[g].of \in Type /\ goroutine[g].mode \in Mode

(* A verdict, kept or given, is that of the type and the mode. *)
VerdictsExact ==
    /\ \A m \in Mode, t \in Type : walkableTypes[m][t] # None =>
          (walkableTypes[m][t] = "yes" <=> Fillable(m, t))
    /\ \A a \in walked : a.is = "yes" <=> Fillable(a.mode, a.type)

(* A registration is not taken back: what a lookup was told of is at most  *)
(* what stands.                                                            *)
ToldInForce ==
    \A g \in Goroutine : LET at == goroutine[g] IN
        at.does = "take" => at.of \in Type /\ at.told <= IF at.of \in Own THEN 0 ELSE registered[at.of]

IInv == /\ TypeOK /\ MapsHoldReadings /\ AnswersStand
        /\ WalksSound /\ FieldsOfAType /\ VerdictsExact
        /\ ToldInForce /\ TakenCurrent

-----------------------------------------------------------------------------
(* What can be reached. *)

(* The fields of a type are of types. *)
LEMMA UnderType == \A m \in Mode, t \in Type : Under[m][t] \in SUBSET Type
OBVIOUS

(* A type is reached from itself, and the fields of a reached type are.    *)
LEMMA ReachSteps ==
    ASSUME NEW m \in Mode, NEW t \in Type
    PROVE  /\ Reach(m, t) \subseteq Type
           /\ t \in Reach(m, t)
           /\ \A u \in Reach(m, t) : Under[m][u] \subseteq Reach(m, t)
BY DEF Reach, Closed

(* Nothing outside a closed set is reached from inside it. *)
LEMMA ReachLeast ==
    ASSUME NEW m \in Mode, NEW t \in Type, NEW S \in SUBSET Type,
           t \in S, \A u \in S : Under[m][u] \subseteq S
    PROVE  Reach(m, t) \subseteq S
BY DEF Reach, Closed

-----------------------------------------------------------------------------
(* Shared steps. *)

(* What LoadOrStore answers is a reading of the type asked for, and stands *)
(* in the map; one that stood before is left there.                        *)
LEMMA LoadOrStoreReads ==
    ASSUME IInv, NEW g \in Goroutine, NEW m \in Mode, NEW t \in Type
    PROVE  /\ LoadOrStore(g, m, t) \in {Reading(h, m, t) : h \in Goroutine}
           /\ structFieldMaps[m][t] # NoReading => LoadOrStore(g, m, t) = structFieldMaps[m][t]
           /\ LoadOrStore(g, m, t).err = (t \in Duplicated[m])
BY DEF IInv, MapsHoldReadings, LoadOrStore, Reading

(* A reading is never the mark of an absent one. *)
LEMMA ReadingIsOne ==
    /\ \A g \in Goroutine, m \in Mode, t \in Type : Reading(g, m, t) \in AnyReading
    /\ NoReading \notin AnyReading
BY DEF AnyReading, Reading, NoReading

(* Storing what LoadOrStore answers keeps the map sound, and every answer  *)
(* given before.                                                           *)
LEMMA StoreKeeps ==
    ASSUME IInv, NEW g \in Goroutine, NEW m \in Mode, NEW t \in Type,
           structFieldMaps' = [structFieldMaps EXCEPT ![m][t] = LoadOrStore(g, m, t)]
    PROVE  /\ DOMAIN structFieldMaps' = Mode
           /\ \A k \in Mode : DOMAIN structFieldMaps'[k] = Type
           /\ MapsHoldReadings'
           /\ structFieldMaps'[m][t] = LoadOrStore(g, m, t)
           /\ \A a \in read : a.is = structFieldMaps'[a.mode][a.type]
<1>1. /\ DOMAIN structFieldMaps' = Mode
      /\ \A k \in Mode : DOMAIN structFieldMaps'[k] = Type
      /\ structFieldMaps'[m][t] = LoadOrStore(g, m, t)
      /\ \A k \in Mode, u \in Type : k # m \/ u # t => structFieldMaps'[k][u] = structFieldMaps[k][u]
  BY DEF IInv, TypeOK
<1>2. MapsHoldReadings'
  BY <1>1, LoadOrStoreReads DEF IInv, MapsHoldReadings, Reading
<1>3. ASSUME NEW a \in read
      PROVE  a.is = structFieldMaps'[a.mode][a.type]
  <2>1. a.mode \in Mode /\ a.type \in Type /\ a.is = structFieldMaps[a.mode][a.type]
    BY DEF IInv, TypeOK, AnswersStand
  <2>2. a.is # NoReading
    BY ReadingIsOne DEF IInv, TypeOK
  <2> QED BY <1>1, <2>1, <2>2, LoadOrStoreReads
<1> QED BY <1>1, <1>2, <1>3

(* Meeting a type keeps a walk sound. *)
LEMMA MeetSound ==
    ASSUME NEW at \in State, WalkSound(at), at.does = "walk", at.reads = NoType,
           NEW t \in at.todo
    PROVE  /\ Meet(at, t) \in State /\ Meet(at, t).does = "walk"
           /\ WalkSound(Meet(at, t))
<1> USE DEF State
<1>1. t \in Type /\ t \in Reach(at.mode, at.of) /\ at.ok
  BY DEF WalkSound
<1>2. CASE t \in at.seen
  BY <1>1, <1>2 DEF Meet, WalkSound, Fillable, Bad
<1>3. CASE t \notin at.seen /\ t \in Unwalkable
  BY <1>1, <1>3 DEF Meet, WalkSound, Fillable, Bad
<1>4. CASE t \notin at.seen /\ t \notin Unwalkable
  <2> DEFINE new == [at EXCEPT !.reads = t, !.seen = @ \cup {t}]
  <2>1. Meet(at, t) = new
    BY <1>4 DEF Meet
  <2>2. /\ new \in State /\ new.does = "walk" /\ new.of = at.of /\ new.mode = at.mode
        /\ new.reads = t /\ new.seen = at.seen \cup {t} /\ new.todo = at.todo /\ new.ok
    BY <1>1
  <2> HIDE DEF new
  <2>3. WalkSound(new)
    BY <1>1, <1>4, <2>2 DEF WalkSound
  <2> QED BY <2>1, <2>2, <2>3
<1> QED BY <1>2, <1>3, <1>4

(* So does reading the fields of the type met. *)
LEMMA DescendsSound ==
    ASSUME NEW at \in State, WalkSound(at), at.reads # NoType,
           NEW r, r.err = (at.reads \in Duplicated[at.mode])
    PROVE  /\ Descends(at, at.reads, r) \in State
           /\ Descends(at, at.reads, r).does = "walk"
           /\ WalkSound(Descends(at, at.reads, r))
<1> USE DEF State
<1> DEFINE t == at.reads
           new == Descends(at, t, r)
<1>1. /\ at.ok /\ t \in at.seen \ Unwalkable /\ t \in Type /\ t \in Reach(at.mode, at.of)
      /\ at.mode \in Mode /\ at.of \in Type
  BY DEF WalkSound
<1>2. CASE r.err
  BY <1>1, <1>2 DEF Descends, WalkSound, Fillable, Bad
<1>3. CASE ~r.err
  <2>0. Under[at.mode][t] \in SUBSET Type
    BY <1>1, UnderType
  <2>4. new = [at EXCEPT !.does = "walk", !.todo = (at.todo \ {t}) \cup Under[at.mode][t],
                         !.reads = NoType]
    BY <1>3 DEF Descends
  <2> HIDE DEF new
  <2>6. new \in State
    BY <1>1, <2>0, <2>4
  <2>1. /\ new \in State /\ new.does = "walk" /\ new.of = at.of /\ new.mode = at.mode
        /\ new.reads = NoType /\ new.seen = at.seen /\ new.ok
        /\ new.todo = (at.todo \ {t}) \cup Under[at.mode][t]
    BY <1>1, <2>4, <2>6
  <2>2. Under[at.mode][t] \subseteq Reach(at.mode, at.of)
    BY <1>1, ReachSteps
  <2>3. WalkSound(new)
    BY <1>1, <1>3, <2>1, <2>2 DEF WalkSound, Bad
  <2>5. new = Descends(at, at.reads, r)
    BY DEF new
  <2> QED BY <2>1, <2>3, <2>5
<1> QED BY <1>2, <1>3

(* A walk with nothing left to meet knows. *)
LEMMA WalkEnds ==
    ASSUME NEW at \in State, WalkSound(at), at.does = "walk", at.todo = {}, at.reads = NoType
    PROVE  at.ok <=> Fillable(at.mode, at.of)
<1>1. CASE ~at.ok
  BY <1>1 DEF WalkSound
<1>2. CASE at.ok
  <2>1. /\ at.of \in at.seen /\ at.seen \subseteq Type /\ at.mode \in Mode
        /\ \A u \in at.seen : u \notin Bad(at.mode) /\ Under[at.mode][u] \subseteq at.seen
    BY <1>2 DEF WalkSound, State
  <2>2. Reach(at.mode, at.of) \subseteq at.seen
    BY <2>1, ReachLeast
  <2> QED BY <1>2, <2>1, <2>2 DEF Fillable
<1> QED BY <1>1, <1>2

-----------------------------------------------------------------------------
(* The invariant holds. *)

LEMMA InitIInv == Init => IInv
<1> SUFFICES ASSUME Init PROVE IInv
  OBVIOUS
<1>1. TypeOK
  BY DEF Init, TypeOK, State, Idle
<1>2. MapsHoldReadings /\ AnswersStand
  BY DEF Init, MapsHoldReadings, AnswersStand
<1>3. WalksSound /\ FieldsOfAType /\ ToldInForce
  BY DEF Init, WalksSound, FieldsOfAType, ToldInForce, Idle
<1>4. VerdictsExact /\ TakenCurrent
  BY DEF Init, VerdictsExact, TakenCurrent
<1> QED BY <1>1, <1>2, <1>3, <1>4 DEF IInv

(* What a goroutine does says nothing of the others. *)
LEMMA BecomesKeeps ==
    ASSUME IInv, NEW g \in Goroutine, NEW state \in State, Becomes(g, state),
           state.does \in {"walk", "walk reads"} => WalkSound(state),
           state.does = "fields" => state.of \in Type /\ state.mode \in Mode,
           state.does = "take" =>
               state.of \in Type /\ state.told <= IF state.of \in Own THEN 0 ELSE registered[state.of]
    PROVE  /\ goroutine' \in [Goroutine -> State]
           /\ WalksSound' /\ FieldsOfAType'
           /\ UNCHANGED registered => ToldInForce'
<1>0. goroutine \in [Goroutine -> State]
  BY DEF IInv, TypeOK
<1>1. /\ goroutine' \in [Goroutine -> State]
      /\ goroutine'[g] = state
      /\ \A h \in Goroutine : h # g => goroutine'[h] = goroutine[h]
  BY <1>0 DEF Becomes
<1>2. WalksSound'
  <2> SUFFICES ASSUME NEW h \in Goroutine, goroutine'[h].does \in {"walk", "walk reads"}
               PROVE  WalkSound(goroutine'[h])
    BY DEF WalksSound, WalkSound
  <2> QED BY <1>1 DEF IInv, WalksSound
<1>3. FieldsOfAType'
  <2> SUFFICES ASSUME NEW h \in Goroutine, goroutine'[h].does = "fields"
               PROVE  goroutine'[h].of \in Type /\ goroutine'[h].mode \in Mode
    BY DEF FieldsOfAType
  <2> QED BY <1>1 DEF IInv, FieldsOfAType
<1>4. UNCHANGED registered => ToldInForce'
  <2> SUFFICES ASSUME UNCHANGED registered, NEW h \in Goroutine, goroutine'[h].does = "take"
               PROVE  /\ goroutine'[h].of \in Type
                      /\ goroutine'[h].told <=
                            IF goroutine'[h].of \in Own THEN 0 ELSE registered[goroutine'[h].of]
    BY DEF ToldInForce
  <2> QED BY <1>1 DEF IInv, ToldInForce
<1> QED BY <1>1, <1>2, <1>3, <1>4

LEMMA StateOf ==
    ASSUME IInv, NEW g \in Goroutine
    PROVE  goroutine[g] \in State /\ goroutine[g].made \in Nat
<1>1. goroutine[g] \in State
  BY DEF IInv, TypeOK
<1> QED BY <1>1 DEF State

(* A goroutine that has ended its lookup, and one that begins another. *)
LEMMA IdleState ==
    ASSUME TypeOK, NEW g \in Goroutine
    PROVE  /\ Idle(goroutine[g].made) \in State /\ Idle(goroutine[g].made).does = "idle"
           /\ Idle(goroutine[g].made + 1) \in State /\ Idle(goroutine[g].made + 1).does = "idle"
<1>1. goroutine[g] \in State
  BY DEF TypeOK
<1>2. goroutine[g].made \in Nat
  BY <1>1 DEF State
<1> QED BY <1>2 DEF State, Idle

(* What every step keeps that leaves the caches and the answers alone. *)
LEMMA OnlyGoroutines ==
    ASSUME IInv, UNCHANGED <<structFieldMaps, walkableTypes, registered, answers>>,
           goroutine' \in [Goroutine -> State], WalksSound', FieldsOfAType', ToldInForce'
    PROVE  IInv'
<1>1. TypeOK'
  BY DEF IInv, TypeOK, answers
<1>2. MapsHoldReadings' /\ AnswersStand'
  BY DEF IInv, MapsHoldReadings, AnswersStand, answers
<1>3. VerdictsExact' /\ TakenCurrent'
  BY DEF IInv, VerdictsExact, TakenCurrent, answers
<1> QED BY <1>1, <1>2, <1>3 DEF IInv

(* The steps of structFields. *)
LEMMA LoadFieldsIInv ==
    ASSUME IInv, NEW g \in Goroutine, NEW m \in Mode, NEW t \in Type, LoadFields(g, m, t)
    PROVE  IInv'
<1> DEFINE state == [Begins(g, "fields", m, t) EXCEPT !.reads = t]
<1>1. goroutine[g].made + 1 \in Nat
  BY StateOf
<1>2. state \in State /\ state.does = "fields" /\ state.of = t /\ state.mode = m
  BY <1>1 DEF State, Begins, Idle
<1> HIDE DEF state
<1>3. Becomes(g, state)
  BY DEF LoadFields, state
<1> QED BY <1>2, <1>3, BecomesKeeps, OnlyGoroutines DEF LoadFields, IInv, answers

LEMMA FieldsKnownIInv ==
    ASSUME IInv, NEW g \in Goroutine, NEW m \in Mode, NEW t \in Type, FieldsKnown(g, m, t)
    PROVE  IInv'
<1>1. goroutine' \in [Goroutine -> State] /\ WalksSound' /\ FieldsOfAType' /\ ToldInForce'
  BY IdleState, BecomesKeeps DEF IInv, FieldsKnown, EndsAtOnce
<1>2. structFieldMaps[m][t] \in AnyReading
  BY ReadingIsOne DEF IInv, MapsHoldReadings, FieldsKnown
<1>3. /\ read' = read \cup {[mode |-> m, type |-> t, is |-> structFieldMaps[m][t]]}
      /\ UNCHANGED <<structFieldMaps, walkableTypes, registered, walked, taken>>
  BY DEF FieldsKnown, HandsFields
<1>4. TypeOK'
  BY <1>1, <1>2, <1>3 DEF IInv, TypeOK
<1>5. MapsHoldReadings' /\ AnswersStand'
  BY <1>3 DEF IInv, MapsHoldReadings, AnswersStand
<1>6. VerdictsExact' /\ TakenCurrent'
  BY <1>3 DEF IInv, VerdictsExact, TakenCurrent
<1> QED BY <1>1, <1>4, <1>5, <1>6 DEF IInv

LEMMA StoreFieldsIInv ==
    ASSUME IInv, NEW g \in Goroutine, StoreFields(g)
    PROVE  IInv'
<1> DEFINE m == goroutine[g].mode
           t == goroutine[g].of
           r == LoadOrStore(g, m, t)
<1>1. m \in Mode /\ t \in Type
  BY DEF IInv, FieldsOfAType, StoreFields
<1> HIDE DEF m, t
<1>2. /\ structFieldMaps' = [structFieldMaps EXCEPT ![m][t] = r]
      /\ read' = read \cup {[mode |-> m, type |-> t, is |-> r]}
      /\ Ends(g)
      /\ UNCHANGED <<walkableTypes, registered, walked, taken>>
  BY DEF StoreFields, HandsFields, m, t
<1>3. goroutine' \in [Goroutine -> State] /\ WalksSound' /\ FieldsOfAType' /\ ToldInForce'
  BY <1>2, IdleState, BecomesKeeps DEF IInv, Ends
<1>4. /\ DOMAIN structFieldMaps' = Mode
      /\ \A k \in Mode : DOMAIN structFieldMaps'[k] = Type
      /\ MapsHoldReadings'
      /\ structFieldMaps'[m][t] = r
      /\ \A a \in read : a.is = structFieldMaps'[a.mode][a.type]
  BY <1>1, <1>2, StoreKeeps
<1>5. r \in AnyReading
  BY <1>1, LoadOrStoreReads, ReadingIsOne
<1>6. TypeOK'
  BY <1>1, <1>2, <1>3, <1>4, <1>5 DEF IInv, TypeOK
<1>7. AnswersStand'
  BY <1>2, <1>4 DEF AnswersStand
<1>8. VerdictsExact' /\ TakenCurrent'
  BY <1>2 DEF IInv, VerdictsExact, TakenCurrent
<1> QED BY <1>3, <1>4, <1>6, <1>7, <1>8 DEF IInv

(* The steps of walkableType. *)
LEMMA LoadWalkableIInv ==
    ASSUME IInv, NEW g \in Goroutine, NEW m \in Mode, NEW t \in Type, LoadWalkable(g, m, t)
    PROVE  IInv'
<1> DEFINE state == [Begins(g, "walk", m, t) EXCEPT !.todo = {t}]
<1>1. goroutine[g].made + 1 \in Nat
  BY StateOf
<1>2. /\ state \in State /\ state.does = "walk" /\ state.of = t /\ state.mode = m
      /\ state.seen = {} /\ state.todo = {t} /\ state.reads = NoType /\ state.ok
  BY <1>1 DEF State, Begins, Idle
<1> HIDE DEF state
<1>3. Becomes(g, state)
  BY DEF LoadWalkable, state
<1>4. WalkSound(state)
  BY <1>2, ReachSteps DEF WalkSound
<1> QED BY <1>2, <1>3, <1>4, BecomesKeeps, OnlyGoroutines DEF LoadWalkable, IInv, answers

LEMMA WalkableKnownIInv ==
    ASSUME IInv, NEW g \in Goroutine, NEW m \in Mode, NEW t \in Type, WalkableKnown(g, m, t)
    PROVE  IInv'
<1>1. goroutine' \in [Goroutine -> State] /\ WalksSound' /\ FieldsOfAType' /\ ToldInForce'
  BY IdleState, BecomesKeeps DEF IInv, WalkableKnown, EndsAtOnce
<1>2. /\ walked' = walked \cup {[mode |-> m, type |-> t, is |-> walkableTypes[m][t]]}
      /\ UNCHANGED <<structFieldMaps, walkableTypes, registered, read, taken>>
      /\ walkableTypes[m][t] # None
  BY DEF WalkableKnown, SaysWalkable
<1>3. /\ walkableTypes[m][t] \in {"yes", "no"}
      /\ walkableTypes[m][t] = "yes" <=> Fillable(m, t)
  BY <1>2 DEF IInv, TypeOK, VerdictsExact
<1>4. TypeOK'
  BY <1>1, <1>2, <1>3 DEF IInv, TypeOK
<1>5. MapsHoldReadings' /\ AnswersStand' /\ TakenCurrent'
  BY <1>2 DEF IInv, MapsHoldReadings, AnswersStand, TakenCurrent
<1>6. VerdictsExact'
  BY <1>2, <1>3 DEF IInv, VerdictsExact
<1> QED BY <1>1, <1>4, <1>5, <1>6 DEF IInv

LEMMA ReadWalkableIInv ==
    ASSUME IInv, NEW g \in Goroutine, ReadWalkable(g)
    PROVE  IInv'
<1> DEFINE at == goroutine[g]
<1>1. at \in State /\ at.does = "walk" /\ at.reads = NoType /\ WalkSound(at)
  BY StateOf DEF IInv, WalksSound, ReadWalkable
<1>2. PICK t \in at.todo : Becomes(g, Meet(at, t))
  BY DEF ReadWalkable
<1> HIDE DEF at
<1>3. /\ Meet(at, t) \in State /\ Meet(at, t).does = "walk"
      /\ WalkSound(Meet(at, t))
  BY <1>1, MeetSound
<1> QED BY <1>2, <1>3, BecomesKeeps, OnlyGoroutines DEF ReadWalkable, IInv, answers

LEMMA WalkLoadsIInv ==
    ASSUME IInv, NEW g \in Goroutine, WalkLoads(g)
    PROVE  IInv'
<1> DEFINE at == goroutine[g]
           r == structFieldMaps[at.mode][at.reads]
           new == IF r = NoReading THEN [at EXCEPT !.does = "walk reads"] ELSE Descends(at, at.reads, r)
<1>1. at \in State /\ at.does = "walk" /\ at.reads # NoType /\ WalkSound(at)
  BY StateOf DEF IInv, WalksSound, WalkLoads
<1>2. at.reads \in Type /\ at.mode \in Mode
  BY <1>1 DEF State, WalkSound
<1>3. Becomes(g, new) /\ UNCHANGED <<structFieldMaps, walkableTypes, registered, answers>>
  BY DEF WalkLoads
<1>4. r = NoReading \/ r.err = (at.reads \in Duplicated[at.mode])
  BY <1>2 DEF IInv, MapsHoldReadings, Reading
<1> HIDE DEF at, r
<1>5. CASE r = NoReading
  <2>1. new = [at EXCEPT !.does = "walk reads"]
    BY <1>5
  <2> HIDE DEF new
  <2>2. /\ new \in State /\ new.does = "walk reads" /\ new.of = at.of /\ new.mode = at.mode
        /\ new.reads = at.reads /\ new.seen = at.seen /\ new.todo = at.todo /\ new.ok = at.ok
    BY <1>1, <2>1 DEF State
  <2>3. WalkSound(new)
    BY <1>1, <2>2 DEF WalkSound
  <2> QED BY <1>3, <2>2, <2>3, BecomesKeeps, OnlyGoroutines DEF IInv, answers
<1>6. CASE r # NoReading
  <2>1. new \in State /\ new.does = "walk" /\ WalkSound(new)
    BY <1>1, <1>4, <1>6, DescendsSound
  <2> HIDE DEF new
  <2> QED BY <1>3, <2>1, BecomesKeeps, OnlyGoroutines DEF IInv, answers
<1> QED BY <1>5, <1>6

LEMMA WalkStoresIInv ==
    ASSUME IInv, NEW g \in Goroutine, WalkStores(g)
    PROVE  IInv'
<1> DEFINE at == goroutine[g]
           m == at.mode
           t == at.reads
           r == LoadOrStore(g, m, t)
           new == Descends(at, t, r)
<1>1. at \in State /\ at.does = "walk reads" /\ at.reads # NoType /\ WalkSound(at)
  BY StateOf DEF IInv, WalksSound, WalkSound, WalkStores
<1>2. t \in Type /\ m \in Mode
  BY <1>1 DEF State, WalkSound
<1>3. /\ structFieldMaps' = [structFieldMaps EXCEPT ![m][t] = r]
      /\ Becomes(g, new) /\ UNCHANGED <<walkableTypes, registered, answers>>
  BY DEF WalkStores
<1> HIDE DEF at
<1>4. r.err = (t \in Duplicated[m])
  BY <1>2, LoadOrStoreReads
<1>5. new \in State /\ new.does = "walk" /\ WalkSound(new)
  BY <1>1, <1>4, DescendsSound
<1> HIDE DEF m, t, r, new
<1>6. /\ DOMAIN structFieldMaps' = Mode
      /\ \A k \in Mode : DOMAIN structFieldMaps'[k] = Type
      /\ MapsHoldReadings'
      /\ \A a \in read : a.is = structFieldMaps'[a.mode][a.type]
  BY <1>2, <1>3, StoreKeeps DEF r
<1>7. goroutine' \in [Goroutine -> State] /\ WalksSound' /\ FieldsOfAType' /\ ToldInForce'
  BY <1>3, <1>5, BecomesKeeps DEF IInv
<1>8. TypeOK'
  BY <1>3, <1>6, <1>7 DEF IInv, TypeOK, answers
<1>9. AnswersStand' /\ VerdictsExact' /\ TakenCurrent'
  BY <1>3, <1>6 DEF IInv, AnswersStand, VerdictsExact, TakenCurrent, answers
<1> QED BY <1>6, <1>7, <1>8, <1>9 DEF IInv

LEMMA StoreWalkableIInv ==
    ASSUME IInv, NEW g \in Goroutine, StoreWalkable(g)
    PROVE  IInv'
<1> DEFINE at == goroutine[g]
           m == at.mode
           t == at.of
           v == Verdict(at)
<1>1. at \in State /\ at.does = "walk" /\ at.todo = {} /\ at.reads = NoType /\ WalkSound(at)
  BY StateOf DEF IInv, WalksSound, StoreWalkable
<1>2. t \in Type /\ m \in Mode
  BY <1>1 DEF WalkSound
<1>3. /\ walkableTypes' = [walkableTypes EXCEPT ![m][t] = v]
      /\ walked' = walked \cup {[mode |-> m, type |-> t, is |-> v]}
      /\ Ends(g) /\ UNCHANGED <<structFieldMaps, registered, read, taken>>
  BY DEF StoreWalkable, Kept, SaysWalkable
<1> HIDE DEF at
<1>4. v \in {"yes", "no"} /\ (v = "yes" <=> Fillable(m, t))
  BY <1>1, WalkEnds DEF Verdict
<1> HIDE DEF m, t, v
<1>5. goroutine' \in [Goroutine -> State] /\ WalksSound' /\ FieldsOfAType' /\ ToldInForce'
  BY <1>3, IdleState, BecomesKeeps DEF IInv, Ends
<1>6. TypeOK'
  BY <1>2, <1>3, <1>4, <1>5 DEF IInv, TypeOK
<1>7. MapsHoldReadings' /\ AnswersStand' /\ TakenCurrent'
  BY <1>3 DEF IInv, MapsHoldReadings, AnswersStand, TakenCurrent
<1>8. VerdictsExact'
  <2>1. \A k \in Mode, u \in Type :
            walkableTypes'[k][u] = IF k = m /\ u = t THEN v ELSE walkableTypes[k][u]
    BY <1>2, <1>3 DEF IInv, TypeOK
  <2> QED BY <1>3, <1>4, <2>1 DEF IInv, VerdictsExact
<1> QED BY <1>5, <1>6, <1>7, <1>8 DEF IInv

(* The marshalers. *)
LEMMA RegisterIInv ==
    ASSUME IInv, NEW t \in Custom, Register(t)
    PROVE  IInv'
<1>1. /\ registered' \in [Type -> Nat]
      /\ \A u \in Type : registered[u] <= registered'[u] /\ registered[u] \in Nat /\ registered'[u] \in Nat
  BY DEF IInv, TypeOK, Register, RegisteredOver
<1>2. TypeOK'
  BY <1>1 DEF IInv, TypeOK, Register, answers
<1>3. ToldInForce'
  <2> SUFFICES ASSUME NEW g \in Goroutine, goroutine[g].does = "take"
               PROVE  /\ goroutine[g].of \in Type
                      /\ goroutine[g].told <= IF goroutine[g].of \in Own THEN 0 ELSE registered'[goroutine[g].of]
    BY DEF ToldInForce, Register
  <2>1. goroutine[g].told \in Nat
    BY StateOf DEF State
  <2>2. /\ goroutine[g].of \in Type
        /\ goroutine[g].told <= IF goroutine[g].of \in Own THEN 0 ELSE registered[goroutine[g].of]
    BY DEF IInv, ToldInForce
  <2> QED BY <1>1, <2>1, <2>2
<1>4. MapsHoldReadings' /\ AnswersStand' /\ VerdictsExact' /\ TakenCurrent'
  BY DEF IInv, MapsHoldReadings, AnswersStand, VerdictsExact, TakenCurrent, Register, answers
<1>5. WalksSound' /\ FieldsOfAType'
  BY DEF IInv, WalksSound, WalkSound, FieldsOfAType, Register
<1> QED BY <1>2, <1>3, <1>4, <1>5 DEF IInv

LEMMA AskIInv ==
    ASSUME IInv, NEW g \in Goroutine, NEW t \in Type, Ask(g, t)
    PROVE  IInv'
<1> DEFINE told == IF t \in Own THEN 0 ELSE registered[t]
           state == [Begins(g, "take", None, t) EXCEPT !.told = told]
<1>1. goroutine[g].made + 1 \in Nat
  BY StateOf
<1>2. told \in Nat
  BY DEF IInv, TypeOK
<1>3. Becomes(g, state)
  BY DEF Ask
<1> HIDE DEF told
<1>4. state \in State /\ state.does = "take" /\ state.of = t /\ state.told = told
  BY <1>1, <1>2 DEF State, Begins, Idle
<1> HIDE DEF state
<1>5. state.told <= IF state.of \in Own THEN 0 ELSE registered[state.of]
  BY <1>2, <1>4 DEF told
<1> QED BY <1>3, <1>4, <1>5, BecomesKeeps, OnlyGoroutines DEF Ask, IInv, answers

LEMMA TakeIInv ==
    ASSUME IInv, NEW g \in Goroutine, Take(g)
    PROVE  IInv'
<1> DEFINE at == goroutine[g]
           took == IF at.of \in Own THEN 0 ELSE registered[at.of]
<1>1. at.of \in Type /\ at.told <= took /\ at.told \in Nat
  BY StateOf DEF IInv, ToldInForce, Take, State
<1>2. took \in Nat
  BY <1>1 DEF IInv, TypeOK
<1>3. /\ taken' = taken \cup {[type |-> at.of, told |-> at.told, is |-> took]}
      /\ Ends(g) /\ UNCHANGED <<structFieldMaps, walkableTypes, registered, read, walked>>
  BY DEF Take, HandsTaken
<1> HIDE DEF at, took
<1>4. goroutine' \in [Goroutine -> State] /\ WalksSound' /\ FieldsOfAType' /\ ToldInForce'
  BY <1>3, IdleState, BecomesKeeps DEF IInv, Ends
<1>5. TypeOK'
  BY <1>1, <1>2, <1>3, <1>4 DEF IInv, TypeOK
<1>6. TakenCurrent'
  BY <1>1, <1>2, <1>3 DEF IInv, TakenCurrent
<1>7. MapsHoldReadings' /\ AnswersStand' /\ VerdictsExact'
  BY <1>3 DEF IInv, MapsHoldReadings, AnswersStand, VerdictsExact
<1> QED BY <1>4, <1>5, <1>6, <1>7 DEF IInv

LEMMA NextIInv == IInv /\ [Next]_vars => IInv'
<1> SUFFICES ASSUME IInv, [Next]_vars PROVE IInv'
  OBVIOUS
<1>1. ASSUME NEW g \in Goroutine, NEW m \in Mode, NEW t \in Type,
             \/ LoadFields(g, m, t) \/ FieldsKnown(g, m, t)
             \/ LoadWalkable(g, m, t) \/ WalkableKnown(g, m, t)
      PROVE  IInv'
  BY <1>1, LoadFieldsIInv, FieldsKnownIInv, LoadWalkableIInv, WalkableKnownIInv
<1>2. ASSUME NEW g \in Goroutine, NEW t \in Type, Ask(g, t)
      PROVE  IInv'
  BY <1>2, AskIInv
<1>3. ASSUME NEW t \in Custom, Register(t)
      PROVE  IInv'
  BY <1>3, RegisterIInv
<1>4. ASSUME NEW g \in Goroutine, Goes(g)
      PROVE  IInv'
  BY <1>4, StoreFieldsIInv, ReadWalkableIInv, WalkLoadsIInv, WalkStoresIInv, StoreWalkableIInv,
     TakeIInv DEF Goes
<1>5. CASE UNCHANGED vars
  <2>1. UNCHANGED <<structFieldMaps, walkableTypes, registered, answers>> /\ UNCHANGED goroutine
    BY <1>5 DEF vars, answers
  <2>2. goroutine' \in [Goroutine -> State] /\ WalksSound' /\ FieldsOfAType' /\ ToldInForce'
    BY <2>1 DEF IInv, TypeOK, WalksSound, WalkSound, FieldsOfAType, ToldInForce
  <2> QED BY <2>1, <2>2, OnlyGoroutines
<1> QED BY <1>1, <1>2, <1>3, <1>4, <1>5 DEF Next

LEMMA AlwaysIInv == Spec => []IInv
BY InitIInv, NextIInv, PTL DEF Spec

-----------------------------------------------------------------------------
(* What follows. *)

(* Two goroutines that ask for the fields of one type, in whatever order   *)
(* they load and store, are handed one reading (sync.Map.LoadOrStore in    *)
(* structFields).                                                          *)
THEOREM FieldsReadOnce == Spec => []OneReading
<1>1. IInv => OneReading
  BY DEF IInv, AnswersStand, OneReading
<1> QED BY <1>1, AlwaysIInv, PTL

(* The verdict of walkableType is that of the type itself, recursive or    *)
(* not, whichever goroutine walked it and whatever the caches held.        *)
THEOREM VerdictsAreExact == Spec => []WalkableExact
<1>1. IInv => WalkableExact
  BY DEF IInv, VerdictsExact, WalkableExact, Fillable, Bad
<1> QED BY <1>1, AlwaysIInv, PTL

(* The lookup that takes an unmarshaler finds one, and none older than the *)
(* one the lookup before it was told of.                                   *)
THEOREM TakesWhatItWasTold == Spec => []TakenCurrent
<1>1. IInv => TakenCurrent
  BY DEF IInv
<1> QED BY <1>1, AlwaysIInv, PTL
=============================================================================
