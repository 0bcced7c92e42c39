----------------------------- MODULE TypeCaches -----------------------------
(***************************************************************************)
(* What goroutines that encode and decode at once share: the fields read   *)
(* of each struct type (codec/struct.go), which types the typed walk can   *)
(* fill (codec/walkstruct.go), and the marshalers registered for a type    *)
(* (codec/marshaler.go).                                                   *)
(*                                                                         *)
(* Each step is one use of shared memory: a Load, a Store or a LoadOrStore *)
(* of a sync.Map, or what a mutex covers.  What a goroutine computes of a  *)
(* type between two of them is its own.  A reading of a type is known by   *)
(* the type, the mode and the goroutine that made it, as a pointer is.     *)
(***************************************************************************)
EXTENDS Integers, FiniteSets

CONSTANTS
    Goroutine, Type,
    Mode,         \* the vocabularies of tags: codec.tagMode
    Under,        \* Under[m][t]: the types of the fields t has in mode m
    Unwalkable,   \* the types the typed walk leaves to the tree
    Duplicated,   \* Duplicated[m]: the types whose tags name two fields alike
    Custom,       \* the types the program registers an unmarshaler for
    Own,          \* the types this program's decoders have an unmarshaler of their own for
    MaxLookups,   \* how many lookups one goroutine makes
    MaxRegistered \* how often a marshaler is registered

None == "none"
NoType == "no type"

ASSUME TypeCachesAssumption ==
    /\ Under \in [Mode -> [Type -> SUBSET Type]] /\ Duplicated \in [Mode -> SUBSET Type]
    /\ Unwalkable \subseteq Type /\ Custom \subseteq Type /\ Own \subseteq Type
    /\ MaxLookups \in Nat /\ MaxRegistered \in Nat
ASSUME NoTypeAssumption == NoType \notin Type

VARIABLES
    structFieldMaps,   \* per mode and type, the reading that stands
    walkableTypes,     \* per mode and type, whether the typed walk can fill it
    registered,        \* globalCustomUnmarshalerMap: the registration that stands, 0 for none
    goroutine,         \* what each goroutine is doing
    read, walked, taken  \* every answer the lookups of each kind have given

vars == <<structFieldMaps, walkableTypes, registered, goroutine, read, walked, taken>>
answers == <<read, walked, taken>>

NoReading == [type |-> NoType, mode |-> None, by |-> None, err |-> FALSE]
Reading(g, m, t) == [type |-> t, mode |-> m, by |-> g, err |-> t \in Duplicated[m]]

Idle(made) ==
    [does |-> "idle", of |-> NoType, mode |-> None, reads |-> NoType,
     seen |-> {}, todo |-> {}, ok |-> TRUE, told |-> 0, made |-> made]
Begins(g, does, m, t) ==
    [Idle(goroutine[g].made + 1) EXCEPT !.does = does, !.of = t, !.mode = m]

Becomes(g, state) == goroutine' = [goroutine EXCEPT ![g] = state]
Ends(g) == Becomes(g, Idle(goroutine[g].made))
EndsAtOnce(g) == Becomes(g, Idle(goroutine[g].made + 1))
HandsFields(m, t, r) == read' = read \cup {[mode |-> m, type |-> t, is |-> r]} /\ UNCHANGED <<walked, taken>>
SaysWalkable(m, t, ok) == walked' = walked \cup {[mode |-> m, type |-> t, is |-> ok]} /\ UNCHANGED <<read, taken>>
HandsTaken(t, told, took) == taken' = taken \cup {[type |-> t, told |-> told, is |-> took]} /\ UNCHANGED <<read, walked>>

Free(g) == goroutine[g].does = "idle" /\ goroutine[g].made < MaxLookups

Init ==
    /\ structFieldMaps = [m \in Mode |-> [t \in Type |-> NoReading]]
    /\ walkableTypes = [m \in Mode |-> [t \in Type |-> None]]
    /\ registered = [t \in Type |-> 0]
    /\ goroutine = [g \in Goroutine |-> Idle(0)]
    /\ read = {} /\ walked = {} /\ taken = {}

----------------------------------------------------------------------------
(* sync.Map.LoadOrStore: the reading that stands once g's has been offered. *)
\* Broken: puts the new one in its place.
Stores(g, m, t) == Reading(g, m, t)
LoadOrStore(g, m, t) ==
    IF structFieldMaps[m][t] = NoReading THEN Reading(g, m, t) ELSE structFieldMaps[m][t]

(* structFields and structFieldMap. *)
LoadFields(g, m, t) ==
    /\ Free(g)
    /\ structFieldMaps[m][t] = NoReading
    /\ Becomes(g, [Begins(g, "fields", m, t) EXCEPT !.reads = t])
    /\ UNCHANGED <<structFieldMaps, walkableTypes, registered, answers>>
FieldsKnown(g, m, t) ==
    /\ Free(g)
    /\ structFieldMaps[m][t] # NoReading
    /\ HandsFields(m, t, structFieldMaps[m][t]) /\ EndsAtOnce(g)
    /\ UNCHANGED <<structFieldMaps, walkableTypes, registered>>
StoreFields(g) ==
    LET at == goroutine[g]
        r == LoadOrStore(g, at.mode, at.of)
    IN  /\ at.does = "fields"
        /\ structFieldMaps' = [structFieldMaps EXCEPT ![at.mode][at.of] = r]
        /\ HandsFields(at.mode, at.of, r) /\ Ends(g)
        /\ UNCHANGED <<walkableTypes, registered>>

----------------------------------------------------------------------------
(* walkableType. *)
LoadWalkable(g, m, t) ==
    /\ Free(g)
    /\ walkableTypes[m][t] = None
    /\ Becomes(g, [Begins(g, "walk", m, t) EXCEPT !.todo = {t}])
    /\ UNCHANGED <<structFieldMaps, walkableTypes, registered, answers>>
WalkableKnown(g, m, t) ==
    /\ Free(g)
    /\ walkableTypes[m][t] # None
    /\ SaysWalkable(m, t, walkableTypes[m][t]) /\ EndsAtOnce(g)
    /\ UNCHANGED <<structFieldMaps, walkableTypes, registered>>

(* readWalkable, for one type: a type met before says nothing.  The order  *)
(* of the fields is that of a Go map, and so any.                          *)
Descends(at, t, r) ==
    IF r.err THEN [at EXCEPT !.does = "walk", !.ok = FALSE, !.todo = {}, !.reads = NoType]
    ELSE [at EXCEPT !.does = "walk", !.todo = (@ \ {t}) \cup Under[at.mode][t], !.reads = NoType]
\* Broken: a type is met as often as it is named.
MeetAgain(at, t) ==
    IF t \in Unwalkable THEN [at EXCEPT !.ok = FALSE, !.todo = {}] ELSE [at EXCEPT !.reads = t]
Meet(at, t) ==
    CASE t \in at.seen -> [at EXCEPT !.todo = @ \ {t}]
      [] t \notin at.seen /\ t \in Unwalkable -> [at EXCEPT !.ok = FALSE, !.todo = {}]
      [] OTHER -> [at EXCEPT !.reads = t, !.seen = @ \cup {t}]
ReadWalkable(g) ==
    /\ goroutine[g].does = "walk" /\ goroutine[g].reads = NoType
    /\ \E t \in goroutine[g].todo : Becomes(g, Meet(goroutine[g], t))
    /\ UNCHANGED <<structFieldMaps, walkableTypes, registered, answers>>
(* Its call of structFields: a Load, and a LoadOrStore of what was read. *)
WalkLoads(g) ==
    LET at == goroutine[g]
        r == structFieldMaps[at.mode][at.reads]
    IN  /\ at.does = "walk" /\ at.reads # NoType
        /\ Becomes(g, IF r = NoReading THEN [at EXCEPT !.does = "walk reads"] ELSE Descends(at, at.reads, r))
        /\ UNCHANGED <<structFieldMaps, walkableTypes, registered, answers>>
WalkStores(g) ==
    LET at == goroutine[g]
        r == LoadOrStore(g, at.mode, at.reads)
    IN  /\ at.does = "walk reads"
        /\ structFieldMaps' = [structFieldMaps EXCEPT ![at.mode][at.reads] = r]
        /\ Becomes(g, Descends(at, at.reads, r))
        /\ UNCHANGED <<walkableTypes, registered, answers>>

Verdict(at) == IF at.ok THEN "yes" ELSE "no"
\* Broken: what holds of a type is kept for every mode.
KeptForAll(at) == [m \in Mode |-> [walkableTypes[m] EXCEPT ![at.of] = Verdict(at)]]
Kept(at) == [walkableTypes EXCEPT ![at.mode][at.of] = Verdict(at)]
StoreWalkable(g) ==
    LET at == goroutine[g]
    IN  /\ at.does = "walk" /\ at.todo = {} /\ at.reads = NoType
        /\ walkableTypes' = Kept(at)
        /\ SaysWalkable(at.mode, at.of, Verdict(at)) /\ Ends(g)
        /\ UNCHANGED <<structFieldMaps, registered>>

----------------------------------------------------------------------------
(* RegisterCustomUnmarshaler, under its mutex. *)
\* Broken: a second registration withdraws the first.
RegisteredOnce(t) == [registered EXCEPT ![t] = IF @ = 0 THEN 1 ELSE 0]
RegisteredOver(t) == [registered EXCEPT ![t] = @ + 1]
Register(t) ==
    /\ registered[t] < MaxRegistered
    /\ registered' = RegisteredOver(t)
    /\ UNCHANGED <<structFieldMaps, walkableTypes, goroutine, answers>>

(* existsTypeInCustomUnmarshalerMap: the decoder's own come first. *)
Ask(g, t) ==
    /\ Free(g)
    /\ t \in Own \/ registered[t] # 0
    /\ Becomes(g, [Begins(g, "take", None, t) EXCEPT !.told = IF t \in Own THEN 0 ELSE registered[t]])
    /\ UNCHANGED <<structFieldMaps, walkableTypes, registered, answers>>
(* unmarshalerFromCustomUnmarshalerMap, which decodeByUnmarshaler calls. *)
Take(g) ==
    LET at == goroutine[g]
    IN  /\ at.does = "take"
        /\ HandsTaken(at.of, at.told, IF at.of \in Own THEN 0 ELSE registered[at.of]) /\ Ends(g)
        /\ UNCHANGED <<structFieldMaps, walkableTypes, registered>>

Goes(g) ==
    \/ StoreFields(g)
    \/ ReadWalkable(g) \/ WalkLoads(g) \/ WalkStores(g) \/ StoreWalkable(g)
    \/ Take(g)
Next ==
    \/ \E g \in Goroutine, m \in Mode, t \in Type :
          \/ LoadFields(g, m, t) \/ FieldsKnown(g, m, t)
          \/ LoadWalkable(g, m, t) \/ WalkableKnown(g, m, t)
    \/ \E g \in Goroutine, t \in Type : Ask(g, t)
    \/ \E t \in Custom : Register(t)
    \/ \E g \in Goroutine : Goes(g)

(* The Go runtime runs every goroutine; a lookup has nothing to wait for.  *)
Spec == Init /\ [][Next]_vars /\ \A g \in Goroutine : WF_vars(Goes(g))

----------------------------------------------------------------------------
(* Every lookup of one type in one mode is answered with one reading,      *)
(* which encodes and decodes may then share as they hold its fields.       *)
OneReading ==
    \A a, b \in read : a.mode = b.mode /\ a.type = b.type => a.is = b.is

(* The types reached through fields: what every set of types holds that    *)
(* holds the first one and the types of its members' fields.               *)
Closed(m, S) == \A u \in S : Under[m][u] \subseteq S
Reach(m, t) == {u \in Type : \A S \in SUBSET Type : t \in S /\ Closed(m, S) => u \in S}

(* A type is walked into when, and only when, no type it can reach is one  *)
(* the walk leaves to the tree or one whose tags are refused, whoever asks *)
(* and whatever the others are reading; types may hold one another.        *)
WalkableExact ==
    \A a \in walked :
        (a.is = "yes" <=> Reach(a.mode, a.type) \cap (Unwalkable \cup Duplicated[a.mode]) = {})

(* A decoder told that there is an unmarshaler takes one, and none older   *)
(* than the one it was told of.                                            *)
TakenCurrent == \A a \in taken : a.is >= a.told

(* Every lookup that began ends. *)
LookupsEnd == \A g \in Goroutine : goroutine[g].does # "idle" ~> goroutine[g].does = "idle"
=============================================================================
