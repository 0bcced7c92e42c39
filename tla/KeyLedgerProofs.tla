--------------------------- MODULE KeyLedgerProofs ---------------------------
(* Theorems about KeyLedger, for every set of names and kinds, wherever    *)
(* the index takes over from the scan, and whatever the bounds.            *)
EXTENDS KeyLedger, TLAPS, WellFoundedInduction, FiniteSetTheorems

USE LedgerAssumption

-----------------------------------------------------------------------------
(* The inductive invariant. *)

(* What the code's types say of each variable. *)
KeyEntry == [text : Text, kind : Kind, at : Nat]
RefType == [base : Nat, kind : Kind \cup {AnyKind}, text : Text]
IndexEntry == [ref : RefType, at : Nat]
SetType == [entries : Seq(KeyEntry), index : SUBSET IndexEntry, made : BOOLEAN]
Written == [text : Text, kind : Kind \cup {"built"}, at : Nat, index : Int]
Dup == [at : Nat, first : Nat, jsonOnly : BOOLEAN]
BuiltKey == [identity : Text, at : Nat]
FrameType ==
    [kind : {"doc", "map", "seq"},
     slot : {"between", "node", "tagged", "key", "built", "done"},
     base : Nat, dups : SUBSET Dup, entryOf : Nat, entryIndex : Int,
     builtKeys : SUBSET BuiltKey, builds : BOOLEAN, ordered : BOOLEAN,
     index : Nat, wrote : Seq(Written), tag : BOOLEAN]

(* Two keys that are the same under the rule of a stream, and the keys of  *)
(* a history that the n-th repeats: SameKey and Earlier of any stream.     *)
Same(json, v, w) == v.text = w.text /\ (v.kind = w.kind \/ json)
Before(json, wrote, n) == {j \in 1..n-1 : Same(json, wrote[j], wrote[n])}

(* A stack entry of a key, and the key as the history has it.              *)
Is(e, w) == e.text = w.text /\ e.kind = w.kind /\ e.at = w.at
Unique(json, entries, I) ==
    \A k, l \in I : Same(json, entries[k], entries[l]) => k = l

(* What the index says of a key. *)
Names(json, x, e) ==
    /\ x.ref.text = e.text /\ x.at = e.at
    /\ x.ref.kind = e.kind \/ (json /\ x.ref.kind = AnyKind)
RefsIndexed(json, set, base, e) ==
    /\ Indexed(set, Ref(base, e.kind, e.text))
    /\ json => Indexed(set, Ref(base, AnyKind, e.text))

(* One mapping's part of a set, from its base up: each key once; what the  *)
(* index has under that base names one of them, and is there only once     *)
(* they are enough to spill; once it has one, or they are more than that,  *)
(* it has them all.                                                        *)
InIndex(set, base) == \E x \in set.index : x.ref.base = base
OwnPart(json, set, base) ==
    /\ base \in Nat /\ base <= Len(set.entries)
    /\ Unique(json, set.entries, Own(set, base))
    /\ \A x \in set.index : x.ref.base = base =>
          /\ Len(set.entries) - base >= SpillAt
          /\ \E k \in Own(set, base) : Names(json, x, set.entries[k])
    /\ Len(set.entries) - base > SpillAt \/ InIndex(set, base) =>
          \A k \in Own(set, base) : RefsIndexed(json, set, base, set.entries[k])

-----------------------------------------------------------------------------
(* Set. *)

(* The references of a mapping's own keys.                                 *)
OwnRefs(json, set, base) ==
    {Ref(base, set.entries[i].kind, set.entries[i].text) : i \in Own(set, base)}
    \cup (IF json THEN {Ref(base, AnyKind, set.entries[i].text) : i \in Own(set, base)}
                  ELSE {})
Refers(e, r) == e.text = r.text /\ r.kind \in {AnyKind, e.kind}
FirstAt(set, base, r) ==
    set.entries[CHOOSE i \in Own(set, base) :
        /\ set.entries[i].text = r.text
        /\ r.kind \in {AnyKind, set.entries[i].kind}
        /\ \A j \in base+1 .. i-1 : ~(/\ set.entries[j].text = r.text
                                      /\ r.kind \in {AnyKind, set.entries[j].kind})].at

LEMMA OwnEntry ==
    ASSUME NEW set \in SetType, NEW base \in Nat, NEW k \in Own(set, base)
    PROVE  k \in 1..Len(set.entries) /\ k \in Nat /\ k > base /\ set.entries[k] \in KeyEntry
BY DEF SetType, Own

LEMMA RefTyped ==
    ASSUME NEW base \in Nat, NEW kind \in Kind \cup {AnyKind}, NEW text \in Text
    PROVE  Ref(base, kind, text) \in RefType /\ Ref(base, kind, text).base = base
           /\ Ref(base, kind, text).kind = kind /\ Ref(base, kind, text).text = text
BY DEF Ref, RefType

(* Set.spill: the position it gives a reference is that of the one key of  *)
(* the mapping's that the reference names.                                 *)
LEMMA FirstAtIs ==
    ASSUME NEW json \in BOOLEAN, NEW set \in SetType, NEW base,
           OwnPart(json, set, base), NEW r \in OwnRefs(json, set, base)
    PROVE  /\ r \in RefType /\ r.base = base
           /\ FirstAt(set, base, r) \in Nat
           /\ \E k \in Own(set, base) :
                 Names(json, [ref |-> r, at |-> FirstAt(set, base, r)], set.entries[k])
<1> DEFINE Hit(i) == /\ set.entries[i].text = r.text
                     /\ r.kind \in {AnyKind, set.entries[i].kind}
           Least(i) == Hit(i) /\ \A j \in base+1 .. i-1 : ~Hit(j)
           c == CHOOSE i \in Own(set, base) : Least(i)
<1>0. base \in Nat  BY DEF OwnPart
<1>1. PICK k \in Own(set, base) :
          \/ r = Ref(base, set.entries[k].kind, set.entries[k].text)
          \/ json /\ r = Ref(base, AnyKind, set.entries[k].text)
  BY DEF OwnRefs
<1>2. set.entries[k] \in KeyEntry  BY <1>0, OwnEntry
<1>3. r \in RefType /\ r.base = base /\ r.text = set.entries[k].text
      /\ (r.kind = set.entries[k].kind \/ (json /\ r.kind = AnyKind))
  BY <1>0, <1>1, <1>2, RefTyped DEF KeyEntry
<1>4. \A i \in Own(set, base) : Hit(i) => i = k
  <2> SUFFICES ASSUME NEW i \in Own(set, base), Hit(i) PROVE i = k  OBVIOUS
  <2>1. set.entries[i] \in KeyEntry  BY <1>0, OwnEntry
  <2>2. Same(json, set.entries[i], set.entries[k])
    BY <2>1, <1>2, <1>3 DEF Same, KeyEntry
  <2> QED  BY <2>2 DEF OwnPart, Unique
<1>5. Hit(k)  BY <1>3
<1>6. \A j \in base+1 .. k-1 : ~Hit(j)
  <2> SUFFICES ASSUME NEW j \in base+1 .. k-1, Hit(j) PROVE FALSE  OBVIOUS
  <2>1. k \in Nat  BY <1>0, OwnEntry
  <2>2. j \in Own(set, base) /\ j # k  BY <1>0, <2>1 DEF Own, SetType
  <2> QED  BY <2>2, <1>4
<1>7. Least(k)  BY <1>5, <1>6
<1> HIDE DEF Hit
<1>8. c = k  BY <1>4, <1>7
<1>9. FirstAt(set, base, r) = set.entries[k].at  BY <1>8 DEF FirstAt, Hit
<1>10. QED  BY <1>2, <1>3, <1>9 DEF Names, KeyEntry

LEMMA PushTyped ==
    ASSUME NEW set \in SetType, NEW text \in Text, NEW kind \in Kind, NEW at \in Nat
    PROVE  LET e == [text |-> text, kind |-> kind, at |-> at]
               s == Push(set, text, kind, at)
           IN  s \in SetType /\ s.entries = Append(set.entries, e) /\ s.index = set.index
<1> DEFINE e == [text |-> text, kind |-> kind, at |-> at]
           s == Push(set, text, kind, at)
<1>1. e \in KeyEntry  BY DEF KeyEntry
<1>2. s = [set EXCEPT !.entries = Append(set.entries, e)]  BY DEF Push
<1> HIDE DEF e, s
<1>3. set.entries \in Seq(KeyEntry)  BY DEF SetType
<1>4. Append(set.entries, e) \in Seq(KeyEntry)  BY <1>1, <1>3
<1>5. s \in SetType /\ s.entries = Append(set.entries, e) /\ s.index = set.index
  BY <1>2, <1>4 DEF SetType
<1>6. QED  BY <1>5 DEF e, s

(* A key keeps its place as long as the stack under it stands.             *)
LEMMA SameEntries ==
    ASSUME NEW set, NEW other, other.entries = set.entries, NEW base
    PROVE  Own(other, base) = Own(set, base)
BY DEF Own

(* Set.spill: the index gets every reference of the mapping's keys, what   *)
(* it had of other mappings stays, and nothing else comes in.              *)
LEMMA SpillIndexes ==
    ASSUME NEW json \in BOOLEAN, NEW set \in SetType, NEW base,
           OwnPart(json, set, base), Len(set.entries) - base = SpillAt
    PROVE  LET s == Spill(set, base, json)
           IN  /\ s \in SetType /\ s.entries = set.entries
               /\ OwnPart(json, s, base)
               /\ \A k \in Own(set, base) : RefsIndexed(json, s, base, set.entries[k])
               /\ \A x : x.ref.base # base => (x \in s.index <=> x \in set.index)
<1> DEFINE s == Spill(set, base, json)
           add == {[ref |-> r, at |-> FirstAt(set, base, r)] :
                      r \in {q \in OwnRefs(json, set, base) : ~Indexed(set, q)}}
<1>1. s = [set EXCEPT !.made = TRUE, !.index = @ \cup add]
  BY Zenon DEF Spill, OwnRefs, FirstAt
<1>2. \A x \in add : /\ x \in IndexEntry /\ x.ref.base = base
                     /\ \E k \in Own(set, base) : Names(json, x, set.entries[k])
  <2> SUFFICES ASSUME NEW x \in add
               PROVE /\ x \in IndexEntry /\ x.ref.base = base
                     /\ \E k \in Own(set, base) : Names(json, x, set.entries[k])
    OBVIOUS
  <2>1. PICK r \in OwnRefs(json, set, base) : x = [ref |-> r, at |-> FirstAt(set, base, r)]
    OBVIOUS
  <2> HIDE DEF add
  <2>2. r \in RefType /\ r.base = base /\ FirstAt(set, base, r) \in Nat
        /\ \E k \in Own(set, base) :
              Names(json, [ref |-> r, at |-> FirstAt(set, base, r)], set.entries[k])
    BY FirstAtIs
  <2> QED  BY <2>1, <2>2 DEF IndexEntry
<1>3. ASSUME NEW r \in OwnRefs(json, set, base), ~Indexed(set, r)
      PROVE  \E x \in add : x.ref = r
  <2>1. [ref |-> r, at |-> FirstAt(set, base, r)] \in add  BY <1>3, Zenon
  <2>2. [ref |-> r, at |-> FirstAt(set, base, r)].ref = r  OBVIOUS
  <2> QED  BY <2>1, <2>2, Zenon
<1> HIDE DEF add, s
<1>4. s \in SetType /\ s.entries = set.entries /\ s.index = set.index \cup add
  BY <1>1, <1>2 DEF SetType
<1>5. \A k \in Own(set, base) : RefsIndexed(json, s, base, set.entries[k])
  <2> SUFFICES ASSUME NEW k \in Own(set, base)
               PROVE RefsIndexed(json, s, base, set.entries[k])
    OBVIOUS
  <2>1. \A r \in OwnRefs(json, set, base) : Indexed(s, r)
    BY <1>3, <1>4 DEF Indexed
  <2>2. Ref(base, set.entries[k].kind, set.entries[k].text) \in OwnRefs(json, set, base)
        /\ (json => Ref(base, AnyKind, set.entries[k].text) \in OwnRefs(json, set, base))
    BY DEF OwnRefs
  <2> QED  BY <2>1, <2>2 DEF RefsIndexed
<1>6. Own(s, base) = Own(set, base)  BY <1>4 DEF Own
<1>7. OwnPart(json, s, base)
  <2>1. base \in Nat /\ base <= Len(s.entries) /\ Unique(json, s.entries, Own(s, base))
    BY <1>4, <1>6 DEF OwnPart
  <2>2. Len(s.entries) - base >= SpillAt  BY <1>4, <2>1
  <2>3. ASSUME NEW x \in s.index, x.ref.base = base
        PROVE  \E k \in Own(s, base) : Names(json, x, s.entries[k])
    <3>1. CASE x \in add  BY <3>1, <1>2, <1>4, <1>6
    <3>2. CASE x \in set.index  BY <3>2, <2>3, <1>4, <1>6 DEF OwnPart
    <3> QED  BY <3>1, <3>2, <1>4
  <2> QED  BY <2>1, <2>2, <2>3, <1>4, <1>5, <1>6 DEF OwnPart
<1>8. \A x : x.ref.base # base => (x \in s.index <=> x \in set.index)
  BY <1>2, <1>4
<1>9. QED  BY <1>4, <1>5, <1>7, <1>8 DEF s

(* What a key of this kind and text finds: the one that was written first, *)
(* and whether only the name is the same.                                  *)
Finds(json, set, base, text, kind, r) ==
    \E k \in Own(set, base) : /\ Same(json, set.entries[k], [text |-> text, kind |-> kind])
                              /\ r.first = set.entries[k].at
                              /\ r.jsonOnly <=> set.entries[k].kind # kind
Has(json, set, base, text, kind) ==
    \E k \in Own(set, base) : Same(json, set.entries[k], [text |-> text, kind |-> kind])

(* What one Record is to do: it finds the key, and leaves the stack alone, *)
(* or pushes it as a new one; the index keeps all it had of the others.    *)
Recorded(json, set, base, text, kind, at, r) ==
    /\ r.set \in SetType /\ r.defined \in BOOLEAN /\ r.first \in Nat /\ r.jsonOnly \in BOOLEAN
    /\ OwnPart(json, r.set, base)
    /\ \A x : x.ref.base # base => (x \in r.set.index <=> x \in set.index)
    /\ r.defined <=> Has(json, set, base, text, kind)
    /\ r.defined => r.set.entries = set.entries /\ Finds(json, set, base, text, kind, r)
    /\ ~r.defined =>
          r.set.entries = Append(set.entries, [text |-> text, kind |-> kind, at |-> at])

(* A new key on the stack: the mapping's own part grows by it.             *)
LEMMA PushOwns ==
    ASSUME NEW json \in BOOLEAN, NEW set \in SetType, NEW base \in Nat, base <= Len(set.entries),
           NEW e \in KeyEntry, NEW other \in SetType, other.entries = Append(set.entries, e),
           Unique(json, set.entries, Own(set, base)),
           \A k \in Own(set, base) : ~Same(json, set.entries[k], e)
    PROVE  /\ Len(other.entries) = Len(set.entries) + 1
           /\ Own(other, base) = Own(set, base) \cup {Len(set.entries) + 1}
           /\ \A k \in Own(set, base) : other.entries[k] = set.entries[k]
           /\ other.entries[Len(set.entries)+1] = e
           /\ Unique(json, other.entries, Own(other, base))
<1> DEFINE n == Len(set.entries) + 1
<1>2. set.entries \in Seq(KeyEntry)  BY DEF SetType
<1>4. Len(other.entries) = n /\ other.entries[n] = e  BY <1>2
<1>5. Own(other, base) = Own(set, base) \cup {n}  BY <1>2, <1>4 DEF Own
<1>6. \A k \in Own(set, base) : other.entries[k] = set.entries[k] /\ k # n
  BY <1>2 DEF Own
<1>7. \A k \in Own(set, base) : ~Same(json, e, set.entries[k])
  BY DEF Same
<1>8. Unique(json, other.entries, Own(other, base))
  BY <1>4, <1>5, <1>6, <1>7 DEF Unique
<1>9. QED  BY <1>4, <1>5, <1>6, <1>8

(* Set.recordIndexed, once the index has all of the mapping's keys.        *)
AskIndex(set, base, text, kind, at, json) ==
    LET ref == Ref(base, kind, text)
        name == Ref(base, AnyKind, text)
        added == {ref} \cup (IF json THEN {name} ELSE {})
    IN  IF Indexed(set, ref) THEN Found(set, Position(set, ref), FALSE)
        ELSE IF json /\ Indexed(set, name) THEN Found(set, Position(set, name), TRUE)
        ELSE Fresh([Push(set, text, kind, at) EXCEPT
                        !.index = @ \cup {[ref |-> r, at |-> at] : r \in added}])

LEMMA IndexRecords ==
    ASSUME NEW json \in BOOLEAN, NEW set \in SetType, NEW base, OwnPart(json, set, base),
           \A k \in Own(set, base) : RefsIndexed(json, set, base, set.entries[k]),
           Len(set.entries) - base >= SpillAt,
           NEW text \in Text, NEW kind \in Kind, NEW at \in Nat
    PROVE  Recorded(json, set, base, text, kind, at, AskIndex(set, base, text, kind, at, json))
<1> DEFINE ref == Ref(base, kind, text)
           name == Ref(base, AnyKind, text)
           key == [text |-> text, kind |-> kind]
           r == AskIndex(set, base, text, kind, at, json)
<1>0. base \in Nat /\ base <= Len(set.entries) /\ set.index \in SUBSET IndexEntry
  BY DEF OwnPart, SetType
<1>1. /\ ref \in RefType /\ ref.base = base /\ ref.kind = kind /\ ref.text = text
      /\ name \in RefType /\ name.base = base /\ name.kind = AnyKind /\ name.text = text
      /\ kind # AnyKind
  BY <1>0, RefTyped
<1>2. \A k \in Own(set, base) : set.entries[k] \in KeyEntry  BY <1>0, OwnEntry
<1>3. key.text = text /\ key.kind = kind  OBVIOUS
<1> SUFFICES Recorded(json, set, base, text, kind, at, r)  OBVIOUS
<1> HIDE DEF ref, name, key, r
<1>4. ASSUME NEW q \in {ref, name}, Indexed(set, q)
      PROVE  \E k \in Own(set, base) : /\ set.entries[k].text = text /\ Position(set, q) = set.entries[k].at
                                       /\ set.entries[k].kind = q.kind \/ (json /\ q.kind = AnyKind)
  <2> DEFINE x == CHOOSE y \in set.index : y.ref = q
  <2>1. x \in set.index /\ x.ref = q  BY <1>4 DEF Indexed
  <2>2. Position(set, q) = x.at  BY DEF Position
  <2> HIDE DEF x
  <2>3. PICK k \in Own(set, base) : Names(json, x, set.entries[k])
    BY <2>1, <1>1 DEF OwnPart
  <2> QED  BY <2>1, <2>2, <2>3, <1>1 DEF Names
<1>5. CASE Indexed(set, ref)
  <2>1. r = Found(set, Position(set, ref), FALSE)  BY <1>5, Zenon DEF ref, r, AskIndex
  <2>2. PICK k \in Own(set, base) : set.entries[k].text = text /\ Position(set, ref) = set.entries[k].at
                                    /\ set.entries[k].kind = kind
    BY <1>4, <1>5, <1>1
  <2>3. Same(json, set.entries[k], key)  BY <2>2, <1>3 DEF Same
  <2>4. r.set = set /\ r.defined = TRUE /\ r.first = set.entries[k].at /\ r.jsonOnly = FALSE
    BY <2>1, <2>2 DEF Found
  <2>5. r.first \in Nat  BY <2>4, <1>2 DEF KeyEntry
  <2> QED  BY <2>2, <2>3, <2>4, <2>5 DEF Recorded, Has, Finds, key
<1>6. CASE ~Indexed(set, ref) /\ json /\ Indexed(set, name)
  <2>1. r = Found(set, Position(set, name), TRUE)  BY <1>6, Zenon DEF ref, name, r, AskIndex
  <2>2. PICK k \in Own(set, base) : set.entries[k].text = text /\ Position(set, name) = set.entries[k].at
    BY <1>4, <1>6, <1>1
  <2>3. Same(json, set.entries[k], key)  BY <2>2, <1>3, <1>6 DEF Same
  <2>4. set.entries[k].kind # kind
    BY <1>6, <2>2 DEF RefsIndexed, ref
  <2>5. r.set = set /\ r.defined = TRUE /\ r.first = set.entries[k].at /\ r.jsonOnly = TRUE
    BY <2>1, <2>2 DEF Found
  <2>6. r.first \in Nat  BY <2>5, <1>2 DEF KeyEntry
  <2> QED  BY <2>2, <2>3, <2>4, <2>5, <2>6 DEF Recorded, Has, Finds, key
<1>7. CASE ~Indexed(set, ref) /\ ~(json /\ Indexed(set, name))
  <2> DEFINE added == {ref} \cup (IF json THEN {name} ELSE {})
             add == {[ref |-> q, at |-> at] : q \in added}
             e == [text |-> text, kind |-> kind, at |-> at]
             new == [Push(set, text, kind, at) EXCEPT !.index = @ \cup add]
  <2>1. r = Fresh(new)  BY <1>7, Zenon DEF ref, name, r, AskIndex
  <2>0. new = [Push(set, text, kind, at) EXCEPT !.index = @ \cup add]  OBVIOUS
  <2> HIDE DEF new, add
  <2>2. r.set = new /\ r.defined = FALSE /\ r.first = 0 /\ r.jsonOnly = FALSE
    BY <2>1 DEF Fresh
  <2>3. e \in KeyEntry /\ e.text = text /\ e.kind = kind /\ e.at = at  BY DEF KeyEntry
  <2>4. \A x \in add : x \in IndexEntry /\ x.ref.base = base /\ Names(json, x, e)
    BY <1>1, <2>3 DEF IndexEntry, Names, add
  <2>5. RefsIndexed(json, [index |-> add], base, e)
    <3>1. ref \in added /\ (json => name \in added)  OBVIOUS
    <3>2. \A q \in added : [ref |-> q, at |-> at] \in add /\ [ref |-> q, at |-> at].ref = q
      BY DEF add
    <3> HIDE DEF added, add
    <3> QED  BY <3>1, <3>2, <2>3 DEF RefsIndexed, Indexed, ref, name
  <2>6. new \in SetType /\ new.entries = Append(set.entries, e) /\ new.index = set.index \cup add
    <3>1. /\ set.entries \in Seq(KeyEntry) /\ set.index \in SUBSET IndexEntry /\ set.made \in BOOLEAN
          /\ DOMAIN set = {"entries", "index", "made"}
      BY DEF SetType
    <3>2. add \in SUBSET IndexEntry  BY <2>4
    <3>3. /\ Push(set, text, kind, at) \in SetType
          /\ Push(set, text, kind, at).entries = Append(set.entries, e)
          /\ Push(set, text, kind, at).index = set.index
      BY PushTyped
    <3>4. new \in SetType /\ new.entries = Append(set.entries, e) /\ new.index = set.index \cup add
      BY <2>0, <3>2, <3>3 DEF SetType
    <3> QED  BY <3>4
  <2> HIDE DEF added
  <2>7. ~Has(json, set, base, text, kind)
    <3> SUFFICES ASSUME NEW k \in Own(set, base), Same(json, set.entries[k], key) PROVE FALSE
      BY DEF Has, key
    <3>1. RefsIndexed(json, set, base, set.entries[k])  OBVIOUS
    <3> QED  BY <3>1, <1>3, <1>7 DEF Same, RefsIndexed, ref, name
  <2>8. /\ Len(new.entries) = Len(set.entries) + 1
        /\ Own(new, base) = Own(set, base) \cup {Len(set.entries) + 1}
        /\ \A k \in Own(set, base) : new.entries[k] = set.entries[k]
        /\ new.entries[Len(set.entries)+1] = e
        /\ Unique(json, new.entries, Own(new, base))
    <3>1. new.entries = Append(set.entries, e) /\ new \in SetType  BY <2>6
    <3>2. Unique(json, set.entries, Own(set, base))  BY DEF OwnPart
    <3>3. \A k \in Own(set, base) : ~Same(json, set.entries[k], e)
      BY <2>3, <2>7 DEF Has, Same
    <3> HIDE DEF e
    <3> QED  BY <1>0, <2>3, <3>1, <3>2, <3>3, PushOwns
  <2> HIDE DEF e
  <2>9. \A x : x.ref.base # base => (x \in new.index <=> x \in set.index)
    BY <2>4, <2>6
  <2>10. \A x \in new.index : x.ref.base = base =>
            \E k \in Own(new, base) : Names(json, x, new.entries[k])
    <3> SUFFICES ASSUME NEW x \in new.index, x.ref.base = base
                 PROVE  \E k \in Own(new, base) : Names(json, x, new.entries[k])
      OBVIOUS
    <3>1. CASE x \in add  BY <3>1, <2>4, <2>8
    <3>2. CASE x \in set.index
      <4>1. PICK k \in Own(set, base) : Names(json, x, set.entries[k])  BY <3>2 DEF OwnPart
      <4> QED  BY <4>1, <2>8
    <3> QED  BY <3>1, <3>2, <2>6
  <2>11. \A k \in Own(new, base) : RefsIndexed(json, new, base, new.entries[k])
    BY <2>5, <2>6, <2>8 DEF RefsIndexed, Indexed
  <2>12. Len(new.entries) \in Nat /\ Len(new.entries) - base >= SpillAt /\ base <= Len(new.entries)
    BY <1>0, <2>8 DEF SetType
  <2>13. OwnPart(json, new, base)
    BY <1>0, <2>8, <2>10, <2>11, <2>12 DEF OwnPart
  <2> QED  BY <2>2, <2>6, <2>7, <2>9, <2>13, 0 \in Nat DEF Recorded, e
<1>8. QED  BY <1>5, <1>6, <1>7

(* Set.Record: whichever of the scan and the index answers, a key is found *)
(* if and only if the mapping has it, with the place it was first written. *)
LEMMA RecordAnswers ==
    ASSUME NEW json \in BOOLEAN, NEW set \in SetType, NEW base, OwnPart(json, set, base),
           NEW text \in Text, NEW kind \in Kind, NEW at \in Nat
    PROVE  Recorded(json, set, base, text, kind, at, Record(set, base, text, kind, at, json))
<1> DEFINE r == Record(set, base, text, kind, at, json)
           key == [text |-> text, kind |-> kind]
<1>0. /\ base \in Nat /\ base <= Len(set.entries) /\ Len(set.entries) \in Nat
      /\ Unique(json, set.entries, Own(set, base))
  BY DEF OwnPart, SetType
<1>1. \A k \in Own(set, base) : set.entries[k] \in KeyEntry  BY <1>0, OwnEntry
<1>2. key.text = text /\ key.kind = kind  OBVIOUS
<1> SUFFICES Recorded(json, set, base, text, kind, at, r)  OBVIOUS
<1> HIDE DEF r, key
<1>3. CASE Len(set.entries) - base > SpillAt
  <2>1. r = AskIndex(set, base, text, kind, at, json)
    BY <1>0, <1>3, Len(set.entries) - base >= SpillAt, Len(set.entries) - base # SpillAt
    DEF r, Record, RecordIndexed, AskIndex
  <2>2. Len(set.entries) - base >= SpillAt
        /\ \A k \in Own(set, base) : RefsIndexed(json, set, base, set.entries[k])
    BY <1>0, <1>3 DEF OwnPart
  <2> QED  BY <2>1, <2>2, IndexRecords
<1>4. CASE Len(set.entries) - base = SpillAt
  <2> DEFINE s == Spill(set, base, json)
  <2>1. r = AskIndex(s, base, text, kind, at, json)
    BY <1>0, <1>4, Len(set.entries) - base >= SpillAt
    DEF r, Record, RecordIndexed, AskIndex
  <2>2. /\ s \in SetType /\ s.entries = set.entries /\ OwnPart(json, s, base)
        /\ \A k \in Own(set, base) : RefsIndexed(json, s, base, set.entries[k])
        /\ \A x : x.ref.base # base => (x \in s.index <=> x \in set.index)
    BY <1>4, SpillIndexes
  <2> HIDE DEF s
  <2>3. Own(s, base) = Own(set, base)  BY <2>2, SameEntries
  <2>4. Len(s.entries) - base >= SpillAt
        /\ \A k \in Own(s, base) : RefsIndexed(json, s, base, s.entries[k])
    BY <1>0, <1>4, <2>2, <2>3
  <2>5. Recorded(json, s, base, text, kind, at, r)
    BY <2>1, <2>2, <2>4, IndexRecords
  <2> QED  BY <2>2, <2>3, <2>5 DEF Recorded, Has, Finds
<1>5. CASE Len(set.entries) - base < SpillAt
  <2> DEFINE hits == {i \in Own(set, base) : /\ set.entries[i].text = text
                                             /\ json \/ set.entries[i].kind = kind}
             c == CHOOSE i \in hits : \A j \in hits : i <= j
  <2>1. r = IF hits # {} THEN Found(set, set.entries[c].at, set.entries[c].kind # kind)
                         ELSE Fresh(Push(set, text, kind, at))
    BY <1>0, <1>5, ~(Len(set.entries) - base >= SpillAt), Zenon DEF r, Record
  <2>2. \A i \in Own(set, base) : i \in hits <=> Same(json, set.entries[i], key)
    BY <1>2 DEF Same
  <2>3. CASE hits # {}
    <3>1. PICK k \in Own(set, base) : k \in hits  BY <2>3
    <3>2. \A j \in hits : j = k
      <4> SUFFICES ASSUME NEW j \in hits PROVE j = k  OBVIOUS
      <4>1. j \in Own(set, base) /\ Same(json, set.entries[j], set.entries[k])
        BY <3>1 DEF Same
      <4> QED  BY <4>1, <1>0 DEF Unique
    <3>3. k \in Nat  BY <1>0, OwnEntry
    <3> HIDE DEF hits
    <3>4. c = k
      <4>1. k \in hits /\ \A j \in hits : k <= j  BY <3>1, <3>2, <3>3
      <4> QED  BY <4>1, <3>2
    <3> HIDE DEF c
    <3>5. r = Found(set, set.entries[k].at, set.entries[k].kind # kind)
      BY <2>1, <2>3, <3>4
    <3>6. r.set = set /\ r.defined = TRUE /\ r.first = set.entries[k].at
          /\ r.jsonOnly = (set.entries[k].kind # kind)
      BY <3>5 DEF Found
    <3>7. Same(json, set.entries[k], key) /\ r.first \in Nat
      BY <2>2, <3>1, <3>6, <1>1 DEF KeyEntry
    <3> QED  BY <3>6, <3>7 DEF Recorded, Has, Finds, key
  <2>4. CASE hits = {}
    <3> DEFINE e == [text |-> text, kind |-> kind, at |-> at]
               new == Push(set, text, kind, at)
    <3>1. \A k \in Own(set, base) : ~Same(json, set.entries[k], key)
      BY <2>2, <2>4
    <3>2. r = Fresh(new)  BY <2>1, <2>4
    <3>3. e \in KeyEntry /\ e.text = text /\ e.kind = kind  BY DEF KeyEntry
    <3>4. new \in SetType /\ new.entries = Append(set.entries, e) /\ new.index = set.index
      BY PushTyped
    <3>5. \A k \in Own(set, base) : ~Same(json, set.entries[k], e)
      BY <3>1, <3>3, <1>2 DEF Same
    <3> HIDE DEF new, e, hits, c
    <3>6. r.set = new /\ r.defined = FALSE /\ r.first = 0 /\ r.jsonOnly = FALSE
      BY <3>2 DEF Fresh
    <3>7. /\ Len(new.entries) = Len(set.entries) + 1
          /\ Own(new, base) = Own(set, base) \cup {Len(set.entries) + 1}
          /\ \A k \in Own(set, base) : new.entries[k] = set.entries[k]
          /\ new.entries[Len(set.entries)+1] = e
          /\ Unique(json, new.entries, Own(new, base))
      <4>1. e \in KeyEntry /\ new \in SetType /\ new.entries = Append(set.entries, e)
        BY <3>3, <3>4
      <4> QED  BY <1>0, <3>5, <4>1, PushOwns
    <3>8. \A x \in set.index : x.ref.base # base
      BY <1>0, <1>5 DEF OwnPart
    <3>9. ~(Len(new.entries) - base > SpillAt) /\ base <= Len(new.entries)
      BY <1>0, <1>5, <3>7
    <3>10. OwnPart(json, new, base)
      BY <1>0, <3>4, <3>7, <3>8, <3>9 DEF OwnPart, InIndex
    <3>11. ~Has(json, set, base, text, kind)  BY <3>1 DEF Has, key
    <3> QED  BY <3>4, <3>6, <3>10, <3>11, 0 \in Nat DEF Recorded, e
  <2> QED  BY <2>3, <2>4
<1>6. QED  BY <1>0, <1>3, <1>4, <1>5

(* Set.Close: the stack is cut at the mapping's base; the index loses what *)
(* it had under that base and nothing else.                                *)
LEMMA CloseForgets ==
    ASSUME NEW json \in BOOLEAN, NEW set \in SetType, NEW base, OwnPart(json, set, base)
    PROVE  LET s == Close(set, base, json)
           IN  /\ s \in SetType /\ s.entries = SubSeq(set.entries, 1, base)
               /\ \A x : x \in s.index <=> x \in set.index /\ x.ref.base # base
<1> DEFINE s == Close(set, base, json)
           gone == OwnRefs(json, set, base)
           index == IF Len(set.entries) - base >= SpillAt
                    THEN {x \in set.index : x.ref \notin gone} ELSE set.index
<1>0. base \in Nat /\ base <= Len(set.entries) /\ Len(set.entries) \in Nat
      /\ set.entries \in Seq(KeyEntry) /\ set.index \in SUBSET IndexEntry
  BY DEF OwnPart, SetType
<1>1. s = [set EXCEPT !.entries = SubSeq(set.entries, 1, base), !.index = index]
  BY Zenon DEF Close, OwnRefs
<1>2. SubSeq(set.entries, 1, base) \in Seq(KeyEntry)  BY <1>0
<1>3. index \in SUBSET IndexEntry  BY <1>0
<1> HIDE DEF index, s
<1>4. s \in SetType /\ s.entries = SubSeq(set.entries, 1, base) /\ s.index = index
  BY <1>1, <1>2, <1>3 DEF SetType
<1>5. ASSUME NEW x \in set.index, x.ref.base = base
      PROVE  Len(set.entries) - base >= SpillAt /\ x.ref \in gone
  <2>1. PICK k \in Own(set, base) : Names(json, x, set.entries[k])
    BY <1>5 DEF OwnPart
  <2>2. Len(set.entries) - base >= SpillAt  BY <1>5 DEF OwnPart
  <2>3. x.ref \in RefType /\ x.ref = Ref(x.ref.base, x.ref.kind, x.ref.text)
    BY <1>0 DEF IndexEntry, RefType, Ref
  <2>4. \/ x.ref = Ref(base, set.entries[k].kind, set.entries[k].text)
        \/ json /\ x.ref = Ref(base, AnyKind, set.entries[k].text)
    BY <2>1, <2>3, <1>5 DEF Names
  <2>5. x.ref \in gone  BY <2>4 DEF OwnRefs
  <2> QED  BY <2>2, <2>5
<1>6. \A q \in gone : q.base = base
  <2> SUFFICES ASSUME NEW q \in gone PROVE q.base = base  OBVIOUS
  <2>1. PICK k \in Own(set, base) : \/ q = Ref(base, set.entries[k].kind, set.entries[k].text)
                                    \/ q = Ref(base, AnyKind, set.entries[k].text)
    BY DEF OwnRefs
  <2> QED  BY <2>1 DEF Ref
<1> HIDE DEF gone
<1>7. \A x : x \in s.index <=> x \in set.index /\ x.ref.base # base
  BY <1>4, <1>5, <1>6 DEF index, gone
<1>8. QED  BY <1>4, <1>7 DEF s

-----------------------------------------------------------------------------
(* What was written. *)

LEMMA LeastExists ==
    ASSUME NEW S \in SUBSET Nat, S # {}
    PROVE  \E m \in S : \A n \in S : m <= n
<1> DEFINE R == OpToRel(<, Nat)
<1>1. IsWellFoundedOn(R, Nat)  BY NatLessThanWellFounded, Zenon
<1>2. \A x, y \in Nat : <<y, x>> \in R <=> y < x  BY DEF OpToRel
<1> HIDE DEF R
<1>3. PICK m \in S : \A n \in S : ~(<<n, m>> \in R)  BY <1>1, WFMin
<1>4. ASSUME NEW n \in S PROVE m <= n
  <2>1. m \in Nat /\ n \in Nat  OBVIOUS
  <2>2. ~(n < m)  BY <2>1, <1>2, <1>3
  <2> QED  BY <2>1, <2>2
<1>5. QED  BY <1>4

(* The first of its name; a key never is, if one before it is the same.    *)
First(json, wrote, n) == wrote[n].kind # "built" /\ Before(json, wrote, n) = {}
RepeatOf(json, wrote, n) ==
    LET first == wrote[CHOOSE j \in Before(json, wrote, n) :
                          \A k \in Before(json, wrote, n) : j <= k]
    IN  [at |-> wrote[n].at, first |-> first.at, jsonOnly |-> first.kind # wrote[n].kind]

LEMMA SameSame ==
    ASSUME NEW wrote, NEW n
    PROVE  /\ Earlier(wrote, n) = Before(jsonNames, wrote, n)
           /\ Repeat(wrote, n) = RepeatOf(jsonNames, wrote, n)
BY Zenon DEF Earlier, Before, SameKey, Same, Repeat, RepeatOf

(* The earliest of the keys that one repeats is the first of its name, and *)
(* the only one of them that is.                                           *)
LEMMA FirstOfName ==
    ASSUME NEW json \in BOOLEAN, NEW wrote \in Seq(Written), NEW n \in DOMAIN wrote
    PROVE  /\ Before(json, wrote, n) # {} =>
                 \E m \in Before(json, wrote, n) : Before(json, wrote, m) = {}
           /\ \A m \in Before(json, wrote, n) : Before(json, wrote, m) = {} =>
                 /\ \A k \in Before(json, wrote, n) : m <= k
                 /\ RepeatOf(json, wrote, n) =
                      [at |-> wrote[n].at, first |-> wrote[m].at,
                       jsonOnly |-> wrote[m].kind # wrote[n].kind]
<1> DEFINE B == Before(json, wrote, n)
<1>0. n \in Nat /\ n \in 1..Len(wrote)  OBVIOUS
<1>1. B \in SUBSET Nat /\ \A j \in B : j \in 1..n-1 /\ Same(json, wrote[j], wrote[n])
  BY <1>0 DEF Before
<1>2. ASSUME NEW m \in B, NEW j \in 1..m-1, Same(json, wrote[j], wrote[m])
      PROVE  j \in B
  <2>1. m \in 1..n-1 /\ Same(json, wrote[m], wrote[n])  BY <1>1
  <2>2. Same(json, wrote[j], wrote[n])  BY <2>1, <1>2 DEF Same
  <2>3. j \in 1..n-1  BY <2>1, <1>0
  <2> QED  BY <2>2, <2>3 DEF Before
<1>3. ASSUME B # {} PROVE \E m \in B : Before(json, wrote, m) = {}
  <2>1. PICK m \in B : \A k \in B : m <= k
    <3> HIDE DEF B
    <3> QED  BY <1>1, <1>3, LeastExists
  <2>2. ASSUME NEW j \in Before(json, wrote, m) PROVE FALSE
    <3>1. m \in Nat  BY <1>1
    <3>2. j \in 1..m-1 /\ Same(json, wrote[j], wrote[m])  BY DEF Before
    <3>3. j \in B  BY <3>2, <1>2
    <3> HIDE DEF B
    <3> QED  BY <2>1, <3>1, <3>2, <3>3
  <2> QED  BY <2>2
<1>4. ASSUME NEW m \in B, Before(json, wrote, m) = {}, NEW k \in B
      PROVE  m <= k
  <2>1. m \in 1..n-1 /\ k \in 1..n-1 /\ m \in Nat /\ k \in Nat  BY <1>0, <1>1
  <2>2. Same(json, wrote[k], wrote[m])  BY <1>1 DEF Same
  <2>3. ~(k \in 1..m-1)  BY <2>2, <1>4 DEF Before
  <2> QED  BY <2>1, <2>3
<1>5. ASSUME NEW m \in B, Before(json, wrote, m) = {}
      PROVE  RepeatOf(json, wrote, n) =
                 [at |-> wrote[n].at, first |-> wrote[m].at,
                  jsonOnly |-> wrote[m].kind # wrote[n].kind]
  <2> DEFINE c == CHOOSE j \in B : \A k \in B : j <= k
  <2>1. m \in B /\ \A k \in B : m <= k  BY <1>5, <1>4
  <2>2. c \in B /\ \A k \in B : c <= k  BY <2>1
  <2>3. RepeatOf(json, wrote, n) =
          [at |-> wrote[n].at, first |-> wrote[c].at,
           jsonOnly |-> wrote[c].kind # wrote[n].kind]
    BY Zenon DEF RepeatOf
  <2> HIDE DEF c, B
  <2>4. c = m  BY <1>1, <2>1, <2>2
  <2> QED  BY <2>3, <2>4
<1>6. QED  BY <1>3, <1>4, <1>5

(* A history that grows by one key.                                        *)
LEMMA WroteOneMore ==
    ASSUME NEW json \in BOOLEAN, NEW wrote \in Seq(Written), NEW w \in Written
    PROVE  LET more == Append(wrote, w)
               n == Len(wrote) + 1
           IN  /\ more \in Seq(Written) /\ n \in Nat
               /\ DOMAIN more = DOMAIN wrote \cup {n} /\ more[n] = w /\ n \notin DOMAIN wrote
               /\ \A k \in DOMAIN wrote : more[k] = wrote[k]
               /\ \A k \in DOMAIN wrote : Before(json, more, k) = Before(json, wrote, k)
               /\ Before(json, more, n) = {j \in DOMAIN wrote : Same(json, wrote[j], w)}
               /\ \A k \in DOMAIN wrote : Before(json, wrote, k) # {} =>
                     RepeatOf(json, more, k) = RepeatOf(json, wrote, k)
<1> DEFINE more == Append(wrote, w)
           n == Len(wrote) + 1
<1>1. /\ more \in Seq(Written) /\ n \in Nat
      /\ DOMAIN more = DOMAIN wrote \cup {n} /\ more[n] = w /\ n \notin DOMAIN wrote
      /\ \A k \in DOMAIN wrote : more[k] = wrote[k]
      /\ DOMAIN wrote = 1..n-1
  OBVIOUS
<1> HIDE DEF more, n
<1>2. ASSUME NEW k \in DOMAIN wrote PROVE Before(json, more, k) = Before(json, wrote, k)
  <2>1. \A j \in 1..k-1 : more[j] = wrote[j]  BY <1>1
  <2> QED  BY <1>1, <2>1 DEF Before
<1>3. Before(json, more, n) = {j \in DOMAIN wrote : Same(json, wrote[j], w)}
  BY <1>1 DEF Before
<1>4. ASSUME NEW k \in DOMAIN wrote, Before(json, wrote, k) # {}
      PROVE  RepeatOf(json, more, k) = RepeatOf(json, wrote, k)
  <2>1. PICK m \in Before(json, wrote, k) : Before(json, wrote, m) = {}
    BY <1>4, FirstOfName
  <2>2. m \in DOMAIN wrote  BY <1>1 DEF Before
  <2>3. m \in Before(json, more, k) /\ Before(json, more, m) = {}
    BY <2>1, <2>2, <1>2
  <2>4. RepeatOf(json, wrote, k) =
          [at |-> wrote[k].at, first |-> wrote[m].at, jsonOnly |-> wrote[m].kind # wrote[k].kind]
    BY <2>1, FirstOfName
  <2>5. RepeatOf(json, more, k) =
          [at |-> more[k].at, first |-> more[m].at, jsonOnly |-> more[m].kind # more[k].kind]
    BY <2>3, <1>1, FirstOfName
  <2> QED  BY <2>2, <2>4, <2>5, <1>1
<1>5. QED  BY <1>1, <1>2, <1>3, <1>4 DEF more, n

(* The entries I of a stack are the first of each name a history has.      *)
HoldsFirsts(json, entries, I, wrote) ==
    /\ \A k \in I : \E n \in DOMAIN wrote : First(json, wrote, n) /\ Is(entries[k], wrote[n])
    /\ \A n \in DOMAIN wrote : First(json, wrote, n) => \E k \in I : Is(entries[k], wrote[n])
    /\ Unique(json, entries, I)

Repeats(json, wrote) == {n \in DOMAIN wrote : Before(json, wrote, n) # {}}
RepeatsOf(json, wrote) == {RepeatOf(json, wrote, n) : n \in Repeats(json, wrote)}
FirstBuilt(json, wrote) ==
    {n \in DOMAIN wrote : wrote[n].kind = "built" /\ Before(json, wrote, n) = {}}
BuiltOf(json, wrote) ==
    {[identity |-> wrote[n].text, at |-> wrote[n].at] : n \in FirstBuilt(json, wrote)}

(* JSON has no keys that are built.                                        *)
NoneBuilt(wrote) == \A n \in DOMAIN wrote : wrote[n].kind # "built"

(* What a stack finds of a key is what the history says it repeats.        *)
DupOf(w, e) == [at |-> w.at, first |-> e.at, jsonOnly |-> e.kind # w.kind]

LEMMA RepeatFound ==
    ASSUME NEW json \in BOOLEAN, NEW entries, NEW I, NEW wrote \in Seq(Written), NEW w \in Written,
           HoldsFirsts(json, entries, I, wrote), NEW k \in I, Same(json, entries[k], w)
    PROVE  /\ \E j \in DOMAIN wrote : Same(json, wrote[j], w)
           /\ RepeatOf(json, Append(wrote, w), Len(wrote) + 1) = DupOf(w, entries[k])
<1> DEFINE more == Append(wrote, w)
           n == Len(wrote) + 1
<1>1. /\ more \in Seq(Written) /\ n \in DOMAIN more /\ more[n] = w
      /\ \A j \in DOMAIN wrote : more[j] = wrote[j] /\ Before(json, more, j) = Before(json, wrote, j)
      /\ Before(json, more, n) = {j \in DOMAIN wrote : Same(json, wrote[j], w)}
  BY WroteOneMore
<1>2. PICK m \in DOMAIN wrote : First(json, wrote, m) /\ Is(entries[k], wrote[m])
  BY DEF HoldsFirsts
<1>3. Same(json, wrote[m], w)  BY <1>2 DEF Same, Is
<1> HIDE DEF more, n
<1>4. m \in Before(json, more, n) /\ Before(json, more, m) = {}
  BY <1>1, <1>2, <1>3 DEF First
<1>5. RepeatOf(json, more, n) =
        [at |-> more[n].at, first |-> more[m].at, jsonOnly |-> more[m].kind # more[n].kind]
  BY <1>1, <1>4, FirstOfName
<1>6. QED  BY <1>1, <1>2, <1>3, <1>5 DEF DupOf, Is, more, n

(* A stack and a history look for a new key the same way.                  *)
LEMMA SameFound ==
    ASSUME NEW json \in BOOLEAN, NEW entries, NEW I, NEW wrote \in Seq(Written), NEW w \in Written,
           HoldsFirsts(json, entries, I, wrote), json => NoneBuilt(wrote), w.kind # "built"
    PROVE  (\E k \in I : Same(json, entries[k], w)) <=> \E j \in DOMAIN wrote : Same(json, wrote[j], w)
<1> DEFINE more == Append(wrote, w)
           n == Len(wrote) + 1
<1>1. /\ more \in Seq(Written) /\ n \in DOMAIN more
      /\ \A k \in DOMAIN wrote : Before(json, more, k) = Before(json, wrote, k)
      /\ Before(json, more, n) = {j \in DOMAIN wrote : Same(json, wrote[j], w)}
  BY WroteOneMore
<1> HIDE DEF more, n
<1>2. ASSUME NEW j \in DOMAIN wrote, Same(json, wrote[j], w)
      PROVE  \E k \in I : Same(json, entries[k], w)
  <2>1. PICK m \in Before(json, more, n) : Before(json, more, m) = {}
    BY <1>1, <1>2, FirstOfName
  <2>2. m \in DOMAIN wrote /\ Same(json, wrote[m], w) /\ Before(json, wrote, m) = {}
    BY <1>1, <2>1
  <2>3. wrote[m].kind # "built"
    BY <2>2 DEF Same, NoneBuilt
  <2>4. PICK k \in I : Is(entries[k], wrote[m])  BY <2>2, <2>3 DEF HoldsFirsts, First
  <2> QED  BY <2>2, <2>4 DEF Same, Is
<1>3. QED  BY <1>2, RepeatFound

(* A key that repeats one, or one that is built, leaves the stack's part   *)
(* as it was.                                                              *)
LEMMA FirstsKept ==
    ASSUME NEW json \in BOOLEAN, NEW entries, NEW I, NEW wrote \in Seq(Written), NEW w \in Written,
           HoldsFirsts(json, entries, I, wrote),
           w.kind = "built" \/ \E j \in DOMAIN wrote : Same(json, wrote[j], w)
    PROVE  HoldsFirsts(json, entries, I, Append(wrote, w))
<1> DEFINE more == Append(wrote, w)
           n == Len(wrote) + 1
<1>1. /\ DOMAIN more = DOMAIN wrote \cup {n} /\ more[n] = w
      /\ \A k \in DOMAIN wrote : more[k] = wrote[k] /\ Before(json, more, k) = Before(json, wrote, k)
      /\ Before(json, more, n) = {j \in DOMAIN wrote : Same(json, wrote[j], w)}
  BY WroteOneMore
<1> HIDE DEF more, n
<1>2. ~First(json, more, n)  BY <1>1 DEF First
<1>3. \A k \in DOMAIN wrote : First(json, more, k) <=> First(json, wrote, k)
  BY <1>1 DEF First
<1>4. QED  BY <1>1, <1>2, <1>3 DEF HoldsFirsts, more, n

(* A new key is the first of its name, and on the stack.                   *)
LEMMA FirstsGrow ==
    ASSUME NEW json \in BOOLEAN, NEW entries, NEW I, NEW wrote \in Seq(Written), NEW w \in Written,
           HoldsFirsts(json, entries, I, wrote), w.kind # "built",
           \A j \in DOMAIN wrote : ~Same(json, wrote[j], w),
           NEW grown, NEW m, \A k \in I : grown[k] = entries[k], Is(grown[m], w),
           Unique(json, grown, I \cup {m})
    PROVE  HoldsFirsts(json, grown, I \cup {m}, Append(wrote, w))
<1> DEFINE more == Append(wrote, w)
           n == Len(wrote) + 1
<1>1. /\ DOMAIN more = DOMAIN wrote \cup {n} /\ more[n] = w
      /\ \A k \in DOMAIN wrote : more[k] = wrote[k] /\ Before(json, more, k) = Before(json, wrote, k)
      /\ Before(json, more, n) = {j \in DOMAIN wrote : Same(json, wrote[j], w)}
  BY WroteOneMore
<1> HIDE DEF more, n
<1>2. First(json, more, n)  BY <1>1 DEF First
<1>3. \A k \in DOMAIN wrote : First(json, more, k) <=> First(json, wrote, k)
  BY <1>1 DEF First
<1>4. QED  BY <1>1, <1>2, <1>3 DEF HoldsFirsts, more, n

(* The repeats of a history that grows by one key.                         *)
LEMMA RepeatsGrow ==
    ASSUME NEW json \in BOOLEAN, NEW wrote \in Seq(Written), NEW w \in Written
    PROVE  LET more == Append(wrote, w)
               n == Len(wrote) + 1
           IN  RepeatsOf(json, more) =
                   RepeatsOf(json, wrote) \cup
                   (IF \E j \in DOMAIN wrote : Same(json, wrote[j], w)
                    THEN {RepeatOf(json, more, n)} ELSE {})
<1> DEFINE more == Append(wrote, w)
           n == Len(wrote) + 1
<1>1. /\ DOMAIN more = DOMAIN wrote \cup {n} /\ n \notin DOMAIN wrote
      /\ \A k \in DOMAIN wrote : Before(json, more, k) = Before(json, wrote, k)
      /\ Before(json, more, n) = {j \in DOMAIN wrote : Same(json, wrote[j], w)}
      /\ \A k \in DOMAIN wrote : Before(json, wrote, k) # {} =>
            RepeatOf(json, more, k) = RepeatOf(json, wrote, k)
  BY WroteOneMore
<1> HIDE DEF more, n
<1>2. Repeats(json, more) = Repeats(json, wrote) \cup
          (IF \E j \in DOMAIN wrote : Same(json, wrote[j], w) THEN {n} ELSE {})
  BY <1>1 DEF Repeats
<1>3. \A k \in Repeats(json, wrote) : RepeatOf(json, more, k) = RepeatOf(json, wrote, k)
  BY <1>1 DEF Repeats
<1>4. QED  BY <1>2, <1>3 DEF RepeatsOf, more, n

LEMMA BuiltGrows ==
    ASSUME NEW json \in BOOLEAN, NEW wrote \in Seq(Written), NEW w \in Written
    PROVE  BuiltOf(json, Append(wrote, w)) =
               BuiltOf(json, wrote) \cup
               (IF w.kind = "built" /\ ~\E j \in DOMAIN wrote : Same(json, wrote[j], w)
                THEN {[identity |-> w.text, at |-> w.at]} ELSE {})
<1> DEFINE more == Append(wrote, w)
           n == Len(wrote) + 1
<1>1. /\ DOMAIN more = DOMAIN wrote \cup {n} /\ more[n] = w
      /\ \A k \in DOMAIN wrote : more[k] = wrote[k] /\ Before(json, more, k) = Before(json, wrote, k)
      /\ Before(json, more, n) = {j \in DOMAIN wrote : Same(json, wrote[j], w)}
  BY WroteOneMore
<1> HIDE DEF more, n
<1>2. FirstBuilt(json, more) = FirstBuilt(json, wrote) \cup
          (IF w.kind = "built" /\ ~\E j \in DOMAIN wrote : Same(json, wrote[j], w) THEN {n} ELSE {})
  BY <1>1 DEF FirstBuilt
<1>3. \A k \in FirstBuilt(json, wrote) : more[k].text = wrote[k].text /\ more[k].at = wrote[k].at
  BY <1>1 DEF FirstBuilt
<1> DEFINE Key(h, k) == [identity |-> h[k].text, at |-> h[k].at]
<1>4. \A k \in FirstBuilt(json, wrote) : Key(more, k) = Key(wrote, k)
  BY <1>3
<1>5. Key(more, n) = [identity |-> w.text, at |-> w.at]  BY <1>1
<1>6. \A h : BuiltOf(json, h) = {Key(h, k) : k \in FirstBuilt(json, h)}  BY DEF BuiltOf
<1> HIDE DEF Key
<1>7. QED  BY <1>2, <1>4, <1>5, <1>6 DEF more, n

-----------------------------------------------------------------------------
(* The stack of keys and the mappings it is shared by. *)

Maps(fr) == {i \in DOMAIN fr : fr[i].kind = "map"}

(* A mapping's part of the stack, up to the base of the next one in.       *)
Segment(fr, len, i) ==
    {k \in 1..len : /\ fr[i].base < k
                    /\ \A j \in Maps(fr) : i < j => k <= fr[j].base}

BasesRise(set, fr) ==
    \A i \in Maps(fr) : /\ fr[i].base <= Len(set.entries)
                        /\ \A j \in Maps(fr) : i < j => fr[i].base <= fr[j].base

(* What a mapping has on the stack, and has noted, is what it wrote.       *)
Kept(json, entries, I, f) ==
    /\ HoldsFirsts(json, entries, I, f.wrote)
    /\ f.dups = RepeatsOf(json, f.wrote)
    /\ f.builtKeys = BuiltOf(json, f.wrote)

(* What the index has names a key of the one mapping with that base that   *)
(* has keys enough to have spilled.                                        *)
IndexOfOpen(json, set, fr) ==
    \A x \in set.index : \E i \in Maps(fr) :
        /\ fr[i].base = x.ref.base
        /\ fr[i].base + SpillAt \in Segment(fr, Len(set.entries), i)
        /\ \E k \in Segment(fr, Len(set.entries), i) : Names(json, x, set.entries[k])

IndexHasAll(json, set, fr) ==
    \A i \in Maps(fr) :
        fr[i].base + SpillAt + 1 \in Segment(fr, Len(set.entries), i) \/ InIndex(set, fr[i].base) =>
            \A k \in Segment(fr, Len(set.entries), i) :
                RefsIndexed(json, set, fr[i].base, set.entries[k])

MapsKept(json, set, fr) ==
    /\ BasesRise(set, fr)
    /\ \A i \in Maps(fr) : Kept(json, set.entries, Segment(fr, Len(set.entries), i), fr[i])
    /\ IndexOfOpen(json, set, fr)
    /\ IndexHasAll(json, set, fr)

LEMMA MapTyped ==
    ASSUME NEW fr \in Seq(FrameType), NEW i \in DOMAIN fr
    PROVE  /\ fr[i] \in FrameType /\ fr[i].base \in Nat /\ i \in Nat /\ i \in 1..Len(fr)
           /\ fr[i].wrote \in Seq(Written)
<1>1. fr[i] \in FrameType /\ i \in Nat /\ i \in 1..Len(fr)  OBVIOUS
<1>2. QED  BY <1>1 DEF FrameType

(* Steps that touch no mapping leave all of it as it is.                   *)
LEMMA MapsSame ==
    ASSUME NEW json \in BOOLEAN, NEW set \in SetType, NEW fr, NEW fr2,
           Maps(fr2) = Maps(fr),
           \A i \in Maps(fr) : /\ fr2[i].base = fr[i].base /\ fr2[i].wrote = fr[i].wrote
                               /\ fr2[i].dups = fr[i].dups /\ fr2[i].builtKeys = fr[i].builtKeys,
           MapsKept(json, set, fr)
    PROVE  MapsKept(json, set, fr2)
<1> DEFINE n == Len(set.entries)
<1>1. \A i \in Maps(fr) : Segment(fr2, n, i) = Segment(fr, n, i)
  BY DEF Segment
<1>2. BasesRise(set, fr2)  BY DEF MapsKept, BasesRise
<1>3. ASSUME NEW i \in Maps(fr) PROVE Kept(json, set.entries, Segment(fr2, n, i), fr2[i])
  <2>1. Kept(json, set.entries, Segment(fr, n, i), fr[i])  BY DEF MapsKept
  <2> HIDE DEF n
  <2> QED  BY <2>1, <1>1 DEF Kept
<1> HIDE DEF n
<1>4. IndexOfOpen(json, set, fr2)
  BY <1>1 DEF n, MapsKept, IndexOfOpen
<1>5. IndexHasAll(json, set, fr2)
  BY <1>1 DEF n, MapsKept, IndexHasAll
<1>6. QED  BY <1>2, <1>3, <1>4, <1>5 DEF MapsKept, n

(* The innermost mapping's part is the top of the stack.                   *)
LEMMA TopOwns ==
    ASSUME NEW json \in BOOLEAN, NEW set \in SetType, NEW fr \in Seq(FrameType),
           MapsKept(json, set, fr), NEW n, n = Len(fr), n \in Maps(fr)
    PROVE  /\ Segment(fr, Len(set.entries), n) = Own(set, fr[n].base)
           /\ OwnPart(json, set, fr[n].base)
           /\ \A i \in Maps(fr) \ {n} : fr[i].base <= fr[n].base /\ i < n
<1> DEFINE len == Len(set.entries)
           base == fr[n].base
<1>0. len \in Nat /\ base \in Nat /\ base <= len
      /\ \A i \in Maps(fr) : i \in Nat /\ i <= n /\ fr[i].base \in Nat
  BY MapTyped DEF SetType, Maps, MapsKept, BasesRise
<1>1. Segment(fr, len, n) = Own(set, base)
  BY <1>0 DEF Segment, Own
<1>2. \A i \in Maps(fr) \ {n} : fr[i].base <= base /\ i < n
  BY <1>0 DEF MapsKept, BasesRise
<1>3. Unique(json, set.entries, Own(set, base))
  BY <1>1 DEF MapsKept, Kept, HoldsFirsts
<1>4. ASSUME NEW x \in set.index, x.ref.base = base
      PROVE  len - base >= SpillAt /\ \E k \in Own(set, base) : Names(json, x, set.entries[k])
  <2>1. PICK i \in Maps(fr) : /\ fr[i].base = base
                              /\ base + SpillAt \in Segment(fr, len, i)
                              /\ \E k \in Segment(fr, len, i) : Names(json, x, set.entries[k])
    BY <1>4 DEF MapsKept, IndexOfOpen
  <2>2. i = n
    <3> SUFFICES ASSUME i # n PROVE FALSE  OBVIOUS
    <3>1. i < n  BY <1>2
    <3>2. base + SpillAt <= base  BY <2>1, <3>1 DEF Segment
    <3> QED  BY <3>2, <1>0
  <2>3. base + SpillAt \in Own(set, base)  BY <2>1, <2>2, <1>1
  <2>4. len - base >= SpillAt  BY <2>3, <1>0 DEF Own
  <2> HIDE DEF len, base
  <2> QED  BY <2>1, <2>2, <2>4, <1>1 DEF len
<1>5. ASSUME len - base > SpillAt \/ InIndex(set, base)
      PROVE  \A k \in Own(set, base) : RefsIndexed(json, set, base, set.entries[k])
  <2>1. base + SpillAt + 1 \in Own(set, base) \/ InIndex(set, base)  BY <1>0, <1>5 DEF Own
  <2> HIDE DEF len
  <2> QED  BY <2>1, <1>1 DEF MapsKept, IndexHasAll, len
<1>6. OwnPart(json, set, base)
  BY <1>0, <1>3, <1>4, <1>5 DEF OwnPart
<1>7. QED  BY <1>1, <1>2, <1>6

LEMMA FirstsMoved ==
    ASSUME NEW json, NEW entries, NEW other, NEW I, NEW wrote,
           HoldsFirsts(json, entries, I, wrote), \A k \in I : other[k] = entries[k]
    PROVE  HoldsFirsts(json, other, I, wrote)
BY DEF HoldsFirsts, Unique

(* A mapping that opens has nothing yet, and the ones around it keep what  *)
(* they have.                                                              *)
LEMMA MapsOpen ==
    ASSUME NEW json \in BOOLEAN, NEW set \in SetType, NEW fr \in Seq(FrameType),
           MapsKept(json, set, fr), NEW f \in FrameType, f.kind = "map",
           f.base = Len(set.entries), f.wrote = <<>>, f.dups = {}, f.builtKeys = {}
    PROVE  MapsKept(json, set, Append(fr, f))
<1> DEFINE fr2 == Append(fr, f)
           n == Len(fr) + 1
           len == Len(set.entries)
<1>1. /\ DOMAIN fr2 = DOMAIN fr \cup {n} /\ fr2[n] = f /\ n \in Nat /\ n \notin DOMAIN fr
      /\ \A i \in DOMAIN fr : fr2[i] = fr[i] /\ i \in Nat /\ i < n
  OBVIOUS
<1> HIDE DEF fr2
<1>2. Maps(fr2) = Maps(fr) \cup {n} /\ \A i \in Maps(fr) : fr2[i] = fr[i] /\ i < n /\ i \in Nat
  BY <1>1 DEF Maps
<1>3. len \in Nat  BY DEF SetType
<1>4. ASSUME NEW i \in Maps(fr) PROVE Segment(fr2, len, i) = Segment(fr, len, i)
  <2>1. \A k \in 1..len : i < n => k <= fr2[n].base  BY <1>1, <1>3
  <2> HIDE DEF n, len
  <2> QED  BY <1>1, <1>2, <2>1 DEF Segment
<1>5. Segment(fr2, len, n) = {}
  BY <1>1, <1>3 DEF Segment
<1>6. BasesRise(set, fr2)
  BY <1>1, <1>2, <1>3 DEF MapsKept, BasesRise
<1>7. ASSUME NEW i \in Maps(fr2) PROVE Kept(json, set.entries, Segment(fr2, len, i), fr2[i])
  <2>1. CASE i = n
    <3>1. HoldsFirsts(json, set.entries, {}, <<>>)  BY DEF HoldsFirsts, Unique
    <3>2. RepeatsOf(json, <<>>) = {}  BY DEF RepeatsOf, Repeats
    <3>3. BuiltOf(json, <<>>) = {}  BY DEF BuiltOf, FirstBuilt
    <3> HIDE DEF n, len
    <3> QED  BY <2>1, <3>1, <3>2, <3>3, <1>1, <1>5 DEF Kept
  <2>2. CASE i \in Maps(fr)
    <3>1. Kept(json, set.entries, Segment(fr, len, i), fr[i])  BY <2>2 DEF MapsKept
    <3> HIDE DEF n, len
    <3> QED  BY <2>2, <3>1, <1>2, <1>4
  <2> QED  BY <2>1, <2>2, <1>2
<1> HIDE DEF n, len
<1>8. IndexOfOpen(json, set, fr2)
  BY <1>2, <1>4 DEF MapsKept, IndexOfOpen, len
<1>9. IndexHasAll(json, set, fr2)
  BY <1>2, <1>4, <1>5 DEF MapsKept, IndexHasAll, len
<1>10. QED  BY <1>6, <1>7, <1>8, <1>9 DEF MapsKept, len, fr2

(* A mapping that ends takes its keys off the stack and out of the index,  *)
(* and no others.                                                          *)
LEMMA MapsClose ==
    ASSUME NEW json \in BOOLEAN, NEW set \in SetType, NEW fr \in Seq(FrameType),
           MapsKept(json, set, fr), NEW n, n = Len(fr), n \in Maps(fr),
           NEW fr2, Maps(fr2) = Maps(fr) \ {n},
           \A i \in Maps(fr2) : /\ fr2[i].base = fr[i].base /\ fr2[i].wrote = fr[i].wrote
                                /\ fr2[i].dups = fr[i].dups /\ fr2[i].builtKeys = fr[i].builtKeys
    PROVE  MapsKept(json, Close(set, fr[n].base, json), fr2)
<1> DEFINE len == Len(set.entries)
           base == fr[n].base
           s == Close(set, base, json)
<1>0. /\ len \in Nat /\ base \in Nat /\ base <= len /\ set.entries \in Seq(KeyEntry)
      /\ \A i \in Maps(fr) : i \in Nat /\ i <= n /\ fr[i].base \in Nat
  BY MapTyped DEF SetType, Maps, MapsKept, BasesRise
<1>1. OwnPart(json, set, base) /\ \A i \in Maps(fr) \ {n} : fr[i].base <= base /\ i < n
  BY TopOwns
<1>2. /\ s \in SetType /\ s.entries = SubSeq(set.entries, 1, base)
      /\ \A x : x \in s.index <=> x \in set.index /\ x.ref.base # base
  BY <1>1, CloseForgets
<1> HIDE DEF s
<1>3. Len(s.entries) = base /\ \A k \in 1..base : s.entries[k] = set.entries[k]
  BY <1>0, <1>2
<1>4. ASSUME NEW i \in Maps(fr2)
      PROVE  /\ Segment(fr2, base, i) = Segment(fr, len, i)
             /\ \A k \in Segment(fr, len, i) : k \in 1..base
  <2>1. i \in Maps(fr) /\ i < n  BY <1>1
  <2>2. \A k \in Segment(fr, len, i) : k \in 1..base
    BY <2>1, <1>0 DEF Segment
  <2>3. \A k \in 1..base : k \in 1..len  BY <1>0
  <2>4. \A k \in Segment(fr, len, i) : k \in Segment(fr2, base, i)
    BY <2>1, <2>2 DEF Segment
  <2>5. \A k \in Segment(fr2, base, i) : k \in Segment(fr, len, i)
    <3> SUFFICES ASSUME NEW k \in Segment(fr2, base, i) PROVE k \in Segment(fr, len, i)
      OBVIOUS
    <3>1. k \in 1..base /\ k \in 1..len /\ fr[i].base < k
      BY <2>1, <2>3 DEF Segment
    <3>2. ASSUME NEW j \in Maps(fr), i < j PROVE k <= fr[j].base
      <4>1. CASE j = n  BY <4>1, <3>1, <1>0
      <4>2. CASE j \in Maps(fr2)  BY <4>2, <3>2 DEF Segment
      <4> QED  BY <4>1, <4>2
    <3> QED  BY <3>1, <3>2 DEF Segment
  <2> QED  BY <2>2, <2>4, <2>5
<1>5. BasesRise(s, fr2)
  BY <1>1, <1>3 DEF MapsKept, BasesRise
<1> HIDE DEF base, len
<1>6. ASSUME NEW i \in Maps(fr2)
      PROVE  Kept(json, s.entries, Segment(fr2, base, i), fr2[i])
  <2>1. Kept(json, set.entries, Segment(fr, len, i), fr[i])  BY DEF MapsKept, len
  <2>2. HoldsFirsts(json, s.entries, Segment(fr, len, i), fr[i].wrote)
    BY <2>1, <1>3, <1>4, FirstsMoved DEF Kept
  <2> QED  BY <2>1, <2>2, <1>4 DEF Kept
<1>7. IndexOfOpen(json, s, fr2)
  <2> SUFFICES ASSUME NEW x \in s.index
               PROVE \E i \in Maps(fr2) : /\ fr2[i].base = x.ref.base
                         /\ fr2[i].base + SpillAt \in Segment(fr2, base, i)
                         /\ \E k \in Segment(fr2, base, i) : Names(json, x, s.entries[k])
    BY <1>3 DEF IndexOfOpen
  <2>1. x \in set.index /\ x.ref.base # base  BY <1>2
  <2>2. PICK i \in Maps(fr) : /\ fr[i].base = x.ref.base
                              /\ fr[i].base + SpillAt \in Segment(fr, len, i)
                              /\ \E k \in Segment(fr, len, i) : Names(json, x, set.entries[k])
    BY <2>1 DEF MapsKept, IndexOfOpen, len
  <2>3. i \in Maps(fr2)  BY <2>1, <2>2 DEF base
  <2> QED  BY <2>2, <2>3, <1>3, <1>4
<1>8. IndexHasAll(json, s, fr2)
  <2> SUFFICES ASSUME NEW i \in Maps(fr2),
                      fr[i].base + SpillAt + 1 \in Segment(fr, len, i) \/ InIndex(s, fr[i].base),
                      NEW k \in Segment(fr, len, i)
               PROVE  RefsIndexed(json, s, fr[i].base, s.entries[k])
    BY <1>3, <1>4 DEF IndexHasAll
  <2>0. InIndex(s, fr[i].base) => InIndex(set, fr[i].base)  BY <1>2 DEF InIndex
  <2>1. RefsIndexed(json, set, fr[i].base, set.entries[k])
    BY <2>0 DEF MapsKept, IndexHasAll, len
  <2>2. s.entries[k] = set.entries[k]  BY <1>3, <1>4
  <2>3. fr[i].base # base
    <3>1. k \in 1..base /\ fr[i].base < k  BY <1>4 DEF Segment
    <3> QED  BY <3>1, <1>0
  <2>4. \A kind, text : Indexed(set, Ref(fr[i].base, kind, text))
                            => Indexed(s, Ref(fr[i].base, kind, text))
    BY <1>2, <2>3 DEF Indexed, Ref
  <2> QED  BY <2>1, <2>2, <2>4 DEF RefsIndexed
<1>9. QED  BY <1>3, <1>5, <1>6, <1>7, <1>8 DEF MapsKept, s, base

(* A key the innermost mapping writes: found, and noted as a repeat, or    *)
(* new, and on the stack.                                                  *)
Noting(dups, at, r) ==
    IF r.defined THEN dups \cup {[at |-> at, first |-> r.first, jsonOnly |-> r.jsonOnly]} ELSE dups
TopWrites(fr, n, fr2, w) ==
    /\ fr \in Seq(FrameType) /\ n = Len(fr) /\ n \in Maps(fr)
    /\ Maps(fr2) = Maps(fr) /\ \A i \in Maps(fr) : fr2[i].base = fr[i].base
    /\ \A i \in Maps(fr) \ {n} : /\ fr2[i].wrote = fr[i].wrote /\ fr2[i].dups = fr[i].dups
                                /\ fr2[i].builtKeys = fr[i].builtKeys
    /\ w \in Written /\ fr2[n].wrote = Append(fr[n].wrote, w)
RecordsKey(json, set, fr, n, text, kind, at, r, w) ==
    /\ json \in BOOLEAN /\ set \in SetType /\ MapsKept(json, set, fr)
    /\ json => NoneBuilt(fr[n].wrote)
    /\ text \in Text /\ kind \in Kind /\ at \in Nat
    /\ Recorded(json, set, fr[n].base, text, kind, at, r)
    /\ w.text = text /\ w.kind = kind /\ w.at = at

LEMMA MapsWrite ==
    ASSUME NEW json, NEW set, NEW fr, NEW n, NEW text, NEW kind, NEW at, NEW r, NEW w, NEW fr2,
           RecordsKey(json, set, fr, n, text, kind, at, r, w), TopWrites(fr, n, fr2, w),
           fr2[n].dups = Noting(fr[n].dups, at, r), fr2[n].builtKeys = fr[n].builtKeys
    PROVE  MapsKept(json, r.set, fr2)
<1>a. /\ json \in BOOLEAN /\ set \in SetType /\ MapsKept(json, set, fr)
      /\ json => NoneBuilt(fr[n].wrote)
      /\ text \in Text /\ kind \in Kind /\ at \in Nat
      /\ Recorded(json, set, fr[n].base, text, kind, at, r)
      /\ w.text = text /\ w.kind = kind /\ w.at = at
  BY DEF RecordsKey
<1>b. /\ fr \in Seq(FrameType) /\ n = Len(fr) /\ n \in Maps(fr)
      /\ Maps(fr2) = Maps(fr) /\ \A i \in Maps(fr) : fr2[i].base = fr[i].base
      /\ \A i \in Maps(fr) \ {n} : /\ fr2[i].wrote = fr[i].wrote /\ fr2[i].dups = fr[i].dups
                                  /\ fr2[i].builtKeys = fr[i].builtKeys
      /\ w \in Written /\ fr2[n].wrote = Append(fr[n].wrote, w)
  BY DEF TopWrites
<1>c. fr2[n].dups = IF r.defined
                    THEN fr[n].dups \cup {[at |-> at, first |-> r.first, jsonOnly |-> r.jsonOnly]}
                    ELSE fr[n].dups
  BY DEF Noting
<1> USE <1>a, <1>b, <1>c
<1> DEFINE len == Len(set.entries)
           base == fr[n].base
           wrote == fr[n].wrote
           set2 == r.set
           len2 == Len(set2.entries)
           I == Own(set, base)
           same == \E j \in DOMAIN wrote : Same(json, wrote[j], w)
<1>0. /\ len \in Nat /\ base \in Nat /\ base <= len /\ set.entries \in Seq(KeyEntry)
      /\ \A i \in Maps(fr) : i \in Nat /\ i <= n /\ fr[i].base \in Nat
      /\ wrote \in Seq(Written) /\ n \in DOMAIN fr
  BY MapTyped DEF SetType, Maps, MapsKept, BasesRise
<1>1. /\ OwnPart(json, set, base) /\ \A i \in Maps(fr) \ {n} : fr[i].base <= base /\ i < n
      /\ Segment(fr, len, n) = I
  BY TopOwns
<1>2. /\ HoldsFirsts(json, set.entries, I, wrote)
      /\ fr[n].dups = RepeatsOf(json, wrote) /\ fr[n].builtKeys = BuiltOf(json, wrote)
  BY <1>1 DEF MapsKept, Kept
<1>3. w.kind # "built" /\ [text |-> text, kind |-> kind].text = w.text
      /\ [text |-> text, kind |-> kind].kind = w.kind
  OBVIOUS
<1>4. Has(json, set, base, text, kind) <=> same
  <2>1. Has(json, set, base, text, kind) <=> \E k \in I : Same(json, set.entries[k], w)
    BY <1>3 DEF Has, Same
  <2> QED  BY <2>1, <1>0, <1>2, <1>3, SameFound
<1>5. /\ set2 \in SetType /\ OwnPart(json, set2, base)
      /\ \A x : x.ref.base # base => (x \in set2.index <=> x \in set.index)
      /\ r.defined <=> same
      /\ r.defined => set2.entries = set.entries /\ Finds(json, set, base, text, kind, r)
      /\ ~r.defined => set2.entries = Append(set.entries, [text |-> text, kind |-> kind, at |-> at])
  BY <1>4 DEF Recorded
<1>6. /\ len2 \in Nat /\ base <= len2 /\ len <= len2
      /\ \A k \in 1..len : k \in 1..len2 /\ set2.entries[k] = set.entries[k]
      /\ Own(set2, base) = I \cup (IF r.defined THEN {} ELSE {len+1})
      /\ ~r.defined => len2 = len + 1
                       /\ set2.entries[len+1] = [text |-> text, kind |-> kind, at |-> at]
  <2>1. CASE r.defined
    <3>1. set2.entries = set.entries  BY <2>1, <1>5
    <3> QED  BY <2>1, <3>1, <1>0 DEF Own
  <2>2. CASE ~r.defined
    <3> DEFINE e == [text |-> text, kind |-> kind, at |-> at]
    <3>1. e \in KeyEntry  BY DEF KeyEntry
    <3>2. set2.entries = Append(set.entries, e)  BY <2>2, <1>5
    <3> HIDE DEF e
    <3>3. len2 = len + 1 /\ set2.entries[len+1] = e
          /\ \A k \in 1..len : k \in 1..len2 /\ set2.entries[k] = set.entries[k]
      BY <3>1, <3>2, <1>0
    <3>4. Own(set2, base) = I \cup {len+1}  BY <3>3, <1>0 DEF Own
    <3> QED  BY <2>2, <3>3, <3>4, <1>0 DEF e
  <2> QED  BY <2>1, <2>2
<1> HIDE DEF len, len2, base, set2
<1>7. ASSUME NEW i \in Maps(fr) \ {n}
      PROVE  /\ Segment(fr2, len2, i) = Segment(fr, len, i)
             /\ \A k \in Segment(fr, len, i) : k \in 1..len /\ k <= base /\ set2.entries[k] = set.entries[k]
  <2>1. \A k \in 1..len2 : k <= base => k \in 1..len  BY <1>0, <1>6
  <2>2. \A k \in Segment(fr, len, i) : k \in 1..len /\ k <= base
    BY <1>1 DEF Segment, base
  <2>3. \A k \in Segment(fr2, len2, i) : k \in 1..len2 /\ k <= base
    BY <1>1 DEF Segment, base
  <2>4. \A k \in 1..len : k \in Segment(fr2, len2, i) <=> k \in Segment(fr, len, i)
    BY <1>6 DEF Segment
  <2> QED  BY <1>6, <2>1, <2>2, <2>3, <2>4
<1>8. Segment(fr2, len2, n) = Own(set2, base)
  <2>1. \A j \in Maps(fr2) : ~(n < j)  BY <1>0
  <2>2. fr2[n].base = base  BY DEF base
  <2> QED  BY <2>1, <2>2, <1>0, <1>6 DEF Segment, Own, len2
<1>9. BasesRise(set2, fr2)
  <2>1. \A i \in Maps(fr) : fr[i].base <= len2
    <3> SUFFICES ASSUME NEW i \in Maps(fr) PROVE fr[i].base <= len2  OBVIOUS
    <3>1. fr[i].base <= len /\ fr[i].base \in Nat  BY <1>0 DEF MapsKept, BasesRise, len
    <3> QED  BY <3>1, <1>0, <1>6
  <2> QED  BY <2>1 DEF MapsKept, BasesRise, len2
<1>10. Kept(json, set2.entries, Segment(fr2, len2, n), fr2[n])
  <2> DEFINE more == Append(wrote, w)
             dup == RepeatOf(json, more, Len(wrote) + 1)
  <2>1. /\ RepeatsOf(json, more) = RepeatsOf(json, wrote) \cup (IF same THEN {dup} ELSE {})
        /\ BuiltOf(json, more) = BuiltOf(json, wrote)
    <3>1. RepeatsOf(json, more) = RepeatsOf(json, wrote) \cup (IF same THEN {dup} ELSE {})
      BY <1>0, RepeatsGrow
    <3>2. BuiltOf(json, more) = BuiltOf(json, wrote) \cup {}
      BY <1>0, <1>3, BuiltGrows
    <3> HIDE DEF more, same, dup
    <3> QED  BY <3>1, <3>2
  <2>2. CASE r.defined
    <3>1. PICK k \in I : /\ Same(json, set.entries[k], w) /\ r.first = set.entries[k].at
                         /\ r.jsonOnly <=> set.entries[k].kind # w.kind
      BY <2>2, <1>3, <1>5 DEF Finds, Same
    <3>2. dup = DupOf(w, set.entries[k])
      <4>1. wrote \in Seq(Written) /\ Same(json, set.entries[k], w)  BY <1>0, <3>1
      <4> HIDE DEF wrote, I
      <4> QED  BY <1>2, <1>3, <4>1, RepeatFound
    <3>3. r.jsonOnly = (set.entries[k].kind # w.kind)
      BY <3>1 DEF Recorded
    <3>4. dup = [at |-> at, first |-> r.first, jsonOnly |-> r.jsonOnly]
      BY <3>1, <3>2, <3>3 DEF DupOf
    <3>5. HoldsFirsts(json, set.entries, I, more)
      BY <2>2, <1>0, <1>2, <1>5, FirstsKept
    <3>6. HoldsFirsts(json, set2.entries, Own(set2, base), more)
      BY <2>2, <3>5, <1>5, <1>6
    <3> HIDE DEF more, dup, I
    <3>7. fr2[n].dups = RepeatsOf(json, more)
      BY <2>1, <2>2, <3>4, <1>2, <1>5
    <3> QED  BY <3>6, <3>7, <2>1, <1>2, <1>8 DEF Kept, more
  <2>3. CASE ~r.defined
    <3>1. \A k \in I : set2.entries[k] = set.entries[k]
      BY <1>0, <1>6 DEF Own, len
    <3>2. Is(set2.entries[len+1], w)  BY <2>3, <1>6 DEF Is
    <3>3. Own(set2, base) = I \cup {len+1}  BY <2>3, <1>6
    <3>4. Unique(json, set2.entries, I \cup {len+1})
      BY <3>3, <1>5 DEF OwnPart
    <3>5. HoldsFirsts(json, set2.entries, I \cup {len+1}, more)
      <4>1. \A j \in DOMAIN wrote : ~Same(json, wrote[j], w)  BY <2>3, <1>5
      <4>2. wrote \in Seq(Written) /\ w \in Written /\ json \in BOOLEAN  BY <1>0
      <4>3. HoldsFirsts(json, set.entries, I, wrote)  BY <1>2
      <4> HIDE DEF wrote, I, more
      <4>4. HoldsFirsts(json, set2.entries, I \cup {len+1}, Append(wrote, w))
        BY <4>1, <4>2, <4>3, <3>1, <3>2, <3>4, <1>3, FirstsGrow, ZenonT(40)
      <4> QED  BY <4>4 DEF more
    <3> HIDE DEF more, I
    <3>6. fr2[n].dups = RepeatsOf(json, more)
      BY <2>1, <2>3, <1>2, <1>5
    <3> QED  BY <3>3, <3>5, <3>6, <2>1, <1>2, <1>8 DEF Kept, more
  <2> QED  BY <2>2, <2>3
<1>11. ASSUME NEW i \in Maps(fr) \ {n}
       PROVE  Kept(json, set2.entries, Segment(fr2, len2, i), fr2[i])
  <2>1. Kept(json, set.entries, Segment(fr, len, i), fr[i])  BY DEF MapsKept, len
  <2>2. HoldsFirsts(json, set2.entries, Segment(fr, len, i), fr[i].wrote)
    BY <2>1, <1>7, FirstsMoved DEF Kept
  <2> QED  BY <2>1, <2>2, <1>7 DEF Kept
<1>12. IndexOfOpen(json, set2, fr2)
  <2> SUFFICES ASSUME NEW x \in set2.index
               PROVE \E i \in Maps(fr2) : /\ fr2[i].base = x.ref.base
                         /\ fr2[i].base + SpillAt \in Segment(fr2, len2, i)
                         /\ \E k \in Segment(fr2, len2, i) : Names(json, x, set2.entries[k])
    BY DEF IndexOfOpen, len2
  <2>1. CASE x.ref.base = base
    <3>1. len2 - base >= SpillAt /\ \E k \in Own(set2, base) : Names(json, x, set2.entries[k])
      BY <2>1, <1>5 DEF OwnPart, len2
    <3>2. base + SpillAt \in Own(set2, base)
      BY <3>1, <1>0, <1>6, SMTT(30) DEF Own, len2
    <3> QED  BY <2>1, <3>1, <3>2, <1>8 DEF base
  <2>2. CASE x.ref.base # base
    <3>1. x \in set.index  BY <2>2, <1>5
    <3>2. PICK i \in Maps(fr) : /\ fr[i].base = x.ref.base
                                /\ fr[i].base + SpillAt \in Segment(fr, len, i)
                                /\ \E k \in Segment(fr, len, i) : Names(json, x, set.entries[k])
      BY <3>1 DEF MapsKept, IndexOfOpen, len
    <3>3. i # n  BY <2>2, <3>2 DEF base
    <3> QED  BY <3>2, <3>3, <1>7
  <2> QED  BY <2>1, <2>2
<1>13. IndexHasAll(json, set2, fr2)
  <2> SUFFICES ASSUME NEW i \in Maps(fr),
                      \/ fr[i].base + SpillAt + 1 \in Segment(fr2, len2, i)
                      \/ InIndex(set2, fr[i].base),
                      NEW k \in Segment(fr2, len2, i)
               PROVE  RefsIndexed(json, set2, fr[i].base, set2.entries[k])
    BY DEF IndexHasAll, len2
  <2>1. CASE i = n
    <3>1. k \in Own(set2, base)  BY <2>1, <1>8 DEF base
    <3>2. len2 - base > SpillAt \/ InIndex(set2, base)
      <4>1. CASE base + SpillAt + 1 \in Own(set2, base)  BY <4>1, <1>0, <1>6 DEF Own, len2
      <4>2. CASE InIndex(set2, base)  BY <4>2
      <4> QED  BY <2>1, <4>1, <4>2, <1>8 DEF base
    <3> QED  BY <2>1, <3>1, <3>2, <1>5 DEF OwnPart, len2, base
  <2>2. CASE i # n
    <3>1. k \in Segment(fr, len, i) /\ k \in 1..len /\ k <= base /\ set2.entries[k] = set.entries[k]
      BY <2>2, <1>7
    <3>2. fr[i].base < k  BY <3>1 DEF Segment
    <3>3. fr[i].base # base  BY <3>1, <3>2, <1>0
    <3>5. InIndex(set2, fr[i].base) => InIndex(set, fr[i].base)  BY <3>3, <1>5 DEF InIndex
    <3>6. RefsIndexed(json, set, fr[i].base, set.entries[k])
      BY <2>2, <3>1, <3>5, <1>7 DEF MapsKept, IndexHasAll, len
    <3>4. \A kd, tx : Indexed(set, Ref(fr[i].base, kd, tx)) => Indexed(set2, Ref(fr[i].base, kd, tx))
      BY <1>5, <3>3 DEF Indexed, Ref
    <3> QED  BY <3>1, <3>4, <3>6 DEF RefsIndexed
  <2> QED  BY <2>1, <2>2
<1>14. QED  BY <1>9, <1>10, <1>11, <1>12, <1>13 DEF MapsKept, len2, set2

(* A key that is a collection: noted when it repeats one, and its identity *)
(* kept when it does not; the stack knows nothing of it.                   *)
BuiltSeen(f, w) == {b \in f.builtKeys : b.identity = w.text}
NotingBuilt(f, w) ==
    f.dups \cup {[at |-> w.at, first |-> b.at, jsonOnly |-> FALSE] : b \in BuiltSeen(f, w)}
KeepingBuilt(f, w) ==
    IF BuiltSeen(f, w) = {} THEN f.builtKeys \cup {[identity |-> w.text, at |-> w.at]} ELSE f.builtKeys

LEMMA MapsBuild ==
    ASSUME NEW json, NEW set, NEW fr, NEW n, NEW w, NEW fr2,
           json \in BOOLEAN, ~json, set \in SetType, MapsKept(json, set, fr),
           TopWrites(fr, n, fr2, w), w.kind = "built",
           fr2[n].builtKeys = KeepingBuilt(fr[n], w), fr2[n].dups = NotingBuilt(fr[n], w)
    PROVE  MapsKept(json, set, fr2)
<1>a. /\ fr \in Seq(FrameType) /\ n = Len(fr) /\ n \in Maps(fr)
      /\ Maps(fr2) = Maps(fr) /\ \A i \in Maps(fr) : fr2[i].base = fr[i].base
      /\ \A i \in Maps(fr) \ {n} : /\ fr2[i].wrote = fr[i].wrote /\ fr2[i].dups = fr[i].dups
                                  /\ fr2[i].builtKeys = fr[i].builtKeys
      /\ w \in Written /\ fr2[n].wrote = Append(fr[n].wrote, w)
  BY DEF TopWrites
<1> DEFINE seen == BuiltSeen(fr[n], w)
<1>b. seen = {b \in fr[n].builtKeys : b.identity = w.text}  BY DEF BuiltSeen
<1> HIDE DEF seen
<1>c. fr2[n].builtKeys = IF seen = {} THEN fr[n].builtKeys \cup {[identity |-> w.text, at |-> w.at]}
                                      ELSE fr[n].builtKeys
  BY Zenon DEF KeepingBuilt, seen
<1>d. fr2[n].dups = fr[n].dups \cup
                        {[at |-> w.at, first |-> b.at, jsonOnly |-> FALSE] : b \in seen}
  BY Zenon DEF NotingBuilt, seen
<1> USE <1>a, <1>b, <1>c, <1>d
<1> DEFINE len == Len(set.entries)
           wrote == fr[n].wrote
           more == Append(wrote, w)
           m == Len(wrote) + 1
           same == \E j \in DOMAIN wrote : Same(json, wrote[j], w)
<1>0. wrote \in Seq(Written) /\ n \in DOMAIN fr  BY MapTyped DEF Maps
<1>1. \A i \in Maps(fr) : Segment(fr2, len, i) = Segment(fr, len, i)
  BY DEF Segment
<1>2. /\ HoldsFirsts(json, set.entries, Segment(fr, len, n), wrote)
      /\ fr[n].dups = RepeatsOf(json, wrote) /\ fr[n].builtKeys = BuiltOf(json, wrote)
  BY DEF MapsKept, Kept
<1>3. HoldsFirsts(json, set.entries, Segment(fr, len, n), more)
  BY <1>0, <1>2, FirstsKept
<1>4. /\ RepeatsOf(json, more) = RepeatsOf(json, wrote) \cup (IF same THEN {RepeatOf(json, more, m)} ELSE {})
      /\ BuiltOf(json, more) = BuiltOf(json, wrote) \cup
             (IF ~same THEN {[identity |-> w.text, at |-> w.at]} ELSE {})
  BY <1>0, RepeatsGrow, BuiltGrows
<1>5. /\ more \in Seq(Written) /\ m \in DOMAIN more /\ more[m] = w
      /\ \A k \in DOMAIN wrote : more[k] = wrote[k] /\ Before(json, more, k) = Before(json, wrote, k)
      /\ Before(json, more, m) = {j \in DOMAIN wrote : Same(json, wrote[j], w)}
  BY <1>0, WroteOneMore
<1> HIDE DEF more, m, len, wrote
<1>6. \A b \in seen : same /\ [at |-> w.at, first |-> b.at, jsonOnly |-> FALSE] = RepeatOf(json, more, m)
  <2> SUFFICES ASSUME NEW b \in seen
               PROVE  same /\ [at |-> w.at, first |-> b.at, jsonOnly |-> FALSE] = RepeatOf(json, more, m)
    OBVIOUS
  <2>1. b \in BuiltOf(json, wrote) /\ b.identity = w.text  BY <1>2
  <2>2. PICK j \in FirstBuilt(json, wrote) : b = [identity |-> wrote[j].text, at |-> wrote[j].at]
    BY <2>1 DEF BuiltOf
  <2>3. /\ j \in DOMAIN wrote /\ wrote[j].kind = "built" /\ Before(json, wrote, j) = {}
        /\ wrote[j].text = w.text /\ wrote[j].at = b.at
    BY <2>1, <2>2 DEF FirstBuilt
  <2>4. Same(json, wrote[j], w)  BY <2>3 DEF Same
  <2>5. j \in Before(json, more, m) /\ Before(json, more, j) = {}
    BY <1>5, <2>3, <2>4
  <2>6. RepeatOf(json, more, m) =
          [at |-> more[m].at, first |-> more[j].at, jsonOnly |-> more[j].kind # more[m].kind]
    BY <1>5, <2>5, FirstOfName
  <2>7. more[m].at = w.at /\ more[j].at = b.at /\ (more[j].kind # more[m].kind) = FALSE
    BY <1>5, <2>3
  <2> QED  BY <2>3, <2>4, <2>6, <2>7
<1>7. same => seen # {}
  <2> SUFFICES ASSUME NEW j \in DOMAIN wrote, Same(json, wrote[j], w) PROVE seen # {}
    OBVIOUS
  <2>1. PICK f \in Before(json, more, m) : Before(json, more, f) = {}
    BY <1>5, FirstOfName
  <2>2. f \in DOMAIN wrote /\ Same(json, wrote[f], w) /\ Before(json, wrote, f) = {}
    BY <1>5, <2>1
  <2>3. f \in FirstBuilt(json, wrote) /\ wrote[f].text = w.text
    BY <2>2 DEF FirstBuilt, Same
  <2> DEFINE b == [identity |-> wrote[f].text, at |-> wrote[f].at]
  <2>4. b \in BuiltOf(json, wrote)  BY <2>3 DEF BuiltOf
  <2>5. b.identity = w.text  BY <2>3
  <2> HIDE DEF b
  <2> QED  BY <2>4, <2>5, <1>2
<1> HIDE DEF same
<1>8. {[at |-> w.at, first |-> b.at, jsonOnly |-> FALSE] : b \in seen}
          = IF same THEN {RepeatOf(json, more, m)} ELSE {}
  <2> DEFINE Noted(b) == [at |-> w.at, first |-> b.at, jsonOnly |-> FALSE]
  <2>1. \A b \in seen : same /\ Noted(b) = RepeatOf(json, more, m)  BY <1>6
  <2> HIDE DEF Noted
  <2>2. {Noted(b) : b \in seen} = IF same THEN {RepeatOf(json, more, m)} ELSE {}
    BY <2>1, <1>7
  <2> QED  BY <2>2 DEF Noted
<1>9. fr2[n].dups = RepeatsOf(json, more) /\ fr2[n].builtKeys = BuiltOf(json, more)
  <2>1. seen = {} <=> ~same  BY <1>6, <1>7
  <2> QED  BY <2>1, <1>2, <1>4, <1>8
<1>10. ASSUME NEW i \in Maps(fr) PROVE Kept(json, set.entries, Segment(fr2, len, i), fr2[i])
  <2>1. CASE i = n  BY <2>1, <1>1, <1>3, <1>9 DEF Kept, more, wrote
  <2>2. CASE i # n  BY <2>2, <1>1 DEF MapsKept, Kept, len
  <2> QED  BY <2>1, <2>2
<1>11. BasesRise(set, fr2)  BY DEF MapsKept, BasesRise
<1>12. IndexOfOpen(json, set, fr2)  BY <1>1 DEF len, MapsKept, IndexOfOpen
<1>13. IndexHasAll(json, set, fr2)  BY <1>1 DEF len, MapsKept, IndexHasAll
<1>14. QED  BY <1>10, <1>11, <1>12, <1>13 DEF MapsKept, len

-----------------------------------------------------------------------------
(* The frames, and the scopes of the ordered maps among them. *)

AtsRise(wrote, before) ==
    \A n \in DOMAIN wrote : wrote[n].at < before /\ \A m \in 1..n-1 : wrote[m].at < wrote[n].at

FrameOK(json, before, f) ==
    /\ f \in FrameType /\ AtsRise(f.wrote, before)
    /\ f.ordered <=> f.kind = "seq" /\ f.tag
    /\ (f.builds \/ f.slot \in {"key", "built"}) => f.kind = "map" /\ ~json
    /\ json => NoneBuilt(f.wrote)
    /\ f.kind = "seq" => \A j \in DOMAIN f.wrote : f.wrote[j].index < f.index

FramesOK(json, before, fr) ==
    /\ fr \in Seq(FrameType) /\ fr # <<>>
    /\ \A i \in DOMAIN fr : fr[i].kind = "doc" <=> i = 1
    /\ \A i \in DOMAIN fr : FrameOK(json, before, fr[i])

(* Which scope is that of the i-th frame.                                  *)
Ordered(fr, i) == {j \in DOMAIN fr : fr[j].ordered /\ j <= i}
Count(fr, i) == Cardinality(Ordered(fr, i))

(* The keys an entry of a sequence repeats from an earlier one.            *)
AcrossKeys(json, wrote) ==
    {k \in DOMAIN wrote : /\ wrote[k].kind # "built" /\ Before(json, wrote, k) # {}
                          /\ \A j \in Before(json, wrote, k) : wrote[j].index # wrote[k].index}
AcrossDup(json, wrote, k) ==
    [at |-> RepeatOf(json, wrote, k).at, first |-> RepeatOf(json, wrote, k).first,
     jsonOnly |-> RepeatOf(json, wrote, k).jsonOnly, index |-> wrote[k].index]
AcrossOf(json, wrote) == {AcrossDup(json, wrote, k) : k \in AcrossKeys(json, wrote)}

ScopeDup == [at : Nat, first : Nat, jsonOnly : BOOLEAN, index : Int]
ScopeType == [set : SetType, dups : SUBSET ScopeDup]

ScopeKept(json, scope, wrote) ==
    /\ OwnPart(json, scope.set, 0)
    /\ HoldsFirsts(json, scope.set.entries, Own(scope.set, 0), wrote)
    /\ scope.dups = AcrossOf(json, wrote)

ScopesKept(json, sc, fr) ==
    /\ sc \in Seq(ScopeType) /\ Len(sc) = Count(fr, Len(fr))
    /\ \A i \in DOMAIN fr : fr[i].ordered => ScopeKept(json, sc[Count(fr, i)], fr[i].wrote)

(* A mapping that is an entry of an ordered map knows its scope and which  *)
(* entry it is, and what the sequence has of that entry is what it wrote.  *)
InEntry(wrote, all, index) ==
    /\ \A k \in DOMAIN wrote : \E j \in DOMAIN all :
          all[j].index = index /\ all[j].text = wrote[k].text /\ all[j].kind = wrote[k].kind
    /\ \A j \in DOMAIN all : all[j].index = index =>
          \E k \in DOMAIN wrote : all[j].text = wrote[k].text /\ all[j].kind = wrote[k].kind
EntriesKnown(fr) ==
    \A i \in Maps(fr) :
        IF fr[i-1].ordered
        THEN /\ fr[i].entryOf = Count(fr, i-1) /\ fr[i].entryIndex = fr[i-1].index - 1
             /\ InEntry(fr[i].wrote, fr[i-1].wrote, fr[i-1].index - 1)
        ELSE fr[i].entryOf = 0

(* The marks say what the innermost frame waits for: the entry of an       *)
(* ordered map, of which nothing is written yet, and the node of a tag.    *)
AtEntry(f) == f.ordered /\ f.slot \in {"node", "tagged"}
MarksKnown(mark, markIndex, expects, len, f) ==
    /\ expects <=> f.slot = "tagged"
    /\ AtEntry(f) => /\ mark = len /\ markIndex = f.index - 1
                     /\ \A j \in DOMAIN f.wrote : f.wrote[j].index < f.index - 1
    /\ ~AtEntry(f) => mark = 0

TypeOK ==
    /\ keys \in SetType /\ jsonNames \in BOOLEAN /\ writes \in Nat
    /\ pending \in Nat /\ pendingIndex \in Int /\ expectOrderedMap \in BOOLEAN
Settled(json, before, set, sc, fr) ==
    /\ FramesOK(json, before, fr)
    /\ MapsKept(json, set, fr)
    /\ ScopesKept(json, sc, fr)
    /\ EntriesKnown(fr)
IInv ==
    /\ TypeOK
    /\ Settled(jsonNames, writes, keys, scopes, frames)
    /\ MarksKnown(pending, pendingIndex, expectOrderedMap, Len(scopes), frames[Len(frames)])

-----------------------------------------------------------------------------
(* What the frames come to when one is replaced, added or taken off.       *)

LEMMA AtsRiseOn ==
    ASSUME NEW wrote \in Seq(Written), NEW b \in Nat, NEW b2 \in Nat, b <= b2, AtsRise(wrote, b)
    PROVE  AtsRise(wrote, b2)
<1>1. \A n \in DOMAIN wrote : wrote[n].at \in Nat
  <2>1. \A n \in DOMAIN wrote : wrote[n] \in Written  OBVIOUS
  <2> QED  BY <2>1 DEF Written
<1>2. QED  BY <1>1 DEF AtsRise

LEMMA FrameOKOn ==
    ASSUME NEW json, NEW f, NEW b \in Nat, NEW b2 \in Nat, b <= b2, FrameOK(json, b, f)
    PROVE  FrameOK(json, b2, f)
<1>1. f.wrote \in Seq(Written)  BY DEF FrameOK, FrameType
<1>2. AtsRise(f.wrote, b2)  BY <1>1, AtsRiseOn DEF FrameOK
<1>3. QED  BY <1>2 DEF FrameOK

(* The frames with one replaced, and with the innermost taken off; what    *)
(* becomes of the set and the scopes when it is.                           *)
Replaced(fr, n, f) == [fr EXCEPT ![n] = f]
Less(fr) == [SubSeq(fr, 1, Len(fr)-1) EXCEPT ![Len(fr)-1] = Ended(fr[Len(fr)-1])]
LessKeys(json, set, f) == IF f.kind = "map" THEN Close(set, f.base, json) ELSE set
LessScopes(sc, f) == IF f.ordered THEN SubSeq(sc, 1, Len(sc)-1) ELSE sc

IsReplaced(fr, n, f, fr2) ==
    /\ Len(fr2) = n /\ n \in DOMAIN fr /\ n \in Nat
    /\ DOMAIN fr2 = DOMAIN fr /\ fr2[n] = f /\ Maps(fr2) = Maps(fr)
    /\ \A i \in DOMAIN fr : i # n => fr2[i] = fr[i]
IsPushed(fr, n, f, fr2) ==
    /\ Len(fr2) = n /\ n \in Nat
    /\ DOMAIN fr2 = DOMAIN fr \cup {n} /\ n \notin DOMAIN fr /\ fr2[n] = f
    /\ Maps(fr2) = Maps(fr) \cup (IF f.kind = "map" THEN {n} ELSE {})
    /\ \A i \in DOMAIN fr : fr2[i] = fr[i] /\ i < n /\ i \in Nat
IsPopped(fr, n, fr2) ==
    /\ Len(fr2) = n-1 /\ n \in Nat /\ n-1 \in DOMAIN fr /\ n \in DOMAIN fr
    /\ DOMAIN fr2 = DOMAIN fr \ {n} /\ fr2[n-1] = Ended(fr[n-1])
    /\ Maps(fr2) = Maps(fr) \ {n}
    /\ \A i \in DOMAIN fr2 : i # n-1 => fr2[i] = fr[i]
IsEnded(f, g) ==
    /\ g.slot # "tagged" /\ (g.slot = "node" => f.slot = "key")
    /\ g.kind = f.kind /\ g.base = f.base /\ g.dups = f.dups /\ g.wrote = f.wrote
    /\ g.builtKeys = f.builtKeys /\ (g.ordered <=> f.ordered) /\ g.index = f.index
    /\ g.entryOf = f.entryOf /\ g.entryIndex = f.entryIndex

(* The innermost frame replaced by one of the same kind.                   *)
LEMMA TopReplaced ==
    ASSUME NEW json, NEW b \in Nat, NEW b2 \in Nat, NEW fr, NEW n, NEW f, NEW fr2,
           b <= b2, FramesOK(json, b, fr), FrameOK(json, b2, f),
           n = Len(fr), f.kind = fr[n].kind, fr2 = Replaced(fr, n, f)
    PROVE  FramesOK(json, b2, fr2) /\ IsReplaced(fr, n, f, fr2)
<1>1. fr \in Seq(FrameType) /\ n \in Nat /\ n >= 1 /\ n \in DOMAIN fr /\ f \in FrameType
  BY DEF FramesOK, FrameOK
<1>2. /\ fr2 \in Seq(FrameType) /\ Len(fr2) = n /\ DOMAIN fr2 = DOMAIN fr /\ fr2[n] = f
      /\ \A i \in DOMAIN fr : i # n => fr2[i] = fr[i]
  BY <1>1 DEF Replaced
<1>3. \A i \in DOMAIN fr : fr2[i].kind = fr[i].kind  BY <1>2
<1>4. \A i \in DOMAIN fr : FrameOK(json, b2, fr2[i])
  BY <1>2, FrameOKOn DEF FramesOK
<1>5. fr2 # <<>>  BY <1>1, <1>2
<1>6. FramesOK(json, b2, fr2)
  BY <1>2, <1>3, <1>4, <1>5 DEF FramesOK
<1>7. QED  BY <1>1, <1>2, <1>3, <1>6 DEF Maps, IsReplaced

(* A frame pushed.                                                         *)
LEMMA FramePushed ==
    ASSUME NEW json, NEW b, NEW fr, NEW f, NEW fr2,
           FramesOK(json, b, fr), FrameOK(json, b, f), f.kind # "doc", fr2 = Append(fr, f)
    PROVE  FramesOK(json, b, fr2) /\ IsPushed(fr, Len(fr) + 1, f, fr2)
<1> DEFINE n == Len(fr) + 1
<1>1. fr \in Seq(FrameType) /\ f \in FrameType  BY DEF FramesOK, FrameOK
<1>2. /\ fr2 \in Seq(FrameType) /\ Len(fr2) = n /\ n \in Nat /\ fr2 # <<>>
      /\ DOMAIN fr2 = DOMAIN fr \cup {n} /\ n \notin DOMAIN fr /\ fr2[n] = f
      /\ \A i \in DOMAIN fr : fr2[i] = fr[i] /\ i < n /\ i \in Nat
  BY <1>1
<1>3. n # 1  BY <1>1 DEF FramesOK
<1> HIDE DEF n
<1>4. FramesOK(json, b, fr2)
  BY <1>2, <1>3 DEF FramesOK
<1>5. Maps(fr2) = Maps(fr) \cup (IF f.kind = "map" THEN {n} ELSE {})
  BY <1>2 DEF Maps
<1>6. QED  BY <1>2, <1>4, <1>5 DEF n, IsPushed

LEMMA EndedOK ==
    ASSUME NEW json, NEW b, NEW f, FrameOK(json, b, f)
    PROVE  FrameOK(json, b, Ended(f)) /\ IsEnded(f, Ended(f))
<1> DEFINE slot == CASE f.kind = "doc" -> "done"
                     [] f.slot = "key" -> "node"
                     [] f.slot # "key" /\ f.builds -> "built"
                     [] OTHER -> "between"
           g == Ended(f)
<1>1. f \in FrameType  BY DEF FrameOK
<1>2. slot \in {"done", "node", "built", "between"} /\ (slot = "built" => f.builds)
      /\ (slot = "node" => f.slot = "key")
  <2>1. CASE f.kind = "doc"
    <3>1. f.slot # "key" /\ ~f.builds  BY <2>1 DEF FrameOK
    <3> QED  BY <2>1, <3>1
  <2>2. CASE f.kind # "doc" /\ f.slot = "key"  BY <2>2
  <2>3. CASE f.kind # "doc" /\ f.slot # "key"  BY <2>3
  <2> QED  BY <2>1, <2>2, <2>3
<1>3. g = [f EXCEPT !.slot = slot]  BY DEF Ended
<1> HIDE DEF slot, g
<1>4. /\ g \in FrameType /\ g.slot = slot
      /\ g.kind = f.kind /\ g.base = f.base /\ g.dups = f.dups /\ g.wrote = f.wrote
      /\ g.builtKeys = f.builtKeys /\ (g.ordered <=> f.ordered) /\ g.index = f.index
      /\ g.entryOf = f.entryOf /\ g.entryIndex = f.entryIndex /\ g.builds = f.builds
      /\ g.tag = f.tag
  BY <1>1, <1>2, <1>3 DEF FrameType
<1>5. FrameOK(json, b, g)
  BY <1>2, <1>4 DEF FrameOK
<1>6. QED  BY <1>2, <1>4, <1>5 DEF g, IsEnded

(* The innermost frame taken off, and the one under it on its way on.      *)
LEMMA FramePopped ==
    ASSUME NEW json, NEW b, NEW fr, NEW n, NEW fr2,
           FramesOK(json, b, fr), n = Len(fr), fr[n].kind # "doc", fr2 = Less(fr)
    PROVE  FramesOK(json, b, fr2) /\ IsPopped(fr, n, fr2)
<1> DEFINE f == Ended(fr[n-1])
           cut == SubSeq(fr, 1, n-1)
<1>1. fr \in Seq(FrameType) /\ n \in Nat /\ n \in DOMAIN fr  BY DEF FramesOK
<1>2. n >= 2 /\ n-1 \in DOMAIN fr /\ n-1 \in Nat  BY <1>1 DEF FramesOK
<1>3. cut \in Seq(FrameType) /\ Len(cut) = n-1 /\ \A i \in 1..n-1 : cut[i] = fr[i]
  BY <1>1, <1>2
<1>4. FrameOK(json, b, f) /\ f.kind = fr[n-1].kind /\ f \in FrameType
  <2>1. FrameOK(json, b, fr[n-1])  BY <1>2 DEF FramesOK
  <2>2. FrameOK(json, b, f) /\ IsEnded(fr[n-1], f)  BY <2>1, EndedOK
  <2> QED  BY <2>2 DEF FrameOK, IsEnded
<1>5. fr2 = [cut EXCEPT ![n-1] = f]  BY DEF Less
<1> HIDE DEF f, cut
<1>6. /\ fr2 \in Seq(FrameType) /\ Len(fr2) = n-1 /\ DOMAIN fr2 = 1..n-1 /\ fr2[n-1] = f
      /\ \A i \in 1..n-1 : i # n-1 => fr2[i] = fr[i]
  BY <1>2, <1>3, <1>4, <1>5
<1>7. DOMAIN fr2 = DOMAIN fr \ {n} /\ fr2 # <<>>  BY <1>1, <1>2, <1>6
<1>8. \A i \in DOMAIN fr2 : fr2[i].kind = fr[i].kind /\ FrameOK(json, b, fr2[i])
  BY <1>4, <1>6, <1>7 DEF FramesOK
<1>9. FramesOK(json, b, fr2)  BY <1>6, <1>7, <1>8 DEF FramesOK
<1>10. QED  BY <1>1, <1>2, <1>6, <1>7, <1>8, <1>9 DEF Maps, f, IsPopped

-----------------------------------------------------------------------------
(* Scopes. *)

LEMMA CountTyped ==
    ASSUME NEW fr \in Seq(FrameType), NEW i
    PROVE  IsFiniteSet(Ordered(fr, i)) /\ Count(fr, i) \in Nat
<1>1. DOMAIN fr = 1..Len(fr) /\ Len(fr) \in Nat  OBVIOUS
<1>2. IsFiniteSet(1..Len(fr))  BY <1>1, FS_Interval
<1>3. Ordered(fr, i) \in SUBSET (1..Len(fr))  BY <1>1 DEF Ordered
<1>4. IsFiniteSet(Ordered(fr, i))  BY <1>2, <1>3, FS_Subset
<1>5. QED  BY <1>4, FS_CardinalityType DEF Count

(* Each ordered map has the scope after those of the ones around it.       *)
LEMMA CountRises ==
    ASSUME NEW fr \in Seq(FrameType), NEW i \in Nat, NEW j \in DOMAIN fr, i <= j
    PROVE  /\ Count(fr, i) <= Count(fr, j)
           /\ i < j /\ fr[j].ordered => Count(fr, i) < Count(fr, j)
           /\ i = j-1 /\ ~fr[j].ordered => Count(fr, j) = Count(fr, i)
           /\ i = j-1 /\ fr[j].ordered => Count(fr, j) = Count(fr, i) + 1
<1>0. j \in Nat /\ \A k \in DOMAIN fr : k \in Nat  OBVIOUS
<1>1. IsFiniteSet(Ordered(fr, i)) /\ IsFiniteSet(Ordered(fr, j))
      /\ Count(fr, i) \in Nat /\ Count(fr, j) \in Nat
  BY CountTyped
<1>2. Ordered(fr, i) \in SUBSET Ordered(fr, j)  BY <1>0 DEF Ordered
<1>3. Count(fr, i) <= Count(fr, j)  BY <1>1, <1>2, FS_Subset DEF Count
<1>4. ASSUME i < j, fr[j].ordered
      PROVE  Count(fr, i) < Count(fr, j)
  <2>1. j \in Ordered(fr, j) /\ j \notin Ordered(fr, i)  BY <1>0, <1>4 DEF Ordered
  <2>2. Cardinality(Ordered(fr, i)) # Cardinality(Ordered(fr, j))
    BY <2>1, <1>1, <1>2, FS_Subset
  <2> QED  BY <2>2, <1>1, <1>3 DEF Count
<1>5. ASSUME i = j-1, ~fr[j].ordered PROVE Count(fr, j) = Count(fr, i)
  <2>1. Ordered(fr, j) = Ordered(fr, i)  BY <1>0, <1>5 DEF Ordered
  <2> QED  BY <2>1 DEF Count
<1>6. ASSUME i = j-1, fr[j].ordered PROVE Count(fr, j) = Count(fr, i) + 1
  <2>1. Ordered(fr, j) = Ordered(fr, i) \cup {j} /\ j \notin Ordered(fr, i)
    BY <1>0, <1>6 DEF Ordered
  <2> QED  BY <2>1, <1>1, FS_AddElement DEF Count
<1>7. QED  BY <1>3, <1>4, <1>5, <1>6

LEMMA CountSame ==
    ASSUME NEW fr, NEW fr2, NEW i,
           \A j : j <= i => (j \in DOMAIN fr2 <=> j \in DOMAIN fr),
           \A j \in DOMAIN fr : j \in DOMAIN fr2 /\ j <= i => (fr2[j].ordered <=> fr[j].ordered)
    PROVE  Count(fr2, i) = Count(fr, i)
<1>1. Ordered(fr2, i) = Ordered(fr, i)  BY DEF Ordered
<1>2. QED  BY <1>1 DEF Count

(* The scope of an ordered map is one of those there are.                  *)
LEMMA ScopeIsThere ==
    ASSUME NEW json, NEW b, NEW sc, NEW fr, FramesOK(json, b, fr), ScopesKept(json, sc, fr),
           NEW i \in DOMAIN fr, fr[i].ordered
    PROVE  /\ Count(fr, i) \in 1..Len(sc) /\ Count(fr, i) \in DOMAIN sc
           /\ \A j \in DOMAIN fr : fr[j].ordered /\ j # i => Count(fr, j) # Count(fr, i)
<1>0. /\ fr \in Seq(FrameType) /\ sc \in Seq(ScopeType) /\ Len(sc) = Count(fr, Len(fr))
      /\ Len(fr) \in DOMAIN fr /\ i <= Len(fr) /\ \A j \in DOMAIN fr : j \in Nat /\ Count(fr, j) \in Nat
  BY CountTyped DEF FramesOK, ScopesKept
<1>1. Count(fr, i) <= Count(fr, Len(fr))  BY <1>0, CountRises
<1>2. Count(fr, i-1) < Count(fr, i) /\ Count(fr, i-1) \in Nat
  <2>1. i-1 \in Nat /\ i-1 < i /\ i-1 <= i  BY <1>0
  <2> QED  BY <1>0, <2>1, CountRises, CountTyped
<1>3. ASSUME NEW j \in DOMAIN fr, fr[j].ordered, j # i PROVE Count(fr, j) # Count(fr, i)
  <2>1. CASE j < i
    <3>1. Count(fr, j) < Count(fr, i)  BY <2>1, <1>0, CountRises
    <3> QED  BY <3>1, <1>0
  <2>2. CASE i < j
    <3>1. Count(fr, i) < Count(fr, j)  BY <2>2, <1>0, <1>3, CountRises
    <3> QED  BY <3>1, <1>0
  <2> QED  BY <2>1, <2>2, <1>0, <1>3
<1>4. QED  BY <1>0, <1>1, <1>2, <1>3

(* The scopes hold as long as no ordered map comes, goes or is written to. *)
LEMMA ScopesSame ==
    ASSUME NEW json, NEW sc, NEW fr, NEW fr2, NEW b, NEW b2,
           FramesOK(json, b, fr), FramesOK(json, b2, fr2), ScopesKept(json, sc, fr),
           \A i \in DOMAIN fr2 : i \in DOMAIN fr \/ ~fr2[i].ordered,
           \A i \in DOMAIN fr : i \in DOMAIN fr2 \/ ~fr[i].ordered,
           \A i \in DOMAIN fr : i \in DOMAIN fr2 =>
               (fr2[i].ordered <=> fr[i].ordered) /\ (fr[i].ordered => fr2[i].wrote = fr[i].wrote)
    PROVE  ScopesKept(json, sc, fr2) /\ \A i : Count(fr2, i) = Count(fr, i)
<1>1. \A i : Ordered(fr2, i) = Ordered(fr, i)  BY DEF Ordered
<1>2. \A i : Count(fr2, i) = Count(fr, i)  BY <1>1 DEF Count
<1>3. Ordered(fr, Len(fr)) = Ordered(fr, Len(fr2))
  <2>1. \A i \in DOMAIN fr : i <= Len(fr)  BY DEF FramesOK
  <2>2. \A i \in DOMAIN fr2 : i <= Len(fr2)  BY DEF FramesOK
  <2> QED  BY <2>1, <2>2 DEF Ordered
<1>4. Count(fr2, Len(fr2)) = Count(fr, Len(fr))  BY <1>2, <1>3 DEF Count
<1>5. QED  BY <1>2, <1>4 DEF ScopesKept

LEMMA EntriesSame ==
    ASSUME NEW fr, NEW fr2, EntriesKnown(fr), Maps(fr2) \subseteq Maps(fr),
           \A i \in Maps(fr2) :
               /\ fr2[i].entryOf = fr[i].entryOf /\ fr2[i].entryIndex = fr[i].entryIndex
               /\ fr2[i].wrote = fr[i].wrote
               /\ (fr2[i-1].ordered <=> fr[i-1].ordered) /\ fr2[i-1].index = fr[i-1].index
               /\ fr2[i-1].wrote = fr[i-1].wrote /\ Count(fr2, i-1) = Count(fr, i-1)
    PROVE  EntriesKnown(fr2)
BY DEF EntriesKnown

(* A frame that moves on without writing anything leaves all settled.      *)
LEMMA TopQuiet ==
    ASSUME NEW json \in BOOLEAN, NEW b \in Nat, NEW set \in SetType, NEW sc, NEW fr,
           NEW n, NEW f, NEW fr2,
           Settled(json, b, set, sc, fr), n = Len(fr), FrameOK(json, b, f),
           f.kind = fr[n].kind, f.base = fr[n].base, f.dups = fr[n].dups,
           f.builtKeys = fr[n].builtKeys, f.wrote = fr[n].wrote, f.ordered <=> fr[n].ordered,
           f.entryOf = fr[n].entryOf, f.entryIndex = fr[n].entryIndex,
           fr2 = Replaced(fr, n, f)
    PROVE  Settled(json, b, set, sc, fr2) /\ Len(fr2) = n /\ fr2[n] = f
<1>1. FramesOK(json, b, fr) /\ MapsKept(json, set, fr) /\ ScopesKept(json, sc, fr) /\ EntriesKnown(fr)
  BY DEF Settled
<1>2. b <= b  OBVIOUS
<1>3. /\ FramesOK(json, b, fr2) /\ Len(fr2) = n /\ n \in DOMAIN fr /\ n \in Nat
      /\ DOMAIN fr2 = DOMAIN fr /\ fr2[n] = f /\ Maps(fr2) = Maps(fr)
      /\ \A i \in DOMAIN fr : i # n => fr2[i] = fr[i]
  <2>1. FramesOK(json, b, fr2) /\ IsReplaced(fr, n, f, fr2)  BY <1>1, <1>2, TopReplaced
  <2> QED  BY <2>1 DEF IsReplaced
<1>4. \A i \in Maps(fr) : i \in DOMAIN fr /\ i-1 \in DOMAIN fr /\ i-1 # n
  <2>1. \A i \in Maps(fr) : i \in 1..n /\ i # 1  BY <1>1, <1>3 DEF FramesOK, Maps
  <2> QED  BY <2>1, <1>1, <1>3 DEF FramesOK
<1>5. MapsKept(json, set, fr2)
  <2>1. \A i \in Maps(fr) : /\ fr2[i].base = fr[i].base /\ fr2[i].wrote = fr[i].wrote
                            /\ fr2[i].dups = fr[i].dups /\ fr2[i].builtKeys = fr[i].builtKeys
    BY <1>3, <1>4
  <2> QED  BY <1>1, <1>3, <2>1, MapsSame
<1>6. ScopesKept(json, sc, fr2) /\ \A i : Count(fr2, i) = Count(fr, i)
  <2>1. \A i \in DOMAIN fr : (fr2[i].ordered <=> fr[i].ordered) /\ fr2[i].wrote = fr[i].wrote
    BY <1>3
  <2> QED  BY <1>1, <1>3, <2>1, ScopesSame
<1>7. EntriesKnown(fr2)
  <2>1. \A i \in Maps(fr2) :
               /\ fr2[i].entryOf = fr[i].entryOf /\ fr2[i].entryIndex = fr[i].entryIndex
               /\ fr2[i].wrote = fr[i].wrote
               /\ (fr2[i-1].ordered <=> fr[i-1].ordered) /\ fr2[i-1].index = fr[i-1].index
               /\ fr2[i-1].wrote = fr[i-1].wrote /\ Count(fr2, i-1) = Count(fr, i-1)
    BY <1>3, <1>4, <1>6
  <2> QED  BY <1>1, <1>3, <2>1, EntriesSame
<1>8. QED  BY <1>3, <1>5, <1>6, <1>7 DEF Settled

(* A collection that ends leaves all settled, once its keys or its scope   *)
(* are gone.                                                               *)
Pops(json, b, set, sc, fr, n, set2, sc2, fr2) ==
    /\ json \in BOOLEAN /\ b \in Nat /\ set \in SetType
    /\ Settled(json, b, set, sc, fr) /\ n = Len(fr) /\ fr[n].kind # "doc"
    /\ set2 = LessKeys(json, set, fr[n]) /\ sc2 = LessScopes(sc, fr[n]) /\ fr2 = Less(fr)

LEMMA PoppedQuiet ==
    ASSUME NEW json, NEW b, NEW set, NEW sc, NEW fr, NEW n, NEW set2, NEW sc2, NEW fr2,
           Pops(json, b, set, sc, fr, n, set2, sc2, fr2)
    PROVE  /\ set2 \in SetType /\ Settled(json, b, set2, sc2, fr2) /\ Len(fr2) = n-1
           /\ fr2[n-1] = Ended(fr[n-1]) /\ FrameOK(json, b, fr[n-1])
<1>a. /\ json \in BOOLEAN /\ b \in Nat /\ set \in SetType
      /\ Settled(json, b, set, sc, fr) /\ n = Len(fr) /\ fr[n].kind # "doc"
      /\ set2 = LessKeys(json, set, fr[n]) /\ sc2 = LessScopes(sc, fr[n]) /\ fr2 = Less(fr)
  BY DEF Pops
<1> USE <1>a
<1>1. FramesOK(json, b, fr) /\ MapsKept(json, set, fr) /\ ScopesKept(json, sc, fr) /\ EntriesKnown(fr)
      /\ fr \in Seq(FrameType) /\ sc \in Seq(ScopeType)
  BY DEF Settled, FramesOK, ScopesKept
<1>2. /\ FramesOK(json, b, fr2) /\ Len(fr2) = n-1 /\ n \in Nat /\ n-1 \in DOMAIN fr /\ n \in DOMAIN fr
      /\ DOMAIN fr2 = DOMAIN fr \ {n} /\ fr2[n-1] = Ended(fr[n-1])
      /\ Maps(fr2) = Maps(fr) \ {n}
      /\ \A i \in DOMAIN fr2 : i # n-1 => fr2[i] = fr[i]
  <2>1. FramesOK(json, b, fr2) /\ IsPopped(fr, n, fr2)  BY <1>1, FramePopped
  <2> QED  BY <2>1 DEF IsPopped
<1>3. FrameOK(json, b, fr[n-1])  BY <1>1, <1>2 DEF FramesOK
<1>4. \A i \in DOMAIN fr2 :
          /\ fr2[i].base = fr[i].base /\ fr2[i].wrote = fr[i].wrote /\ fr2[i].dups = fr[i].dups
          /\ fr2[i].builtKeys = fr[i].builtKeys /\ (fr2[i].ordered <=> fr[i].ordered)
          /\ fr2[i].index = fr[i].index /\ fr2[i].entryOf = fr[i].entryOf
          /\ fr2[i].entryIndex = fr[i].entryIndex
  <2>1. IsEnded(fr[n-1], fr2[n-1])  BY <1>2, <1>3, EndedOK
  <2> QED  BY <1>2, <2>1 DEF IsEnded
<1>5. set2 \in SetType /\ MapsKept(json, set2, fr2)
  <2>1. \A i \in Maps(fr2) : /\ fr2[i].base = fr[i].base /\ fr2[i].wrote = fr[i].wrote
                             /\ fr2[i].dups = fr[i].dups /\ fr2[i].builtKeys = fr[i].builtKeys
    BY <1>4 DEF Maps
  <2>2. CASE fr[n].kind = "map"
    <3>1. n \in Maps(fr)  BY <2>2, <1>2 DEF Maps
    <3>2. OwnPart(json, set, fr[n].base)  BY <3>1, <1>1, TopOwns
    <3>3. Close(set, fr[n].base, json) \in SetType  BY <3>2, CloseForgets
    <3>4. MapsKept(json, Close(set, fr[n].base, json), fr2)
      BY <3>1, <2>1, <1>1, <1>2, MapsClose
    <3> QED  BY <2>2, <3>3, <3>4 DEF LessKeys
  <2>3. CASE fr[n].kind # "map"
    <3>1. Maps(fr2) = Maps(fr)  BY <2>3, <1>2 DEF Maps
    <3>2. MapsKept(json, set, fr2)  BY <3>1, <2>1, <1>1, MapsSame
    <3> QED  BY <2>3, <3>2 DEF LessKeys
  <2> QED  BY <2>2, <2>3
<1>6. ASSUME NEW i \in Nat, i <= n-1 PROVE Count(fr2, i) = Count(fr, i)
  <2>1. ~(n <= i)  BY <1>2, <1>6
  <2>2. \A j : j <= i => j # n  BY <2>1
  <2> QED  BY <2>2, <1>2, <1>4, CountSame
<1>7. ScopesKept(json, sc2, fr2)
  <2>1. Len(sc) = Count(fr, n)  BY <1>1 DEF ScopesKept
  <2>2. n-1 \in Nat /\ n-1 <= n /\ Count(fr, n-1) \in Nat /\ Count(fr, n) \in Nat
    BY <1>1, <1>2, CountTyped
  <2>3. CASE fr[n].ordered
    <3>1. Count(fr, n) = Count(fr, n-1) + 1  BY <2>2, <2>3, <1>1, <1>2, CountRises
    <3>2. sc2 \in Seq(ScopeType) /\ Len(sc2) = Len(sc)-1 /\ \A k \in 1..Len(sc)-1 : sc2[k] = sc[k]
      BY <2>1, <2>2, <2>3, <3>1, <1>1 DEF LessScopes
    <3>3. Len(sc2) = Count(fr2, Len(fr2))
      <4>1. Len(sc)-1 = Count(fr, n-1)  BY <2>1, <2>2, <3>1
      <4>2. Count(fr2, n-1) = Count(fr, n-1)  BY <2>2, <1>6
      <4>3. Len(sc2) = Count(fr2, n-1)  BY <4>1, <4>2, <3>2
      <4> QED  BY <4>3, <1>2
    <3>4. ASSUME NEW i \in DOMAIN fr2, fr2[i].ordered
          PROVE  ScopeKept(json, sc2[Count(fr2, i)], fr2[i].wrote)
      <4>1. i \in DOMAIN fr /\ fr[i].ordered /\ i <= n-1 /\ i \in Nat  BY <3>4, <1>1, <1>2, <1>4
      <4>2. Count(fr2, i) = Count(fr, i)  BY <4>1, <1>6
      <4>3. Count(fr, i) \in 1..Len(sc)  BY <4>1, <1>1, ScopeIsThere
      <4>4. Count(fr, i) # Count(fr, n)  BY <4>1, <2>3, <1>1, <1>2, ScopeIsThere
      <4>5. Count(fr, i) \in 1..Len(sc)-1  BY <4>3, <4>4, <2>1, <2>2
      <4>6. ScopeKept(json, sc[Count(fr, i)], fr[i].wrote)  BY <4>1, <1>1 DEF ScopesKept
      <4> QED  BY <4>2, <4>5, <4>6, <3>2, <1>4
    <3> QED  BY <3>2, <3>3, <3>4 DEF ScopesKept
  <2>4. CASE ~fr[n].ordered
    <3>1. sc2 = sc  BY <2>4 DEF LessScopes
    <3>2. ScopesKept(json, sc, fr2)
      BY <2>4, <1>1, <1>2, <1>4, ScopesSame
    <3> QED  BY <3>1, <3>2
  <2> QED  BY <2>3, <2>4
<1>8. EntriesKnown(fr2)
  <2>1. \A i \in Maps(fr2) : i \in DOMAIN fr2 /\ i-1 \in DOMAIN fr2 /\ i-1 <= n-1 /\ i-1 \in Nat
    <3>1. \A i \in Maps(fr2) : i \in 1..n-1 /\ i # 1 /\ i \in DOMAIN fr2
      BY <1>2 DEF FramesOK, Maps
    <3> QED  BY <3>1, <1>1, <1>2 DEF FramesOK
  <2>2. \A i \in Maps(fr2) :
               /\ fr2[i].entryOf = fr[i].entryOf /\ fr2[i].entryIndex = fr[i].entryIndex
               /\ fr2[i].wrote = fr[i].wrote
               /\ (fr2[i-1].ordered <=> fr[i-1].ordered) /\ fr2[i-1].index = fr[i-1].index
               /\ fr2[i-1].wrote = fr[i-1].wrote /\ Count(fr2, i-1) = Count(fr, i-1)
    BY <2>1, <1>4, <1>6
  <2> QED  BY <1>1, <1>2, <2>2, EntriesSame
<1>9. QED  BY <1>2, <1>3, <1>5, <1>7, <1>8 DEF Settled

(* What the entries of an ordered map repeat, when one more key is written.*)
LEMMA AcrossGrows ==
    ASSUME NEW json \in BOOLEAN, NEW wrote \in Seq(Written), NEW w \in Written
    PROVE  AcrossOf(json, Append(wrote, w)) =
               AcrossOf(json, wrote) \cup
               (IF /\ w.kind # "built"
                   /\ \E j \in DOMAIN wrote : Same(json, wrote[j], w)
                   /\ \A j \in DOMAIN wrote : Same(json, wrote[j], w) => wrote[j].index # w.index
                THEN {AcrossDup(json, Append(wrote, w), Len(wrote) + 1)} ELSE {})
<1> DEFINE more == Append(wrote, w)
           n == Len(wrote) + 1
           new == /\ w.kind # "built"
                  /\ \E j \in DOMAIN wrote : Same(json, wrote[j], w)
                  /\ \A j \in DOMAIN wrote : Same(json, wrote[j], w) => wrote[j].index # w.index
<1>1. /\ DOMAIN more = DOMAIN wrote \cup {n} /\ more[n] = w /\ n \notin DOMAIN wrote
      /\ \A k \in DOMAIN wrote : more[k] = wrote[k] /\ Before(json, more, k) = Before(json, wrote, k)
      /\ Before(json, more, n) = {j \in DOMAIN wrote : Same(json, wrote[j], w)}
      /\ \A k \in DOMAIN wrote : Before(json, wrote, k) # {} =>
            RepeatOf(json, more, k) = RepeatOf(json, wrote, k)
  BY WroteOneMore
<1>2. \A k \in DOMAIN wrote : \A j \in Before(json, wrote, k) : j \in DOMAIN wrote
  BY DEF Before
<1> HIDE DEF more, n
<1>3. \A k \in DOMAIN wrote : k \in AcrossKeys(json, more) <=> k \in AcrossKeys(json, wrote)
  BY <1>1, <1>2 DEF AcrossKeys
<1>4. n \in AcrossKeys(json, more) <=> new
  BY <1>1 DEF AcrossKeys
<1> HIDE DEF new
<1>5. AcrossKeys(json, more) = AcrossKeys(json, wrote) \cup (IF new THEN {n} ELSE {})
  <2>1. \A k \in AcrossKeys(json, more) : k \in DOMAIN wrote \/ k = n  BY <1>1 DEF AcrossKeys
  <2>2. \A k \in AcrossKeys(json, wrote) : k \in DOMAIN wrote  BY DEF AcrossKeys
  <2> QED  BY <2>1, <2>2, <1>3, <1>4
<1>6. \A k \in AcrossKeys(json, wrote) : AcrossDup(json, more, k) = AcrossDup(json, wrote, k)
  BY <1>1 DEF AcrossKeys, AcrossDup
<1>7. AcrossOf(json, more) =
          AcrossOf(json, wrote) \cup (IF new THEN {AcrossDup(json, more, n)} ELSE {})
  BY <1>5, <1>6 DEF AcrossOf
<1>8. QED  BY <1>7 DEF more, n, new

(* The key of a new entry, told to the scope of its ordered map.           *)
LEMMA ScopeRecords ==
    ASSUME NEW json \in BOOLEAN, NEW scope \in ScopeType, NEW wrote \in Seq(Written),
           NEW w \in Written, NEW r, NEW x,
           ScopeKept(json, scope, wrote), json => NoneBuilt(wrote), w.kind \in Kind,
           \A j \in DOMAIN wrote : Same(json, wrote[j], w) => wrote[j].index # w.index,
           r = Record(scope.set, 0, w.text, w.kind, w.at, json),
           x = [set |-> r.set,
                dups |-> IF r.defined
                         THEN scope.dups \cup {[at |-> w.at, first |-> r.first,
                                                jsonOnly |-> r.jsonOnly, index |-> w.index]}
                         ELSE scope.dups]
    PROVE  x \in ScopeType /\ ScopeKept(json, x, Append(wrote, w))
<1> DEFINE set == scope.set
           I == Own(set, 0)
           dup == [at |-> w.at, first |-> r.first, jsonOnly |-> r.jsonOnly, index |-> w.index]
           dups == IF r.defined THEN scope.dups \cup {dup} ELSE scope.dups
           more == Append(wrote, w)
           n == Len(wrote) + 1
           same == \E j \in DOMAIN wrote : Same(json, wrote[j], w)
           key == [text |-> w.text, kind |-> w.kind]
<1>0. /\ set \in SetType /\ scope.dups \in SUBSET ScopeDup
      /\ w.text \in Text /\ w.at \in Nat /\ w.index \in Int /\ w.kind \in Kind /\ w.kind # "built"
  BY DEF ScopeType, Written
<1>1. /\ OwnPart(json, set, 0) /\ HoldsFirsts(json, set.entries, I, wrote)
      /\ scope.dups = AcrossOf(json, wrote)
  BY DEF ScopeKept
<1>2. Recorded(json, set, 0, w.text, w.kind, w.at, r)
  BY <1>0, <1>1, RecordAnswers
<1>3. x = [set |-> r.set, dups |-> dups]  OBVIOUS
<1>4. r.set \in SetType /\ r.defined \in BOOLEAN /\ r.first \in Nat /\ r.jsonOnly \in BOOLEAN
      /\ OwnPart(json, r.set, 0)
  BY <1>2 DEF Recorded
<1>5. dup \in ScopeDup  BY <1>0, <1>4 DEF ScopeDup
<1> HIDE DEF dup
<1>6. dups \in SUBSET ScopeDup  BY <1>0, <1>5
<1> HIDE DEF dups
<1>7. x \in ScopeType /\ x.set = r.set /\ x.dups = dups
  BY <1>3, <1>4, <1>6 DEF ScopeType
<1>8. key.text = w.text /\ key.kind = w.kind  OBVIOUS
<1>9. Has(json, set, 0, w.text, w.kind) <=> \E k \in I : Same(json, set.entries[k], w)
  BY <1>8 DEF Has, Same
<1>10. r.defined <=> same
  <2>1. r.defined <=> Has(json, set, 0, w.text, w.kind)  BY <1>2 DEF Recorded
  <2>2. (\E k \in I : Same(json, set.entries[k], w)) <=> same
    <3> HIDE DEF I, set
    <3> QED  BY <1>0, <1>1, SameFound
  <2> QED  BY <2>1, <2>2, <1>9
<1>11. AcrossOf(json, more) =
          AcrossOf(json, wrote) \cup (IF same THEN {AcrossDup(json, more, n)} ELSE {})
  <2>1. AcrossOf(json, more) =
               AcrossOf(json, wrote) \cup
               (IF /\ w.kind # "built" /\ same
                   /\ \A j \in DOMAIN wrote : Same(json, wrote[j], w) => wrote[j].index # w.index
                THEN {AcrossDup(json, more, n)} ELSE {})
    BY AcrossGrows
  <2> QED  BY <2>1, <1>0
<1>12. more \in Seq(Written) /\ more[n] = w  BY WroteOneMore
<1>13. CASE r.defined
  <2>1. r.set.entries = set.entries /\ Finds(json, set, 0, w.text, w.kind, r)
    BY <1>2, <1>13 DEF Recorded
  <2>2. PICK k \in I : /\ Same(json, set.entries[k], w) /\ r.first = set.entries[k].at
                       /\ r.jsonOnly <=> set.entries[k].kind # w.kind
    BY <2>1, <1>8 DEF Finds, Same
  <2>3. RepeatOf(json, more, n) = DupOf(w, set.entries[k])
    <3>1. Same(json, set.entries[k], w)  BY <2>2
    <3> HIDE DEF I, set
    <3> QED  BY <1>1, <3>1, RepeatFound
  <2>4. r.jsonOnly = (set.entries[k].kind # w.kind)  BY <2>2, <1>4
  <2>5. AcrossDup(json, more, n) = dup
    <3> HIDE DEF more, n
    <3> QED  BY <2>2, <2>3, <2>4, <1>12 DEF AcrossDup, DupOf, dup
  <2>6. x.dups = AcrossOf(json, more)
    <3> HIDE DEF more, n, same
    <3> QED  BY <2>5, <1>1, <1>7, <1>10, <1>11, <1>13 DEF dups
  <2>7. HoldsFirsts(json, set.entries, I, more)
    <3> HIDE DEF I, set
    <3> QED  BY <1>1, <1>10, <1>13, FirstsKept
  <2>8. Own(x.set, 0) = I /\ x.set.entries = set.entries  BY <2>1, <1>7 DEF Own
  <2> HIDE DEF more
  <2>9. HoldsFirsts(json, x.set.entries, Own(x.set, 0), more)  BY <2>7, <2>8
  <2> QED  BY <2>6, <2>9, <1>4, <1>7 DEF ScopeKept, more
<1>14. CASE ~r.defined
  <2> DEFINE e == [text |-> w.text, kind |-> w.kind, at |-> w.at]
             m == Len(set.entries) + 1
  <2>1. r.set.entries = Append(set.entries, e)  BY <1>2, <1>14 DEF Recorded
  <2>2. e \in KeyEntry /\ e.text = w.text /\ e.kind = w.kind /\ e.at = w.at
    BY <1>0 DEF KeyEntry
  <2> HIDE DEF e
  <2>3. \A k \in I : ~Same(json, set.entries[k], e)
    <3>1. \A k \in I : ~Same(json, set.entries[k], w)
      BY <1>2, <1>9, <1>14 DEF Recorded
    <3> QED  BY <3>1, <2>2 DEF Same
  <2>4. /\ Own(r.set, 0) = I \cup {m} /\ \A k \in I : r.set.entries[k] = set.entries[k]
        /\ r.set.entries[m] = e /\ Unique(json, r.set.entries, Own(r.set, 0))
    <3>1. Unique(json, set.entries, Own(set, 0)) /\ 0 \in Nat /\ 0 <= Len(set.entries)
      BY <1>1 DEF OwnPart
    <3>2. PICK base \in Nat : base = 0  OBVIOUS
    <3>3. base <= Len(set.entries) /\ Unique(json, set.entries, Own(set, base))
      BY <3>1, <3>2
    <3>4. \A k \in Own(set, base) : ~Same(json, set.entries[k], e)  BY <2>3, <3>2
    <3>5. r.set \in SetType /\ set \in SetType /\ e \in KeyEntry  BY <1>0, <1>4, <2>2
    <3>6. /\ Own(r.set, base) = Own(set, base) \cup {m}
          /\ \A k \in Own(set, base) : r.set.entries[k] = set.entries[k]
          /\ r.set.entries[m] = e /\ Unique(json, r.set.entries, Own(r.set, base))
      <4> HIDE DEF set
      <4> QED  BY <2>1, <3>3, <3>4, <3>5, PushOwns
    <3> QED  BY <3>2, <3>6
  <2>5. Is(r.set.entries[m], w)  BY <2>2, <2>4 DEF Is
  <2>6. HoldsFirsts(json, r.set.entries, I \cup {m}, more)
    <3>1. Unique(json, r.set.entries, I \cup {m})  BY <2>4
    <3>2. \A j \in DOMAIN wrote : ~Same(json, wrote[j], w)  BY <1>10, <1>14
    <3>3. \A k \in I : r.set.entries[k] = set.entries[k]  BY <2>4
    <3> HIDE DEF I, m, set
    <3> QED  BY <1>0, <1>1, <2>5, <3>1, <3>2, <3>3, FirstsGrow
  <2>7. x.dups = AcrossOf(json, more)
    <3> HIDE DEF more, n, same
    <3> QED  BY <1>1, <1>7, <1>10, <1>11, <1>14 DEF dups
  <2> HIDE DEF more, I, m
  <2>8. HoldsFirsts(json, x.set.entries, Own(x.set, 0), more)  BY <2>4, <2>6, <1>7
  <2> QED  BY <2>7, <2>8, <1>4, <1>7 DEF ScopeKept, more
<1>15. QED  BY <1>13, <1>14

(* A key the mapping itself repeats, or one that is built, is not told to  *)
(* the scope, and is no repeat of another entry's.                         *)
LEMMA ScopeLeft ==
    ASSUME NEW json \in BOOLEAN, NEW scope \in ScopeType, NEW wrote \in Seq(Written), NEW w \in Written,
           ScopeKept(json, scope, wrote),
           \/ w.kind = "built"
           \/ \E j \in DOMAIN wrote : Same(json, wrote[j], w) /\ wrote[j].index = w.index
    PROVE  ScopeKept(json, scope, Append(wrote, w))
<1> DEFINE set == scope.set
           I == Own(set, 0)
           more == Append(wrote, w)
<1>1. /\ OwnPart(json, set, 0) /\ HoldsFirsts(json, set.entries, I, wrote)
      /\ scope.dups = AcrossOf(json, wrote)
  BY DEF ScopeKept
<1>2. HoldsFirsts(json, set.entries, I, more)
  <2>1. w.kind = "built" \/ \E j \in DOMAIN wrote : Same(json, wrote[j], w)  OBVIOUS
  <2> HIDE DEF I, set
  <2> QED  BY <1>1, <2>1, FirstsKept
<1>3. AcrossOf(json, more) = AcrossOf(json, wrote)
  <2>1. ~(/\ w.kind # "built"
          /\ \E j \in DOMAIN wrote : Same(json, wrote[j], w)
          /\ \A j \in DOMAIN wrote : Same(json, wrote[j], w) => wrote[j].index # w.index)
    OBVIOUS
  <2>2. AcrossOf(json, more) = AcrossOf(json, wrote) \cup {}  BY <2>1, AcrossGrows
  <2> QED  BY <2>2
<1> HIDE DEF more
<1>4. QED  BY <1>1, <1>2, <1>3 DEF ScopeKept, more

(* A collection that opens.                                                *)
IsOpened(json, b, f) ==
    /\ FrameOK(json, b, f) /\ f.slot = "between"
    /\ f.wrote = <<>> /\ f.dups = {} /\ f.builtKeys = {}

OpensMap(json, b, set, sc, fr, f, expects, n, fr2) ==
    /\ json \in BOOLEAN /\ b \in Nat /\ set \in SetType
    /\ Settled(json, b, set, sc, fr) /\ n = Len(fr)
    /\ MarksKnown(f.entryOf, f.entryIndex, expects, Len(sc), fr[n])
    /\ fr[n].slot \in {"node", "tagged", "key"}
    /\ IsOpened(json, b, f) /\ f.kind = "map" /\ f.base = Len(set.entries) /\ ~f.ordered
    /\ fr2 = Append(fr, f)

LEMMA MapOpens ==
    ASSUME NEW json, NEW b, NEW set, NEW sc, NEW fr, NEW f, NEW expects, NEW n, NEW fr2,
           OpensMap(json, b, set, sc, fr, f, expects, n, fr2)
    PROVE  Settled(json, b, set, sc, fr2) /\ Len(fr2) = n+1 /\ fr2[n+1] = f
<1> DEFINE mark == f.entryOf
           markIndex == f.entryIndex
<1>a. /\ json \in BOOLEAN /\ b \in Nat /\ set \in SetType
      /\ Settled(json, b, set, sc, fr) /\ n = Len(fr)
      /\ MarksKnown(mark, markIndex, expects, Len(sc), fr[n])
      /\ fr[n].slot \in {"node", "tagged", "key"}
      /\ IsOpened(json, b, f) /\ f.kind = "map" /\ f.base = Len(set.entries) /\ ~f.ordered
      /\ f.entryOf = mark /\ f.entryIndex = markIndex /\ fr2 = Append(fr, f)
  BY DEF OpensMap
<1> HIDE DEF mark, markIndex
<1> USE <1>a
<1>1. FramesOK(json, b, fr) /\ MapsKept(json, set, fr) /\ ScopesKept(json, sc, fr) /\ EntriesKnown(fr)
      /\ fr \in Seq(FrameType) /\ f \in FrameType /\ FrameOK(json, b, f)
  BY DEF Settled, FramesOK, IsOpened, FrameOK
<1>2. /\ FramesOK(json, b, fr2) /\ Len(fr2) = n+1 /\ n+1 \in Nat /\ n \in DOMAIN fr /\ n \in Nat
      /\ DOMAIN fr2 = DOMAIN fr \cup {n+1} /\ n+1 \notin DOMAIN fr /\ fr2[n+1] = f
      /\ Maps(fr2) = Maps(fr) \cup {n+1}
      /\ \A i \in DOMAIN fr : fr2[i] = fr[i] /\ i < n+1 /\ i \in Nat
  <2>1. FramesOK(json, b, fr2) /\ IsPushed(fr, n+1, f, fr2)
    BY <1>1, FramePushed
  <2>2. n \in DOMAIN fr /\ n \in Nat  BY <1>1 DEF FramesOK
  <2> QED  BY <2>1, <2>2 DEF IsPushed
<1>3. MapsKept(json, set, fr2)
  BY <1>1, MapsOpen DEF IsOpened
<1>4. ScopesKept(json, sc, fr2) /\ \A i : Count(fr2, i) = Count(fr, i)
  <2>1. \A i \in DOMAIN fr2 : i \in DOMAIN fr \/ ~fr2[i].ordered  BY <1>2
  <2>2. \A i \in DOMAIN fr : i \in DOMAIN fr2 \/ ~fr[i].ordered  BY <1>2
  <2>3. \A i \in DOMAIN fr : i \in DOMAIN fr2 =>
           (fr2[i].ordered <=> fr[i].ordered) /\ (fr[i].ordered => fr2[i].wrote = fr[i].wrote)
    BY <1>2
  <2>4. ScopesKept(json, sc, fr2)  BY <2>1, <2>2, <2>3, <1>1, <1>2, ScopesSame
  <2>5. \A i : Ordered(fr2, i) = Ordered(fr, i)  BY <2>1, <1>2 DEF Ordered
  <2> QED  BY <2>4, <2>5 DEF Count
<1>5. \A i \in Maps(fr) : i \in DOMAIN fr /\ i-1 \in DOMAIN fr
  <2>1. \A i \in Maps(fr) : i \in DOMAIN fr /\ i # 1  BY <1>1 DEF FramesOK, Maps
  <2> QED  BY <2>1, <1>1
<1>6. (n+1)-1 = n  BY <1>2
<1>7. ASSUME fr[n].ordered
      PROVE  /\ f.entryOf = Count(fr, n) /\ f.entryIndex = fr[n].index - 1
             /\ InEntry(f.wrote, fr[n].wrote, fr[n].index - 1)
  <2>1. FrameOK(json, b, fr[n])  BY <1>1, <1>2 DEF FramesOK
  <2>2. fr[n].kind = "seq" /\ fr[n].slot # "key"  BY <2>1, <1>7 DEF FrameOK
  <2>3. AtEntry(fr[n])  BY <2>2, <1>7 DEF AtEntry
  <2>4. /\ mark = Len(sc) /\ markIndex = fr[n].index - 1
        /\ \A j \in DOMAIN fr[n].wrote : fr[n].wrote[j].index < fr[n].index - 1
    BY <2>3 DEF MarksKnown
  <2>5. Len(sc) = Count(fr, n)  BY <1>1 DEF ScopesKept
  <2>6. fr[n].index - 1 \in Int /\ fr[n].wrote \in Seq(Written)
    BY <2>1 DEF FrameOK, FrameType
  <2>7. \A j \in DOMAIN fr[n].wrote : fr[n].wrote[j].index \in Int
    <3>1. \A j \in DOMAIN fr[n].wrote : fr[n].wrote[j] \in Written  BY <2>6
    <3> QED  BY <3>1 DEF Written
  <2>8. \A j \in DOMAIN fr[n].wrote : fr[n].wrote[j].index # fr[n].index - 1
    BY <2>4, <2>6, <2>7
  <2>9. f.wrote = <<>>  BY DEF IsOpened
  <2> QED  BY <2>4, <2>5, <2>8, <2>9 DEF InEntry
<1>8. ASSUME ~fr[n].ordered PROVE f.entryOf = 0
  BY <1>8 DEF MarksKnown, AtEntry
<1>9. EntriesKnown(fr2)
  <2>1. ASSUME NEW i \in Maps(fr)
        PROVE  fr2[i] = fr[i] /\ fr2[i-1] = fr[i-1] /\ Count(fr2, i-1) = Count(fr, i-1)
    BY <1>2, <1>4, <1>5
  <2>2. fr2[n+1] = f /\ fr2[(n+1)-1] = fr[n] /\ Count(fr2, (n+1)-1) = Count(fr, n)
    BY <1>2, <1>4, <1>6
  <2>3. ASSUME NEW i \in Maps(fr2)
        PROVE  IF fr2[i-1].ordered
               THEN /\ fr2[i].entryOf = Count(fr2, i-1) /\ fr2[i].entryIndex = fr2[i-1].index - 1
                    /\ InEntry(fr2[i].wrote, fr2[i-1].wrote, fr2[i-1].index - 1)
               ELSE fr2[i].entryOf = 0
    <3>1. CASE i \in Maps(fr)  BY <3>1, <2>1, <1>1 DEF EntriesKnown
    <3>2. CASE i = n+1  BY <3>2, <2>2, <1>7, <1>8
    <3> QED  BY <3>1, <3>2, <1>2
  <2> QED  BY <2>3 DEF EntriesKnown
<1>10. QED  BY <1>2, <1>3, <1>4, <1>9 DEF Settled

(* A sequence that opens, with a scope of its own if it is an ordered map. *)
NewScope == [set |-> EmptySet, dups |-> {}]

LEMMA NewScopeKept ==
    ASSUME NEW json
    PROVE  NewScope \in ScopeType /\ ScopeKept(json, NewScope, <<>>)
<1>1. EmptySet \in SetType /\ EmptySet.entries = <<>> /\ EmptySet.index = {}
  BY DEF EmptySet, SetType
<1>2. NewScope \in ScopeType /\ NewScope.set = EmptySet /\ NewScope.dups = {}
  BY <1>1 DEF NewScope, ScopeType
<1>3. Own(EmptySet, 0) = {}  BY <1>1 DEF Own
<1>4. OwnPart(json, EmptySet, 0)
  BY <1>1, <1>3 DEF OwnPart, Unique, InIndex
<1>5. HoldsFirsts(json, EmptySet.entries, {}, <<>>)  BY DEF HoldsFirsts, Unique
<1>6. AcrossOf(json, <<>>) = {}  BY DEF AcrossOf, AcrossKeys
<1>7. QED  BY <1>2, <1>3, <1>4, <1>5, <1>6 DEF ScopeKept

OpensSequence(json, b, set, sc, fr, f, n, fr2, sc2) ==
    /\ json \in BOOLEAN /\ b \in Nat /\ set \in SetType
    /\ Settled(json, b, set, sc, fr) /\ n = Len(fr)
    /\ IsOpened(json, b, f) /\ f.kind = "seq" /\ fr2 = Append(fr, f)
    /\ sc2 = IF f.ordered THEN Append(sc, NewScope) ELSE sc

LEMMA SequenceOpens ==
    ASSUME NEW json, NEW b, NEW set, NEW sc, NEW fr, NEW f, NEW n, NEW fr2, NEW sc2,
           OpensSequence(json, b, set, sc, fr, f, n, fr2, sc2)
    PROVE  Settled(json, b, set, sc2, fr2) /\ Len(fr2) = n+1 /\ fr2[n+1] = f
<1>a. /\ json \in BOOLEAN /\ b \in Nat /\ set \in SetType
      /\ Settled(json, b, set, sc, fr) /\ n = Len(fr)
      /\ IsOpened(json, b, f) /\ f.kind = "seq" /\ fr2 = Append(fr, f)
      /\ sc2 = IF f.ordered THEN Append(sc, NewScope) ELSE sc
  BY DEF OpensSequence
<1> USE <1>a
<1>1. FramesOK(json, b, fr) /\ MapsKept(json, set, fr) /\ ScopesKept(json, sc, fr) /\ EntriesKnown(fr)
      /\ fr \in Seq(FrameType) /\ f \in FrameType /\ FrameOK(json, b, f)
  BY DEF Settled, FramesOK, IsOpened, FrameOK
<1>2. /\ FramesOK(json, b, fr2) /\ Len(fr2) = n+1 /\ n+1 \in Nat /\ n \in DOMAIN fr /\ n \in Nat
      /\ DOMAIN fr2 = DOMAIN fr \cup {n+1} /\ n+1 \notin DOMAIN fr /\ fr2[n+1] = f
      /\ Maps(fr2) = Maps(fr) /\ fr2 \in Seq(FrameType)
      /\ \A i \in DOMAIN fr : fr2[i] = fr[i] /\ i < n+1 /\ i \in Nat
  <2>1. FramesOK(json, b, fr2) /\ IsPushed(fr, n+1, f, fr2)
    BY <1>1, FramePushed
  <2>2. n \in DOMAIN fr /\ n \in Nat  BY <1>1 DEF FramesOK
  <2> QED  BY <2>1, <2>2 DEF IsPushed, FramesOK
<1>3. MapsKept(json, set, fr2)
  <2>1. \A i \in Maps(fr) : fr2[i] = fr[i]  BY <1>2 DEF Maps
  <2> QED  BY <2>1, <1>1, <1>2, MapsSame
<1>4. ASSUME NEW i \in Nat, i <= n PROVE Count(fr2, i) = Count(fr, i)
  <2>1. \A j : j <= i => j # n+1  BY <1>2, <1>4
  <2>2. \A j : j <= i => (j \in DOMAIN fr2 <=> j \in DOMAIN fr)  BY <2>1, <1>2
  <2>3. \A j \in DOMAIN fr : j \in DOMAIN fr2 /\ j <= i => (fr2[j].ordered <=> fr[j].ordered)
    BY <1>2
  <2> QED  BY <2>2, <2>3, CountSame
<1>5. ScopesKept(json, sc2, fr2)
  <2>1. CASE f.ordered
    <3>1. sc \in Seq(ScopeType) /\ Len(sc) = Count(fr, n)  BY <1>1 DEF ScopesKept
    <3>2. sc2 = Append(sc, NewScope)  BY <2>1
    <3>3. NewScope \in ScopeType /\ ScopeKept(json, NewScope, <<>>)  BY NewScopeKept
    <3>4. /\ sc2 \in Seq(ScopeType) /\ Len(sc2) = Len(sc) + 1 /\ sc2[Len(sc)+1] = NewScope
          /\ \A k \in 1..Len(sc) : sc2[k] = sc[k]
      BY <3>1, <3>2, <3>3
    <3>5. Count(fr2, n) = Count(fr, n)  BY <1>2, <1>4
    <3>6. Count(fr2, n+1) = Len(sc) + 1
      <4>1. PICK m : m = n+1  OBVIOUS
      <4>2. n = m-1 /\ n <= m /\ n \in Nat /\ m \in DOMAIN fr2 /\ fr2[m].ordered
        BY <2>1, <4>1, <1>2
      <4>3. Count(fr2, m) = Count(fr2, n) + 1  BY <4>2, <1>2, CountRises, ZenonT(40)
      <4> QED  BY <4>1, <4>3, <3>1, <3>5
    <3>7. ASSUME NEW i \in DOMAIN fr2, fr2[i].ordered
          PROVE  ScopeKept(json, sc2[Count(fr2, i)], fr2[i].wrote)
      <4>1. CASE i = n+1
        <5>1. f.wrote = <<>>  BY DEF IsOpened
        <5> QED  BY <4>1, <5>1, <3>3, <3>4, <3>6, <1>2
      <4>2. CASE i \in DOMAIN fr
        <5>1. fr2[i] = fr[i] /\ fr[i].ordered /\ i \in Nat /\ i <= n
          BY <4>2, <3>7, <1>2
        <5>2. Count(fr2, i) = Count(fr, i)  BY <5>1, <1>4
        <5>3. Count(fr, i) \in 1..Len(sc)  BY <4>2, <5>1, <1>1, ScopeIsThere
        <5>4. ScopeKept(json, sc[Count(fr, i)], fr[i].wrote)
          BY <4>2, <5>1, <1>1 DEF ScopesKept
        <5> QED  BY <5>1, <5>2, <5>3, <5>4, <3>4
      <4> QED  BY <4>1, <4>2, <1>2
    <3>8. Len(sc2) = Count(fr2, Len(fr2))  BY <3>4, <3>6, <1>2
    <3> QED  BY <3>4, <3>7, <3>8 DEF ScopesKept
  <2>2. CASE ~f.ordered
    <3>1. sc2 = sc  BY <2>2
    <3>2. \A i \in DOMAIN fr2 : i \in DOMAIN fr \/ ~fr2[i].ordered  BY <2>2, <1>2
    <3>3. \A i \in DOMAIN fr : i \in DOMAIN fr2 /\ fr2[i] = fr[i]  BY <1>2
    <3>4. ScopesKept(json, sc, fr2)  BY <3>2, <3>3, <1>1, <1>2, ScopesSame
    <3> QED  BY <3>1, <3>4
  <2> QED  BY <2>1, <2>2
<1>6. EntriesKnown(fr2)
  <2>1. \A i \in Maps(fr) : i \in DOMAIN fr /\ i-1 \in DOMAIN fr /\ i-1 \in Nat /\ i-1 <= n
    <3>1. \A i \in Maps(fr) : i \in DOMAIN fr /\ i # 1  BY <1>1 DEF FramesOK, Maps
    <3> QED  BY <3>1, <1>1
  <2>2. \A i \in Maps(fr2) :
               /\ fr2[i].entryOf = fr[i].entryOf /\ fr2[i].entryIndex = fr[i].entryIndex
               /\ fr2[i].wrote = fr[i].wrote
               /\ (fr2[i-1].ordered <=> fr[i-1].ordered) /\ fr2[i-1].index = fr[i-1].index
               /\ fr2[i-1].wrote = fr[i-1].wrote /\ Count(fr2, i-1) = Count(fr, i-1)
    BY <2>1, <1>2, <1>4
  <2> QED  BY <1>1, <1>2, <2>2, EntriesSame
<1>7. QED  BY <1>2, <1>3, <1>5, <1>6 DEF Settled

-----------------------------------------------------------------------------
(* A key that is written. *)

LEMMA AtsRiseMore ==
    ASSUME NEW wrote \in Seq(Written), NEW w \in Written, NEW b \in Nat,
           AtsRise(wrote, b), w.at = b
    PROVE  AtsRise(Append(wrote, w), b+1)
<1> DEFINE more == Append(wrote, w)
           n == Len(wrote) + 1
<1>1. /\ n \in Nat /\ DOMAIN wrote = 1..n-1 /\ DOMAIN more = 1..n /\ more[n] = w
      /\ \A k \in 1..n-1 : more[k] = wrote[k]
  OBVIOUS
<1>2. \A k \in 1..n-1 : wrote[k].at \in Nat /\ wrote[k].at < b
  <2>1. \A k \in 1..n-1 : wrote[k] \in Written  BY <1>1
  <2> QED  BY <2>1, <1>1 DEF Written, AtsRise
<1> HIDE DEF more, n
<1>3. ASSUME NEW k \in 1..n PROVE more[k].at < b+1 /\ \A m \in 1..k-1 : more[m].at < more[k].at
  <2>1. CASE k = n
    <3>1. more[k].at = b  BY <2>1, <1>1
    <3>2. \A m \in 1..k-1 : m \in 1..n-1  BY <2>1
    <3> QED  BY <3>1, <3>2, <1>1, <1>2
  <2>2. CASE k # n
    <3>1. k \in 1..n-1 /\ \A m \in 1..k-1 : m \in 1..n-1  BY <2>2, <1>1
    <3>2. \A m \in 1..k-1 : wrote[m].at < wrote[k].at  BY <3>1, <1>1 DEF AtsRise
    <3>3. more[k] = wrote[k] /\ \A m \in 1..k-1 : more[m] = wrote[m]  BY <3>1, <1>1
    <3> QED  BY <3>1, <3>2, <3>3, <1>2
  <2> QED  BY <2>1, <2>2
<1>4. QED  BY <1>1, <1>3 DEF AtsRise, more

(* A frame with one more key in its history.                               *)
Grew(f, g, w) ==
    /\ g.kind = f.kind /\ g.base = f.base /\ (g.ordered <=> f.ordered) /\ g.index = f.index
    /\ g.entryOf = f.entryOf /\ g.entryIndex = f.entryIndex /\ (g.tag <=> f.tag)
    /\ g.wrote = Append(f.wrote, w)

LEMMA FrameGrown ==
    ASSUME NEW json \in BOOLEAN, NEW b \in Nat, NEW f, NEW g \in FrameType, NEW w \in Written,
           FrameOK(json, b, f), Grew(f, g, w), w.at = b, json => w.kind # "built",
           f.kind = "seq" => w.index < f.index,
           (g.builds \/ g.slot \in {"key", "built"}) => g.kind = "map" /\ ~json
    PROVE  FrameOK(json, b+1, g)
<1>1. f.wrote \in Seq(Written) /\ AtsRise(f.wrote, b)  BY DEF FrameOK, FrameType
<1>2. AtsRise(g.wrote, b+1)  BY <1>1, AtsRiseMore DEF Grew
<1>3. /\ DOMAIN g.wrote = DOMAIN f.wrote \cup {Len(f.wrote) + 1}
      /\ g.wrote[Len(f.wrote) + 1] = w
      /\ \A k \in DOMAIN f.wrote : g.wrote[k] = f.wrote[k]
  BY <1>1 DEF Grew
<1>4. json => NoneBuilt(g.wrote)  BY <1>3 DEF FrameOK, NoneBuilt
<1>5. g.kind = "seq" => \A j \in DOMAIN g.wrote : g.wrote[j].index < g.index
  BY <1>3 DEF FrameOK, Grew
<1>6. g.ordered <=> g.kind = "seq" /\ g.tag  BY DEF FrameOK, Grew
<1>7. QED  BY <1>2, <1>4, <1>5, <1>6 DEF FrameOK

(* The frames once mapping f, the innermost, has the key in its history,   *)
(* and the sequence it is an entry of has it as v.                         *)
WroteIn(fr, f, v) ==
    IF fr[Len(fr)-1].kind # "seq" THEN Replaced(fr, Len(fr), f)
    ELSE [Replaced(fr, Len(fr), f) EXCEPT ![Len(fr)-1].wrote = Append(@, v)]

IsWritten(fr, n, f, v, fr2) ==
    /\ Len(fr2) = n /\ n \in DOMAIN fr /\ n \in Nat /\ n-1 \in DOMAIN fr
    /\ DOMAIN fr2 = DOMAIN fr /\ fr2[n] = f /\ Maps(fr2) = Maps(fr)
    /\ \A i \in DOMAIN fr : i # n /\ i # n-1 => fr2[i] = fr[i]
    /\ fr[n-1].kind # "seq" => fr2[n-1] = fr[n-1]
    /\ fr[n-1].kind = "seq" => Grew(fr[n-1], fr2[n-1], v)

LEMMA FramesWritten ==
    ASSUME NEW json \in BOOLEAN, NEW b \in Nat, NEW fr, NEW f, NEW v \in Written, NEW n, NEW fr2,
           FramesOK(json, b, fr), n = Len(fr), fr[n].kind = "map", f.kind = "map",
           FrameOK(json, b+1, f), v.at = b, json => v.kind # "built",
           v.index = fr[n-1].index - 1, fr2 = WroteIn(fr, f, v)
    PROVE  FramesOK(json, b+1, fr2) /\ IsWritten(fr, n, f, v, fr2)
<1> DEFINE fr1 == Replaced(fr, n, f)
           u == fr[n-1]
           g == [u EXCEPT !.wrote = Append(@, v)]
<1>0. b+1 \in Nat /\ b <= b+1  OBVIOUS
<1>1. FramesOK(json, b+1, fr1) /\ IsReplaced(fr, n, f, fr1)
  BY <1>0, TopReplaced
<1>2. /\ Len(fr1) = n /\ n \in DOMAIN fr /\ n \in Nat /\ DOMAIN fr1 = DOMAIN fr /\ fr1[n] = f
      /\ Maps(fr1) = Maps(fr) /\ \A i \in DOMAIN fr : i # n => fr1[i] = fr[i]
  BY <1>1 DEF IsReplaced
<1>3. n-1 \in DOMAIN fr /\ n-1 # n
  <2>1. n # 1  BY <1>2 DEF FramesOK
  <2> QED  BY <2>1, <1>2 DEF FramesOK
<1>4. fr1[n-1] = u /\ FrameOK(json, b, u)  BY <1>2, <1>3 DEF FramesOK
<1>5. CASE u.kind # "seq"
  <2>1. fr2 = fr1  BY <1>5 DEF WroteIn
  <2> HIDE DEF fr1, u
  <2> QED  BY <2>1, <1>1, <1>2, <1>3, <1>4, <1>5 DEF IsWritten, u
<1>6. CASE u.kind = "seq"
  <2>1. u \in FrameType /\ u.wrote \in Seq(Written) /\ u.index \in Nat  BY <1>4 DEF FrameOK, FrameType
  <2>2. Append(u.wrote, v) \in Seq(Written)  BY <2>1
  <2>3. /\ g \in FrameType /\ Grew(u, g, v) /\ g.slot = u.slot /\ (g.builds <=> u.builds)
    <3> DEFINE more == Append(u.wrote, v)
    <3>1. g = [u EXCEPT !.wrote = more] /\ more \in Seq(Written)  BY <2>2
    <3> HIDE DEF more, g, u
    <3>2. /\ g \in FrameType /\ g.slot = u.slot /\ (g.builds <=> u.builds)
          /\ g.kind = u.kind /\ g.base = u.base /\ (g.ordered <=> u.ordered) /\ g.index = u.index
          /\ g.entryOf = u.entryOf /\ g.entryIndex = u.entryIndex /\ (g.tag <=> u.tag)
          /\ g.wrote = more
      BY <3>1, <2>1 DEF FrameType
    <3> QED  BY <3>2 DEF Grew, more
  <2>4. fr2 = [fr1 EXCEPT ![n-1] = g]
    <3>1. fr2 = [fr1 EXCEPT ![n-1].wrote = Append(@, v)]  BY <1>6 DEF WroteIn
    <3> HIDE DEF fr1
    <3> QED  BY <3>1, <1>2, <1>3, <1>4
  <2>5. FrameOK(json, b+1, g)
    <3>1. v.index < u.index  BY <2>1
    <3>2. (g.builds \/ g.slot \in {"key", "built"}) => g.kind = "map" /\ ~json
      BY <2>3, <1>4 DEF FrameOK, Grew
    <3> HIDE DEF g, u
    <3> QED  BY <3>1, <3>2, <2>3, <1>4, FrameGrown
  <2> HIDE DEF g, fr1, u
  <2>6. /\ Len(fr2) = n /\ DOMAIN fr2 = DOMAIN fr /\ fr2[n-1] = g /\ fr2[n] = f
        /\ \A i \in DOMAIN fr : i # n /\ i # n-1 => fr2[i] = fr[i]
        /\ fr2 \in Seq(FrameType)
    BY <2>3, <2>4, <1>1, <1>2, <1>3 DEF FramesOK
  <2>7. \A i \in DOMAIN fr : fr2[i].kind = fr[i].kind
    BY <2>3, <2>6 DEF Grew, u
  <2>8. \A i \in DOMAIN fr : FrameOK(json, b+1, fr2[i])
    <3>1. \A i \in DOMAIN fr : i # n-1 => fr2[i] = fr1[i]  BY <2>6, <1>2
    <3> QED  BY <3>1, <2>5, <2>6, <1>1, <1>2 DEF FramesOK
  <2>9. FramesOK(json, b+1, fr2)
    <3>1. fr2 # <<>>  BY <2>6, <1>2
    <3> QED  BY <3>1, <2>6, <2>7, <2>8 DEF FramesOK
  <2>10. Maps(fr2) = Maps(fr)  BY <2>6, <2>7 DEF Maps
  <2> QED  BY <2>3, <2>6, <2>9, <2>10, <1>2, <1>3, <1>6 DEF IsWritten, u
<1>7. QED  BY <1>5, <1>6

(* The scopes hold when one of them takes what its ordered map writes.     *)
SameOrder(fr, fr2) ==
    /\ Len(fr2) = Len(fr) /\ DOMAIN fr2 = DOMAIN fr
    /\ \A i \in DOMAIN fr : fr2[i].ordered <=> fr[i].ordered
OnlyWrote(fr, m, fr2) ==
    \A i \in DOMAIN fr : i # m /\ fr[i].ordered => fr2[i].wrote = fr[i].wrote
OnlyScope(sc, c, sc2) ==
    /\ sc2 \in Seq(ScopeType) /\ Len(sc2) = Len(sc)
    /\ \A k \in DOMAIN sc : k # c => sc2[k] = sc[k]

LEMMA SameCount ==
    ASSUME NEW fr, NEW fr2, SameOrder(fr, fr2), NEW i
    PROVE  Count(fr2, i) = Count(fr, i)
<1>1. Ordered(fr2, i) = Ordered(fr, i)  BY DEF Ordered, SameOrder
<1>2. QED  BY <1>1 DEF Count

LEMMA ScopesWritten ==
    ASSUME NEW json, NEW b, NEW sc, NEW fr, NEW fr2, NEW sc2, NEW m \in DOMAIN fr,
           FramesOK(json, b, fr), ScopesKept(json, sc, fr), fr[m].ordered,
           SameOrder(fr, fr2), OnlyWrote(fr, m, fr2), OnlyScope(sc, Count(fr, m), sc2),
           ScopeKept(json, sc2[Count(fr, m)], fr2[m].wrote)
    PROVE  ScopesKept(json, sc2, fr2)
<1>1. \A i : Count(fr2, i) = Count(fr, i)  BY SameCount
<1>2. ASSUME NEW i \in DOMAIN fr, fr[i].ordered, i # m
      PROVE  ScopeKept(json, sc2[Count(fr, i)], fr2[i].wrote)
  <2>1. Count(fr, i) \in DOMAIN sc /\ Count(fr, i) # Count(fr, m)
    BY <1>2, ScopeIsThere
  <2>2. ScopeKept(json, sc[Count(fr, i)], fr[i].wrote)  BY <1>2 DEF ScopesKept
  <2> QED  BY <2>1, <2>2, <1>2 DEF OnlyWrote, OnlyScope
<1>3. Len(sc2) = Count(fr2, Len(fr2))  BY <1>1 DEF ScopesKept, SameOrder, OnlyScope
<1>4. QED  BY <1>1, <1>2, <1>3 DEF ScopesKept, SameOrder, OnlyScope

(* InOrderedMap of any stream, and what it does to the scope it is for.    *)
Told(json, sc, c, text, kind, at, index) ==
    LET r == Record(sc[c].set, 0, text, kind, at, json)
        dup == [at |-> at, first |-> r.first, jsonOnly |-> r.jsonOnly, index |-> index]
    IN  [sc EXCEPT ![c] = [set |-> r.set,
                           dups |-> IF r.defined THEN @.dups \cup {dup} ELSE @.dups]]

LEMMA ToldScope ==
    ASSUME NEW json \in BOOLEAN, NEW sc \in Seq(ScopeType), NEW c \in DOMAIN sc,
           NEW wrote \in Seq(Written), NEW v \in Written, NEW sc2,
           ScopeKept(json, sc[c], wrote), json => NoneBuilt(wrote), v.kind \in Kind,
           \A j \in DOMAIN wrote : Same(json, wrote[j], v) => wrote[j].index # v.index,
           sc2 = Told(json, sc, c, v.text, v.kind, v.at, v.index)
    PROVE  /\ sc2 \in Seq(ScopeType) /\ Len(sc2) = Len(sc)
           /\ \A k \in DOMAIN sc : k # c => sc2[k] = sc[k]
           /\ ScopeKept(json, sc2[c], Append(wrote, v))
<1> DEFINE scope == sc[c]
           r == Record(scope.set, 0, v.text, v.kind, v.at, json)
           x == [set |-> r.set,
                 dups |-> IF r.defined
                          THEN scope.dups \cup {[at |-> v.at, first |-> r.first,
                                                 jsonOnly |-> r.jsonOnly, index |-> v.index]}
                          ELSE scope.dups]
<1>1. x \in ScopeType /\ ScopeKept(json, x, Append(wrote, v))
  <2>1. scope \in ScopeType /\ ScopeKept(json, scope, wrote)  OBVIOUS
  <2> HIDE DEF scope
  <2> QED  BY <2>1, ScopeRecords
<1>2. sc2 = [sc EXCEPT ![c] = x]  BY Zenon DEF Told
<1> HIDE DEF x
<1>3. sc2 \in Seq(ScopeType) /\ Len(sc2) = Len(sc) /\ sc2[c] = x
      /\ \A k \in DOMAIN sc : k # c => sc2[k] = sc[k]
  BY <1>1, <1>2
<1>4. QED  BY <1>1, <1>3

(* An alias that is an entry of an ordered map: the sequence and its scope *)
(* have its key.                                                           *)
AliasTold(json, b, set, sc, fr, f, v, n, fr2, sc2) ==
    /\ json \in BOOLEAN /\ b \in Nat /\ set \in SetType /\ v \in Written
    /\ Settled(json, b, set, sc, fr) /\ n = Len(fr) /\ fr[n].ordered
    /\ f.kind = fr[n].kind /\ (f.ordered <=> fr[n].ordered) /\ f.wrote = Append(fr[n].wrote, v)
    /\ FrameOK(json, b+1, f) /\ fr2 = Replaced(fr, n, f)
    /\ v.at = b /\ v.kind \in Kind
    /\ \A j \in DOMAIN fr[n].wrote : fr[n].wrote[j].index # v.index
    /\ sc2 = Told(json, sc, Count(fr, n), v.text, v.kind, v.at, v.index)

LEMMA AliasSettles ==
    ASSUME NEW json, NEW b, NEW set, NEW sc, NEW fr, NEW f, NEW v, NEW n, NEW fr2, NEW sc2,
           AliasTold(json, b, set, sc, fr, f, v, n, fr2, sc2)
    PROVE  Settled(json, b+1, set, sc2, fr2) /\ Len(fr2) = n /\ fr2[n] = f /\ Len(sc2) = Len(sc)
<1>a. /\ json \in BOOLEAN /\ b \in Nat /\ set \in SetType /\ v \in Written
      /\ Settled(json, b, set, sc, fr) /\ n = Len(fr) /\ fr[n].ordered
      /\ f.kind = fr[n].kind /\ (f.ordered <=> fr[n].ordered) /\ f.wrote = Append(fr[n].wrote, v)
      /\ FrameOK(json, b+1, f) /\ fr2 = Replaced(fr, n, f)
      /\ v.at = b /\ v.kind \in Kind
      /\ \A j \in DOMAIN fr[n].wrote : fr[n].wrote[j].index # v.index
      /\ sc2 = Told(json, sc, Count(fr, n), v.text, v.kind, v.at, v.index)
  BY DEF AliasTold
<1> USE <1>a
<1>1. FramesOK(json, b, fr) /\ MapsKept(json, set, fr) /\ ScopesKept(json, sc, fr) /\ EntriesKnown(fr)
      /\ fr \in Seq(FrameType) /\ sc \in Seq(ScopeType)
  BY DEF Settled, FramesOK, ScopesKept
<1>2. /\ FramesOK(json, b+1, fr2) /\ Len(fr2) = n /\ n \in DOMAIN fr /\ n \in Nat
      /\ DOMAIN fr2 = DOMAIN fr /\ fr2[n] = f /\ Maps(fr2) = Maps(fr)
      /\ \A i \in DOMAIN fr : i # n => fr2[i] = fr[i]
  <2>1. b+1 \in Nat /\ b <= b+1  OBVIOUS
  <2>2. FramesOK(json, b+1, fr2) /\ IsReplaced(fr, n, f, fr2)  BY <1>1, <2>1, TopReplaced
  <2> QED  BY <2>2 DEF IsReplaced
<1>3. FrameOK(json, b, fr[n]) /\ fr[n].kind = "seq" /\ fr[n].wrote \in Seq(Written)
      /\ (json => NoneBuilt(fr[n].wrote))
  BY <1>1, <1>2, ZenonT(40) DEF FramesOK, FrameOK, FrameType
<1>4. \A i \in Maps(fr) : i \in DOMAIN fr /\ i-1 \in DOMAIN fr /\ i # n /\ i-1 # n
  <2>1. \A i \in Maps(fr) : i \in 1..n /\ i # 1 /\ i # n  BY <1>1, <1>2, <1>3 DEF FramesOK, Maps
  <2> QED  BY <2>1, <1>1 DEF Maps
<1>5. MapsKept(json, set, fr2)
  <2>1. \A i \in Maps(fr) : fr2[i] = fr[i]  BY <1>2, <1>4
  <2> QED  BY <2>1, <1>1, <1>2, MapsSame
<1>6. Count(fr, n) \in DOMAIN sc  BY <1>1, <1>2, ScopeIsThere
<1>7. ScopeKept(json, sc[Count(fr, n)], fr[n].wrote)  BY <1>1, <1>2 DEF ScopesKept
<1>8. /\ sc2 \in Seq(ScopeType) /\ Len(sc2) = Len(sc)
      /\ \A k \in DOMAIN sc : k # Count(fr, n) => sc2[k] = sc[k]
      /\ ScopeKept(json, sc2[Count(fr, n)], f.wrote)
  <2>1. PICK c \in DOMAIN sc : c = Count(fr, n)  BY <1>6
  <2>2. PICK wrote \in Seq(Written) : wrote = fr[n].wrote  BY <1>3
  <2>3. ScopeKept(json, sc[c], wrote) /\ (json => NoneBuilt(wrote))
        /\ \A j \in DOMAIN wrote : Same(json, wrote[j], v) => wrote[j].index # v.index
    BY <2>1, <2>2, <1>3, <1>7
  <2>4. sc2 = Told(json, sc, c, v.text, v.kind, v.at, v.index)  BY <2>1
  <2>5. /\ sc2 \in Seq(ScopeType) /\ Len(sc2) = Len(sc)
        /\ \A k \in DOMAIN sc : k # c => sc2[k] = sc[k]
        /\ ScopeKept(json, sc2[c], Append(wrote, v))
    BY <2>3, <2>4, <1>1, ToldScope
  <2> QED  BY <2>1, <2>2, <2>5
<1>9. ScopesKept(json, sc2, fr2) /\ \A i : Count(fr2, i) = Count(fr, i)
  <2>1. SameOrder(fr, fr2)  BY <1>2 DEF SameOrder
  <2>2. OnlyWrote(fr, n, fr2)  BY <1>2 DEF OnlyWrote
  <2>3. OnlyScope(sc, Count(fr, n), sc2)  BY <1>8 DEF OnlyScope
  <2>4. ScopeKept(json, sc2[Count(fr, n)], fr2[n].wrote)  BY <1>2, <1>8
  <2>5. ScopesKept(json, sc2, fr2)
    BY <2>1, <2>2, <2>3, <2>4, <1>1, <1>2, ScopesWritten
  <2> QED  BY <2>1, <2>5, SameCount
<1>10. EntriesKnown(fr2)
  <2>1. \A i \in Maps(fr2) :
               /\ fr2[i].entryOf = fr[i].entryOf /\ fr2[i].entryIndex = fr[i].entryIndex
               /\ fr2[i].wrote = fr[i].wrote
               /\ (fr2[i-1].ordered <=> fr[i-1].ordered) /\ fr2[i-1].index = fr[i-1].index
               /\ fr2[i-1].wrote = fr[i-1].wrote /\ Count(fr2, i-1) = Count(fr, i-1)
    BY <1>2, <1>4, <1>9
  <2> QED  BY <1>1, <1>2, <2>1, EntriesSame, SMTT(30)
<1>11. QED  BY <1>2, <1>5, <1>8, <1>9, <1>10 DEF Settled

LEMMA InEntryGrows ==
    ASSUME NEW wrote \in Seq(Written), NEW all \in Seq(Written), NEW index,
           NEW w \in Written, NEW v \in Written, InEntry(wrote, all, index),
           v.text = w.text, v.kind = w.kind, v.index = index
    PROVE  InEntry(Append(wrote, w), Append(all, v), index)
<1> DEFINE more == Append(wrote, w)
           rest == Append(all, v)
           n == Len(wrote) + 1
           m == Len(all) + 1
<1>1. /\ DOMAIN more = DOMAIN wrote \cup {n} /\ more[n] = w
      /\ \A k \in DOMAIN wrote : more[k] = wrote[k]
      /\ DOMAIN rest = DOMAIN all \cup {m} /\ rest[m] = v
      /\ \A k \in DOMAIN all : rest[k] = all[k]
  OBVIOUS
<1> HIDE DEF more, rest, n, m
<1>2. \A k \in DOMAIN more : \E j \in DOMAIN rest :
          rest[j].index = index /\ rest[j].text = more[k].text /\ rest[j].kind = more[k].kind
  <2> SUFFICES ASSUME NEW k \in DOMAIN more
               PROVE  \E j \in DOMAIN rest : /\ rest[j].index = index
                          /\ rest[j].text = more[k].text /\ rest[j].kind = more[k].kind
    OBVIOUS
  <2>1. CASE k = n  BY <2>1, <1>1
  <2>2. CASE k \in DOMAIN wrote
    <3>1. PICK j \in DOMAIN all : /\ all[j].index = index
                                  /\ all[j].text = wrote[k].text /\ all[j].kind = wrote[k].kind
      BY <2>2 DEF InEntry
    <3> QED  BY <2>2, <3>1, <1>1
  <2> QED  BY <2>1, <2>2, <1>1
<1>3. \A j \in DOMAIN rest : rest[j].index = index =>
          \E k \in DOMAIN more : rest[j].text = more[k].text /\ rest[j].kind = more[k].kind
  <2> SUFFICES ASSUME NEW j \in DOMAIN rest, rest[j].index = index
               PROVE  \E k \in DOMAIN more : rest[j].text = more[k].text /\ rest[j].kind = more[k].kind
    OBVIOUS
  <2>1. CASE j = m  BY <2>1, <1>1
  <2>2. CASE j \in DOMAIN all
    <3>1. PICK k \in DOMAIN wrote : all[j].text = wrote[k].text /\ all[j].kind = wrote[k].kind
      BY <2>2, <1>1 DEF InEntry
    <3> QED  BY <2>2, <3>1, <1>1
  <2> QED  BY <2>1, <2>2, <1>1
<1>4. QED  BY <1>2, <1>3 DEF InEntry, more, rest

(* A key in the innermost mapping: whatever noted it, the frames, the      *)
(* scopes and what the entries know come out settled.                      *)
KeyWritten(json, b, fr, n, f, w, v, fr2) ==
    /\ json \in BOOLEAN /\ b \in Nat /\ w \in Written /\ v \in Written
    /\ n = Len(fr) /\ fr[n].kind = "map"
    /\ FrameOK(json, b+1, f) /\ Grew(fr[n], f, w)
    /\ v.at = b /\ v.text = w.text /\ v.kind = w.kind /\ v.index = fr[n-1].index - 1
    /\ json => v.kind # "built"
    /\ fr2 = WroteIn(fr, f, v)
ScopeTold(json, fr, n, v, sc, sc2) ==
    /\ ~fr[n-1].ordered => sc2 = sc
    /\ fr[n-1].ordered =>
           /\ sc2 \in Seq(ScopeType) /\ Len(sc2) = Len(sc)
           /\ \A k \in DOMAIN sc : k # Count(fr, n-1) => sc2[k] = sc[k]
           /\ ScopeKept(json, sc2[Count(fr, n-1)], Append(fr[n-1].wrote, v))

LEMMA WrittenSettles ==
    ASSUME NEW json, NEW b, NEW set, NEW set2, NEW sc, NEW sc2, NEW fr, NEW fr2,
           NEW f, NEW w, NEW v, NEW n,
           Settled(json, b, set, sc, fr), KeyWritten(json, b, fr, n, f, w, v, fr2),
           ScopeTold(json, fr, n, v, sc, sc2), MapsKept(json, set2, fr2)
    PROVE  Settled(json, b+1, set2, sc2, fr2) /\ Len(fr2) = n /\ fr2[n] = f /\ Len(sc2) = Len(sc)
<1>a. /\ json \in BOOLEAN /\ b \in Nat /\ w \in Written /\ v \in Written
      /\ n = Len(fr) /\ fr[n].kind = "map"
      /\ FrameOK(json, b+1, f) /\ Grew(fr[n], f, w)
      /\ v.at = b /\ v.text = w.text /\ v.kind = w.kind /\ v.index = fr[n-1].index - 1
      /\ json => v.kind # "built"
      /\ fr2 = WroteIn(fr, f, v)
  BY DEF KeyWritten
<1>b. /\ ~fr[n-1].ordered => sc2 = sc
      /\ fr[n-1].ordered =>
             /\ sc2 \in Seq(ScopeType) /\ Len(sc2) = Len(sc)
             /\ \A k \in DOMAIN sc : k # Count(fr, n-1) => sc2[k] = sc[k]
             /\ ScopeKept(json, sc2[Count(fr, n-1)], Append(fr[n-1].wrote, v))
  BY DEF ScopeTold
<1> USE <1>a, <1>b
<1>1. FramesOK(json, b, fr) /\ ScopesKept(json, sc, fr) /\ EntriesKnown(fr)
      /\ fr \in Seq(FrameType) /\ sc \in Seq(ScopeType)
  BY DEF Settled, FramesOK, ScopesKept
<1>2. f.kind = "map"  BY DEF Grew
<1>3. FramesOK(json, b+1, fr2) /\ IsWritten(fr, n, f, v, fr2)
  BY <1>1, <1>2, FramesWritten
<1>4. /\ Len(fr2) = n /\ n \in DOMAIN fr /\ n \in Nat /\ n-1 \in DOMAIN fr
      /\ DOMAIN fr2 = DOMAIN fr /\ fr2[n] = f /\ Maps(fr2) = Maps(fr)
      /\ \A i \in DOMAIN fr : i # n /\ i # n-1 => fr2[i] = fr[i]
      /\ fr[n-1].kind # "seq" => fr2[n-1] = fr[n-1]
      /\ fr[n-1].kind = "seq" => Grew(fr[n-1], fr2[n-1], v)
  BY <1>3 DEF IsWritten
<1>5. FrameOK(json, b, fr[n-1]) /\ FrameOK(json, b, fr[n])  BY <1>1, <1>4 DEF FramesOK
<1>6. /\ fr[n-1].ordered => fr[n-1].kind = "seq"
      /\ ~fr[n].ordered /\ fr[n].wrote \in Seq(Written) /\ fr[n-1].wrote \in Seq(Written)
  BY <1>5 DEF FrameOK, FrameType
<1>7. \A i \in DOMAIN fr : (fr2[i].ordered <=> fr[i].ordered) /\ fr2[i].index = fr[i].index
  <2>1. (fr2[n].ordered <=> fr[n].ordered) /\ fr2[n].index = fr[n].index  BY <1>4 DEF Grew
  <2>2. (fr2[n-1].ordered <=> fr[n-1].ordered) /\ fr2[n-1].index = fr[n-1].index
    BY <1>4 DEF Grew
  <2> QED  BY <2>1, <2>2, <1>4
<1>8. ScopesKept(json, sc2, fr2) /\ (\A i : Count(fr2, i) = Count(fr, i)) /\ Len(sc2) = Len(sc)
  <2>1. CASE fr[n-1].ordered
    <3>1. SameOrder(fr, fr2)  BY <1>4, <1>7 DEF SameOrder
    <3>2. ScopeKept(json, sc2[Count(fr, n-1)], fr2[n-1].wrote)
      BY <2>1, <1>4, <1>6 DEF Grew
    <3>3. PICK m \in DOMAIN fr : m = n-1  BY <1>4
    <3>4. OnlyWrote(fr, m, fr2)  BY <3>3, <1>4, <1>6 DEF OnlyWrote
    <3>5. OnlyScope(sc, Count(fr, m), sc2)  BY <2>1, <3>3 DEF OnlyScope
    <3>6. ScopeKept(json, sc2[Count(fr, m)], fr2[m].wrote) /\ fr[m].ordered
      BY <2>1, <3>2, <3>3
    <3>7. ScopesKept(json, sc2, fr2)
      BY <3>1, <3>4, <3>5, <3>6, <1>1, ScopesWritten
    <3> QED  BY <2>1, <3>1, <3>7, SameCount
  <2>2. CASE ~fr[n-1].ordered
    <3>1. sc2 = sc  BY <2>2
    <3>2. \A i \in DOMAIN fr : fr[i].ordered => fr2[i].wrote = fr[i].wrote
      BY <2>2, <1>4, <1>6
    <3>3. ScopesKept(json, sc, fr2)  BY <3>2, <1>1, <1>3, <1>4, <1>7, ScopesSame, ZenonT(40)
    <3>4. \A i : Ordered(fr2, i) = Ordered(fr, i)  BY <1>4, <1>7 DEF Ordered
    <3> QED  BY <3>1, <3>3, <3>4 DEF Count
  <2> QED  BY <2>1, <2>2
<1>9. EntriesKnown(fr2)
  <2>1. \A i \in Maps(fr) : i \in DOMAIN fr /\ i-1 \in DOMAIN fr /\ (i # n => i-1 # n-1 /\ i-1 # n)
    <3>1. \A i \in Maps(fr) : i \in 1..n /\ i # 1  BY <1>1, <1>4 DEF FramesOK, Maps
    <3> QED  BY <3>1, <1>1, <1>4
  <2>2. ASSUME NEW i \in Maps(fr), i # n
        PROVE  /\ fr2[i].entryOf = fr[i].entryOf /\ fr2[i].entryIndex = fr[i].entryIndex
               /\ fr2[i].wrote = fr[i].wrote /\ fr2[i-1] = fr[i-1]
    <3>1. fr[i].kind = "map"  BY DEF Maps
    <3> QED  BY <2>1, <2>2, <3>1, <1>4
  <2>3. ASSUME fr[n-1].ordered
        PROVE  /\ f.entryOf = Count(fr2, n-1) /\ f.entryIndex = fr2[n-1].index - 1
               /\ InEntry(f.wrote, fr2[n-1].wrote, fr2[n-1].index - 1)
    <3>1. n \in Maps(fr)  BY <1>4 DEF Maps
    <3>2. /\ fr[n].entryOf = Count(fr, n-1) /\ fr[n].entryIndex = fr[n-1].index - 1
          /\ InEntry(fr[n].wrote, fr[n-1].wrote, fr[n-1].index - 1)
      BY <2>3, <3>1, <1>1 DEF EntriesKnown
    <3>3. InEntry(Append(fr[n].wrote, w), Append(fr[n-1].wrote, v), fr[n-1].index - 1)
      BY <3>2, <1>6, InEntryGrows
    <3>4. fr2[n-1].wrote = Append(fr[n-1].wrote, v) /\ fr2[n-1].index = fr[n-1].index
      BY <2>3, <1>4, <1>6 DEF Grew
    <3> QED  BY <3>2, <3>3, <3>4, <1>8 DEF Grew
  <2>4. ASSUME ~fr[n-1].ordered PROVE f.entryOf = 0
    <3>1. n \in Maps(fr)  BY <1>4 DEF Maps
    <3> QED  BY <2>4, <3>1, <1>1 DEF EntriesKnown, Grew
  <2>5. ASSUME NEW i \in Maps(fr2)
        PROVE  IF fr2[i-1].ordered
               THEN /\ fr2[i].entryOf = Count(fr2, i-1) /\ fr2[i].entryIndex = fr2[i-1].index - 1
                    /\ InEntry(fr2[i].wrote, fr2[i-1].wrote, fr2[i-1].index - 1)
               ELSE fr2[i].entryOf = 0
    <3>1. CASE i = n  BY <3>1, <2>3, <2>4, <1>4, <1>7
    <3>2. CASE i # n
      <4>1. i \in Maps(fr) /\ Count(fr2, i-1) = Count(fr, i-1)  BY <1>4, <1>8
      <4> QED  BY <3>2, <4>1, <2>2, <1>1 DEF EntriesKnown
    <3> QED  BY <3>1, <3>2
  <2> QED  BY <2>5 DEF EntriesKnown
<1>10. QED  BY <1>3, <1>4, <1>8, <1>9 DEF Settled

(* What the set answers of a key is whether the mapping has written it.    *)
KeyRead(json, b, set, sc, fr, n, r, w) ==
    /\ json \in BOOLEAN /\ b \in Nat /\ set \in SetType
    /\ w \in Written /\ w.kind \in Kind /\ w.at = b
    /\ Settled(json, b, set, sc, fr) /\ n = Len(fr) /\ fr[n].kind = "map"
    /\ r = Record(set, fr[n].base, w.text, w.kind, b, json)

LEMMA KnownKey ==
    ASSUME NEW json, NEW b, NEW set, NEW sc, NEW fr, NEW n, NEW r, NEW w,
           KeyRead(json, b, set, sc, fr, n, r, w)
    PROVE  /\ Recorded(json, set, fr[n].base, w.text, w.kind, b, r)
           /\ r.defined <=> \E j \in DOMAIN fr[n].wrote : Same(json, fr[n].wrote[j], w)
           /\ n \in Maps(fr)
<1> DEFINE text == w.text
           kind == w.kind
<1>0. /\ json \in BOOLEAN /\ b \in Nat /\ set \in SetType
      /\ w \in Written /\ kind \in Kind /\ text \in Text /\ w.at = b
      /\ Settled(json, b, set, sc, fr) /\ n = Len(fr) /\ fr[n].kind = "map"
      /\ r = Record(set, fr[n].base, text, kind, b, json)
  BY DEF KeyRead, Written
<1> USE <1>0
<1>1. FramesOK(json, b, fr) /\ MapsKept(json, set, fr) /\ fr \in Seq(FrameType)
  BY DEF Settled, FramesOK
<1>2. n \in DOMAIN fr  BY <1>1 DEF FramesOK
<1>3. n \in Maps(fr)  BY <1>2 DEF Maps
<1>4. /\ OwnPart(json, set, fr[n].base)
      /\ Segment(fr, Len(set.entries), n) = Own(set, fr[n].base)
  BY <1>1, <1>3, TopOwns
<1>5. Recorded(json, set, fr[n].base, text, kind, b, r)  BY <1>4, RecordAnswers
<1>6. HoldsFirsts(json, set.entries, Own(set, fr[n].base), fr[n].wrote)
  BY <1>1, <1>3, <1>4 DEF MapsKept, Kept
<1>7. fr[n].wrote \in Seq(Written) /\ (json => NoneBuilt(fr[n].wrote))
  BY <1>1, <1>2 DEF FramesOK, FrameOK, FrameType
<1>8. r.defined <=> \E k \in Own(set, fr[n].base) : Same(json, set.entries[k], w)
  <2>1. [text |-> text, kind |-> kind].text = w.text /\ [text |-> text, kind |-> kind].kind = w.kind
    OBVIOUS
  <2>2. r.defined <=> Has(json, set, fr[n].base, text, kind)  BY <1>5 DEF Recorded
  <2> QED  BY <2>1, <2>2 DEF Has, Same
<1>9. (\E k \in Own(set, fr[n].base) : Same(json, set.entries[k], w))
          <=> \E j \in DOMAIN fr[n].wrote : Same(json, fr[n].wrote[j], w)
  <2>1. PICK wrote \in Seq(Written) : wrote = fr[n].wrote  BY <1>7
  <2>2. w.kind # "built"  OBVIOUS
  <2>3. (\E k \in Own(set, fr[n].base) : Same(json, set.entries[k], w))
          <=> \E j \in DOMAIN wrote : Same(json, wrote[j], w)
    BY <2>1, <2>2, <1>6, <1>7, SameFound
  <2> QED  BY <2>1, <2>3
<1>10. QED  BY <1>3, <1>5, <1>8, <1>9

(* A mapping in an ordered map: what it has written is what the sequence   *)
(* has of that entry.                                                      *)
EntryOf(fr, n, w, v) ==
    /\ n \in Maps(fr) /\ n-1 \in DOMAIN fr /\ fr[n-1].ordered
    /\ v.text = w.text /\ v.kind = w.kind /\ v.index = fr[n-1].index - 1

LEMMA EntryKnown ==
    ASSUME NEW json, NEW b, NEW set, NEW sc, NEW fr, NEW n, NEW w, NEW v,
           json \in BOOLEAN, Settled(json, b, set, sc, fr), EntryOf(fr, n, w, v)
    PROVE  /\ fr[n].entryOf = Count(fr, n-1) /\ fr[n].entryIndex = v.index
           /\ Count(fr, n-1) \in DOMAIN sc /\ fr[n].entryOf # 0
           /\ (\E k \in DOMAIN fr[n].wrote : Same(json, fr[n].wrote[k], w))
                 <=> \E j \in DOMAIN fr[n-1].wrote : /\ Same(json, fr[n-1].wrote[j], v)
                                                     /\ fr[n-1].wrote[j].index = v.index
<1>0. /\ n \in Maps(fr) /\ n-1 \in DOMAIN fr /\ fr[n-1].ordered
      /\ v.text = w.text /\ v.kind = w.kind /\ v.index = fr[n-1].index - 1
  BY DEF EntryOf
<1> USE <1>0
<1>1. FramesOK(json, b, fr) /\ ScopesKept(json, sc, fr) /\ EntriesKnown(fr) /\ sc \in Seq(ScopeType)
  BY DEF Settled, ScopesKept
<1>2. /\ fr[n].entryOf = Count(fr, n-1) /\ fr[n].entryIndex = v.index
      /\ InEntry(fr[n].wrote, fr[n-1].wrote, v.index)
  BY <1>1 DEF EntriesKnown
<1>3. Count(fr, n-1) \in 1..Len(sc) /\ Count(fr, n-1) \in DOMAIN sc
  BY <1>1, ScopeIsThere
<1>4. fr[n].entryOf # 0  BY <1>1, <1>2, <1>3
<1>5. ASSUME NEW k \in DOMAIN fr[n].wrote, Same(json, fr[n].wrote[k], w)
      PROVE  \E j \in DOMAIN fr[n-1].wrote : /\ Same(json, fr[n-1].wrote[j], v)
                                             /\ fr[n-1].wrote[j].index = v.index
  BY <1>2, <1>5 DEF InEntry, Same
<1>6. ASSUME NEW j \in DOMAIN fr[n-1].wrote, Same(json, fr[n-1].wrote[j], v),
             fr[n-1].wrote[j].index = v.index
      PROVE  \E k \in DOMAIN fr[n].wrote : Same(json, fr[n].wrote[k], w)
  BY <1>2, <1>6 DEF InEntry, Same
<1>7. QED  BY <1>2, <1>3, <1>4, <1>5, <1>6

KeyTold(json, b, sc, f, r, w, sc2) ==
    IF r.defined \/ f.entryOf = 0 THEN sc2 = sc
    ELSE sc2 = Told(json, sc, f.entryOf, w.text, w.kind, b, f.entryIndex)

KeyNoted(json, b, set, sc, fr, n, r, f, w, v, fr2, sc2) ==
    /\ KeyRead(json, b, set, sc, fr, n, r, w) /\ KeyWritten(json, b, fr, n, f, w, v, fr2)
    /\ f.builtKeys = fr[n].builtKeys /\ f.dups = Noting(fr[n].dups, b, r)
    /\ KeyTold(json, b, sc, fr[n], r, w, sc2)

LEMMA KeySettles ==
    ASSUME NEW json, NEW b, NEW set, NEW sc, NEW fr, NEW n, NEW r, NEW f, NEW w, NEW v,
           NEW fr2, NEW sc2, KeyNoted(json, b, set, sc, fr, n, r, f, w, v, fr2, sc2)
    PROVE  /\ Settled(json, b+1, r.set, sc2, fr2) /\ Len(fr2) = n /\ fr2[n] = f /\ Len(sc2) = Len(sc)
           /\ r.set \in SetType
<1>n. /\ KeyRead(json, b, set, sc, fr, n, r, w) /\ KeyWritten(json, b, fr, n, f, w, v, fr2)
      /\ f.builtKeys = fr[n].builtKeys /\ f.dups = Noting(fr[n].dups, b, r)
      /\ KeyTold(json, b, sc, fr[n], r, w, sc2)
  BY DEF KeyNoted
<1> USE <1>n
<1>a. /\ json \in BOOLEAN /\ b \in Nat /\ set \in SetType
      /\ w \in Written /\ w.kind \in Kind /\ w.at = b /\ w.text \in Text
      /\ Settled(json, b, set, sc, fr) /\ n = Len(fr) /\ fr[n].kind = "map"
  BY DEF KeyRead, Written
<1>b. /\ FrameOK(json, b+1, f) /\ Grew(fr[n], f, w) /\ v \in Written
      /\ v.at = b /\ v.text = w.text /\ v.kind = w.kind /\ v.index = fr[n-1].index - 1
      /\ fr2 = WroteIn(fr, f, v)
  BY DEF KeyWritten
<1>c. /\ r.defined \/ fr[n].entryOf = 0 => sc2 = sc
      /\ ~(r.defined \/ fr[n].entryOf = 0) =>
             sc2 = Told(json, sc, fr[n].entryOf, w.text, w.kind, b, fr[n].entryIndex)
  BY DEF KeyTold
<1>1. FramesOK(json, b, fr) /\ MapsKept(json, set, fr) /\ ScopesKept(json, sc, fr) /\ EntriesKnown(fr)
      /\ fr \in Seq(FrameType) /\ sc \in Seq(ScopeType)
  BY <1>a DEF Settled, FramesOK, ScopesKept
<1>2. /\ Recorded(json, set, fr[n].base, w.text, w.kind, b, r)
      /\ r.defined <=> \E j \in DOMAIN fr[n].wrote : Same(json, fr[n].wrote[j], w)
      /\ n \in Maps(fr)
  BY KnownKey
<1> USE <1>a, <1>b, <1>c
<1>3. f.kind = "map" /\ w.kind # "built" /\ v.kind # "built"  BY DEF Grew
<1>4. FramesOK(json, b+1, fr2) /\ IsWritten(fr, n, f, v, fr2)
  BY <1>1, <1>3, FramesWritten
<1>5. /\ n \in DOMAIN fr /\ n-1 \in DOMAIN fr /\ fr2[n] = f /\ Maps(fr2) = Maps(fr)
      /\ \A i \in DOMAIN fr : i # n /\ i # n-1 => fr2[i] = fr[i]
      /\ fr[n-1].kind # "seq" => fr2[n-1] = fr[n-1]
  BY <1>4 DEF IsWritten
<1>6. /\ FrameOK(json, b, fr[n]) /\ FrameOK(json, b, fr[n-1])
      /\ fr[n-1].wrote \in Seq(Written) /\ (json => NoneBuilt(fr[n].wrote) /\ NoneBuilt(fr[n-1].wrote))
  BY <1>1, <1>5 DEF FramesOK, FrameOK, FrameType
<1>7. MapsKept(json, r.set, fr2)
  <2>1. \A i \in Maps(fr) \ {n} : fr2[i] = fr[i]  BY <1>5 DEF Maps
  <2>2. fr2[n].base = fr[n].base /\ fr2[n].wrote = Append(fr[n].wrote, w)
        /\ fr2[n].builtKeys = fr[n].builtKeys
    BY <1>5 DEF Grew
  <2>3. fr2[n].dups = Noting(fr[n].dups, b, r)  BY <1>5
  <2>4. \A i \in Maps(fr) : fr2[i].base = fr[i].base  BY <2>1, <2>2
  <2>5. TopWrites(fr, n, fr2, w)  BY <2>1, <2>2, <2>4, <1>1, <1>2, <1>5 DEF TopWrites
  <2>6. RecordsKey(json, set, fr, n, w.text, w.kind, b, r, w)
    BY <1>1, <1>2, <1>6 DEF RecordsKey
  <2> QED  BY <2>2, <2>3, <2>5, <2>6, MapsWrite
<1>8. ASSUME ~fr[n-1].ordered PROVE sc2 = sc
  <2>1. fr[n].entryOf = 0  BY <1>8, <1>1, <1>2 DEF EntriesKnown
  <2> QED  BY <2>1
<1>9. ASSUME fr[n-1].ordered
      PROVE  /\ sc2 \in Seq(ScopeType) /\ Len(sc2) = Len(sc)
             /\ \A k \in DOMAIN sc : k # Count(fr, n-1) => sc2[k] = sc[k]
             /\ ScopeKept(json, sc2[Count(fr, n-1)], Append(fr[n-1].wrote, v))
  <2>1. PICK wrote \in Seq(Written) : wrote = fr[n-1].wrote  BY <1>6
  <2>2. /\ fr[n].entryOf = Count(fr, n-1) /\ fr[n].entryIndex = v.index
        /\ Count(fr, n-1) \in DOMAIN sc /\ fr[n].entryOf # 0
        /\ (\E k \in DOMAIN fr[n].wrote : Same(json, fr[n].wrote[k], w))
                 <=> \E j \in DOMAIN fr[n-1].wrote : /\ Same(json, fr[n-1].wrote[j], v)
                                                     /\ fr[n-1].wrote[j].index = v.index
    <3>1. EntryOf(fr, n, w, v)  BY <1>2, <1>5, <1>9 DEF EntryOf
    <3> QED  BY <3>1, EntryKnown
  <2>3. PICK c \in DOMAIN sc : c = Count(fr, n-1)  BY <2>2
  <2>4. ScopeKept(json, sc[c], wrote) /\ sc[c] \in ScopeType
    BY <2>1, <2>3, <1>1, <1>5, <1>9 DEF ScopesKept
  <2>5. r.defined <=> \E j \in DOMAIN wrote : Same(json, wrote[j], v) /\ wrote[j].index = v.index
    BY <2>1, <2>2, <1>2
  <2>6. CASE r.defined
    <3>1. ScopeKept(json, sc[c], Append(wrote, v))
      BY <2>4, <2>5, <2>6, ScopeLeft
    <3>2. sc2 = sc  BY <2>6
    <3> QED  BY <3>1, <3>2, <2>1, <2>3, <1>1
  <2>7. CASE ~r.defined
    <3>1. sc2 = Told(json, sc, c, v.text, v.kind, v.at, v.index)
      BY <2>2, <2>3, <2>7
    <3>2. \A j \in DOMAIN wrote : Same(json, wrote[j], v) => wrote[j].index # v.index
      BY <2>5, <2>7
    <3>3. (json => NoneBuilt(wrote)) /\ v.kind \in Kind  BY <2>1, <1>6
    <3>4. /\ sc2 \in Seq(ScopeType) /\ Len(sc2) = Len(sc)
          /\ \A k \in DOMAIN sc : k # c => sc2[k] = sc[k]
          /\ ScopeKept(json, sc2[c], Append(wrote, v))
      BY <3>1, <3>2, <3>3, <2>4, <1>1, ToldScope
    <3> QED  BY <3>4, <2>1, <2>3
  <2> QED  BY <2>6, <2>7
<1>10. Settled(json, b+1, r.set, sc2, fr2) /\ Len(fr2) = n /\ fr2[n] = f /\ Len(sc2) = Len(sc)
  <2>1. ScopeTold(json, fr, n, v, sc, sc2)  BY <1>8, <1>9 DEF ScopeTold
  <2>2. Settled(json, b, set, sc, fr) /\ KeyWritten(json, b, fr, n, f, w, v, fr2)
    OBVIOUS
  <2> HIDE <1>a, <1>b, <1>c
  <2> QED  BY <2>1, <2>2, <1>7, WrittenSettles
<1>11. r.set \in SetType  BY <1>2 DEF Recorded
<1>12. QED  BY <1>10, <1>11

(* A key that is a collection: the scope of an ordered map is not told.    *)
LEMMA BuiltSettles ==
    ASSUME NEW json, NEW b, NEW set, NEW sc, NEW fr, NEW n, NEW f, NEW w, NEW v, NEW fr2,
           set \in SetType, Settled(json, b, set, sc, fr), KeyWritten(json, b, fr, n, f, w, v, fr2),
           ~json, w.kind = "built",
           f.builtKeys = KeepingBuilt(fr[n], w), f.dups = NotingBuilt(fr[n], w)
    PROVE  Settled(json, b+1, set, sc, fr2) /\ Len(fr2) = n /\ fr2[n] = f
<1>1. /\ json \in BOOLEAN /\ b \in Nat /\ n = Len(fr) /\ fr[n].kind = "map"
      /\ FrameOK(json, b+1, f) /\ Grew(fr[n], f, w) /\ w \in Written /\ v \in Written
      /\ v.at = b /\ v.text = w.text /\ v.kind = w.kind /\ v.index = fr[n-1].index - 1
      /\ fr2 = WroteIn(fr, f, v)
  BY DEF KeyWritten
<1>2. FramesOK(json, b, fr) /\ MapsKept(json, set, fr) /\ ScopesKept(json, sc, fr)
      /\ fr \in Seq(FrameType) /\ sc \in Seq(ScopeType)
  BY DEF Settled, FramesOK, ScopesKept
<1>3. FramesOK(json, b+1, fr2) /\ IsWritten(fr, n, f, v, fr2)
  <2>1. f.kind = "map"  BY <1>1 DEF Grew
  <2> QED  BY <2>1, <1>1, <1>2, FramesWritten
<1>4. /\ n \in DOMAIN fr /\ n-1 \in DOMAIN fr /\ fr2[n] = f /\ Maps(fr2) = Maps(fr)
      /\ \A i \in DOMAIN fr : i # n /\ i # n-1 => fr2[i] = fr[i]
      /\ fr[n-1].kind # "seq" => fr2[n-1] = fr[n-1]
  BY <1>3 DEF IsWritten
<1>5. MapsKept(json, set, fr2)
  <2>1. n \in Maps(fr) /\ \A i \in Maps(fr) \ {n} : fr2[i] = fr[i]  BY <1>1, <1>4 DEF Maps
  <2>2. fr2[n].base = fr[n].base /\ fr2[n].wrote = Append(fr[n].wrote, w)
        /\ fr2[n].builtKeys = KeepingBuilt(fr[n], w) /\ fr2[n].dups = NotingBuilt(fr[n], w)
    BY <1>1, <1>4 DEF Grew
  <2>3. \A i \in Maps(fr) : fr2[i].base = fr[i].base  BY <2>1, <2>2
  <2>4. TopWrites(fr, n, fr2, w)  BY <2>1, <2>2, <2>3, <1>1, <1>2, <1>4 DEF TopWrites
  <2> QED  BY <2>2, <2>4, <1>1, <1>2, MapsBuild
<1>6. ASSUME fr[n-1].ordered
      PROVE  ScopeKept(json, sc[Count(fr, n-1)], Append(fr[n-1].wrote, v))
  <2>1. FrameOK(json, b, fr[n-1])  BY <1>2, <1>4 DEF FramesOK
  <2>2. PICK wrote \in Seq(Written) : wrote = fr[n-1].wrote  BY <2>1 DEF FrameOK, FrameType
  <2>3. Count(fr, n-1) \in DOMAIN sc  BY <1>2, <1>4, <1>6, ScopeIsThere
  <2>4. PICK scope \in ScopeType : scope = sc[Count(fr, n-1)]  BY <2>3, <1>2
  <2>5. ScopeKept(json, scope, wrote)  BY <2>2, <2>4, <1>2, <1>4, <1>6 DEF ScopesKept
  <2>6. ScopeKept(json, scope, Append(wrote, v))  BY <2>5, <1>1, ScopeLeft
  <2> QED  BY <2>2, <2>4, <2>6
<1>7. ScopeTold(json, fr, n, v, sc, sc)  BY <1>2, <1>6 DEF ScopeTold
<1>8. Settled(json, b, set, sc, fr) /\ KeyWritten(json, b, fr, n, f, w, v, fr2)  OBVIOUS
<1>9. QED  BY <1>5, <1>7, <1>8, WrittenSettles

-----------------------------------------------------------------------------
(* The steps. *)

LEMMA FrameTyped ==
    /\ Frame \in FrameType /\ Frame.kind = "doc" /\ Frame.slot = "node" /\ Frame.wrote = <<>>
    /\ Frame.dups = {} /\ Frame.builtKeys = {} /\ Frame.builds = FALSE /\ Frame.ordered = FALSE
    /\ Frame.tag = FALSE /\ Frame.index = 0 /\ Frame.entryOf = 0 /\ Frame.entryIndex = 0
BY DEF Frame, FrameType

LEMMA NothingWritten ==
    ASSUME NEW json, NEW b
    PROVE  AtsRise(<<>>, b) /\ NoneBuilt(<<>>) /\ \A j \in DOMAIN <<>> : FALSE
BY DEF AtsRise, NoneBuilt

LEMMA FreshSettled ==
    ASSUME NEW json \in BOOLEAN, NEW set \in SetType, NEW fr, NEW sc,
           set.entries = <<>>, set.index = {}, fr = <<Frame>>, sc = <<>>
    PROVE  Settled(json, 0, set, sc, fr) /\ Len(fr) = 1 /\ fr[1] = Frame
<1>1. fr \in Seq(FrameType) /\ Len(fr) = 1 /\ DOMAIN fr = {1} /\ fr[1] = Frame /\ fr # <<>>
  BY FrameTyped
<1>2. FrameOK(json, 0, Frame)
  BY FrameTyped, NothingWritten DEF FrameOK
<1>3. FramesOK(json, 0, fr)  BY <1>1, <1>2, FrameTyped DEF FramesOK
<1>4. Maps(fr) = {}  BY <1>1, FrameTyped DEF Maps
<1>5. MapsKept(json, set, fr)
  BY <1>4 DEF MapsKept, BasesRise, IndexOfOpen, IndexHasAll
<1>6. Count(fr, 1) = 0
  <2>1. Ordered(fr, 1) = {}  BY <1>1, FrameTyped DEF Ordered
  <2> QED  BY <2>1, FS_EmptySet DEF Count
<1>7. ScopesKept(json, sc, fr)
  <2>1. sc \in Seq(ScopeType) /\ Len(sc) = 0  OBVIOUS
  <2>2. \A i \in DOMAIN fr : ~fr[i].ordered  BY <1>1, FrameTyped
  <2> QED  BY <2>1, <2>2, <1>1, <1>6 DEF ScopesKept
<1>8. EntriesKnown(fr)  BY <1>4 DEF EntriesKnown
<1>9. QED  BY <1>1, <1>3, <1>5, <1>7, <1>8 DEF Settled

LEMMA EmptySetTyped ==
    ASSUME NEW made \in BOOLEAN
    PROVE  LET s == [EmptySet EXCEPT !.made = made]
           IN  s \in SetType /\ s.entries = <<>> /\ s.index = {}
<1> DEFINE s == [EmptySet EXCEPT !.made = made]
<1>1. EmptySet \in SetType /\ EmptySet.entries = <<>> /\ EmptySet.index = {}
  BY DEF EmptySet, SetType
<1>2. s = [EmptySet EXCEPT !.made = made]  OBVIOUS
<1> HIDE DEF s
<1>3. s \in SetType /\ s.entries = <<>> /\ s.index = {}  BY <1>1, <1>2 DEF SetType
<1>4. QED  BY <1>3 DEF s

LEMMA InitIInv == Init => IInv
<1> SUFFICES ASSUME Init PROVE IInv  OBVIOUS
<1>1. EmptySet \in SetType /\ EmptySet.entries = <<>> /\ EmptySet.index = {}
  BY DEF EmptySet, SetType
<1>2. keys = EmptySet /\ jsonNames \in BOOLEAN /\ frames = <<Frame>> /\ scopes = <<>>
  BY DEF Init
<1>3. pending = 0 /\ pendingIndex = 0 /\ expectOrderedMap = FALSE /\ writes = 0
  BY DEF Init
<1>4. Settled(jsonNames, 0, keys, scopes, frames) /\ Len(frames) = 1 /\ frames[1] = Frame
  BY <1>1, <1>2, FreshSettled
<1>5. MarksKnown(pending, pendingIndex, expectOrderedMap, Len(scopes), frames[Len(frames)])
  BY <1>3, <1>4, FrameTyped DEF MarksKnown, AtEntry
<1>6. TypeOK
  <2>1. keys \in SetType /\ jsonNames \in BOOLEAN  BY <1>1, <1>2
  <2>2. writes \in Nat /\ pending \in Nat /\ pendingIndex \in Int  BY <1>3
  <2>3. expectOrderedMap \in BOOLEAN  BY <1>3
  <2> QED  BY <2>1, <2>2, <2>3, Zenon DEF TypeOK
<1>7. Settled(jsonNames, writes, keys, scopes, frames)  BY <1>3, <1>4
<1>8. QED  BY <1>5, <1>6, <1>7 DEF IInv

LEMMA NewStreamIInv ==
    ASSUME IInv, NEW json \in BOOLEAN, NewStream(json)
    PROVE  IInv'
<1>1. keys.made \in BOOLEAN /\ pendingIndex \in Int  BY DEF IInv, TypeOK, SetType
<1>2. keys' = [EmptySet EXCEPT !.made = keys.made]  BY DEF NewStream
<1>3. keys' \in SetType /\ keys'.entries = <<>> /\ keys'.index = {}
  BY <1>1, <1>2, EmptySetTyped
<1>4. jsonNames' \in BOOLEAN /\ frames' = <<Frame>> /\ scopes' = <<>>
  BY DEF NewStream
<1>5. pending' = 0 /\ pendingIndex' = pendingIndex /\ expectOrderedMap' = FALSE /\ writes' = 0
  BY DEF NewStream
<1>6. Settled(jsonNames', 0, keys', scopes', frames') /\ Len(frames') = 1 /\ frames'[1] = Frame
  BY <1>3, <1>4, FreshSettled
<1>7. MarksKnown(pending, pendingIndex, expectOrderedMap, Len(scopes), frames[Len(frames)])'
  BY <1>5, <1>6, FrameTyped DEF MarksKnown, AtEntry
<1>8. TypeOK'  BY <1>1, <1>3, <1>4, <1>5 DEF TypeOK
<1>9. Settled(jsonNames, writes, keys, scopes, frames)'  BY <1>5, <1>6
<1>10. QED  BY <1>7, <1>8, <1>9 DEF IInv

(* What the invariant says of the innermost frame.                         *)
LEMMA TopKnown ==
    ASSUME IInv
    PROVE  /\ FrameOK(jsonNames, writes, Top) /\ Top \in FrameType /\ Len(frames) \in DOMAIN frames
           /\ Len(frames) \in Nat /\ Len(scopes) \in Nat
           /\ MarksKnown(pending, pendingIndex, expectOrderedMap, Len(scopes), Top)
<1>1. frames \in Seq(FrameType) /\ frames # <<>> /\ scopes \in Seq(ScopeType)
      /\ \A i \in DOMAIN frames : FrameOK(jsonNames, writes, frames[i])
  BY DEF IInv, Settled, FramesOK, ScopesKept
<1>2. Len(frames) \in DOMAIN frames /\ Len(frames) \in Nat /\ Len(scopes) \in Nat  BY <1>1
<1>3. QED  BY <1>1, <1>2 DEF Top, IInv, FrameOK

(* A frame that moves on, whatever the marks come to.                      *)
Moved(f, g) ==
    /\ g.kind = f.kind /\ g.base = f.base /\ g.dups = f.dups
    /\ g.builtKeys = f.builtKeys /\ g.wrote = f.wrote /\ (g.ordered <=> f.ordered)
    /\ g.entryOf = f.entryOf /\ g.entryIndex = f.entryIndex

LEMMA TopMoves ==
    ASSUME NEW json \in BOOLEAN, NEW b \in Nat, NEW set \in SetType, NEW sc, NEW fr, NEW f,
           Settled(json, b, set, sc, fr), FrameOK(json, b, f), Moved(fr[Len(fr)], f)
    PROVE  /\ Settled(json, b, set, sc, Replaced(fr, Len(fr), f))
           /\ Len(Replaced(fr, Len(fr), f)) = Len(fr)
           /\ Replaced(fr, Len(fr), f)[Len(fr)] = f
<1> DEFINE n == Len(fr)
           fr2 == Replaced(fr, n, f)
<1> HIDE DEF n, fr2
<1>1. n = Len(fr) /\ fr2 = Replaced(fr, n, f)  BY DEF n, fr2
<1>2. /\ f.kind = fr[n].kind /\ f.base = fr[n].base /\ f.dups = fr[n].dups
      /\ f.builtKeys = fr[n].builtKeys /\ f.wrote = fr[n].wrote /\ (f.ordered <=> fr[n].ordered)
      /\ f.entryOf = fr[n].entryOf /\ f.entryIndex = fr[n].entryIndex
  BY <1>1 DEF Moved
<1>3. Settled(json, b, set, sc, fr2) /\ Len(fr2) = n /\ fr2[n] = f
  BY <1>1, <1>2, TopQuiet
<1>4. QED  BY <1>3 DEF n, fr2

LEMMA QuietStep ==
    ASSUME IInv, NEW f, FrameOK(jsonNames, writes, f), Moved(Top, f),
           frames' = WithTop(f), UNCHANGED <<keys, jsonNames, scopes, writes>>,
           pending' \in Nat, pendingIndex' \in Int, expectOrderedMap' \in BOOLEAN,
           MarksKnown(pending', pendingIndex', expectOrderedMap', Len(scopes), f)
    PROVE  IInv'
<1>1. frames' = Replaced(frames, Len(frames), f)  BY DEF WithTop, Replaced
<1>2. Settled(jsonNames, writes, keys, scopes, frames)  BY DEF IInv
<1>3. jsonNames \in BOOLEAN /\ writes \in Nat /\ keys \in SetType  BY DEF IInv, TypeOK
<1>4. Moved(frames[Len(frames)], f)  BY DEF Top
<1>5. /\ Settled(jsonNames, writes, keys, scopes, Replaced(frames, Len(frames), f))
      /\ Len(Replaced(frames, Len(frames), f)) = Len(frames)
      /\ Replaced(frames, Len(frames), f)[Len(frames)] = f
  <2>1. FrameOK(jsonNames, writes, f)  OBVIOUS
  <2> QED  BY <2>1, <1>2, <1>3, <1>4, TopMoves
<1>6. Settled(jsonNames, writes, keys, scopes, frames)'  BY <1>1, <1>5
<1>7. MarksKnown(pending, pendingIndex, expectOrderedMap, Len(scopes), frames[Len(frames)])'
  BY <1>1, <1>5
<1>8. TypeOK'  BY <1>3, Zenon DEF TypeOK
<1>9. QED  BY <1>6, <1>7, <1>8, Zenon DEF IInv

LEMMA TagOrderedMapIInv ==
    ASSUME IInv, TagOrderedMap
    PROVE  IInv'
<1> USE DEF TagOrderedMap
<1> DEFINE f == [Top EXCEPT !.slot = "tagged"]
<1>1. Top \in FrameType /\ FrameOK(jsonNames, writes, Top)
      /\ MarksKnown(pending, pendingIndex, expectOrderedMap, Len(scopes), Top)
  BY TopKnown
<1>2. /\ f \in FrameType /\ f.slot = "tagged"
      /\ f.kind = Top.kind /\ f.base = Top.base /\ f.dups = Top.dups
      /\ f.builtKeys = Top.builtKeys /\ f.wrote = Top.wrote /\ f.ordered = Top.ordered
      /\ f.entryOf = Top.entryOf /\ f.entryIndex = Top.entryIndex
      /\ f.tag = Top.tag /\ f.builds = Top.builds /\ f.index = Top.index
  BY <1>1 DEF FrameType
<1>3. frames' = WithTop(f)  OBVIOUS
<1> HIDE DEF f
<1>4. FrameOK(jsonNames, writes, f)  BY <1>1, <1>2 DEF FrameOK
<1>5. MarksKnown(pending', pendingIndex', expectOrderedMap', Len(scopes), f)
  BY <1>1, <1>2 DEF MarksKnown, AtEntry
<1>6. pending' \in Nat /\ pendingIndex' \in Int /\ expectOrderedMap' \in BOOLEAN
      /\ UNCHANGED <<keys, jsonNames, scopes, writes>>
  BY DEF IInv, TypeOK
<1>7. Moved(Top, f)  BY <1>2 DEF Moved
<1>8. QED  BY <1>3, <1>4, <1>5, <1>6, <1>7, QuietStep

LEMMA ScalarIInv ==
    ASSUME IInv, Scalar
    PROVE  IInv'
<1> USE DEF Scalar
<1> DEFINE f == Ended(Top)
<1>1. FrameOK(jsonNames, writes, Top)
      /\ MarksKnown(pending, pendingIndex, expectOrderedMap, Len(scopes), Top)
      /\ pending \in Nat /\ pendingIndex \in Int
  BY TopKnown DEF IInv, TypeOK
<1>2. FrameOK(jsonNames, writes, f) /\ IsEnded(Top, f)  BY <1>1, EndedOK
<1> HIDE DEF f
<1>3. f.slot # "node"  BY <1>2 DEF AtNode, IsEnded
<1>4. pending' = Unmarked(Top) /\ pendingIndex' = pendingIndex /\ expectOrderedMap' = FALSE
  OBVIOUS
<1>5. pending' = 0
  <2>1. CASE Top.kind = "seq"  BY <2>1, <1>4 DEF Unmarked
  <2>2. CASE Top.kind # "seq"
    <3>1. ~Top.ordered  BY <2>2, <1>1 DEF FrameOK
    <3>2. pending = 0  BY <3>1, <1>1 DEF MarksKnown, AtEntry
    <3> QED  BY <2>2, <3>2, <1>4 DEF Unmarked
  <2> QED  BY <2>1, <2>2
<1>6. MarksKnown(pending', pendingIndex', expectOrderedMap', Len(scopes), f)
  BY <1>2, <1>3, <1>4, <1>5 DEF MarksKnown, AtEntry, IsEnded
<1>7. frames' = WithTop(f) /\ UNCHANGED <<keys, jsonNames, scopes, writes>>  BY DEF f
<1>8. Moved(Top, f)  BY <1>2 DEF IsEnded, Moved
<1>9. pending' \in Nat  BY <1>5
<1>10. pendingIndex' \in Int  BY <1>1, <1>4
<1>11. expectOrderedMap' \in BOOLEAN  BY <1>4
<1>12. QED  BY <1>2, <1>6, <1>7, <1>8, <1>9, <1>10, <1>11, QuietStep

LEMMA NextEntryIInv ==
    ASSUME IInv, NextEntry
    PROVE  IInv'
<1> DEFINE f == [Top EXCEPT !.slot = "node", !.index = Top.index + 1]
<1>0. /\ Top.kind = "seq" /\ Top.slot = "between" /\ frames' = WithTop(f)
      /\ Top.ordered => pending' = Len(scopes) /\ pendingIndex' = Top.index
      /\ ~Top.ordered => pending' = pending /\ pendingIndex' = pendingIndex
      /\ UNCHANGED <<keys, jsonNames, scopes, expectOrderedMap, writes>>
  BY DEF NextEntry
<1>1. Top \in FrameType /\ FrameOK(jsonNames, writes, Top) /\ Len(scopes) \in Nat
      /\ MarksKnown(pending, pendingIndex, expectOrderedMap, Len(scopes), Top)
      /\ pending \in Nat /\ pendingIndex \in Int
  BY TopKnown DEF IInv, TypeOK
<1>2. Top.index \in Nat /\ Top.index + 1 \in Nat /\ Top.wrote \in Seq(Written)
  BY <1>1 DEF FrameType
<1>3. /\ f \in FrameType /\ f.slot = "node" /\ f.index = Top.index + 1
      /\ f.kind = Top.kind /\ f.base = Top.base /\ f.dups = Top.dups
      /\ f.builtKeys = Top.builtKeys /\ f.wrote = Top.wrote /\ f.ordered = Top.ordered
      /\ f.entryOf = Top.entryOf /\ f.entryIndex = Top.entryIndex
      /\ f.tag = Top.tag /\ f.builds = Top.builds
  <2> DEFINE next == Top.index + 1
  <2>1. f = [Top EXCEPT !.slot = "node", !.index = next] /\ next \in Nat  BY <1>2
  <2> HIDE DEF next, f
  <2>2. /\ f \in FrameType /\ f.slot = "node" /\ f.index = next
        /\ f.kind = Top.kind /\ f.base = Top.base /\ f.dups = Top.dups
        /\ f.builtKeys = Top.builtKeys /\ f.wrote = Top.wrote /\ f.ordered = Top.ordered
        /\ f.entryOf = Top.entryOf /\ f.entryIndex = Top.entryIndex
        /\ f.tag = Top.tag /\ f.builds = Top.builds
    BY <2>1, <1>1 DEF FrameType
  <2> QED  BY <2>2 DEF next
<1> HIDE DEF f
<1>4. \A j \in DOMAIN f.wrote : f.wrote[j].index < Top.index /\ f.wrote[j].index \in Int
  <2>1. \A j \in DOMAIN f.wrote : f.wrote[j].index < Top.index
    BY <1>0, <1>1, <1>3 DEF FrameOK
  <2>2. \A j \in DOMAIN f.wrote : f.wrote[j] \in Written  BY <1>2, <1>3
  <2> QED  BY <2>1, <2>2 DEF Written
<1>5. FrameOK(jsonNames, writes, f)
  <2>1. \A j \in DOMAIN f.wrote : f.wrote[j].index < f.index
    BY <1>2, <1>3, <1>4
  <2> QED  BY <2>1, <1>0, <1>1, <1>3 DEF FrameOK
<1>6. f.index - 1 = Top.index  BY <1>2, <1>3
<1>7. MarksKnown(pending', pendingIndex', expectOrderedMap', Len(scopes), f)
  <2>1. expectOrderedMap' = expectOrderedMap /\ ~expectOrderedMap
    BY <1>0, <1>1 DEF MarksKnown
  <2>2. CASE Top.ordered
    <3>1. pending' = Len(scopes) /\ pendingIndex' = f.index - 1  BY <2>2, <1>0, <1>6
    <3>2. \A j \in DOMAIN f.wrote : f.wrote[j].index < f.index - 1  BY <1>4, <1>6
    <3>3. AtEntry(f) /\ f.slot # "tagged"  BY <2>2, <1>3 DEF AtEntry
    <3> QED  BY <2>1, <3>1, <3>2, <3>3 DEF MarksKnown
  <2>3. CASE ~Top.ordered
    <3>1. ~AtEntry(Top) /\ ~AtEntry(f) /\ f.slot # "tagged"  BY <2>3, <1>3 DEF AtEntry
    <3>2. pending' = 0  BY <2>3, <3>1, <1>0, <1>1 DEF MarksKnown
    <3> QED  BY <2>1, <3>1, <3>2 DEF MarksKnown
  <2> QED  BY <2>2, <2>3
<1>8. pending' \in Nat /\ pendingIndex' \in Int  BY <1>0, <1>1, <1>2
<1>9. expectOrderedMap' \in BOOLEAN  BY <1>0 DEF IInv, TypeOK
<1>10. Moved(Top, f)  BY <1>3 DEF Moved
<1>11. frames' = WithTop(f) /\ UNCHANGED <<keys, jsonNames, scopes, writes>>  BY <1>0 DEF f
<1>12. QED  BY <1>5, <1>7, <1>8, <1>9, <1>10, <1>11, QuietStep

LEMMA BeginBuiltEntryIInv ==
    ASSUME IInv, BeginBuiltEntry
    PROVE  IInv'
<1> USE DEF BeginBuiltEntry
<1> DEFINE f == [Top EXCEPT !.slot = "key", !.builds = TRUE]
<1>1. Top \in FrameType /\ FrameOK(jsonNames, writes, Top)
      /\ MarksKnown(pending, pendingIndex, expectOrderedMap, Len(scopes), Top)
  BY TopKnown
<1>2. /\ f \in FrameType /\ f.slot = "key" /\ f.index = Top.index
      /\ f.kind = Top.kind /\ f.base = Top.base /\ f.dups = Top.dups
      /\ f.builtKeys = Top.builtKeys /\ f.wrote = Top.wrote /\ f.ordered = Top.ordered
      /\ f.entryOf = Top.entryOf /\ f.entryIndex = Top.entryIndex
      /\ f.tag = Top.tag
  BY <1>1 DEF FrameType
<1>3. frames' = WithTop(f)  OBVIOUS
<1> HIDE DEF f
<1>4. FrameOK(jsonNames, writes, f)  BY <1>1, <1>2 DEF FrameOK
<1>5. MarksKnown(pending', pendingIndex', expectOrderedMap', Len(scopes), f)
  BY <1>1, <1>2 DEF MarksKnown, AtEntry
<1>6. pending' \in Nat /\ pendingIndex' \in Int /\ expectOrderedMap' \in BOOLEAN
      /\ UNCHANGED <<keys, jsonNames, scopes, writes>>
  BY DEF IInv, TypeOK
<1>7. Moved(Top, f)  BY <1>2 DEF Moved
<1>8. QED  BY <1>3, <1>4, <1>5, <1>6, <1>7, QuietStep

LEMMA OpenMapIInv ==
    ASSUME IInv, OpenMap
    PROVE  IInv'
<1> DEFINE base == Len(keys.entries)
           tag == (Top.slot = "tagged")
           f == [Frame EXCEPT !.kind = "map", !.slot = "between", !.base = base,
                              !.entryOf = pending, !.entryIndex = pendingIndex, !.tag = tag]
           n == Len(frames)
<1>1. /\ Top.slot \in {"node", "tagged", "key"} /\ frames' = Append(frames, f)
      /\ pending' = 0 /\ expectOrderedMap' = FALSE
      /\ UNCHANGED <<keys, jsonNames, scopes, pendingIndex, writes>>
  BY DEF OpenMap, AtNodeOrKey
<1>2. /\ keys \in SetType /\ jsonNames \in BOOLEAN /\ writes \in Nat
      /\ pending \in Nat /\ pendingIndex \in Int
      /\ Settled(jsonNames, writes, keys, scopes, frames)
      /\ MarksKnown(pending, pendingIndex, expectOrderedMap, Len(scopes), frames[n])
  BY DEF IInv, TypeOK
<1>3. base \in Nat /\ tag \in BOOLEAN  BY <1>2 DEF SetType
<1>4. f = [Frame EXCEPT !.kind = "map", !.slot = "between", !.base = base,
                        !.entryOf = pending, !.entryIndex = pendingIndex, !.tag = tag]
  OBVIOUS
<1> HIDE DEF f, base, tag
<1>5. /\ f \in FrameType /\ f.kind = "map" /\ f.slot = "between" /\ f.base = base
      /\ f.entryOf = pending /\ f.entryIndex = pendingIndex
      /\ f.wrote = <<>> /\ f.dups = {} /\ f.builtKeys = {} /\ f.builds = FALSE /\ f.ordered = FALSE
  BY <1>2, <1>3, <1>4, FrameTyped DEF FrameType
<1>6. FrameOK(jsonNames, writes, f)
  <2>1. AtsRise(<<>>, writes) /\ NoneBuilt(<<>>)  BY NothingWritten
  <2> QED  BY <2>1, <1>5 DEF FrameOK
<1>7. IsOpened(jsonNames, writes, f)  BY <1>5, <1>6 DEF IsOpened
<1>8. /\ Settled(jsonNames, writes, keys, scopes, frames')
      /\ Len(frames') = n+1 /\ frames'[n+1] = f
  <2>1. /\ frames[n].slot \in {"node", "tagged", "key"} /\ f.base = Len(keys.entries) /\ ~f.ordered
    BY <1>1, <1>5 DEF Top, base
  <2>2. MarksKnown(f.entryOf, f.entryIndex, expectOrderedMap, Len(scopes), frames[n])
    BY <1>2, <1>5
  <2>3. OpensMap(jsonNames, writes, keys, scopes, frames, f, expectOrderedMap, n, frames')
    BY <2>1, <2>2, <1>1, <1>2, <1>5, <1>7 DEF OpensMap
  <2> HIDE DEF n
  <2> QED  BY <2>3, MapOpens
<1>9. Settled(jsonNames, writes, keys, scopes, frames)'  BY <1>1, <1>8
<1>10. MarksKnown(pending, pendingIndex, expectOrderedMap, Len(scopes), frames[Len(frames)])'
  BY <1>1, <1>5, <1>8 DEF MarksKnown, AtEntry
<1>11. TypeOK'
  <2>1. keys' \in SetType /\ jsonNames' \in BOOLEAN  BY <1>1, <1>2
  <2>2. writes' \in Nat /\ pending' \in Nat /\ pendingIndex' \in Int  BY <1>1, <1>2
  <2>3. expectOrderedMap' \in BOOLEAN  BY <1>1
  <2> QED  BY <2>1, <2>2, <2>3, Zenon DEF TypeOK
<1>12. QED  BY <1>9, <1>10, <1>11 DEF IInv

LEMMA OpenSequenceIInv ==
    ASSUME IInv, OpenSequence
    PROVE  IInv'
<1> DEFINE tag == (Top.slot = "tagged")
           f == [Frame EXCEPT !.kind = "seq", !.slot = "between", !.ordered = expectOrderedMap,
                              !.tag = tag]
           n == Len(frames)
<1>1. /\ Top.slot \in {"node", "tagged", "key"} /\ frames' = Append(frames, f)
      /\ pending' = 0 /\ expectOrderedMap' = FALSE
      /\ UNCHANGED <<keys, jsonNames, pendingIndex, writes>>
  BY DEF OpenSequence, AtNodeOrKey
<1>2. scopes' = IF expectOrderedMap THEN Append(scopes, NewScope) ELSE scopes
  BY DEF OpenSequence, NewScope
<1>3. /\ keys \in SetType /\ jsonNames \in BOOLEAN /\ writes \in Nat
      /\ pendingIndex \in Int /\ expectOrderedMap \in BOOLEAN
      /\ Settled(jsonNames, writes, keys, scopes, frames)
  BY DEF IInv, TypeOK
<1>4. expectOrderedMap <=> Top.slot = "tagged"  BY TopKnown DEF MarksKnown
<1>5. tag \in BOOLEAN /\ (tag <=> expectOrderedMap)  BY <1>4
<1>6. f = [Frame EXCEPT !.kind = "seq", !.slot = "between", !.ordered = expectOrderedMap, !.tag = tag]
  OBVIOUS
<1> HIDE DEF f, tag
<1>7. /\ f \in FrameType /\ f.kind = "seq" /\ f.slot = "between"
      /\ (f.ordered <=> expectOrderedMap) /\ (f.tag <=> tag)
      /\ f.wrote = <<>> /\ f.dups = {} /\ f.builtKeys = {} /\ f.builds = FALSE
  BY <1>3, <1>5, <1>6, FrameTyped DEF FrameType
<1>8. FrameOK(jsonNames, writes, f)
  <2>1. AtsRise(<<>>, writes) /\ NoneBuilt(<<>>) /\ \A j \in DOMAIN <<>> : FALSE  BY NothingWritten
  <2> QED  BY <2>1, <1>5, <1>7 DEF FrameOK
<1>9. IsOpened(jsonNames, writes, f)  BY <1>7, <1>8 DEF IsOpened
<1>10. scopes' = IF f.ordered THEN Append(scopes, NewScope) ELSE scopes  BY <1>2, <1>7
<1>11. /\ Settled(jsonNames, writes, keys, scopes', frames')
       /\ Len(frames') = n+1 /\ frames'[n+1] = f
  <2>1. OpensSequence(jsonNames, writes, keys, scopes, frames, f, n, frames', scopes')
    BY <1>1, <1>3, <1>7, <1>9, <1>10 DEF OpensSequence
  <2> HIDE DEF n
  <2> QED  BY <2>1, SequenceOpens
<1>12. Settled(jsonNames, writes, keys, scopes, frames)'  BY <1>1, <1>11
<1>13. MarksKnown(pending, pendingIndex, expectOrderedMap, Len(scopes), frames[Len(frames)])'
  BY <1>1, <1>7, <1>11 DEF MarksKnown, AtEntry
<1>14. TypeOK'
  <2>1. keys' \in SetType /\ jsonNames' \in BOOLEAN  BY <1>1, <1>3
  <2>2. writes' \in Nat /\ pending' \in Nat /\ pendingIndex' \in Int  BY <1>1, <1>3
  <2>3. expectOrderedMap' \in BOOLEAN  BY <1>1
  <2> QED  BY <2>1, <2>2, <2>3, Zenon DEF TypeOK
<1>15. QED  BY <1>12, <1>13, <1>14 DEF IInv

(* The marks once a collection has ended.                                  *)
LEMMA EndedMarks ==
    ASSUME NEW json, NEW b, NEW f, NEW markIndex, NEW len, FrameOK(json, b, f)
    PROVE  MarksKnown(0, markIndex, FALSE, len, Ended(f))
<1>1. IsEnded(f, Ended(f))  BY EndedOK
<1>2. ~AtEntry(Ended(f)) /\ Ended(f).slot # "tagged"
  <2>1. CASE f.slot = "key"
    <3>1. ~f.ordered  BY <2>1 DEF FrameOK
    <3> QED  BY <3>1, <1>1 DEF IsEnded, AtEntry
  <2>2. CASE f.slot # "key"  BY <2>2, <1>1 DEF IsEnded, AtEntry
  <2> QED  BY <2>1, <2>2
<1>3. QED  BY <1>2 DEF MarksKnown

LEMMA PopStep ==
    ASSUME IInv, Top.kind \in {"map", "seq"}, frames' = Less(frames),
           keys' = LessKeys(jsonNames, keys, Top), scopes' = LessScopes(scopes, Top),
           UNCHANGED <<jsonNames, writes, pendingIndex>>,
           pending' = 0, expectOrderedMap' = FALSE
    PROVE  IInv'
<1>1. /\ keys \in SetType /\ jsonNames \in BOOLEAN /\ writes \in Nat /\ pendingIndex \in Int
      /\ Settled(jsonNames, writes, keys, scopes, frames)
  BY DEF IInv, TypeOK
<1>2. PICK n : n = Len(frames)  OBVIOUS
<1>3. Top = frames[n] /\ frames[n].kind # "doc"  BY <1>2 DEF Top
<1>4. keys' = LessKeys(jsonNames, keys, frames[n]) /\ scopes' = LessScopes(scopes, frames[n])
  BY <1>3
<1>5. /\ keys' \in SetType /\ Settled(jsonNames, writes, keys', scopes', frames')
      /\ Len(frames') = n-1 /\ frames'[n-1] = Ended(frames[n-1])
      /\ FrameOK(jsonNames, writes, frames[n-1])
  <2>1. Pops(jsonNames, writes, keys, scopes, frames, n, keys', scopes', frames')
    BY <1>1, <1>2, <1>3, <1>4 DEF Pops
  <2> QED  BY <2>1, PoppedQuiet
<1>6. Settled(jsonNames, writes, keys, scopes, frames)'  BY <1>5
<1>7. MarksKnown(pending, pendingIndex, expectOrderedMap, Len(scopes), frames[Len(frames)])'
  <2>1. MarksKnown(0, pendingIndex', FALSE, Len(scopes'), Ended(frames[n-1]))
    BY <1>5, EndedMarks
  <2> QED  BY <2>1, <1>5
<1>8. TypeOK'
  <2>1. keys' \in SetType /\ jsonNames' \in BOOLEAN  BY <1>1, <1>5
  <2>2. writes' \in Nat /\ pending' \in Nat /\ pendingIndex' \in Int  BY <1>1
  <2>3. expectOrderedMap' \in BOOLEAN  OBVIOUS
  <2> QED  BY <2>1, <2>2, <2>3, Zenon DEF TypeOK
<1>9. QED  BY <1>6, <1>7, <1>8 DEF IInv

LEMMA EndMapIInv ==
    ASSUME IInv, EndMap
    PROVE  IInv'
<1>1. /\ Top.kind = "map" /\ Top.slot = "between" /\ keys' = Close(keys, Top.base, jsonNames)
      /\ frames' = Less(frames) /\ pending' = Unmarked(Under) /\ expectOrderedMap' = FALSE
      /\ UNCHANGED <<jsonNames, scopes, pendingIndex, writes>>
  BY DEF EndMap, Popped, Less, Under
<1>2. /\ FrameOK(jsonNames, writes, Top)
      /\ MarksKnown(pending, pendingIndex, expectOrderedMap, Len(scopes), Top)
  BY TopKnown
<1>3. ~Top.ordered  BY <1>1, <1>2 DEF FrameOK
<1>4. pending = 0  BY <1>2, <1>3 DEF MarksKnown, AtEntry
<1>5. pending' = 0  BY <1>1, <1>4 DEF Unmarked
<1>6. keys' = LessKeys(jsonNames, keys, Top) /\ scopes' = LessScopes(scopes, Top)
  BY <1>1, <1>3 DEF LessKeys, LessScopes
<1>7. QED  BY <1>1, <1>5, <1>6, PopStep

LEMMA EndSequenceIInv ==
    ASSUME IInv, EndSequence
    PROVE  IInv'
<1>1. /\ Top.kind = "seq" /\ Top.slot = "between"
      /\ frames' = Less(frames) /\ expectOrderedMap' = FALSE
      /\ pending' = IF Top.ordered THEN 0 ELSE Unmarked(Under)
      /\ scopes' = LessScopes(scopes, Top)
      /\ UNCHANGED <<keys, jsonNames, pendingIndex, writes>>
  BY DEF EndSequence, Popped, Less, Under, LessScopes
<1>2. MarksKnown(pending, pendingIndex, expectOrderedMap, Len(scopes), Top)
  BY TopKnown
<1>3. pending = 0  BY <1>1, <1>2 DEF MarksKnown, AtEntry
<1>4. pending' = 0  BY <1>1, <1>3 DEF Unmarked
<1>5. keys' = LessKeys(jsonNames, keys, Top)  BY <1>1 DEF LessKeys
<1>6. QED  BY <1>1, <1>4, <1>5, PopStep

(* What a step that writes a key knows of it.                              *)
LEMMA EntryTyped ==
    ASSUME IInv, NEW text \in Text, NEW kind \in Kind \cup {"built"}, NEW index \in Int
    PROVE  /\ Entry(text, kind, index) \in Written /\ Entry(text, kind, index).text = text
           /\ Entry(text, kind, index).kind = kind /\ Entry(text, kind, index).at = writes
           /\ Entry(text, kind, index).index = index
<1>1. writes \in Nat  BY DEF IInv, TypeOK
<1>2. QED  BY <1>1 DEF Entry, Written

LEMMA AliasEntryIInv ==
    ASSUME IInv, NEW text \in Text, NEW kind \in Kind, AliasEntry(text, kind)
    PROVE  IInv'
<1> DEFINE v == Entry(text, kind, Top.index-1)
           h == [Top EXCEPT !.wrote = Append(Top.wrote, v)]
           f == Ended(h)
<1>0. PICK n : n = Len(frames)  OBVIOUS
<1>1. /\ Top.kind = "seq" /\ Top.ordered /\ Top.slot = "node"
      /\ scopes' = IF pending > 0 THEN InOrderedMap(pending, text, kind, pendingIndex) ELSE scopes
      /\ frames' = WithTop(f) /\ pending' = 0 /\ writes' = writes + 1
      /\ UNCHANGED <<keys, jsonNames, pendingIndex, expectOrderedMap>>
  BY DEF AliasEntry
<1>2. /\ FrameOK(jsonNames, writes, Top) /\ Top \in FrameType
      /\ MarksKnown(pending, pendingIndex, expectOrderedMap, Len(scopes), Top)
      /\ keys \in SetType /\ jsonNames \in BOOLEAN /\ writes \in Nat
      /\ pendingIndex \in Int /\ expectOrderedMap \in BOOLEAN
      /\ Settled(jsonNames, writes, keys, scopes, frames)
  BY TopKnown DEF IInv, TypeOK
<1>3. Top = frames[n] /\ n \in DOMAIN frames  BY <1>0, TopKnown DEF Top
<1>4. Top.index \in Nat /\ Top.index - 1 \in Int /\ Top.wrote \in Seq(Written)
  BY <1>2 DEF FrameType
<1>5. /\ v \in Written /\ v.text = text /\ v.kind = kind /\ v.at = writes
      /\ v.index = Top.index - 1 /\ kind # "built"
  BY <1>4, EntryTyped
<1>6. h = [Top EXCEPT !.wrote = Append(Top.wrote, v)]  OBVIOUS
<1> HIDE DEF v, h
<1>7. /\ h \in FrameType /\ Grew(Top, h, v) /\ h.slot = "node" /\ h.builds = Top.builds
  <2>1. Append(Top.wrote, v) \in Seq(Written)  BY <1>4, <1>5
  <2> QED  BY <2>1, <1>1, <1>2, <1>6 DEF FrameType, Grew
<1>8. FrameOK(jsonNames, writes+1, h)
  <2>1. Top.kind = "seq" => v.index < Top.index  BY <1>4, <1>5
  <2>2. (h.builds \/ h.slot \in {"key", "built"}) => h.kind = "map" /\ ~jsonNames
    BY <1>2, <1>7 DEF FrameOK, Grew
  <2> QED  BY <2>1, <2>2, <1>2, <1>5, <1>7, FrameGrown
<1>9. /\ FrameOK(jsonNames, writes+1, f) /\ f.kind = Top.kind /\ (f.ordered <=> Top.ordered)
      /\ f.wrote = Append(Top.wrote, v) /\ f.slot \notin {"node", "tagged"}
  <2>1. FrameOK(jsonNames, writes+1, f) /\ IsEnded(h, f)  BY <1>8, EndedOK
  <2> HIDE DEF f
  <2> QED  BY <2>1, <1>7 DEF IsEnded, Grew
<1> HIDE DEF f
<1>10. AtEntry(Top) /\ pending = Len(scopes) /\ pendingIndex = v.index
       /\ \A j \in DOMAIN Top.wrote : Top.wrote[j].index < v.index
  BY <1>1, <1>2, <1>5 DEF MarksKnown, AtEntry
<1>11. pending = Count(frames, n) /\ pending > 0
  <2>1. FramesOK(jsonNames, writes, frames) /\ ScopesKept(jsonNames, scopes, frames)
    BY <1>2 DEF Settled
  <2>2. Count(frames, n) \in 1..Len(scopes)  BY <2>1, <1>1, <1>3, ScopeIsThere
  <2>3. Len(scopes) = Count(frames, n)  BY <2>1, <1>0 DEF ScopesKept
  <2> QED  BY <2>2, <2>3, <1>10
<1>12. scopes' = Told(jsonNames, scopes, Count(frames, n), v.text, v.kind, v.at, v.index)
  <2>1. scopes' = InOrderedMap(pending, text, kind, pendingIndex)  BY <1>1, <1>11
  <2>2. InOrderedMap(pending, text, kind, pendingIndex)
           = Told(jsonNames, scopes, pending, text, kind, writes, pendingIndex)
    BY Zenon DEF InOrderedMap, Told
  <2> QED  BY <2>1, <2>2, <1>5, <1>10, <1>11
<1>13. \A j \in DOMAIN Top.wrote : Top.wrote[j].index # v.index
  <2>1. \A j \in DOMAIN Top.wrote : Top.wrote[j] \in Written  BY <1>4
  <2> QED  BY <2>1, <1>5, <1>10 DEF Written
<1>14. /\ Settled(jsonNames, writes+1, keys, scopes', frames') /\ Len(frames') = n /\ frames'[n] = f
  <2>1. frames' = Replaced(frames, n, f)  BY <1>0, <1>1 DEF WithTop, Replaced
  <2>2. AliasTold(jsonNames, writes, keys, scopes, frames, f, v, n, frames', scopes')
    BY <2>1, <1>0, <1>1, <1>2, <1>3, <1>5, <1>9, <1>12, <1>13 DEF AliasTold
  <2> QED  BY <2>2, AliasSettles
<1>15. Settled(jsonNames, writes, keys, scopes, frames)'  BY <1>1, <1>14
<1>16. MarksKnown(pending, pendingIndex, expectOrderedMap, Len(scopes), frames[Len(frames)])'
  <2>1. ~expectOrderedMap  BY <1>1, <1>2 DEF MarksKnown
  <2> QED  BY <2>1, <1>1, <1>9, <1>14 DEF MarksKnown, AtEntry
<1>17. TypeOK'
  <2>1. keys' \in SetType /\ jsonNames' \in BOOLEAN  BY <1>1, <1>2
  <2>2. writes' \in Nat /\ pending' \in Nat /\ pendingIndex' \in Int  BY <1>1, <1>2
  <2>3. expectOrderedMap' \in BOOLEAN  BY <1>1, <1>2
  <2> QED  BY <2>1, <2>2, <2>3, Zenon DEF TypeOK
<1>18. QED  BY <1>15, <1>16, <1>17 DEF IInv

(* The frames of a step that writes a key in the innermost mapping.        *)
Extended(g, w) == [g EXCEPT !.wrote = Append(g.wrote, w)]

LEMMA WroteIs ==
    ASSUME NEW g, NEW text, NEW kind
    PROVE  Wrote(g, text, kind) = WroteIn(frames, Extended(g, Entry(text, kind, 0)),
                                          Entry(text, kind, Under.index-1))
BY Zenon DEF Wrote, WroteIn, WithTop, Replaced, Under, Extended

LEMMA UnderKnown ==
    ASSUME IInv, Top.kind = "map"
    PROVE  Under.index - 1 \in Int /\ Under = frames[Len(frames)-1]
<1>1. frames \in Seq(FrameType) /\ Len(frames) \in DOMAIN frames
      /\ \A i \in DOMAIN frames : frames[i].kind = "doc" <=> i = 1
  BY TopKnown DEF IInv, Settled, FramesOK
<1>2. Len(frames) # 1  BY <1>1 DEF Top
<1>3. Len(frames)-1 \in DOMAIN frames
  <2>1. PICK n \in Nat : n = Len(frames)  BY <1>1
  <2>2. DOMAIN frames = 1..n  BY <2>1, <1>1
  <2> QED  BY <2>1, <2>2, <1>1, <1>2
<1>4. Under \in FrameType  BY <1>1, <1>3 DEF Under
<1>5. Under.index \in Nat  BY <1>4 DEF FrameType
<1>6. QED  BY <1>5 DEF Under

LEMMA KeyStep ==
    ASSUME IInv, NEW f, Top.kind = "map", Top.slot \in {"between", "built"},
           FrameOK(jsonNames, writes+1, f), f.kind = "map", f.slot # "tagged",
           keys' \in SetType, Settled(jsonNames, writes+1, keys', scopes', frames'),
           frames'[Len(frames')] = f, writes' = writes + 1,
           UNCHANGED <<jsonNames, pending, pendingIndex, expectOrderedMap>>
    PROVE  IInv'
<1>1. /\ FrameOK(jsonNames, writes, Top)
      /\ MarksKnown(pending, pendingIndex, expectOrderedMap, Len(scopes), Top)
      /\ jsonNames \in BOOLEAN /\ writes \in Nat /\ pending \in Nat
      /\ pendingIndex \in Int /\ expectOrderedMap \in BOOLEAN
  BY TopKnown DEF IInv, TypeOK
<1>2. ~Top.ordered /\ ~f.ordered  BY <1>1 DEF FrameOK
<1>3. pending = 0 /\ ~expectOrderedMap  BY <1>1, <1>2 DEF MarksKnown, AtEntry
<1>4. MarksKnown(pending, pendingIndex, expectOrderedMap, Len(scopes), frames[Len(frames)])'
  BY <1>2, <1>3 DEF MarksKnown, AtEntry
<1>5. Settled(jsonNames, writes, keys, scopes, frames)'  OBVIOUS
<1>6. TypeOK'
  <2>1. keys' \in SetType /\ jsonNames' \in BOOLEAN  BY <1>1
  <2>2. writes' \in Nat /\ pending' \in Nat /\ pendingIndex' \in Int  BY <1>1
  <2>3. expectOrderedMap' \in BOOLEAN  BY <1>1
  <2> QED  BY <2>1, <2>2, <2>3, Zenon DEF TypeOK
<1>7. QED  BY <1>4, <1>5, <1>6 DEF IInv

LEMMA WriteKeyIInv ==
    ASSUME IInv, NEW text \in Text, NEW kind \in Kind, WriteKey(text, kind)
    PROVE  IInv'
<1> DEFINE r == Record(keys, Top.base, text, kind, writes, jsonNames)
           dup == [at |-> writes, first |-> r.first, jsonOnly |-> r.jsonOnly]
           dups == IF r.defined THEN Top.dups \cup {dup} ELSE Top.dups
           w == Entry(text, kind, 0)
           v == Entry(text, kind, Under.index-1)
           g == [Top EXCEPT !.slot = "node", !.dups = dups]
           f == Extended(g, w)
<1>0. PICK n : n = Len(frames)  OBVIOUS
<1>1. /\ Top.kind = "map" /\ Top.slot = "between" /\ keys' = r.set
      /\ frames' = Wrote(g, text, kind)
      /\ scopes' = IF r.defined \/ Top.entryOf = 0 THEN scopes
                   ELSE InOrderedMap(Top.entryOf, text, kind, Top.entryIndex)
      /\ writes' = writes + 1
      /\ UNCHANGED <<jsonNames, pending, pendingIndex, expectOrderedMap>>
  BY DEF WriteKey
<1>2. /\ FrameOK(jsonNames, writes, Top) /\ Top \in FrameType
      /\ keys \in SetType /\ jsonNames \in BOOLEAN /\ writes \in Nat
      /\ Settled(jsonNames, writes, keys, scopes, frames)
  BY TopKnown DEF IInv, TypeOK
<1>3. Top = frames[n] /\ Under = frames[n-1] /\ Under.index - 1 \in Int
  BY <1>0, <1>1, UnderKnown DEF Top
<1>4. /\ w \in Written /\ w.text = text /\ w.kind = kind /\ w.at = writes
      /\ v \in Written /\ v.text = text /\ v.kind = kind /\ v.at = writes
      /\ v.index = Under.index - 1 /\ kind # "built"
  BY <1>3, EntryTyped
<1>5. frames' = WroteIn(frames, f, v)
  <2> HIDE DEF g
  <2> QED  BY <1>1, WroteIs, Zenon
<1>6. dups = Noting(Top.dups, writes, r)  BY DEF Noting
<1>7. g = [Top EXCEPT !.slot = "node", !.dups = dups] /\ f = [g EXCEPT !.wrote = Append(g.wrote, w)]
      /\ r = Record(keys, Top.base, text, kind, writes, jsonNames)
  BY DEF Extended
<1>8. scopes' = IF r.defined \/ Top.entryOf = 0 THEN scopes
                ELSE Told(jsonNames, scopes, Top.entryOf, text, kind, writes, Top.entryIndex)
  BY <1>1, Zenon DEF InOrderedMap, Told
<1> HIDE DEF r, dup, dups, w, v, g, f
<1>9. KeyRead(jsonNames, writes, keys, scopes, frames, n, r, w)
  BY <1>0, <1>1, <1>2, <1>3, <1>4, <1>7 DEF KeyRead
<1>10. dups \in SUBSET Dup
  <2>1. r.first \in Nat /\ r.jsonOnly \in BOOLEAN /\ r.defined \in BOOLEAN
    <3>1. Recorded(jsonNames, keys, frames[n].base, w.text, w.kind, writes, r)  BY <1>9, KnownKey
    <3> QED  BY <3>1 DEF Recorded
  <2>2. Top.dups \in SUBSET Dup  BY <1>2 DEF FrameType
  <2>3. dup \in Dup  BY <2>1, <1>2 DEF dup, Dup
  <2> QED  BY <2>2, <2>3 DEF dups
<1>11. /\ f \in FrameType /\ Grew(Top, f, w) /\ f.slot = "node" /\ f.dups = dups
       /\ f.builds = Top.builds /\ f.builtKeys = Top.builtKeys
  <2>1. /\ g \in FrameType /\ g.slot = "node" /\ g.dups = dups
        /\ g.kind = Top.kind /\ g.base = Top.base /\ (g.ordered <=> Top.ordered)
        /\ g.index = Top.index /\ g.entryOf = Top.entryOf /\ g.entryIndex = Top.entryIndex
        /\ (g.tag <=> Top.tag) /\ g.wrote = Top.wrote
        /\ g.builds = Top.builds /\ g.builtKeys = Top.builtKeys
    BY <1>2, <1>7, <1>10 DEF FrameType
  <2>2. Append(g.wrote, w) \in Seq(Written)
    <3>1. g.wrote \in Seq(Written)  BY <2>1 DEF FrameType
    <3> QED  BY <3>1, <1>4
  <2>3. /\ f \in FrameType /\ f.slot = "node" /\ f.dups = dups
        /\ f.kind = g.kind /\ f.base = g.base /\ (f.ordered <=> g.ordered)
        /\ f.index = g.index /\ f.entryOf = g.entryOf /\ f.entryIndex = g.entryIndex
        /\ (f.tag <=> g.tag) /\ f.wrote = Append(g.wrote, w)
        /\ f.builds = g.builds /\ f.builtKeys = g.builtKeys
    BY <1>7, <2>1, <2>2 DEF FrameType
  <2> QED  BY <2>1, <2>3 DEF Grew
<1>12. FrameOK(jsonNames, writes+1, f) /\ f.kind = "map"
  <2>1. Top.kind # "seq" /\ f.kind = "map"  BY <1>1, <1>11 DEF Grew
  <2>2. (f.builds \/ f.slot \in {"key", "built"}) => f.kind = "map" /\ ~jsonNames
    BY <2>1, <1>2, <1>11 DEF FrameOK
  <2> QED  BY <2>1, <2>2, <1>2, <1>4, <1>11, FrameGrown
<1>13. KeyWritten(jsonNames, writes, frames, n, f, w, v, frames')
  BY <1>0, <1>1, <1>2, <1>3, <1>4, <1>5, <1>11, <1>12 DEF KeyWritten
<1>14. /\ Settled(jsonNames, writes+1, r.set, scopes', frames') /\ Len(frames') = n
       /\ frames'[n] = f /\ r.set \in SetType
  <2>1. f.builtKeys = frames[n].builtKeys /\ f.dups = Noting(frames[n].dups, writes, r)
    BY <1>3, <1>6, <1>11
  <2>2. KeyTold(jsonNames, writes, scopes, frames[n], r, w, scopes')
    BY <1>3, <1>4, <1>8 DEF KeyTold
  <2>3. KeyNoted(jsonNames, writes, keys, scopes, frames, n, r, f, w, v, frames', scopes')
    BY <2>1, <2>2, <1>9, <1>13 DEF KeyNoted
  <2> QED  BY <2>3, KeySettles
<1>15. QED  BY <1>1, <1>11, <1>12, <1>14, KeyStep

LEMMA RecordBuiltIInv ==
    ASSUME IInv, NEW identity \in Text, RecordBuilt(identity)
    PROVE  IInv'
<1> DEFINE w == Entry(identity, "built", 0)
           v == Entry(identity, "built", Under.index-1)
           seen == {b \in Top.builtKeys : b.identity = identity}
           new == [identity |-> identity, at |-> writes]
           built == IF seen = {} THEN Top.builtKeys \cup {new} ELSE Top.builtKeys
           dups == Top.dups \cup {[at |-> writes, first |-> b.at, jsonOnly |-> FALSE] : b \in seen}
           g == [Top EXCEPT !.slot = "between", !.builds = FALSE, !.builtKeys = built, !.dups = dups]
           f == Extended(g, w)
<1>0. PICK n : n = Len(frames)  OBVIOUS
<1>1. /\ Top.kind = "map" /\ Top.slot = "built" /\ frames' = Wrote(g, identity, "built")
      /\ writes' = writes + 1
      /\ UNCHANGED <<keys, jsonNames, scopes, pending, pendingIndex, expectOrderedMap>>
  BY DEF RecordBuilt
<1>2. /\ FrameOK(jsonNames, writes, Top) /\ Top \in FrameType
      /\ keys \in SetType /\ jsonNames \in BOOLEAN /\ writes \in Nat
      /\ Settled(jsonNames, writes, keys, scopes, frames)
  BY TopKnown DEF IInv, TypeOK
<1>3. Top = frames[n] /\ Under = frames[n-1] /\ Under.index - 1 \in Int
  BY <1>0, <1>1, UnderKnown DEF Top
<1>4. ~jsonNames  BY <1>1, <1>2 DEF FrameOK
<1>5. /\ w \in Written /\ w.text = identity /\ w.kind = "built" /\ w.at = writes
      /\ v \in Written /\ v.text = identity /\ v.kind = "built" /\ v.at = writes
      /\ v.index = Under.index - 1
  BY <1>3, EntryTyped
<1>6. frames' = WroteIn(frames, f, v)
  <2> HIDE DEF g
  <2> QED  BY <1>1, WroteIs, Zenon
<1>7. seen = BuiltSeen(Top, w)  BY <1>5 DEF BuiltSeen
<1>8. built = KeepingBuilt(Top, w) /\ dups = NotingBuilt(Top, w)
  BY <1>5, <1>7 DEF KeepingBuilt, NotingBuilt
<1>9. /\ g = [Top EXCEPT !.slot = "between", !.builds = FALSE, !.builtKeys = built, !.dups = dups]
      /\ f = [g EXCEPT !.wrote = Append(g.wrote, w)]
  BY DEF Extended
<1>10. built \in SUBSET BuiltKey /\ dups \in SUBSET Dup
  <2>1. Top.builtKeys \in SUBSET BuiltKey /\ Top.dups \in SUBSET Dup  BY <1>2 DEF FrameType
  <2>2. new \in BuiltKey  BY <1>2 DEF BuiltKey
  <2>3. \A b \in seen : [at |-> writes, first |-> b.at, jsonOnly |-> FALSE] \in Dup
    BY <2>1, <1>2 DEF BuiltKey, Dup
  <2> HIDE DEF new, seen
  <2> QED  BY <2>1, <2>2, <2>3
<1> HIDE DEF seen, new, built, dups, w, v, g, f
<1>11. /\ f \in FrameType /\ Grew(Top, f, w) /\ f.slot = "between" /\ f.dups = dups
       /\ f.builds = FALSE /\ f.builtKeys = built
  <2>1. /\ g \in FrameType /\ g.slot = "between" /\ g.dups = dups
        /\ g.kind = Top.kind /\ g.base = Top.base /\ (g.ordered <=> Top.ordered)
        /\ g.index = Top.index /\ g.entryOf = Top.entryOf /\ g.entryIndex = Top.entryIndex
        /\ (g.tag <=> Top.tag) /\ g.wrote = Top.wrote
        /\ g.builds = FALSE /\ g.builtKeys = built
    BY <1>2, <1>9, <1>10 DEF FrameType
  <2>2. Append(g.wrote, w) \in Seq(Written)
    <3>1. g.wrote \in Seq(Written)  BY <2>1 DEF FrameType
    <3> QED  BY <3>1, <1>5
  <2>3. /\ f \in FrameType /\ f.slot = "between" /\ f.dups = dups
        /\ f.kind = g.kind /\ f.base = g.base /\ (f.ordered <=> g.ordered)
        /\ f.index = g.index /\ f.entryOf = g.entryOf /\ f.entryIndex = g.entryIndex
        /\ (f.tag <=> g.tag) /\ f.wrote = Append(g.wrote, w)
        /\ f.builds = FALSE /\ f.builtKeys = built
    BY <1>9, <2>1, <2>2 DEF FrameType
  <2> QED  BY <2>1, <2>3 DEF Grew
<1>12. FrameOK(jsonNames, writes+1, f) /\ f.kind = "map"
  <2>1. Top.kind # "seq" /\ f.kind = "map"  BY <1>1, <1>11 DEF Grew
  <2>2. (f.builds \/ f.slot \in {"key", "built"}) => f.kind = "map" /\ ~jsonNames
    BY <1>11
  <2> QED  BY <2>1, <2>2, <1>2, <1>4, <1>5, <1>11, FrameGrown
<1>13. KeyWritten(jsonNames, writes, frames, n, f, w, v, frames')
  BY <1>0, <1>1, <1>2, <1>3, <1>4, <1>5, <1>6, <1>11, <1>12 DEF KeyWritten
<1>14. /\ Settled(jsonNames, writes+1, keys, scopes, frames') /\ Len(frames') = n /\ frames'[n] = f
  <2>1. f.builtKeys = KeepingBuilt(frames[n], w) /\ f.dups = NotingBuilt(frames[n], w)
    BY <1>3, <1>8, <1>11
  <2> QED  BY <2>1, <1>2, <1>4, <1>5, <1>13, BuiltSettles
<1>15. QED  BY <1>1, <1>2, <1>11, <1>12, <1>14, KeyStep

LEMMA NextIInv ==
    ASSUME IInv, [Next]_vars
    PROVE  IInv'
<1>1. ASSUME NEW json \in BOOLEAN, NewStream(json) PROVE IInv'  BY <1>1, NewStreamIInv
<1>2. ASSUME TagOrderedMap PROVE IInv'  BY <1>2, TagOrderedMapIInv
<1>3. ASSUME OpenMap PROVE IInv'  BY <1>3, OpenMapIInv
<1>4. ASSUME OpenSequence PROVE IInv'  BY <1>4, OpenSequenceIInv
<1>5. ASSUME Scalar PROVE IInv'  BY <1>5, ScalarIInv
<1>6. ASSUME NextEntry PROVE IInv'  BY <1>6, NextEntryIInv
<1>7. ASSUME NEW text \in Text, NEW kind \in Kind, AliasEntry(text, kind) PROVE IInv'
  BY <1>7, AliasEntryIInv
<1>8. ASSUME NEW text \in Text, NEW kind \in Kind, WriteKey(text, kind) PROVE IInv'
  BY <1>8, WriteKeyIInv
<1>9. ASSUME BeginBuiltEntry PROVE IInv'  BY <1>9, BeginBuiltEntryIInv
<1>10. ASSUME NEW identity \in Text, RecordBuilt(identity) PROVE IInv'  BY <1>10, RecordBuiltIInv
<1>11. ASSUME EndMap PROVE IInv'  BY <1>11, EndMapIInv
<1>12. ASSUME EndSequence PROVE IInv'  BY <1>12, EndSequenceIInv
<1>13. ASSUME UNCHANGED vars PROVE IInv'
  BY <1>13, Zenon DEF vars, IInv, TypeOK
<1>14. QED
  BY <1>1, <1>2, <1>3, <1>4, <1>5, <1>6, <1>7, <1>8, <1>9, <1>10, <1>11, <1>12, <1>13, Zenon DEF Next

-----------------------------------------------------------------------------
(* What follows from the invariant. *)

LEMMA MapKept ==
    ASSUME IInv, NEW i \in Mappings
    PROVE  /\ i \in Maps(frames) /\ frames[i].wrote \in Seq(Written)
           /\ AtsRise(frames[i].wrote, writes)
           /\ Kept(jsonNames, keys.entries, Segment(frames, Len(keys.entries), i), frames[i])
<1>1. FramesOK(jsonNames, writes, frames) /\ MapsKept(jsonNames, keys, frames)
  BY DEF IInv, Settled
<1>2. i \in DOMAIN frames /\ i \in Maps(frames)  BY DEF Mappings, Maps
<1>3. FrameOK(jsonNames, writes, frames[i])  BY <1>1, <1>2 DEF FramesOK
<1>4. QED  BY <1>1, <1>2, <1>3 DEF FrameOK, FrameType, MapsKept

LEMMA MapRepeats ==
    ASSUME IInv, NEW i \in Mappings
    PROVE  frames[i].dups =
               {Repeat(frames[i].wrote, k) :
                   k \in {j \in DOMAIN frames[i].wrote : Earlier(frames[i].wrote, j) # {}}}
<1> DEFINE wrote == frames[i].wrote
<1>1. frames[i].dups = RepeatsOf(jsonNames, wrote)  BY MapKept DEF Kept
<1> HIDE DEF wrote
<1>2. Repeats(jsonNames, wrote) = {j \in DOMAIN wrote : Earlier(wrote, j) # {}}
  BY SameSame DEF Repeats
<1>3. RepeatsOf(jsonNames, wrote) = {Repeat(wrote, k) : k \in Repeats(jsonNames, wrote)}
  BY SameSame DEF RepeatsOf
<1>4. QED  BY <1>1, <1>2, <1>3 DEF wrote

LEMMA ScopeIs ==
    ASSUME NEW i
    PROVE  ScopeOf(i) = Count(frames, i)
<1>1. {j \in OrderedMaps : j <= i} = Ordered(frames, i)  BY DEF OrderedMaps, Ordered
<1>2. QED  BY <1>1, Zenon DEF ScopeOf, Count

LEMMA AcrossIs ==
    ASSUME NEW wrote
    PROVE  AcrossOf(jsonNames, wrote) =
               {[at |-> Repeat(wrote, k).at, first |-> Repeat(wrote, k).first,
                 jsonOnly |-> Repeat(wrote, k).jsonOnly, index |-> wrote[k].index]
                   : k \in Across(wrote)}
<1>1. AcrossKeys(jsonNames, wrote) = Across(wrote)
  BY SameSame DEF AcrossKeys, Across
<1>2. \A k : AcrossDup(jsonNames, wrote, k) =
               [at |-> Repeat(wrote, k).at, first |-> Repeat(wrote, k).first,
                jsonOnly |-> Repeat(wrote, k).jsonOnly, index |-> wrote[k].index]
  BY SameSame, Zenon DEF AcrossDup
<1>3. QED  BY <1>1, <1>2, Zenon DEF AcrossOf

LEMMA RepeatsFollow == IInv => RepeatsNoted
<1> SUFFICES ASSUME IInv PROVE RepeatsNoted  OBVIOUS
<1>1. FramesOK(jsonNames, writes, frames) /\ ScopesKept(jsonNames, scopes, frames)
  BY DEF IInv, Settled
<1>2. ASSUME NEW i \in DOMAIN frames, frames[i].kind = "seq"
      PROVE  frames[i].ordered <=> frames[i].tag
  BY <1>1, <1>2 DEF FramesOK, FrameOK
<1>3. ASSUME NEW i \in DOMAIN frames, frames[i].ordered
      PROVE  scopes[ScopeOf(i)].dups = AcrossOf(jsonNames, frames[i].wrote)
  <2>1. ScopeKept(jsonNames, scopes[Count(frames, i)], frames[i].wrote)
    BY <1>1, <1>3 DEF ScopesKept
  <2> QED  BY <2>1, ScopeIs DEF ScopeKept
<1>4. QED  BY <1>2, <1>3, MapRepeats, AcrossIs, Zenon DEF RepeatsNoted

(* What a mapping has on the stack: the first of each name it wrote, which *)
(* are the keys it has not noted as repeats.                               *)
LEMMA AtsDiffer ==
    ASSUME NEW wrote \in Seq(Written), NEW b, AtsRise(wrote, b),
           NEW m \in DOMAIN wrote, NEW n \in DOMAIN wrote, wrote[m].at = wrote[n].at
    PROVE  m = n
<1>1. m \in Nat /\ n \in Nat /\ m \in 1..Len(wrote) /\ n \in 1..Len(wrote)
      /\ wrote[m] \in Written /\ wrote[n] \in Written
  OBVIOUS
<1>2. wrote[m].at \in Nat /\ wrote[n].at \in Nat  BY <1>1 DEF Written
<1>3. CASE m < n
  <2>1. m \in 1..n-1  BY <1>1, <1>3
  <2> QED  BY <2>1, <1>2 DEF AtsRise
<1>4. CASE n < m
  <2>1. n \in 1..m-1  BY <1>1, <1>4
  <2> QED  BY <2>1, <1>2 DEF AtsRise
<1>5. QED  BY <1>1, <1>3, <1>4

StackIs(json, wrote, entries, I) ==
    {entries[k].at : k \in I} =
        {w.at : w \in {v \in ToSet(wrote) : v.kind # "built"}} \ {d.at : d \in RepeatsOf(json, wrote)}

LEMMA StackHolds ==
    ASSUME NEW json, NEW wrote, NEW b, NEW entries, NEW I,
           json \in BOOLEAN, wrote \in Seq(Written), AtsRise(wrote, b),
           HoldsFirsts(json, entries, I, wrote)
    PROVE  StackIs(json, wrote, entries, I)
<1> DEFINE own == {entries[k].at : k \in I}
           scalar == {v \in ToSet(wrote) : v.kind # "built"}
           ats == {w.at : w \in scalar}
           gone == {d.at : d \in RepeatsOf(json, wrote)}
<1>1. \A a : a \in own <=> \E n \in DOMAIN wrote : First(json, wrote, n) /\ a = wrote[n].at
  BY DEF HoldsFirsts, Is
<1>2. \A a : a \in ats <=> \E n \in DOMAIN wrote : wrote[n].kind # "built" /\ a = wrote[n].at
  BY DEF ToSet
<1>3. \A a : a \in gone <=> \E n \in DOMAIN wrote : Before(json, wrote, n) # {} /\ a = wrote[n].at
  <2>1. \A n : RepeatOf(json, wrote, n).at = wrote[n].at  BY DEF RepeatOf
  <2> QED  BY <2>1 DEF RepeatsOf, Repeats
<1> HIDE DEF own, scalar, ats, gone
<1>4. ASSUME NEW a \in own PROVE a \in ats /\ a \notin gone
  <2>1. PICK n \in DOMAIN wrote : First(json, wrote, n) /\ a = wrote[n].at  BY <1>1
  <2>2. \A m \in DOMAIN wrote : a = wrote[m].at => m = n  BY <2>1, AtsDiffer
  <2> QED  BY <2>1, <2>2, <1>2, <1>3 DEF First
<1>5. ASSUME NEW a \in ats, a \notin gone PROVE a \in own
  BY <1>1, <1>2, <1>3, <1>5 DEF First
<1>6. own = ats \ gone  BY <1>4, <1>5
<1>7. QED  BY <1>6 DEF own, ats, gone, scalar, StackIs

LEMMA SegmentIs ==
    ASSUME IInv, NEW i \in Mappings
    PROVE  LET inner == {frames[j].base : j \in {k \in Mappings : k > i}}
               end == IF inner = {} THEN Len(keys.entries)
                      ELSE CHOOSE b \in inner : \A c \in inner : b <= c
           IN  frames[i].base+1 .. end = Segment(frames, Len(keys.entries), i)
<1> DEFINE len == Len(keys.entries)
           base == frames[i].base
           inner == {frames[j].base : j \in {k \in Mappings : k > i}}
           end == IF inner = {} THEN len ELSE CHOOSE b \in inner : \A c \in inner : b <= c
<1>1. /\ frames \in Seq(FrameType) /\ BasesRise(keys, frames) /\ len \in Nat
      /\ Mappings = Maps(frames)
  BY DEF IInv, TypeOK, SetType, Settled, FramesOK, MapsKept, Mappings, Maps
<1>2. \A j \in Mappings : frames[j].base \in Nat /\ frames[j].base <= len /\ j \in Nat
  BY <1>1, MapTyped DEF BasesRise, Mappings
<1>3. inner \in SUBSET Nat /\ \A c \in inner : c <= len  BY <1>2
<1>4. \A k : k \in Segment(frames, len, i) <=> k \in 1..len /\ base < k /\ \A c \in inner : k <= c
  <2>1. \A k : (\A j \in Maps(frames) : i < j => k <= frames[j].base) <=> \A c \in inner : k <= c
    BY <1>1, <1>2
  <2> HIDE DEF inner
  <2> QED  BY <2>1 DEF Segment
<1>5. end \in Nat /\ end <= len /\ \A k \in Nat : k <= end <=> k <= len /\ \A c \in inner : k <= c
  <2>1. CASE inner = {}
    <3>1. end = len  BY <2>1
    <3> HIDE DEF inner, end, len
    <3> QED  BY <2>1, <3>1, <1>1
  <2>2. CASE inner # {}
    <3> HIDE DEF inner
    <3>1. PICK m \in inner : \A c \in inner : m <= c  BY <2>2, <1>3, LeastExists
    <3>2. end = CHOOSE b \in inner : \A c \in inner : b <= c  BY <2>2
    <3>3. end \in inner /\ \A c \in inner : end <= c  BY <3>1, <3>2
    <3> HIDE DEF end
    <3> QED  BY <3>3, <1>1, <1>3
  <2> QED  BY <2>1, <2>2
<1> HIDE DEF len, inner, end
<1>6. base \in Nat /\ i \in Nat  BY <1>2
<1>7. base+1 .. end = Segment(frames, len, i)
  <2>1. \A k : k \in base+1 .. end <=> k \in Nat /\ base < k /\ k <= end  BY <1>5, <1>6
  <2>2. \A k : k \in 1..len <=> k \in Nat /\ 0 < k /\ k <= len  BY <1>1
  <2>3. \A k : k \in base+1 .. end <=> k \in Segment(frames, len, i)
    BY <2>1, <2>2, <1>4, <1>5, <1>6
  <2> QED  BY <2>3
<1>8. QED  BY <1>7 DEF len, inner, end

LEMMA KeysFollow == IInv => KeysAreTheirMappings
<1> SUFFICES ASSUME IInv PROVE KeysAreTheirMappings  OBVIOUS
<1> DEFINE len == Len(keys.entries)
           Inner(i) == {frames[j].base : j \in {k \in Mappings : k > i}}
           End(i) == IF Inner(i) = {} THEN len ELSE CHOOSE b \in Inner(i) : \A c \in Inner(i) : b <= c
<1>1. ASSUME NEW i \in Mappings
      PROVE  {keys.entries[k].at : k \in frames[i].base+1 .. End(i)}
                 = {w.at : w \in ScalarKeys(frames[i])} \ {d.at : d \in frames[i].dups}
  <2>1. frames[i].base+1 .. End(i) = Segment(frames, len, i)  BY SegmentIs
  <2> HIDE DEF End, len
  <2>2. PICK wrote \in Seq(Written) : wrote = frames[i].wrote  BY MapKept
  <2>3. /\ AtsRise(wrote, writes) /\ frames[i].dups = RepeatsOf(jsonNames, wrote)
        /\ HoldsFirsts(jsonNames, keys.entries, Segment(frames, len, i), wrote)
    BY <2>2, MapKept DEF Kept, len
  <2>4. jsonNames \in BOOLEAN  BY DEF IInv, TypeOK
  <2>5. {keys.entries[k].at : k \in Segment(frames, len, i)} =
               {w.at : w \in {v \in ToSet(wrote) : v.kind # "built"}}
                   \ {d.at : d \in RepeatsOf(jsonNames, wrote)}
    <3>1. StackIs(jsonNames, wrote, keys.entries, Segment(frames, len, i))
      BY <2>3, <2>4, StackHolds
    <3> QED  BY <3>1 DEF StackIs
  <2>6. ScalarKeys(frames[i]) = {v \in ToSet(wrote) : v.kind # "built"}
    BY <2>2 DEF ScalarKeys
  <2> QED  BY <2>1, <2>3, <2>5, <2>6
<1>2. ASSUME NEW x \in keys.index
      PROVE  \E i \in Mappings :
                /\ frames[i].base = x.ref.base
                /\ \E w \in ScalarKeys(frames[i]) : /\ w.text = x.ref.text /\ w.at = x.at
                                                    /\ x.ref.kind \in {w.kind, AnyKind}
  <2>1. IndexOfOpen(jsonNames, keys, frames)  BY DEF IInv, Settled, MapsKept
  <2>2. PICK i \in Maps(frames) : /\ frames[i].base = x.ref.base
                                  /\ \E k \in Segment(frames, len, i) : Names(jsonNames, x, keys.entries[k])
    BY <2>1 DEF IndexOfOpen
  <2>3. i \in Mappings  BY DEF Maps, Mappings
  <2>4. PICK k \in Segment(frames, len, i) : Names(jsonNames, x, keys.entries[k])  BY <2>2
  <2>5. HoldsFirsts(jsonNames, keys.entries, Segment(frames, len, i), frames[i].wrote)
    BY <2>3, MapKept DEF Kept
  <2> HIDE DEF len
  <2>6. PICK n \in DOMAIN frames[i].wrote :
            /\ First(jsonNames, frames[i].wrote, n) /\ Is(keys.entries[k], frames[i].wrote[n])
    BY <2>4, <2>5 DEF HoldsFirsts
  <2> DEFINE w == frames[i].wrote[n]
  <2>7. w \in ScalarKeys(frames[i])  BY <2>6 DEF ScalarKeys, ToSet, First
  <2>8. w.text = x.ref.text /\ w.at = x.at /\ x.ref.kind \in {w.kind, AnyKind}
    BY <2>4, <2>6 DEF Names, Is
  <2> QED  BY <2>2, <2>3, <2>7, <2>8
<1>3. QED  BY <1>1, <1>2, Zenon DEF KeysAreTheirMappings

(* Set.Holds: what the scan answers, and what the index answers of a       *)
(* mapping whose keys it has.                                              *)
LEMMA HoldsAnswers ==
    ASSUME NEW json \in BOOLEAN, NEW set \in SetType, NEW base, OwnPart(json, set, base), NEW text \in Text
    PROVE  LET onStack == \E k \in Own(set, base) : set.entries[k].text = text
               unseen == /\ json /\ set.made /\ Len(set.entries) - base = SpillAt
                         /\ \A x \in set.index : x.ref.base # base
           IN  /\ Holds(set, base, text, json) => onStack
               /\ onStack /\ ~unseen => Holds(set, base, text, json)
<1> DEFINE onStack == \E k \in Own(set, base) : set.entries[k].text = text
           unseen == /\ json /\ set.made /\ Len(set.entries) - base = SpillAt
                     /\ \A x \in set.index : x.ref.base # base
           asks == json /\ set.made /\ Len(set.entries) - base >= SpillAt
           name == Ref(base, AnyKind, text)
<1>0. base \in Nat /\ Len(set.entries) \in Nat /\ name.base = base /\ name.text = text
  BY DEF OwnPart, SetType, Ref
<1>1. CASE ~asks
  <2>1. Holds(set, base, text, json) <=> onStack  BY <1>1 DEF Holds
  <2> QED  BY <2>1
<1>2. CASE asks
  <2>1. Holds(set, base, text, json) <=> Indexed(set, name)  BY <1>2 DEF Holds
  <2> HIDE DEF name
  <2>2. ASSUME Indexed(set, name) PROVE onStack
    <3>1. PICK x \in set.index : x.ref = name  BY <2>2 DEF Indexed
    <3>2. \E k \in Own(set, base) : Names(json, x, set.entries[k])  BY <3>1, <1>0 DEF OwnPart
    <3> QED  BY <3>1, <3>2, <1>0 DEF Names
  <2>3. ASSUME onStack, ~unseen PROVE Indexed(set, name)
    <3>1. Len(set.entries) - base > SpillAt \/ InIndex(set, base)
      <4>1. CASE Len(set.entries) - base > SpillAt  BY <4>1
      <4>2. CASE ~(Len(set.entries) - base > SpillAt)
        <5>1. Len(set.entries) - base = SpillAt  BY <4>2, <1>0, <1>2
        <5> QED  BY <5>1, <1>2, <2>3 DEF InIndex
      <4> QED  BY <4>1, <4>2
    <3>2. PICK k \in Own(set, base) : set.entries[k].text = text  BY <2>3
    <3>3. RefsIndexed(json, set, base, set.entries[k])  BY <3>1 DEF OwnPart
    <3> QED  BY <3>2, <3>3, <1>2 DEF RefsIndexed, name
  <2> QED  BY <2>1, <2>2, <2>3
<1> QED  BY <1>1, <1>2

LEMMA HoldsFollows == IInv => HoldsWhatIsWritten
<1> SUFFICES ASSUME IInv, Leaving, NEW text \in Text
             PROVE  /\ Answers(text) => WroteName(text)
                    /\ WroteName(text) /\ ~NotYetIndexed => Answers(text)
  BY DEF HoldsWhatIsWritten
<1>1. PICK n : n = Len(frames)  OBVIOUS
<1>2. Top = frames[n] /\ n \in Mappings  BY <1>1, TopKnown DEF Top, Leaving, Mappings
<1>11. OwnPart(jsonNames, keys, Top.base) /\ jsonNames \in BOOLEAN /\ keys \in SetType
  <2>1. /\ jsonNames \in BOOLEAN /\ keys \in SetType /\ frames \in Seq(FrameType)
        /\ MapsKept(jsonNames, keys, frames)
    BY DEF IInv, TypeOK, Settled, FramesOK
  <2>2. n \in Maps(frames)  BY <1>2 DEF Mappings, Maps
  <2> QED  BY <2>1, <2>2, <1>1, <1>2, TopOwns
<1>3. Segment(frames, Len(keys.entries), n) = Own(keys, Top.base)
  <2>1. /\ jsonNames \in BOOLEAN /\ keys \in SetType /\ frames \in Seq(FrameType)
        /\ MapsKept(jsonNames, keys, frames)
    BY DEF IInv, TypeOK, Settled, FramesOK
  <2>2. n \in Maps(frames)  BY <1>2 DEF Mappings, Maps
  <2> QED  BY <2>1, <2>2, <1>1, <1>2, TopOwns
<1>4. PICK wrote \in Seq(Written) : wrote = Top.wrote  BY <1>2, MapKept
<1>5. HoldsFirsts(jsonNames, keys.entries, Own(keys, Top.base), wrote)
  BY <1>2, <1>3, <1>4, MapKept DEF Kept
<1> DEFINE OnStack == \E k \in Own(keys, Top.base) : keys.entries[k].text = text
<1>6. /\ Answers(text) => OnStack
      /\ OnStack /\ ~NotYetIndexed => Answers(text)
  BY <1>11, HoldsAnswers DEF Answers, NotYetIndexed
<1>7. WroteName(text) <=> \E m \in DOMAIN wrote : wrote[m].kind # "built" /\ wrote[m].text = text
  BY <1>4 DEF WroteName, ScalarKeys, ToSet
<1>8. ASSUME NEW k \in Own(keys, Top.base), keys.entries[k].text = text
      PROVE  \E m \in DOMAIN wrote : wrote[m].kind # "built" /\ wrote[m].text = text
  BY <1>5, <1>8 DEF HoldsFirsts, First, Is
<1>9. ASSUME NEW m \in DOMAIN wrote, wrote[m].kind # "built", wrote[m].text = text
      PROVE  \E k \in Own(keys, Top.base) : keys.entries[k].text = text
  <2>1. \E j \in DOMAIN wrote : First(jsonNames, wrote, j) /\ wrote[j].text = text
    <3>1. CASE Before(jsonNames, wrote, m) = {}  BY <3>1, <1>9 DEF First
    <3>2. CASE Before(jsonNames, wrote, m) # {}
      <4>1. jsonNames \in BOOLEAN  BY DEF IInv, TypeOK
      <4>2. PICK j \in Before(jsonNames, wrote, m) : Before(jsonNames, wrote, j) = {}
        BY <3>2, <4>1, FirstOfName
      <4>3. j \in 1..m-1 /\ wrote[j].text = text /\ (jsonNames \/ wrote[j].kind # "built")
        BY <1>9 DEF Before, Same
      <4>4. j \in DOMAIN wrote  BY <4>3
      <4>5. wrote[j].kind # "built"
        <5>1. jsonNames => NoneBuilt(wrote)
          BY <1>2, <1>4 DEF IInv, Settled, FramesOK, FrameOK, Mappings
        <5> QED  BY <5>1, <4>3, <4>4 DEF NoneBuilt
      <4> QED  BY <4>2, <4>3, <4>4, <4>5 DEF First
    <3> QED  BY <3>1, <3>2
  <2> QED  BY <2>1, <1>5 DEF HoldsFirsts, Is
<1>10. QED  BY <1>6, <1>7, <1>8, <1>9

(* The invariant, of every state there is: the types, the frames' shape,   *)
(* what each mapping has on the stack and in the index, what each ordered  *)
(* map has in its scope, and what the marks of an "!!omap" say.            *)
THEOREM Invariant == Spec => []IInv
<1>1. Init => IInv  BY InitIInv
<1>2. IInv /\ [Next]_vars => IInv'  BY NextIInv
<1>3. QED  BY <1>1, <1>2, PTL DEF Spec

(* Set.Record, Ledger.RecordOnce, RecordBuilt, OpenOrderedMap: every open  *)
(* mapping has noted exactly the keys that repeat one of its own, and      *)
(* every "!!omap" those that repeat a key of an earlier entry, each with   *)
(* the place it was first written -- wherever spillAt is set, whichever of *)
(* the scan and the index answered.                                        *)
THEOREM NotesTheRepeats == Spec => []RepeatsNoted
BY Invariant, RepeatsFollow, PTL

(* Ledger.checkStackTail and Set.Close: the part of the stack over a       *)
(* mapping's base, up to the next one's, is what that mapping wrote, each  *)
(* key once, and the index names keys of open mappings alone.              *)
THEOREM StackIsItsMappings == Spec => []KeysAreTheirMappings
BY Invariant, KeysFollow, PTL

(* Set.Holds: asked as a mapping is left, it answers for no name the       *)
(* mapping did not write, and for each one it wrote, spilled or not; but   *)
(* for one case, under JSON's rule, of a mapping of exactly spillAt keys   *)
(* that no later key was recorded after.                                   *)
THEOREM HoldsWhatWasWritten == Spec => []HoldsWhatIsWritten
BY Invariant, HoldsFollows, PTL
=============================================================================
