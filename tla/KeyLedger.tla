------------------------------ MODULE KeyLedger ------------------------------
(***************************************************************************)
(* parser/key: which keys a mapping being read has already written.        *)
(*                                                                         *)
(* Set keeps the keys of every open mapping on one stack, scans the        *)
(* innermost mapping's own part of it and turns to an index once that part *)
(* passes spillAt.  Ledger adds the mapping nodes being read, the keys no  *)
(* single token names, and the key set each "!!omap" keeps across its      *)
(* entries.  The frames are the parser's recursion: parseMap, parseFlowMap *)
(* and the two sequence readers, each with the calls it makes on the way   *)
(* in and out.                                                             *)
(*                                                                         *)
(* A key is a text and a kind; a position is the number of the write.      *)
(***************************************************************************)
EXTENDS Integers, Sequences, FiniteSets, SequencesExt

CONSTANTS
    Text,       \* the names keys are written with
    Kind,       \* the node types they resolve to
    AnyKind,    \* anyKind: matches a key by name alone
    SpillAt,    \* spillAt: keys past which a mapping gets an index
    MaxWrites,  \* bound: keys written in one stream
    MaxDepth,   \* bound: nesting of collections
    MaxEntries  \* bound: entries of a sequence

ASSUME LedgerAssumption ==
    /\ SpillAt \in Nat \ {0} /\ AnyKind \notin Kind /\ "built" \notin Kind
    /\ MaxWrites \in Nat /\ MaxDepth \in Nat /\ MaxEntries \in Nat

VARIABLES
    keys,       \* the Set: entries, index, and whether an index was ever made
    jsonNames,  \* UseJSONNames: a repeated name is a repeat whatever its kind
    frames,     \* the collections being read, innermost last
    scopes,     \* orderedMaps: one key set for each "!!omap" being read
    pending,    \* the "!!omap" whose entry is read next, 0 for none
    pendingIndex,
    expectOrderedMap,
    writes      \* how many keys were written: the position of the next one

vars == <<keys, jsonNames, frames, scopes, pending, pendingIndex, expectOrderedMap, writes>>

-----------------------------------------------------------------------------
(* Set. *)

EmptySet == [entries |-> <<>>, index |-> {}, made |-> FALSE]

Ref(base, kind, text) == [base |-> base, kind |-> kind, text |-> text]

Indexed(set, ref) == \E x \in set.index : x.ref = ref
Position(set, ref) == (CHOOSE x \in set.index : x.ref = ref).at

Own(set, base) == base+1 .. Len(set.entries)

Push(set, text, kind, at) ==
    [set EXCEPT !.entries = Append(@, [text |-> text, kind |-> kind, at |-> at])]

(* A found key: where it was first written, and whether only the name is   *)
(* the same.                                                               *)
Found(set, at, jsonOnly) == [set |-> set, defined |-> TRUE, first |-> at, jsonOnly |-> jsonOnly]
Fresh(set) == [set |-> set, defined |-> FALSE, first |-> 0, jsonOnly |-> FALSE]

(* spill: the index takes the keys scanned so far, the first of each.      *)
Spill(set, base, json) ==
    LET refs == {Ref(base, set.entries[i].kind, set.entries[i].text) : i \in Own(set, base)}
                \cup (IF json THEN {Ref(base, AnyKind, set.entries[i].text) : i \in Own(set, base)}
                              ELSE {})
        firstAt(r) == set.entries[CHOOSE i \in Own(set, base) :
                          /\ set.entries[i].text = r.text
                          /\ r.kind \in {AnyKind, set.entries[i].kind}
                          /\ \A j \in base+1 .. i-1 : ~(/\ set.entries[j].text = r.text
                                                        /\ r.kind \in {AnyKind, set.entries[j].kind})].at
    IN  [set EXCEPT !.made = TRUE,
                    !.index = @ \cup {[ref |-> r, at |-> firstAt(r)] :
                                      r \in {q \in refs : ~Indexed(set, q)}}]

(* Broken: the index is built one key late, from the keys it never saw.    *)
RecordIndexedSpillsLate(before, base, text, kind, at, json) ==
    LET set == IF Len(before.entries) - base = SpillAt+1 THEN Spill(before, base, json) ELSE before
        ref == Ref(base, kind, text)
    IN  IF Indexed(set, ref) THEN Found(set, Position(set, ref), FALSE)
        ELSE Fresh([Push(set, text, kind, at) EXCEPT !.index = @ \cup {[ref |-> ref, at |-> at]}])

(* recordIndexed, for a mapping of spillAt keys or more. *)
RecordIndexed(before, base, text, kind, at, json) ==
    LET set == IF Len(before.entries) - base = SpillAt THEN Spill(before, base, json) ELSE before
        ref == Ref(base, kind, text)
        name == Ref(base, AnyKind, text)
        added == {ref} \cup (IF json THEN {name} ELSE {})
    IN  IF Indexed(set, ref) THEN Found(set, Position(set, ref), FALSE)
        ELSE IF json /\ Indexed(set, name) THEN Found(set, Position(set, name), TRUE)
        ELSE Fresh([Push(set, text, kind, at) EXCEPT
                        !.index = @ \cup {[ref |-> r, at |-> at] : r \in added}])

(* Record: scans the mapping's own keys, or asks the index. *)
Record(set, base, text, kind, at, json) ==
    LET hits == {i \in Own(set, base) : /\ set.entries[i].text = text
                                        /\ json \/ set.entries[i].kind = kind}
        hit == set.entries[CHOOSE i \in hits : \A j \in hits : i <= j]
    IN  IF Len(set.entries) - base >= SpillAt
        THEN RecordIndexed(set, base, text, kind, at, json)
        ELSE IF hits # {} THEN Found(set, hit.at, hit.kind # kind)
        ELSE Fresh(Push(set, text, kind, at))

(* Broken: asks the index for names it holds under JSON names alone. *)
HoldsByIndex(set, base, text, json) ==
    IF set.made /\ Len(set.entries) - base >= SpillAt
    THEN Indexed(set, Ref(base, AnyKind, text))
    ELSE \E i \in Own(set, base) : set.entries[i].text = text

(* Holds: whether the mapping wrote the name, whatever its kind. *)
Holds(set, base, text, json) ==
    IF json /\ set.made /\ Len(set.entries) - base >= SpillAt
    THEN Indexed(set, Ref(base, AnyKind, text))
    ELSE \E i \in Own(set, base) : set.entries[i].text = text

(* Broken: takes a mapping of exactly spillAt keys for one that never      *)
(* spilled, though the repeat read after them built its index.             *)
CloseOffByOne(set, base, json) ==
    LET own == {set.entries[i].text : i \in Own(set, base)}
    IN  [set EXCEPT !.entries = SubSeq(@, 1, base),
                    !.index = IF Len(set.entries) - base > SpillAt
                              THEN {x \in @ : x.ref.base # base \/ x.ref.text \notin own} ELSE @]

(* Close: the index loses the keys of a mapping big enough to have spilled. *)
Close(set, base, json) ==
    LET gone == {Ref(base, set.entries[i].kind, set.entries[i].text) : i \in Own(set, base)}
                \cup (IF json THEN {Ref(base, AnyKind, set.entries[i].text) : i \in Own(set, base)}
                              ELSE {})
    IN  [set EXCEPT !.entries = SubSeq(@, 1, base),
                    !.index = IF Len(set.entries) - base >= SpillAt
                              THEN {x \in @ : x.ref \notin gone} ELSE @]

-----------------------------------------------------------------------------
(* The parser's recursion. *)

(* A frame is a collection being read, or the document at the bottom.      *)
(* "slot" is what its reader does next: "between" entries, at a "node", at *)
(* a node an "!!omap" tag stands on ("tagged"), at a key that is a         *)
(* collection ("key"), or at the end of an entry with such a key           *)
(* ("built").  "wrote" and "tag" are history, read by the properties       *)
(* alone: the keys written here, and whether the tag stood on this node.   *)
Frame == [kind |-> "doc", slot |-> "node", base |-> 0, dups |-> {},
          entryOf |-> 0, entryIndex |-> 0, builtKeys |-> {}, builds |-> FALSE,
          ordered |-> FALSE, index |-> 0, wrote |-> <<>>, tag |-> FALSE]

Top == frames[Len(frames)]
Under == frames[Len(frames)-1]
WithTop(f) == [frames EXCEPT ![Len(frames)] = f]
Mappings == {i \in DOMAIN frames : frames[i].kind = "map"}
OrderedMaps == {i \in DOMAIN frames : frames[i].ordered}

AtNode == Top.slot \in {"node", "tagged"}
AtNodeOrKey == Top.slot \in {"node", "tagged", "key"}

(* Bounds: a collection opens while it could still hold a key. *)
Room == Len(frames) <= MaxDepth /\ writes < MaxWrites

(* The slot a frame is in once the node it was waiting for is read. *)
Ended(f) ==
    [f EXCEPT !.slot = CASE f.kind = "doc" -> "done"
                         [] f.slot = "key" -> "node"
                         [] f.slot # "key" /\ f.builds -> "built"
                         [] OTHER -> "between"]

(* What the history keeps of a key: "index" is the sequence entry it is in.*)
Entry(text, kind, index) == [text |-> text, kind |-> kind, at |-> writes, index |-> index]

(* The frames with mapping f innermost, once f and the sequence f is an    *)
(* entry of, if any, have the key in their history.                        *)
Wrote(f, text, kind) ==
    LET mapping == WithTop([f EXCEPT !.wrote = Append(@, Entry(text, kind, 0))])
    IN  IF Under.kind # "seq" THEN mapping
        ELSE [mapping EXCEPT ![Len(frames)-1].wrote = Append(@, Entry(text, kind, Under.index-1))]

(* UnmarkEntry follows the node of every entry of a sequence. *)
Unmarked(f) == IF f.kind = "seq" THEN 0 ELSE pending

(* The frames once the innermost collection is read. *)
Popped == [SubSeq(frames, 1, Len(frames)-1) EXCEPT ![Len(frames)-1] = Ended(Under)]

Init ==
    /\ keys = EmptySet /\ jsonNames \in BOOLEAN
    /\ frames = <<Frame>> /\ scopes = <<>>
    /\ pending = 0 /\ pendingIndex = 0 /\ expectOrderedMap = FALSE
    /\ writes = 0

(* Reset, and the options of the stream read next.  The index a Set once   *)
(* made is emptied and kept.                                               *)
NewStream(json) ==
    /\ keys' = [EmptySet EXCEPT !.made = keys.made]
    /\ jsonNames' = json
    /\ frames' = <<Frame>> /\ scopes' = <<>>
    /\ pending' = 0 /\ expectOrderedMap' = FALSE /\ writes' = 0
    /\ UNCHANGED pendingIndex

(* parseTagValue on an "!!omap" tag: ExpectOrderedMap. *)
TagOrderedMap ==
    /\ Top.slot = "node" /\ Room
    /\ expectOrderedMap' = TRUE
    /\ frames' = WithTop([Top EXCEPT !.slot = "tagged"])
    /\ UNCHANGED <<keys, jsonNames, scopes, pending, pendingIndex, writes>>

(* parseMap and parseFlowMap: Base, Open. *)
OpenMap ==
    /\ AtNodeOrKey /\ Room
    /\ frames' = Append(frames,
           [Frame EXCEPT !.kind = "map", !.slot = "between", !.base = Len(keys.entries),
                         !.entryOf = pending, !.entryIndex = pendingIndex,
                         !.tag = (Top.slot = "tagged")])
    /\ pending' = 0 /\ expectOrderedMap' = FALSE
    /\ UNCHANGED <<keys, jsonNames, scopes, pendingIndex, writes>>

(* parseSequence and parseFlowSequence: TakeOrderedMap, OpenOrderedMap,    *)
(* UnmarkEntry.                                                            *)
OpenSequence ==
    /\ AtNodeOrKey /\ Room
    /\ frames' = Append(frames,
           [Frame EXCEPT !.kind = "seq", !.slot = "between", !.ordered = expectOrderedMap,
                         !.tag = (Top.slot = "tagged")])
    /\ scopes' = IF expectOrderedMap
                 THEN Append(scopes, [set |-> EmptySet, dups |-> {}])
                 ELSE scopes
    /\ expectOrderedMap' = FALSE /\ pending' = 0
    /\ UNCHANGED <<keys, jsonNames, pendingIndex, writes>>

(* A scalar, or the empty node: nothing is recorded.  The tag's deferred   *)
(* TakeOrderedMap clears the mark no sequence took.                        *)
Scalar ==
    /\ AtNode
    /\ frames' = WithTop(Ended(Top))
    /\ expectOrderedMap' = FALSE
    /\ pending' = Unmarked(Top)
    /\ UNCHANGED <<keys, jsonNames, scopes, pendingIndex, writes>>

(* The next entry of a sequence; MarkEntry for an "!!omap". *)
NextEntry ==
    /\ Top.kind = "seq" /\ Top.slot = "between" /\ Top.index < MaxEntries
    /\ frames' = WithTop([Top EXCEPT !.slot = "node", !.index = @ + 1])
    /\ IF Top.ordered THEN pending' = Len(scopes) /\ pendingIndex' = Top.index
                      ELSE UNCHANGED <<pending, pendingIndex>>
    /\ UNCHANGED <<keys, jsonNames, scopes, expectOrderedMap, writes>>

(* recordInOrderedMap: the scopes once scope i has recorded the key. *)
InOrderedMap(i, text, kind, index) ==
    LET r == Record(scopes[i].set, 0, text, kind, writes, jsonNames)
        dup == [at |-> writes, first |-> r.first, jsonOnly |-> r.jsonOnly, index |-> index]
    IN  [scopes EXCEPT ![i] = [set |-> r.set,
                               dups |-> IF r.defined THEN @.dups \cup {dup} ELSE @.dups]]

(* recordAliasEntry and RecordEntry: an alias naming a one-entry mapping.  *)
AliasEntry(text, kind) ==
    /\ Top.kind = "seq" /\ Top.ordered /\ Top.slot = "node"
    /\ writes < MaxWrites
    /\ scopes' = IF pending > 0 THEN InOrderedMap(pending, text, kind, pendingIndex) ELSE scopes
    /\ frames' = WithTop(Ended([Top EXCEPT !.wrote = Append(@, Entry(text, kind, Top.index-1))]))
    /\ pending' = 0
    /\ writes' = writes + 1
    /\ UNCHANGED <<keys, jsonNames, pendingIndex, expectOrderedMap>>

(* recordKeyOnce and RecordOnce, as a scalar key is read: a repeat is      *)
(* noted on the mapping, and a new key is recorded once more in the        *)
(* "!!omap" the mapping is a direct entry of.                              *)
WriteKey(text, kind) ==
    LET r == Record(keys, Top.base, text, kind, writes, jsonNames)
        dup == [at |-> writes, first |-> r.first, jsonOnly |-> r.jsonOnly]
    IN  /\ Top.kind = "map" /\ Top.slot = "between"
        /\ writes < MaxWrites
        /\ keys' = r.set
        /\ frames' = Wrote([Top EXCEPT !.slot = "node",
                                       !.dups = IF r.defined THEN @ \cup {dup} ELSE @], text, kind)
        /\ scopes' = IF r.defined \/ Top.entryOf = 0 THEN scopes
                     ELSE InOrderedMap(Top.entryOf, text, kind, Top.entryIndex)
        /\ writes' = writes + 1
        /\ UNCHANGED <<jsonNames, pending, pendingIndex, expectOrderedMap>>

(* An entry whose key is a collection: its identity is known when the      *)
(* entry is complete.  JSON refuses such a key.                            *)
BeginBuiltEntry ==
    /\ Top.kind = "map" /\ Top.slot = "between" /\ ~jsonNames
    /\ writes < MaxWrites
    /\ frames' = WithTop([Top EXCEPT !.slot = "key", !.builds = TRUE])
    /\ UNCHANGED <<keys, jsonNames, scopes, pending, pendingIndex, expectOrderedMap, writes>>

(* recordBuiltKeyOnce and RecordBuilt. *)
RecordBuilt(identity) ==
    LET seen == {b \in Top.builtKeys : b.identity = identity}
        new == [identity |-> identity, at |-> writes]
        dups == {[at |-> writes, first |-> b.at, jsonOnly |-> FALSE] : b \in seen}
    IN  /\ Top.kind = "map" /\ Top.slot = "built"
        /\ writes < MaxWrites
        /\ frames' = Wrote([Top EXCEPT !.slot = "between", !.builds = FALSE,
                                       !.builtKeys = IF seen = {} THEN @ \cup {new} ELSE @,
                                       !.dups = @ \cup dups], identity, "built")
        /\ writes' = writes + 1
        /\ UNCHANGED <<keys, jsonNames, scopes, pending, pendingIndex, expectOrderedMap>>

(* The end of a mapping: what Open and Base deferred. *)
EndMap ==
    /\ Top.kind = "map" /\ Top.slot = "between"
    /\ keys' = Close(keys, Top.base, jsonNames)
    /\ frames' = Popped
    /\ pending' = Unmarked(Under)
    /\ expectOrderedMap' = FALSE
    /\ UNCHANGED <<jsonNames, scopes, pendingIndex, writes>>

(* The end of a sequence: what OpenOrderedMap deferred. *)
EndSequence ==
    /\ Top.kind = "seq" /\ Top.slot = "between"
    /\ scopes' = IF Top.ordered THEN SubSeq(scopes, 1, Len(scopes)-1) ELSE scopes
    /\ frames' = Popped
    /\ pending' = IF Top.ordered THEN 0 ELSE Unmarked(Under)
    /\ expectOrderedMap' = FALSE
    /\ UNCHANGED <<keys, jsonNames, pendingIndex, writes>>

Next ==
    \/ \E json \in BOOLEAN : NewStream(json)
    \/ TagOrderedMap
    \/ OpenMap
    \/ OpenSequence
    \/ Scalar
    \/ NextEntry
    \/ \E text \in Text, kind \in Kind : AliasEntry(text, kind)
    \/ \E text \in Text, kind \in Kind : WriteKey(text, kind)
    \/ BeginBuiltEntry
    \/ \E identity \in Text : RecordBuilt(identity)
    \/ EndMap
    \/ EndSequence

Spec == Init /\ [][Next]_vars

-----------------------------------------------------------------------------
(* What the repeats should be, read off what was written. *)

SameKey(v, w) == v.text = w.text /\ (v.kind = w.kind \/ jsonNames)

(* The keys before the i-th of a history that it repeats. *)
Earlier(wrote, i) == {j \in 1..i-1 : SameKey(wrote[j], wrote[i])}

Repeat(wrote, i) ==
    LET first == wrote[CHOOSE j \in Earlier(wrote, i) : \A k \in Earlier(wrote, i) : j <= k]
    IN  [at |-> wrote[i].at, first |-> first.at, jsonOnly |-> first.kind # wrote[i].kind]

(* The scope of an ordered map is the count of those it is nested in. *)
ScopeOf(i) == Cardinality({j \in OrderedMaps : j <= i})

ScalarKeys(f) == {w \in ToSet(f.wrote) : w.kind # "built"}

(* Set.Record and Ledger.RecordOnce, RecordBuilt: at every moment each open*)
(* mapping has noted exactly the keys that repeat one it wrote before,     *)
(* each with the first place it was written and whether only the JSON name *)
(* is the same -- whichever of the scan and the index answered, and        *)
(* whatever mappings opened, spilled and closed in between.                *)
(* ExpectOrderedMap and OpenOrderedMap: the mark of an "!!omap" reaches the*)
(* sequence it stands on and no other, and that sequence has noted exactly *)
(* the entry keys an earlier entry wrote, through a mapping or an alias, at*)
(* the entry that repeats.  A repeat inside one entry is that mapping's.   *)
Across(wrote) ==
    {k \in DOMAIN wrote : /\ wrote[k].kind # "built" /\ Earlier(wrote, k) # {}
                          /\ \A j \in Earlier(wrote, k) : wrote[j].index # wrote[k].index}
RepeatsNoted ==
    /\ \A i \in Mappings : LET f == frames[i] IN
        f.dups = {Repeat(f.wrote, k) : k \in {j \in DOMAIN f.wrote : Earlier(f.wrote, j) # {}}}
    /\ \A i \in DOMAIN frames : frames[i].kind = "seq" =>
        LET wrote == frames[i].wrote
        IN  /\ frames[i].ordered <=> frames[i].tag
            /\ frames[i].ordered =>
                scopes[ScopeOf(i)].dups =
                    {[at |-> Repeat(wrote, k).at, first |-> Repeat(wrote, k).first,
                      jsonOnly |-> Repeat(wrote, k).jsonOnly, index |-> wrote[k].index]
                        : k \in Across(wrote)}

(* Ledger.checkStackTail, the probe "mapkey.stackTailIsOneMapping", and    *)
(* Set.Close: between a mapping's base and that of the next one in, the    *)
(* stack holds the keys that mapping wrote, each once, and the index names *)
(* keys of open mappings alone -- so neither the scan nor the index meets  *)
(* the keys of a nested mapping, or of one that closed at the same base.   *)
KeysAreTheirMappings ==
    /\ \A i \in Mappings :
        LET f == frames[i]
            inner == {frames[j].base : j \in {k \in Mappings : k > i}}
            end == IF inner = {} THEN Len(keys.entries) ELSE CHOOSE b \in inner : \A c \in inner : b <= c
            own == {keys.entries[k].at : k \in f.base+1 .. end}
        IN  own = {w.at : w \in ScalarKeys(f)} \ {d.at : d \in f.dups}
    /\ \A x \in keys.index : \E i \in Mappings :
        /\ frames[i].base = x.ref.base
        /\ \E w \in ScalarKeys(frames[i]) : /\ w.text = x.ref.text /\ w.at = x.at
                                            /\ x.ref.kind \in {w.kind, AnyKind}

(* Set.Holds, asked as a mapping is left, answers for a name the mapping   *)
(* wrote, of whatever kind, and for no other -- whether it spilled, and    *)
(* whatever an earlier mapping left of the index.  Under JSON's rule the   *)
(* code misses a mapping of exactly spillAt keys that none was recorded    *)
(* after: its keys are not in the index that is asked.                     *)
Leaving == Top.kind = "map" /\ Top.slot = "between"
Answers(text) == Holds(keys, Top.base, text, jsonNames)
WroteName(text) == \E w \in ScalarKeys(Top) : w.text = text
NotYetIndexed ==
    /\ jsonNames /\ keys.made /\ Len(keys.entries) - Top.base = SpillAt
    /\ \A x \in keys.index : x.ref.base # Top.base
HoldsWhatIsWritten ==
    Leaving => \A text \in Text :
        /\ Answers(text) => WroteName(text)
        /\ WroteName(text) /\ ~NotYetIndexed => Answers(text)
=============================================================================
