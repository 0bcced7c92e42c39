----------------------------- MODULE TokenArena -----------------------------
(***************************************************************************)
(* internal/tokenarena: the tokens of one parse, in chunks that are filled *)
(* again once the parse has finished with them.                            *)
(*                                                                         *)
(* A token is written as its own sequence number.  The lists live, free    *)
(* and saved are sets: live is kept in the order its chunks were added,    *)
(* which is the order of their bases, and which free chunk is taken next   *)
(* is left open.  The statistics and the generation counter, which only    *)
(* measurements read, are left out.                                        *)
(*                                                                         *)
(* run, since and handed record what callers were promised; no operation   *)
(* reads them except to know which calls a disciplined caller may make.    *)
(***************************************************************************)
EXTENDS Integers, FiniteSets

CONSTANTS
    ChunkSize,  \* tokens in a chunk
    Chunk,      \* the chunks memory may provide
    NoChunk,    \* the nil chunk
    Holder,     \* the callers that save a run
    MaxTokens,  \* bound: tokens added between two Recycles
    MaxPins     \* bound: pins held at once

ASSUME ChunkSizeAssumption == ChunkSize \in Nat \ {0}
ASSUME ChunkAssumption == IsFiniteSet(Chunk) /\ NoChunk \notin Chunk
ASSUME HolderAssumption == IsFiniteSet(Holder)
ASSUME BoundAssumption == MaxTokens \in Nat \ {0} /\ MaxPins \in Nat

VARIABLES
    live, free, saved,   \* the three lists
    head,                \* the chunk being written to
    base, pos,           \* first sequence number and tokens handed out
    saves, onSaved,      \* runs kept in the chunk; whether it stands on saved
    buf,                 \* the slots of each chunk
    byIndex,             \* finds the chunk in hand of a sequence number
    next, tail, frozen, released,
    run,                 \* history: what each holder has saved
    since,               \* history: the tail when the first pin was taken
    handed               \* history: the address Add returned for each token

lists == <<live, free, saved, head>>
chunks == <<base, pos, saves, onSaved, buf, byIndex>>
history == <<run, since, handed>>
vars == <<live, free, saved, head, base, pos, saves, onSaved, buf, byIndex,
          next, tail, frozen, released, run, since, handed>>

Token == 0 .. MaxTokens-1
Slot == 0 .. ChunkSize-1
NoToken == -1
Index == 0 .. MaxTokens \div ChunkSize
NoAddress == [chunk |-> NoChunk, slot |-> 0]

NoRun == [kind |-> "none", from |-> 0, to |-> 0]
Run == {NoRun} \cup [kind : {"run", "anchor"}, from : Token, to : Token]

-----------------------------------------------------------------------------
(* Looking tokens up. *)

InHand == live \cup saved

(* chunkOf: NoChunk where no chunk in hand holds s. *)
ChunkOf(s) ==
    LET c == byIndex[s \div ChunkSize]
    IN  IF c = NoChunk \/ s < base[c] \/ s >= base[c] + pos[c] THEN NoChunk ELSE c

Held == {s \in Token : ChunkOf(s) # NoChunk}

(* At: the token found by its sequence number. *)
At(s) == LET c == ChunkOf(s)
         IN  IF c = NoChunk THEN NoToken ELSE buf[c][s - base[c]]

(* What a caller reads through the address Add gave it. *)
Read(s) == IF handed[s] = NoAddress THEN NoToken
           ELSE buf[handed[s].chunk][handed[s].slot]

(* eachChunkIn: the chunks Save and Release visit. *)
ChunksIn(from, to) ==
    {byIndex[i] : i \in {j \in Index :
        /\ from \div ChunkSize <= j /\ j <= to \div ChunkSize
        /\ byIndex[j] # NoChunk
        /\ pos[byIndex[j]] > 0
        /\ from < base[byIndex[j]] + pos[byIndex[j]]
        /\ to >= base[byIndex[j]]}}

Kept(h) == IF run[h].kind = "none" THEN {} ELSE run[h].from .. run[h].to
Floor == IF frozen > 0 THEN since ELSE tail

-----------------------------------------------------------------------------
(* Moving chunks between the lists. *)

(* Broken: the counter is not moved. *)
FreeUncounted(C) ==
    /\ free' = free \cup C
    /\ byIndex' = [i \in Index |-> IF byIndex[i] \in C THEN NoChunk ELSE byIndex[i]]
    /\ UNCHANGED released

(* freeChunk, for each chunk of C: on the free list, and answering for     *)
(* nothing from here on.                                                   *)
FreeChunks(C) ==
    /\ free' = free \cup C
    /\ byIndex' = [i \in Index |->
           IF byIndex[i] \in C /\ base[byIndex[i]] \div ChunkSize = i
           THEN NoChunk ELSE byIndex[i]]
    /\ released' = released + Cardinality(C)

(* The chunks a sweep at tail t takes: those from the front of the tape up *)
(* to the first that is being written or still read.                       *)
Passed(t) == {c \in live : \A d \in live : base[d] <= base[c] =>
                               d # head /\ base[d] + pos[d] <= t}

(* Broken: the pins are not looked at. *)
SweepThroughPins(t, pins) ==
    LET keep == {c \in Passed(t) : saves[c] > 0}
    IN  /\ live' = live \ Passed(t)
        /\ saved' = saved \cup keep
        /\ onSaved' = [c \in Chunk |-> onSaved[c] \/ c \in keep]
        /\ FreeChunks(Passed(t) \ keep)

(* sweep, with the tail and the pins as the caller has just left them. *)
Sweep(t, pins) ==
    LET gone == IF pins > 0 THEN {} ELSE Passed(t)
        keep == {c \in gone : saves[c] > 0}
    IN  /\ live' = live \ gone
        /\ saved' = saved \cup keep
        /\ onSaved' = [c \in Chunk |-> onSaved[c] \/ c \in keep]
        /\ FreeChunks(gone \ keep)

(* grow takes c from the free list, or from memory when that is empty. *)
MayGrow(c) == IF free # {} THEN c \in free ELSE c \in Chunk \ (live \cup saved)

-----------------------------------------------------------------------------
(* The operations. *)

Init ==
    /\ live = {} /\ free = {} /\ saved = {}
    /\ head = NoChunk
    /\ base = [c \in Chunk |-> 0] /\ pos = [c \in Chunk |-> 0]
    /\ saves = [c \in Chunk |-> 0] /\ onSaved = [c \in Chunk |-> FALSE]
    /\ buf = [c \in Chunk |-> [i \in Slot |-> NoToken]]
    /\ byIndex = [i \in Index |-> NoChunk]
    /\ next = 0 /\ tail = 0 /\ frozen = 0 /\ released = 0
    /\ run = [h \in Holder |-> NoRun]
    /\ since = 0
    /\ handed = [s \in Token |-> NoAddress]

HeadFull == head = NoChunk \/ (head # NoChunk /\ pos[head] = ChunkSize)

(* Add, into the chunk in hand. *)
AddInHand ==
    /\ next < MaxTokens
    /\ ~HeadFull
    /\ buf' = [buf EXCEPT ![head][pos[head]] = next]
    /\ pos' = [pos EXCEPT ![head] = pos[head] + 1]
    /\ handed' = [handed EXCEPT ![next] = [chunk |-> head, slot |-> pos[head]]]
    /\ next' = next + 1
    /\ UNCHANGED <<lists, base, saves, onSaved, byIndex,
                   tail, frozen, released, run, since>>

(* Broken: a chunk from the free list keeps the saves it had. *)
AddGrowingStaleSaves(c) ==
    /\ next < MaxTokens /\ HeadFull /\ MayGrow(c)
    /\ free' = free \ {c} /\ live' = live \cup {c} /\ head' = c
    /\ base' = [base EXCEPT ![c] = next]
    /\ pos' = [pos EXCEPT ![c] = 1]
    /\ buf' = [buf EXCEPT ![c] = [i \in Slot |-> IF i = 0 THEN next ELSE NoToken]]
    /\ byIndex' = [byIndex EXCEPT ![next \div ChunkSize] = c]
    /\ handed' = [handed EXCEPT ![next] = [chunk |-> c, slot |-> 0]]
    /\ next' = next + 1
    /\ UNCHANGED <<saved, saves, onSaved, tail, frozen, released, run, since>>

(* Add where the chunk in hand is full: grow hands out c, cleared. *)
AddGrowing(c) ==
    /\ next < MaxTokens
    /\ HeadFull
    /\ MayGrow(c)
    /\ free' = free \ {c}
    /\ live' = live \cup {c}
    /\ head' = c
    /\ base' = [base EXCEPT ![c] = next]
    /\ pos' = [pos EXCEPT ![c] = 1]
    /\ saves' = [saves EXCEPT ![c] = 0]
    /\ onSaved' = [onSaved EXCEPT ![c] = FALSE]
    /\ buf' = [buf EXCEPT ![c] = [i \in Slot |-> IF i = 0 THEN next ELSE NoToken]]
    /\ byIndex' = [byIndex EXCEPT ![next \div ChunkSize] = c]
    /\ handed' = [handed EXCEPT ![next] = [chunk |-> c, slot |-> 0]]
    /\ next' = next + 1
    /\ UNCHANGED <<saved, tail, frozen, released, run, since>>

(* SetTail; the reader never passes what the scanner has given it. *)
SetTail(s) ==
    /\ s <= next
    /\ tail' = IF s > tail THEN s ELSE tail
    /\ Sweep(tail', frozen)
    /\ UNCHANGED <<head, base, pos, saves, buf, next, frozen, history>>

Pin ==
    /\ frozen < MaxPins
    /\ frozen' = frozen + 1
    /\ since' = IF frozen = 0 THEN tail ELSE since
    /\ UNCHANGED <<lists, chunks, next, tail, released, run, handed>>

(* Broken: a second Unpin for one Pin is not ignored. *)
UnpinUnmatched ==
    /\ frozen' = frozen - 1
    /\ since' = 0
    /\ Sweep(tail, frozen')
    /\ UNCHANGED <<head, base, pos, saves, buf, next, tail, run, handed>>

(* Broken: the tail is not let through. *)
UnpinNoSweep ==
    /\ frozen > 0
    /\ frozen' = frozen - 1
    /\ since' = IF frozen = 1 THEN 0 ELSE since
    /\ UNCHANGED <<lists, chunks, next, tail, released, run, handed>>

(* Unpin; with no pin held the code returns. *)
Unpin ==
    /\ frozen > 0
    /\ frozen' = frozen - 1
    /\ since' = IF frozen = 1 THEN 0 ELSE since
    /\ Sweep(tail, frozen')
    /\ UNCHANGED <<head, base, pos, saves, buf, next, tail, run, handed>>

(* Save counts the run once in every chunk it visits. *)
SaveRun(from, to) ==
    saves' = [c \in Chunk |-> IF c \in ChunksIn(from, to) THEN saves[c] + 1 ELSE saves[c]]

(* A run saved and given back on its own, as holdRun does for the token    *)
(* that opens a collection: it is on the tape and still held.              *)
HoldRun(h, from, to) ==
    /\ run[h] = NoRun
    /\ from <= to /\ to < next /\ from .. to \subseteq Held
    /\ SaveRun(from, to)
    /\ run' = [run EXCEPT ![h] = [kind |-> "run", from |-> from, to |-> to]]
    /\ UNCHANGED <<lists, base, pos, onSaved, buf, byIndex,
                   next, tail, frozen, released, since, handed>>

(* A run saved up to the end of the tape, as closeAnchor does where no     *)
(* token follows: "to" is one past the last token, and what is kept ends   *)
(* with the tape.  Such a run is given back by ReleaseAll alone.           *)
SaveAnchor(h, from, to) ==
    /\ run[h] = NoRun
    /\ from <= to /\ from < next /\ to <= next /\ {s \in from .. to : s < next} \subseteq Held
    /\ SaveRun(from, to)
    /\ run' = [run EXCEPT ![h] = [kind |-> "anchor", from |-> from,
                                  to |-> IF to < next THEN to ELSE next - 1]]
    /\ UNCHANGED <<lists, base, pos, onSaved, buf, byIndex,
                   next, tail, frozen, released, since, handed>>

(* Broken: the first of two releases lets the chunk go. *)
ReleaseOnFirst(h) ==
    LET visited == {c \in ChunksIn(run[h].from, run[h].to) : saves[c] > 0}
        freed == {c \in visited : onSaved[c]}
    IN  /\ run[h].kind = "run"
        /\ saves' = [c \in Chunk |-> IF c \in visited THEN saves[c] - 1 ELSE saves[c]]
        /\ saved' = saved \ freed
        /\ onSaved' = [c \in Chunk |-> onSaved[c] /\ c \notin freed]
        /\ FreeChunks(freed)
        /\ run' = [run EXCEPT ![h] = NoRun]
        /\ UNCHANGED <<live, head, base, pos, buf, next, tail, frozen, since, handed>>

(* Release of one run: each chunk loses a save, and joins the free list    *)
(* with its last one if the tail has already passed it.                    *)
Release(h) ==
    LET visited == {c \in ChunksIn(run[h].from, run[h].to) : saves[c] > 0}
        freed == {c \in visited : saves[c] = 1 /\ onSaved[c]}
    IN  /\ run[h].kind = "run"
        /\ saves' = [c \in Chunk |-> IF c \in visited THEN saves[c] - 1 ELSE saves[c]]
        /\ saved' = saved \ freed
        /\ onSaved' = [c \in Chunk |-> onSaved[c] /\ c \notin freed]
        /\ FreeChunks(freed)
        /\ run' = [run EXCEPT ![h] = NoRun]
        /\ UNCHANGED <<live, head, base, pos, buf, next, tail, frozen, since, handed>>

ReleaseAll ==
    /\ saved' = {}
    /\ saves' = [c \in Chunk |-> IF c \in InHand THEN 0 ELSE saves[c]]
    /\ onSaved' = [c \in Chunk |-> onSaved[c] /\ c \notin saved]
    /\ FreeChunks(saved)
    /\ run' = [h \in Holder |-> NoRun]
    /\ UNCHANGED <<live, head, base, pos, buf, next, tail, frozen, since, handed>>

(* Broken: the index is not cleared. *)
EmptyTapeStaleIndex ==
    /\ live' = {} /\ saved' = {} /\ head' = NoChunk
    /\ next' = 0 /\ tail' = 0 /\ frozen' = 0 /\ released' = 0
    /\ run' = [h \in Holder |-> NoRun]
    /\ since' = 0
    /\ handed' = [s \in Token |-> NoAddress]
    /\ UNCHANGED byIndex

(* What Recycle and Reset both do to the tape itself. *)
EmptyTape ==
    /\ live' = {} /\ saved' = {} /\ head' = NoChunk
    /\ byIndex' = [i \in Index |-> NoChunk]
    /\ next' = 0 /\ tail' = 0 /\ frozen' = 0 /\ released' = 0
    /\ run' = [h \in Holder |-> NoRun]
    /\ since' = 0
    /\ handed' = [s \in Token |-> NoAddress]

(* Recycle keeps every chunk, with its saves and its contents as they are. *)
Recycle ==
    /\ EmptyTape
    /\ free' = free \cup InHand
    /\ onSaved' = [c \in Chunk |-> onSaved[c] /\ c \notin InHand]
    /\ UNCHANGED <<base, pos, saves, buf>>

(* Reset gives every chunk back to the collector. *)
Reset ==
    /\ EmptyTape
    /\ free' = {}
    /\ base' = [c \in Chunk |-> 0] /\ pos' = [c \in Chunk |-> 0]
    /\ saves' = [c \in Chunk |-> 0] /\ onSaved' = [c \in Chunk |-> FALSE]
    /\ buf' = [c \in Chunk |-> [i \in Slot |-> NoToken]]

Next ==
    \/ AddInHand
    \/ \E c \in Chunk : AddGrowing(c)
    \/ \E s \in 0 .. MaxTokens : SetTail(s)
    \/ Pin
    \/ Unpin
    \/ \E h \in Holder, from, to \in Token : HoldRun(h, from, to)
    \/ \E h \in Holder, from \in Token, to \in 0 .. MaxTokens : SaveAnchor(h, from, to)
    \/ \E h \in Holder : Release(h)
    \/ ReleaseAll
    \/ Recycle
    \/ Reset

Spec == Init /\ [][Next]_vars

-----------------------------------------------------------------------------
(* Properties. *)

(* Types, and the shape every list operation keeps. *)
TypeOK ==
    /\ live \subseteq Chunk /\ free \subseteq Chunk /\ saved \subseteq Chunk
    /\ head \in Chunk \cup {NoChunk}
    /\ base \in [Chunk -> Nat]
    /\ pos \in [Chunk -> 0 .. ChunkSize]
    /\ saves \in [Chunk -> Nat]
    /\ onSaved \in [Chunk -> BOOLEAN]
    /\ buf \in [Chunk -> [Slot -> Token \cup {NoToken}]]
    /\ byIndex \in [Index -> Chunk \cup {NoChunk}]
    /\ next \in 0 .. MaxTokens /\ tail \in 0 .. MaxTokens
    /\ frozen \in 0 .. MaxPins /\ released \in Nat
    /\ run \in [Holder -> Run]
    /\ since \in 0 .. MaxTokens
    /\ handed \in [Token -> {NoAddress} \cup [chunk : Chunk, slot : Slot]]

(* A token the parse has not finished with, or had not finished with when  *)
(* the first of the pins still held was taken, reads back through the      *)
(* address Add gave for it, whatever was released meanwhile (SetTail, Pin, *)
(* Unpin and sweep).                                                       *)
FloorReadable == \A s \in Floor .. next-1 : s \in Held /\ Read(s) = s

(* A token of a saved run reads back through its address until that run is *)
(* given back, whoever else saves and releases the chunks it shares (Save, *)
(* Release and ReleaseAll).                                                *)
RunReadable == \A h \in Holder : \A s \in Kept(h) : s \in Held /\ Read(s) = s

(* Looking a token up by its number and reading its address agree for      *)
(* every token in hand: chunkOf's division finds the chunk Add filled (At, *)
(* index, grow).                                                           *)
HeldReads == \A s \in Held : s < next /\ At(s) = s /\ Read(s) = s

(* A chunk counts exactly the outstanding runs that touch it, so no caller *)
(* gives back the save of another (Save, Release, eachChunkIn).            *)
SavesCounted ==
    \A c \in InHand : saves[c] =
        Cardinality({h \in Holder : Kept(h) \cap base[c] .. (base[c]+pos[c]-1) # {}})

(* Recycling keeps up: a chunk stands on saved only while a run needs it   *)
(* and, with no pin held, at most one chunk behind the tail is left on the *)
(* tape, the one that was being written at the last sweep (sweep, Release, *)
(* Unpin).                                                                 *)
NothingLeaks ==
    /\ \A c \in saved : saves[c] > 0 /\ onSaved[c]
    /\ frozen = 0 => Cardinality({c \in live \ {head} : base[c] + pos[c] <= tail}) <= 1

(* The chunks implement the tape the parser was promised: no call loses a  *)
(* token something still asks for, none brings a lost token back, and none *)
(* loses one without moving the counter Released returns.                  *)
Tape == INSTANCE TokenTape WITH held <- Held
ImplementsTape == Tape!TapeSpec
=============================================================================
