------------------------------ MODULE WalkTape ------------------------------
(***************************************************************************)
(* A walk over one tape: the scanner puts tokens on it, the grouper builds *)
(* a cell over each key once its ':' arrives, and the descent moves the    *)
(* tail behind what it has read while the mappings and entries it is still *)
(* inside hold the chunk they began in.                                    *)
(*                                                                         *)
(* Composes TokenArena with CellRun.  What a token is, is left to the      *)
(* scanner: a ':' makes a key of the token before it, and every other      *)
(* token is a value.  A level of the descent is one holdRun: a mapping     *)
(* holds its first key, and under it each entry its own.  Kept nodes and    *)
(* anchors pin and save through TokenArena's own operations, which only    *)
(* make it let go of less, and are left out.                               *)
(***************************************************************************)
EXTENDS TokenArena, Sequences

CONSTANTS
    CellsPerChunk,
    Ahead,      \* bound: tokens drawn past the unit asked for
    MaxStreams  \* bound: streams read one after another

ASSUME CellsAssumption == CellsPerChunk \in Nat \ {0}

Cell == INSTANCE CellRun

VARIABLES
    cells,    \* the leaves: a cell for each token the grouper makes
    sweptAt,  \* what the tape had released when they were last swept
    kind,     \* what each token has turned out to be
    cellOf,   \* the cell made for each key
    at,       \* the unit the body stands at
    open,     \* what the descent is inside, outermost first
    late,     \* history: chunks of cells retired since the last sweep
    streams   \* history: streams read so far, this one included

walkVars == <<vars, cells, sweptAt, kind, cellOf, at, open, late, streams>>
grouper == <<cells, sweptAt, kind, cellOf, late, streams>>

NoCell == [chunk |-> 0, slot |-> 0]
Kind == {"value", "key", "colon", "absent"}

IsKey(s) == kind[s] \in {"key", "absent"}
(* A unit is handed on once the token after it has told what it is. *)
Ready == at + 1 < next \/ (at < next /\ next = MaxTokens)
UnitEnd(s) == IF kind[s] = "key" THEN s + 2 ELSE s + 1

(* TapeToken.Seq: the null that stands for an absent key has no number. *)
SeqOf(s) == IF kind[s] = "absent" THEN 0 ELSE s

Inside(what) == open # <<>> /\ open[Len(open)].what = what
Top == open[Len(open)]

-----------------------------------------------------------------------------
WalkInit ==
    /\ Init
    /\ cells = Cell!NewRun
    /\ sweptAt = 0
    /\ kind = [s \in Token |-> "value"]
    /\ cellOf = [s \in Token |-> NoCell]
    /\ at = 0
    /\ open = <<>>
    /\ late = {}
    /\ streams = 1

(* The reader draws a token when the descent asks for a unit that is not   *)
(* settled yet, so it is ahead of it by what the windows hold.             *)
Add == /\ next - at < Ahead
       /\ AddInHand \/ \E c \in Chunk : AddGrowing(c)

(* A token that is no ':'. *)
Scan == Add /\ UNCHANGED <<grouper, at, open>>

(* A ':' reaches the window, and keyBefore takes a cell for the key before *)
(* it, which is still to be handed on.                                     *)
ScanColon ==
    /\ next > 0 /\ next - 1 >= at
    /\ kind[next - 1] = "value"
    /\ Add
    /\ cells' = Cell!Take(cells, next - 1)
    /\ cellOf' = [cellOf EXCEPT ![next - 1] = Cell!LastTaken(cells')]
    /\ kind' = [kind EXCEPT ![next - 1] = "key", ![next] = "colon"]
    /\ late' = late \cup Cell!RetiredBetween(cells, cells')
    /\ UNCHANGED <<sweptAt, at, open, streams>>

(* A ':' with no key before it: the null gets a cell of the ':', and the   *)
(* token of the group, which asks the null for its number, one of none.    *)
ScanAbsentKey ==
    /\ Add
    /\ LET null == Cell!Take(cells, next)
       IN  /\ cells' = Cell!Take(null, 0)
           /\ cellOf' = [cellOf EXCEPT ![next] = Cell!LastTaken(null)]
    /\ kind' = [kind EXCEPT ![next] = "absent"]
    /\ late' = late \cup Cell!RetiredBetween(cells, cells')
    /\ UNCHANGED <<sweptAt, at, open, streams>>

(* holdRun: a token the tape no longer has is not held. *)
HoldLevel(s) ==
    /\ Len(open) + 1 \in Holder
    /\ IF s \in Held THEN HoldRun(Len(open) + 1, s, s) ELSE UNCHANGED vars

(* parseMap holds the chunk of its first key. *)
OpenMapping ==
    /\ Ready /\ IsKey(at) /\ ~Inside("map")
    /\ HoldLevel(SeqOf(at))
    /\ open' = Append(open, [what |-> "map", key |-> at])
    /\ UNCHANGED <<grouper, at>>

(* parseMapEntry holds its own, reads the key and goes on to the value. *)
OpenEntry ==
    /\ Ready /\ IsKey(at) /\ Inside("map")
    /\ HoldLevel(SeqOf(at))
    /\ open' = Append(open, [what |-> "entry", key |-> at])
    /\ at' = UnitEnd(at)
    /\ UNCHANGED grouper

(* A scalar is read where a value may stand. *)
ReadValue ==
    /\ Ready /\ ~IsKey(at) /\ ~Inside("map")
    /\ at' = UnitEnd(at)
    /\ UNCHANGED <<vars, grouper, open>>

(* Broken: asks the tape before its tail has moved. *)
SweepCellsEarly ==
    IF released' = sweptAt THEN UNCHANGED <<cells, sweptAt, late>>
    ELSE /\ sweptAt' = released'
         /\ cells' = Cell!Release(cells, {s \in Token : ChunkOf(s) = NoChunk})
         /\ late' = {}

(* Grouper.Release, with releasedByTape for its test. *)
SweepCells ==
    IF released' = sweptAt THEN UNCHANGED <<cells, sweptAt, late>>
    ELSE /\ sweptAt' = released'
         /\ cells' = Cell!Release(cells, {s \in Token : ChunkOf(s)' = NoChunk})
         /\ late' = {}

(* readTo, as a node is handed over. *)
ReadTo ==
    /\ Ready
    /\ SetTail(SeqOf(at))
    /\ SweepCells
    /\ UNCHANGED <<kind, cellOf, at, open, streams>>

(* parseMapEntry and parseMap return: the run they held goes back. *)
Close ==
    /\ open # <<>>
    /\ Top.what = "entry" => at >= UnitEnd(Top.key)
    /\ Top.what = "map" => at > Top.key
    /\ IF run[Len(open)] = NoRun THEN UNCHANGED vars ELSE Release(Len(open))
    /\ open' = SubSeq(open, 1, Len(open) - 1)
    /\ UNCHANGED <<grouper, at>>

(* The parser is given another stream, whether or not this one was read to *)
(* its end: the tape and the cells are taken back whole.                   *)
NewStream ==
    /\ next > 0 /\ streams < MaxStreams
    /\ streams' = streams + 1
    /\ Recycle
    /\ cells' = Cell!Recycle(cells)
    /\ sweptAt' = 0
    /\ kind' = [s \in Token |-> "value"]
    /\ cellOf' = [s \in Token |-> NoCell]
    /\ at' = 0 /\ open' = <<>> /\ late' = {}

WalkNext ==
    \/ Scan
    \/ ScanColon
    \/ ScanAbsentKey
    \/ OpenMapping
    \/ OpenEntry
    \/ ReadValue
    \/ ReadTo
    \/ Close
    \/ NewStream

WalkSpec == WalkInit /\ [][WalkNext]_walkVars

-----------------------------------------------------------------------------
(* Properties. *)

(* The keys something will still read: those on their way to the descent,  *)
(* and those of the entries and mappings it is inside.  An absent key has  *)
(* no number to hold its chunk by, and is promised nothing here.           *)
StillRead == {s \in Token :
    /\ kind[s] = "key"
    /\ s >= at \/ \E i \in DOMAIN open : open[i].key = s}

(* The cell of a key stands for that key for as long as the key is still   *)
(* to be read, however many chunks of cells went back meanwhile: the cells *)
(* of one chunk do not die in the order they were taken, and none is taken *)
(* back before the last of them (Run.Release, finished, holdRun).          *)
CellsStand == \A s \in StillRead : Cell!TokenIn(cells, cellOf[s]) = s

Done(c) == /\ ~cells.chunks[c].unknown
           /\ \A i \in DOMAIN cells.chunks[c].seqs : cells.chunks[c].seqs[i] \notin Held

(* Cells come back as fast as the tape lets go of their tokens: once swept *)
(* at the count the tape has reached, a retired chunk that is done with    *)
(* was still being filled at that sweep, and there is at most one.         *)
(* Skipping the sweep while the count stands still loses nothing           *)
(* (Grouper.Release, sweptAt, Run.Release).                                *)
CellsComeBack ==
    sweptAt = released =>
        LET waiting == {c \in cells.full : Done(c)}
        IN  Cardinality(waiting) <= 1 /\ waiting \subseteq late
=============================================================================
