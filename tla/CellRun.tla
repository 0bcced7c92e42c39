------------------------------- MODULE CellRun ------------------------------
(***************************************************************************)
(* parser/arena/run.go: the cells the grouper builds its groups in, handed *)
(* out chunk by chunk and filled again once the tokens they stand for have *)
(* been released.                                                          *)
(*                                                                         *)
(* A cell is named by its chunk and its slot, and holds the sequence       *)
(* number of its token, which is all that tells two cells apart.  Chunks   *)
(* are numbered as they are allocated.  "full" is a set: the order of the  *)
(* chunks behind the one being filled only tells in which order those of   *)
(* one sweep go back, which is left open.                                  *)
(***************************************************************************)
EXTENDS Integers, Sequences, SequencesExt

CONSTANT CellsPerChunk  \* blockSize

NoCells == 0
EmptyChunk == [seqs |-> <<>>, checked |-> 0, unknown |-> FALSE]
NewRun == [chunks |-> <<>>, filling |-> NoCells, full |-> {}, free |-> <<>>]

MustAdvance(run) ==
    run.filling = NoCells \/ (run.filling # NoCells /\ Len(run.chunks[run.filling].seqs) = CellsPerChunk)

Retired(run) == run.full \cup ({run.filling} \ {NoCells})

(* advance: the chunk taken back last is filled first. *)
Advance(run) ==
    IF run.free # <<>>
    THEN [run EXCEPT !.full = Retired(run), !.filling = Last(run.free), !.free = Front(@),
                     !.chunks[Last(run.free)] = EmptyChunk]
    ELSE [run EXCEPT !.full = Retired(run), !.filling = Len(run.chunks) + 1,
                     !.chunks = Append(@, EmptyChunk)]

(* Take.  A token numbered 0 may be one that was never given a number, so  *)
(* its chunk stays.                                                        *)
Take(run, seq) ==
    LET r == IF MustAdvance(run) THEN Advance(run) ELSE run
    IN  [r EXCEPT !.chunks[r.filling].seqs = Append(@, seq),
                  !.chunks[r.filling].unknown = @ \/ seq = 0]

(* The cell Take has just handed out. *)
LastTaken(run) == [chunk |-> run.filling, slot |-> Len(run.chunks[run.filling].seqs)]

(* Broken: asks for the newest cell alone. *)
CursorOfNewest(chunk, dead) ==
    IF chunk.seqs # <<>> /\ Last(chunk.seqs) \in dead THEN Len(chunk.seqs) ELSE chunk.checked

(* finished: the cursor passes the cells that are done with, up to the     *)
(* first that is not.                                                      *)
Cursor(chunk, dead) ==
    CHOOSE i \in chunk.checked .. Len(chunk.seqs) :
        /\ \A j \in chunk.checked + 1 .. i : chunk.seqs[j] \in dead
        /\ i = Len(chunk.seqs) \/ (i < Len(chunk.seqs) /\ chunk.seqs[i+1] \notin dead)

Finished(chunk, dead) == ~chunk.unknown /\ Cursor(chunk, dead) = Len(chunk.seqs)

(* Release: every retired chunk is looked at, for tokens in dead.  A chunk *)
(* taken back is empty; what its cells hold is left in them until they are *)
(* handed out again.                                                       *)
Release(run, dead) ==
    LET done(c) == Finished(run.chunks[c], dead)
        swept(c) == IF run.chunks[c].unknown THEN run.chunks[c]
                    ELSE IF done(c) THEN EmptyChunk
                    ELSE [run.chunks[c] EXCEPT !.checked = Cursor(run.chunks[c], dead)]
        back == {c \in run.full : done(c)}
    IN  [run EXCEPT !.full = run.full \ back,
                    !.free = @ \o SetToSeq(back),
                    !.chunks = [c \in DOMAIN @ |-> IF c \in run.full THEN swept(c) ELSE @[c]]]

(* Recycle takes back every chunk. *)
Recycle(run) ==
    [run EXCEPT !.full = {}, !.filling = NoCells, !.free = @ \o SetToSeq(Retired(run)),
                !.chunks = [c \in DOMAIN @ |-> EmptyChunk]]

(* The chunks retired by the calls between two runs of cells. *)
RetiredBetween(run, later) == later.full \ run.full

(* The token a cell stands for, -1 where the cell was taken back. *)
TokenIn(run, cell) ==
    IF cell.chunk \in DOMAIN run.chunks /\ cell.slot <= Len(run.chunks[cell.chunk].seqs)
    THEN run.chunks[cell.chunk].seqs[cell.slot] ELSE -1
=============================================================================
