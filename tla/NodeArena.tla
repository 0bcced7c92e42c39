------------------------------ MODULE NodeArena ------------------------------
(***************************************************************************)
(* ast.Arena: the blocks a parse takes its nodes from, and the marks a     *)
(* walk rewinds them to.                                                   *)
(*                                                                         *)
(* A block is a stack of cells.  Where it stands is kept in the code as a  *)
(* chunk and a place in it; only the order of two such places matters, so  *)
(* it is the number of cells in use here.  A cell is the number of the     *)
(* node that stands in it.                                                 *)
(***************************************************************************)
EXTENDS Integers, Sequences, SequencesExt

CONSTANT Types  \* the kinds of node an arena has a block for

NewArena == [cells |-> [t \in Types |-> <<>>], marks |-> <<>>]

(* block.next: the next cell of the block, for node id. *)
TakeCell(arena, type, id) == [arena EXCEPT !.cells[type] = Append(@, id)]

(* Arena.Mark. *)
Standing(arena) == [t \in Types |-> Len(arena.cells[t])]

(* Arena.Rewind: the cells above the mark are dead and handed out again. *)
Rewind(arena, mark) ==
    [arena EXCEPT !.cells = [t \in Types |-> SubSeq(arena.cells[t], 1, mark[t])]]

(* Arena.Push and Arena.Pop. *)
Push(arena) == [arena EXCEPT !.marks = Append(@, Standing(arena))]
Pop(arena) ==
    IF arena.marks = <<>> THEN arena
    ELSE Rewind([arena EXCEPT !.marks = Front(@)], Last(arena.marks))

(* laterMark, block by block. *)
Raise(mark, to) == [t \in Types |-> IF to[t] > mark[t] THEN to[t] ELSE mark[t]]

(* Broken: raises the innermost mark alone. *)
CommitInnermost(arena) ==
    IF arena.marks = <<>> THEN arena
    ELSE [arena EXCEPT !.marks[Len(arena.marks)] = Raise(@, Standing(arena))]

(* Arena.Commit: no mark outstanding rewinds past what is in use now. *)
Commit(arena) ==
    [arena EXCEPT !.marks = [i \in DOMAIN @ |-> Raise(@[i], Standing(arena))]]

(* Broken: keeps the marks of the parse that stopped. *)
ResetKeepsMarks(arena) == [NewArena EXCEPT !.marks = arena.marks]

(* Arena.Reset: every cell is handed out again, and no mark outlives it. *)
Reset(arena) == [Rewind(arena, [t \in Types |-> 0]) EXCEPT !.marks = <<>>]

(* The nodes whose cells still hold them. *)
LiveNodes(arena) == UNION {ToSet(arena.cells[t]) : t \in Types}
=============================================================================
