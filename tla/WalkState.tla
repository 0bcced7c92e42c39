------------------------------ MODULE WalkState ------------------------------
(***************************************************************************)
(* parser/walk.go: what Parser.Walk hands to its visitor.                  *)
(*                                                                         *)
(* The descent calls enter and leave around a node that encloses others    *)
(* and hand for one that does not; a visitor may decline what is inside a  *)
(* node, ask for it whole, fail, or stop.  A walk is a record:             *)
(*   in, key   the nodes handed over and still open, and which are keys    *)
(*   keyNext   the next node handed over is a key                          *)
(*   skip      levels below a node the visitor declined                    *)
(*   keeping   the node declined is to be handed over whole                *)
(*   quiet     reads running inside a node that is handed over afterwards  *)
(*   failed, stopped   the visitor answered with an error, or StopWalk     *)
(* "told" is history: the key mark of the latest call, reported and right. *)
(* "declined" too: the visitor has skipped or kept a node.                 *)
(***************************************************************************)
EXTENDS Integers, Sequences, SequencesExt

NewWalk == [in |-> <<>>, key |-> <<>>, keyNext |-> FALSE, skip |-> 0, keeping |-> FALSE,
            quiet |-> 0, failed |-> FALSE, stopped |-> FALSE,
            told |-> [reported |-> FALSE, right |-> FALSE], declined |-> FALSE]

Done(w) == w.failed \/ w.stopped

(* Whether enter or hand reaches the visitor. *)
Calls(w) == w.skip = 0 /\ w.quiet = 0 /\ ~Done(w)

EnterAnswers == {"nil", "skip", "keep", "fail", "stop"}
LeaveAnswers == {"nil", "fail", "stop"}

(* What a visitor may answer, where it is called at all. *)
OnEnter(w) == IF Calls(w) THEN EnterAnswers ELSE {"nil"}
OnHand(w) == IF Calls(w) THEN LeaveAnswers ELSE {"nil"}
OnLeave(w) == IF ~Done(w) /\ (w.skip = 0 \/ (w.skip = 1 /\ w.keeping)) THEN LeaveAnswers ELSE {"nil"}

(* fail: the first error, or StopWalk. *)
Answered(w, answer) ==
    [w EXCEPT !.failed = @ \/ answer = "fail", !.stopped = @ \/ answer = "stop"]

(* enterAs, for a node that the descent reads as a key or not. *)
Enter(w, kind, announced, isKey, answer) ==
    LET key == announced \/ w.keyNext
        asked == [w EXCEPT !.keyNext = FALSE, !.told = [reported |-> key, right |-> isKey],
                           !.skip = IF answer \in {"nil", "stop"} THEN 0 ELSE 1,
                           !.keeping = (answer = "keep"),
                           !.declined = @ \/ answer \in {"skip", "keep"}]
    IN  IF ~Calls(w) THEN [w EXCEPT !.skip = @ + 1]
        ELSE IF answer \in {"nil", "keep"}
             THEN [asked EXCEPT !.in = Append(@, kind), !.key = Append(@, key)]
             ELSE Answered(asked, answer)

(* Broken: the end of a kept node is taken for the end of a declined one.  *)
LeaveDropsKept(w, answer) ==
    IF w.skip > 0 THEN [w EXCEPT !.skip = @ - 1]
    ELSE Answered([w EXCEPT !.in = Front(@), !.key = Front(@), !.keeping = FALSE], answer)

(* leave. *)
Leave(w, answer) ==
    IF w.skip > 1 \/ (w.skip = 1 /\ ~w.keeping) THEN [w EXCEPT !.skip = @ - 1]
    ELSE Answered([w EXCEPT !.skip = 0, !.keeping = FALSE, !.in = Front(@), !.key = Front(@)],
                  answer)

(* handAs: Enter and Leave at once. *)
Hand(w, announced, isKey, answer) ==
    IF ~Calls(w) THEN w
    ELSE Answered([w EXCEPT !.keyNext = FALSE,
                            !.told = [reported |-> announced \/ w.keyNext, right |-> isKey]], answer)

(* markKey, and handKey after the key is read. *)
MarkKey(w) == [w EXCEPT !.keyNext = TRUE]

(* Broken: hands every key over, however it was read. *)
HandsEveryKey(w) == TRUE

(* Nothing was handed over since markKey. *)
HandsKey(w) == w.keyNext

HandKey(w, answer) == IF HandsKey(w) THEN Hand(w, TRUE, TRUE, answer) ELSE w

(* quiet, and the func it returns. *)
Quiet(w) == [w EXCEPT !.quiet = @ + 1]
Loud(w) == [w EXCEPT !.quiet = @ - 1]
=============================================================================
