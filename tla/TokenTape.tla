----------------------------- MODULE TokenTape -----------------------------
(***************************************************************************)
(* What the token arena of internal/tokenarena promises the parser, with   *)
(* the chunks left out.  A token is known by its sequence number; "held"   *)
(* is the set of tokens that can still be read through the address Add     *)
(* gave for them.                                                          *)
(*                                                                         *)
(* The promise is one-sided.  A token is kept while something asks for it: *)
(* it is at or above the tail, a pin was taken before the tail passed it,  *)
(* or a saved run covers it.  A token nothing asks for may go at any call  *)
(* that gives something back, and is never resurrected.                    *)
(***************************************************************************)
EXTENDS Integers

CONSTANTS
    Holder,     \* the callers that save a run: an open collection, an anchor
    MaxTokens,  \* bound: tokens added between two Recycles
    MaxPins     \* bound: pins held at once

VARIABLES
    next,      \* the sequence number the next token will take
    held,      \* the tokens that can still be read
    tail,      \* below it the parse has finished reading
    frozen,    \* how many pins are held
    since,     \* the tail as it stood when the first of those pins was taken
    run,       \* the run of tokens each holder has saved
    released   \* the counter a caller compares to learn that nothing died

tapeVars == <<next, held, tail, frozen, since, run, released>>

NoRun == [kind |-> "none", from |-> 0, to |-> 0]

(* "run" is given back on its own; "anchor" stays until ReleaseAll. *)
Run == {NoRun} \cup
       [kind : {"run", "anchor"}, from : 0 .. MaxTokens-1, to : 0 .. MaxTokens-1]

Kept(h) == IF run[h].kind = "none" THEN {} ELSE run[h].from .. run[h].to

(* Below the floor nothing but a saved run keeps a token. *)
Floor == IF frozen > 0 THEN since ELSE tail

Promised == (Floor .. next-1) \cup UNION {Kept(h) : h \in Holder}

(* A call that gives something back may lose what is no longer promised,   *)
(* and says so by moving the released counter.                             *)
Forget == /\ held' \subseteq held
          /\ Promised' \subseteq held'
          /\ released' >= released
          /\ held' # held => released' > released

Lose == UNCHANGED <<held, released>>

TapeInit == /\ next = 0 /\ held = {} /\ tail = 0 /\ frozen = 0 /\ since = 0
            /\ run = [h \in Holder |-> NoRun] /\ released = 0

(* Adding a token never costs another one. *)
TapeAdd == /\ next < MaxTokens
           /\ next' = next + 1
           /\ held' = held \cup {next}
           /\ UNCHANGED <<tail, frozen, since, run, released>>

TapeSetTail(s) == /\ tail' = IF s > tail THEN s ELSE tail
                  /\ UNCHANGED <<next, frozen, since, run>>
                  /\ IF frozen > 0 THEN Lose ELSE Forget

TapePin == /\ frozen < MaxPins
           /\ frozen' = frozen + 1
           /\ since' = IF frozen = 0 THEN tail ELSE since
           /\ UNCHANGED <<next, tail, run>>
           /\ Lose

TapeUnpin == /\ frozen > 0
             /\ frozen' = frozen - 1
             /\ since' = IF frozen = 1 THEN 0 ELSE since
             /\ UNCHANGED <<next, tail, run>>
             /\ Forget

(* Only what is held can be kept. *)
TapeSave(h, kind, from, to) ==
    /\ run[h] = NoRun
    /\ from <= to /\ from .. to \subseteq held
    /\ run' = [run EXCEPT ![h] = [kind |-> kind, from |-> from, to |-> to]]
    /\ UNCHANGED <<next, tail, frozen, since>>
    /\ Lose

TapeRelease(h) == /\ run[h].kind = "run"
                  /\ run' = [run EXCEPT ![h] = NoRun]
                  /\ UNCHANGED <<next, tail, frozen, since>>
                  /\ Forget

TapeReleaseAll == /\ run' = [h \in Holder |-> NoRun]
                  /\ UNCHANGED <<next, tail, frozen, since>>
                  /\ Forget

(* Recycle and Reset both leave an empty tape. *)
TapeEmpty == /\ next' = 0 /\ held' = {} /\ tail' = 0 /\ frozen' = 0 /\ since' = 0
             /\ run' = [h \in Holder |-> NoRun] /\ released' = 0

TapeNext ==
    \/ TapeAdd
    \/ \E s \in 0 .. MaxTokens : TapeSetTail(s)
    \/ TapePin
    \/ TapeUnpin
    \/ \E h \in Holder, kind \in {"run", "anchor"},
          from \in 0 .. MaxTokens-1, to \in 0 .. MaxTokens-1 :
          TapeSave(h, kind, from, to)
    \/ \E h \in Holder : TapeRelease(h)
    \/ TapeReleaseAll
    \/ TapeEmpty

TapeSpec == TapeInit /\ [][TapeNext]_tapeVars
=============================================================================
