------------------------------- MODULE Descent -------------------------------
(***************************************************************************)
(* The parser's descent on a walk: Parser.Walk, which hands each node to a *)
(* visitor as it is read and reuses the cells of what the visitor has      *)
(* left, over the anchors of each document.                                *)
(*                                                                         *)
(* The frames are the calls the descent is inside.  "slot" is what a frame *)
(* does next: a collection is "between" its entries, at an entry's "key"   *)
(* or "value", or at the "end" of it; an anchor, a tag, a "?", a document  *)
(* and a node read under quiet wait for their "node" and are then "done".  *)
(* Which node comes next, where the document is refused, and what the      *)
(* visitor answers are left open.  A node is the number of its             *)
(* allocation; anchors, tags, "?" keys and aliases take no cell.           *)
(***************************************************************************)
EXTENDS NodeArena, WalkState, AnchorTable, FiniteSets

CONSTANTS
    MaxNodes,   \* bound: nodes built in one stream
    MaxDepth,   \* bound: nesting
    MaxDecls,   \* bound: anchors in one document
    MaxAliases, \* bound: aliases in one document
    MaxDocs     \* bound: documents in one stream

ASSUME DescentAssumption ==
    /\ Types = {"scalar", "collection", "entry"}
    /\ {MaxNodes, MaxDepth, MaxDecls, MaxAliases, MaxDocs} \subseteq Nat

VARIABLES
    frames,     \* the calls being made, innermost last; a document at the bottom
    walk,       \* walkState: see WalkState
    arena,      \* the node arena: see NodeArena
    table,      \* the anchor table: see AnchorTable
    readingKey, \* descentState.readingKey
    pins,       \* pins the descent holds on the token tape
    refused,    \* the document was refused, and the calls are returning
    nodes,      \* how many nodes were built
    decls,      \* history: the document's anchors, in the order written
    aliases     \* history: the document's aliases, and what each was pointed at

vars == <<frames, walk, arena, table, readingKey, pins, refused, nodes, decls, aliases>>

-----------------------------------------------------------------------------
Frame == [kind |-> "document", slot |-> "node",
          id |-> 0,             \* the node's cell, for a collection
          first |-> 0,          \* how many nodes there were before it
          entered |-> FALSE,    \* the visitor has its Enter and is due its Leave
          inKey |-> FALSE,      \* read between descent.enterKey and its undoing
          pushed |-> FALSE,     \* markNodes pushed a mark for the entry being read
          decl |-> 0,           \* the anchor's declaration; for a tag, the anchor's under it
          key |-> [from |-> 0, to |-> 0],   \* the nodes of the entry's key
          alone |-> FALSE,      \* the key is a flow mapping's, with no value written
          told |-> 0,           \* how often the entry's key was handed over
          doc |-> 0]

Top == Last(frames)
Under == frames[Len(frames)-1]
Reading == ~refused /\ ~walk.stopped

IsCollection(f) == f.kind \in {"mapping", "sequence"}
AtKey == Top.slot = "key"
AtNode == Reading /\ Top.slot \in {"node", "key", "value"}

(* A key with no value written gets the implicit null. *)
Written == AtNode /\ ~(Top.slot = "value" /\ Top.alone)

(* keepsNothing: whether a walk may reuse the cells it has just filled. *)
KeepsNothing == readingKey = 0 /\ table.open = <<>> /\ ~walk.keeping

(* The frame once the node it waited for is read; node numbers up to n. *)
Read(f, n) ==
    CASE f.slot = "key" -> [f EXCEPT !.slot = "value", !.key.to = n]
      [] f.slot = "value" -> [f EXCEPT !.slot = "end"]
      [] OTHER -> [f EXCEPT !.slot = "done"]

WithTop(f) == [frames EXCEPT ![Len(frames)] = f]

(* The frames once Top returned, given its caller after the call. *)
Returned(caller) == Append(SubSeq(frames, 1, Len(frames)-2), caller)

(* One more node of the type. *)
Build(type) ==
    /\ nodes < MaxNodes
    /\ nodes' = nodes + 1
    /\ arena' = TakeCell(arena, type, nodes + 1)

Init ==
    /\ frames = <<Frame>> /\ walk = NewWalk /\ arena = NewArena /\ table = NewTable
    /\ readingKey = 0 /\ pins = 0 /\ refused = FALSE
    /\ nodes = 0 /\ decls = <<>> /\ aliases = <<>>

-----------------------------------------------------------------------------
(* Nodes that enclose nothing. *)

(* How a leaf reaches the visitor: a key by handKey, any other by          *)
(* parseToken or handNull.  What parseTagValue reads with parseScalarValue *)
(* or parseLiteral itself does not reach it: the answer is "unasked".      *)
HandLeaf(w, f, answer) ==
    IF f.slot = "key" THEN HandKey(w, answer)
    ELSE IF answer = "unasked" THEN w
    ELSE Hand(w, FALSE, FALSE, answer)

AnswersLeaf(w, f) ==
    OnHand(w) \cup (IF f.kind = "tag" /\ f.slot = "node" THEN {"unasked"} ELSE {})

(* Once more, where the key reached the visitor. *)
Told(f, called) == IF f.slot = "key" /\ called THEN [f EXCEPT !.told = @ + 1] ELSE f

(* parseScalarValue, the implicit null, and a scalar key. *)
Scalar ==
    /\ AtNode
    /\ Build("scalar")
    /\ \E answer \in AnswersLeaf(walk, Top) : walk' = HandLeaf(walk, Top, answer)
    /\ frames' = WithTop(Read(Told(Top, Calls(walk) /\ HandsKey(walk)), nodes + 1))
    /\ UNCHANGED <<table, readingKey, pins, refused, decls, aliases>>

(* The latest declaration of the name in the document, closed or not. *)
Latest(name) ==
    LET at == {i \in DOMAIN decls : decls[i].name = name}
    IN  IF at = {} THEN 0 ELSE CHOOSE i \in at : \A j \in at : j <= i

(* parseAlias and resolveAlias, for a name that is known. *)
Alias(name) ==
    /\ Written /\ Top.kind \notin {"anchor", "tag", "quiet"}
    /\ Known(table, name) /\ Len(aliases) < MaxAliases
    /\ aliases' = Append(aliases, [name |-> name, target |-> Target(table, name), latest |-> Latest(name)])
    /\ table' = HoldCyclic(table, name, Len(aliases) + 1)
    /\ \E answer \in AnswersLeaf(walk, Top) : walk' = HandLeaf(walk, Top, answer)
    /\ frames' = WithTop(Read(Told(Top, Calls(walk) /\ HandsKey(walk)), nodes))
    /\ UNCHANGED <<arena, readingKey, pins, refused, nodes, decls>>

-----------------------------------------------------------------------------
(* Nodes that enclose others. *)

(* The key being read is counted from outside it: by parseMapKey for its   *)
(* mapping, or for the "?" around it.                                      *)
CountsKey == AtKey \/ Top.kind = "explicit"

(* Calls into a node: enter, with the frame of the node.  A visitor that   *)
(* stops leaves no call to make; keep pins the tape.                       *)
Call(frame, kind, announced, pinned) ==
    /\ Len(frames) <= MaxDepth
    /\ \E answer \in OnEnter(walk) :
        LET takes == Calls(walk) /\ answer \in {"nil", "keep"}
            caller == [Told(Top, Calls(walk)) EXCEPT
                          !.alone = AtKey /\ IsCollection(frame) /\ ~frame.inKey]
        IN  /\ walk' = Enter(walk, kind, announced, AtKey, answer)
            /\ frames' = IF answer = "stop" THEN WithTop(caller)
                         ELSE Append(WithTop(caller),
                                     [frame EXCEPT !.first = nodes, !.entered = takes])
            /\ pins' = pins + (IF answer = "stop" THEN 0 ELSE pinned)
                            + (IF answer = "keep" THEN 1 ELSE 0)
    /\ readingKey' = readingKey + (IF frame.inKey THEN 1 ELSE 0)

(* parseMap, parseFlowMap, parseSequence and parseFlowSequence: the node   *)
(* is built before its entries.  flowCollectionKeyAlone reads a key that   *)
(* nothing counts.                                                         *)
OpenCollection(kind) ==
    /\ Written /\ Top.kind # "quiet"
    /\ Build("collection")
    /\ \E alone \in IF AtKey THEN BOOLEAN ELSE {FALSE} :
        Call([Frame EXCEPT !.kind = kind, !.slot = "between", !.id = nodes + 1,
                           !.inKey = CountsKey /\ ~alone], kind, FALSE, 0)
    /\ UNCHANGED <<table, refused, decls, aliases>>

(* A node takes one anchor.  A lone key of a flow mapping may be an anchor *)
(* on nothing.                                                             *)
TakesAnchor ==
    /\ Written /\ Top.kind # "anchor"
    /\ Top.kind = "quiet" => Under.slot = "key"
    /\ Top.kind = "tag" => Under.kind # "anchor"

(* parseAnchorName and readAnchorValue. *)
OpenAnchor(name) ==
    /\ TakesAnchor /\ Len(decls) < MaxDecls
    /\ LET enclosing == \E i \in DOMAIN table.open : table.open[i].name = name
       IN  decls' = Append(decls, [name |-> name, nested |-> enclosing, tagged |-> FALSE,
                                   from |-> nodes, to |-> nodes])
    /\ table' = OpenName(table, name, Len(decls) + 1)
    /\ Call([Frame EXCEPT !.kind = "anchor", !.decl = Len(decls) + 1, !.inKey = CountsKey],
            "anchor", FALSE, 1)
    /\ UNCHANGED <<arena, refused, nodes, aliases>>

(* parseAnchorName fails on the name, with the tape pinned and nothing     *)
(* that would unpin it.                                                    *)
RefuseAnchorName ==
    /\ TakesAnchor
    /\ pins' = pins + 1 /\ refused' = TRUE
    /\ UNCHANGED <<frames, walk, arena, table, readingKey, nodes, decls, aliases>>

(* parseTag: a node takes one tag. *)
OpenTag ==
    /\ Written /\ Top.kind \notin {"tag", "quiet"}
    /\ Call([Frame EXCEPT !.kind = "tag", !.inKey = CountsKey], "tag", FALSE, 0)
    /\ UNCHANGED <<arena, table, refused, nodes, decls, aliases>>

(* parseMapKey on a "?": enterKey announces the key. *)
OpenExplicitKey ==
    /\ Reading /\ AtKey
    /\ Call([Frame EXCEPT !.kind = "explicit"], "key", TRUE, 0)
    /\ UNCHANGED <<arena, table, refused, nodes, decls, aliases>>

(* parseLiteral, and the lone key of parseFlowMap. *)
OpenQuiet ==
    /\ Written /\ Top.kind # "quiet" /\ Len(frames) <= MaxDepth
    /\ walk' = Quiet(walk)
    /\ frames' = Append(WithTop([Top EXCEPT !.alone = AtKey]), [Frame EXCEPT !.kind = "quiet", !.first = nodes])
    /\ UNCHANGED <<arena, table, readingKey, pins, refused, nodes, decls, aliases>>

(* markNodes, markKey. *)
BeginEntry ==
    /\ Reading /\ IsCollection(Top) /\ Top.slot = "between"
    /\ arena' = IF KeepsNothing THEN Push(arena) ELSE arena
    /\ walk' = IF Top.kind = "mapping" THEN MarkKey(walk) ELSE walk
    /\ frames' = WithTop([Top EXCEPT !.slot = IF Top.kind = "mapping" THEN "key" ELSE "value",
                                     !.pushed = KeepsNothing, !.told = 0, !.key.from = nodes])
    /\ UNCHANGED <<table, readingKey, pins, refused, nodes, decls, aliases>>

(* mappingValue builds a mapping's entry; hold drops it, and rewindNodes   *)
(* reuses the cells of the entry, where nothing is kept.                   *)
EndEntry ==
    /\ Reading /\ Top.slot = "end"
    /\ LET builds == Top.kind = "mapping"
           built == IF builds THEN TakeCell(arena, "entry", nodes + 1) ELSE arena
       IN  /\ builds => nodes < MaxNodes
           /\ nodes' = IF builds THEN nodes + 1 ELSE nodes
           /\ arena' = IF KeepsNothing THEN Pop(built) ELSE built
    /\ frames' = WithTop([Top EXCEPT !.slot = "between", !.pushed = FALSE,
                                     !.key = Frame.key, !.alone = FALSE, !.told = 0])
    /\ UNCHANGED <<walk, table, readingKey, pins, refused, decls, aliases>>

-----------------------------------------------------------------------------
(* Returning from a node. *)

Closing ==
    Reading /\ Len(frames) > 1
            /\ IF IsCollection(Top) THEN Top.slot = "between" ELSE Top.slot = "done"

(* keep's pin, while the kept node is the innermost one open. *)
Kept == walk.keeping /\ walk.skip = 1 /\ Top.entered

(* leave; then handKey, for a key that no call has handed over. *)
LeaveTop(answer) ==
    LET left == Leave(walk, answer)
        again == Under.slot = "key" /\ HandsKey(left)
    IN  /\ \E next \in IF again THEN OnHand(left) ELSE {"nil"} :
            walk' = IF Under.slot = "key" THEN HandKey(left, next) ELSE left
        /\ frames' = Returned(Read(Told([Under EXCEPT !.decl = IF Under.kind = "tag" /\ Top.kind = "anchor"
                                                               THEN Top.decl ELSE @],
                                        again /\ Calls(left)), nodes))
        /\ readingKey' = readingKey - (IF Top.inKey THEN 1 ELSE 0)

CloseCollection ==
    /\ Closing /\ IsCollection(Top)
    /\ \E answer \in OnLeave(walk) \ {"stop"} : LeaveTop(answer)
    /\ pins' = pins - (IF Kept THEN 1 ELSE 0)
    /\ UNCHANGED <<arena, table, refused, nodes, decls, aliases>>

(* parseAnchorValue: the node is kept under its name, its cells are        *)
(* committed, and the tokens saved and unpinned.                           *)
CloseAnchor ==
    /\ Closing /\ Top.kind = "anchor"
    /\ \E answer \in OnLeave(walk) \ {"stop"} : LeaveTop(answer)
    /\ table' = Keep(table, decls[Top.decl].name, Top.decl)
    /\ arena' = Commit(arena)
    /\ decls' = [decls EXCEPT ![Top.decl].to = nodes]
    /\ pins' = pins - 1 - (IF Kept THEN 1 ELSE 0)
    /\ UNCHANGED <<refused, nodes, aliases>>

(* parseTag: the anchor under the tag comes to name the tagged node. *)
CloseTag ==
    /\ Closing /\ Top.kind = "tag"
    /\ \E answer \in OnLeave(walk) \ {"stop"} : LeaveTop(answer)
    /\ IF Top.decl = 0 THEN UNCHANGED <<table, decls>>
       ELSE /\ table' = Retag(table, decls[Top.decl].name, Top.decl)
            /\ decls' = [decls EXCEPT ![Top.decl].tagged = TRUE]
    /\ pins' = pins - (IF Kept THEN 1 ELSE 0)
    /\ UNCHANGED <<arena, refused, nodes, aliases>>

CloseExplicitKey ==
    /\ Closing /\ Top.kind = "explicit"
    /\ \E answer \in OnLeave(walk) \ {"stop"} : LeaveTop(answer)
    /\ pins' = pins - (IF Kept THEN 1 ELSE 0)
    /\ UNCHANGED <<arena, table, refused, nodes, decls, aliases>>

(* The func quiet returned; then the node is handed over. *)
CloseQuiet ==
    /\ Closing /\ Top.kind = "quiet"
    /\ LET w == Loud(walk)
       IN  /\ \E answer \in AnswersLeaf(w, Under) : walk' = HandLeaf(w, Under, answer)
           /\ frames' = Returned(Read(Told(Under, Calls(w) /\ HandsKey(w)), nodes))
    /\ UNCHANGED <<arena, table, readingKey, pins, refused, nodes, decls, aliases>>

(* An error from the scanner, the grouping or the descent. *)
Refuse ==
    /\ Reading /\ Top.slot # "closed"
    /\ refused' = TRUE
    /\ UNCHANGED <<frames, walk, arena, table, readingKey, pins, nodes, decls, aliases>>

(* A call returns what it deferred and nothing more: on an error, once the *)
(* visitor stopped, and as a visitor stops from the node's own Leave.  A   *)
(* panic passes the undoings that are not deferred.                        *)
Unwind ==
    /\ Len(frames) > 1
    /\ frames' = Front(frames)
    /\ \E answer \in IF Top.kind = "quiet" THEN {"nil"} ELSE OnLeave(walk) :
        /\ ~Reading \/ (Closing /\ answer = "stop")
        /\ LET returns == ~walk.stopped /\ answer # "stop"
               left == IF Top.kind = "quiet" THEN walk ELSE Leave(walk, answer)
           IN  /\ walk' = IF Top.kind = "quiet" /\ returns THEN Loud(left) ELSE left
               /\ table' = IF Top.kind = "anchor" /\ returns THEN DropName(table) ELSE table
               /\ readingKey' = readingKey - (IF Top.inKey /\ returns THEN 1 ELSE 0)
               /\ pins' = pins - (IF Top.kind = "anchor" THEN 1 ELSE 0)
                               - (IF Kept /\ answer # "stop" THEN 1 ELSE 0)
    /\ UNCHANGED <<arena, refused, nodes, decls, aliases>>

(* parseDocument: take fills in the aliases held. *)
EndDocument ==
    /\ Reading /\ Len(frames) = 1 /\ Top.slot = "done"
    /\ table' = Take(table)
    /\ aliases' = [i \in DOMAIN aliases |->
                      [aliases[i] EXCEPT !.target = IF Filled(table, i) = {} THEN @
                                                    ELSE CHOOSE t \in Filled(table, i) : TRUE]]
    /\ frames' = WithTop([Top EXCEPT !.slot = "closed"])
    /\ UNCHANGED <<walk, arena, readingKey, pins, refused, nodes, decls>>

NextDocument ==
    /\ Reading /\ Top.slot = "closed" /\ Top.doc + 1 < MaxDocs
    /\ frames' = <<[Frame EXCEPT !.doc = Top.doc + 1, !.first = nodes]>>
    /\ decls' = <<>> /\ aliases' = <<>>
    /\ UNCHANGED <<walk, arena, table, readingKey, pins, refused, nodes>>

(* Parser.Reset and the next Walk, once this one has returned. *)
NextWalk ==
    /\ Len(frames) = 1 /\ (Reading => Top.slot = "closed")
    /\ frames' = <<Frame>> /\ walk' = NewWalk /\ arena' = Reset(arena) /\ table' = NewTable
    /\ readingKey' = 0 /\ pins' = 0 /\ refused' = FALSE
    /\ nodes' = 0 /\ decls' = <<>> /\ aliases' = <<>>

Next ==
    \/ Scalar
    \/ \E name \in Name : Alias(name)
    \/ \E kind \in {"mapping", "sequence"} : OpenCollection(kind)
    \/ \E name \in Name : OpenAnchor(name)
    \/ RefuseAnchorName
    \/ OpenTag
    \/ OpenExplicitKey
    \/ OpenQuiet
    \/ BeginEntry
    \/ EndEntry
    \/ CloseCollection
    \/ CloseAnchor
    \/ CloseTag
    \/ CloseExplicitKey
    \/ CloseQuiet
    \/ Refuse
    \/ Unwind
    \/ EndDocument
    \/ NextDocument
    \/ NextWalk

Spec == Init /\ [][Next]_vars

-----------------------------------------------------------------------------
Entered == {i \in DOMAIN frames : frames[i].entered}
Anchors == {i \in DOMAIN frames : frames[i].kind = "anchor"}
Live == LiveNodes(arena)
Built(from, to) == from+1 .. to

(* The place of a frame among those of the set, outermost first. *)
Place(i, S) == Cardinality({j \in S : j <= i})

(* What a frame's node was handed over as. *)
HandedAs(f) == IF f.kind = "explicit" THEN "key" ELSE f.kind

(* walkState: whatever the visitor declined, kept or failed on, the walk's *)
(* stacks hold the nodes handed over and still open, and skip is above     *)
(* zero exactly inside one that was declined or kept, or not handed over:  *)
(* each Leave answers for the node Enter answered for, on a refusal too,   *)
(* and no Enter goes missing after a declined node or comes from inside it.*)
(* The counts of quiet nodes and of keys, and the stack of open anchors,   *)
(* are of the nodes the descent is inside.                                 *)
LevelsMatch ==
    LET handed == Max(Entered \cup {1})
        below == {i \in DOMAIN frames : i > handed /\ frames[i].kind # "quiet"}
    IN  /\ Len(walk.in) = Cardinality(Entered)
        /\ \A i \in Entered : walk.in[Place(i, Entered)] = HandedAs(frames[i])
        /\ walk.skip = Cardinality(below) + (IF walk.keeping THEN 1 ELSE 0)
        /\ ~walk.stopped =>
            /\ readingKey = Cardinality({i \in DOMAIN frames : frames[i].inKey})
            /\ walk.quiet = Cardinality({i \in DOMAIN frames : frames[i].kind = "quiet"})
            /\ Len(table.open) = Cardinality(Anchors)
            /\ \A i \in Anchors : table.open[Place(i, Anchors)].decl = frames[i].decl

(* markNodes and rewindNodes ask keepsNothing each on its own, and openAnchor*)
(* and keep pin the tape: the two agree whatever keys, anchors and kept    *)
(* nodes an entry held, so an entry pops the mark it pushed, each pin is   *)
(* given back but the one of an anchor refused at its name, and a walk     *)
(* after one refused or stopped starts with neither.                       *)
MarksAndPinsMatch ==
    /\ Reading => Len(arena.marks) = Cardinality({i \in DOMAIN frames : frames[i].pushed})
    /\ ~walk.stopped =>
        pins - Cardinality(Anchors) - (IF walk.keeping THEN 1 ELSE 0)
            \in {0, IF refused THEN 1 ELSE 0}

(* Arena.Commit, keepsNothing: no cell is handed out again while its node  *)
(* is still read -- the collections open, the key of each entry that has a *)
(* value written, all of a key, of an anchor's node and of a kept node as  *)
(* it is read, and what the anchors of the document name, through every    *)
(* rewind to its end.                                                      *)
CellsLive ==
    /\ \A i \in DOMAIN frames : LET f == frames[i] IN
        /\ f.id # 0 => f.id \in Live
        /\ (f.slot \in {"value", "end"} /\ ~f.alone) => Built(f.key.from, f.key.to) \subseteq Live
        /\ (f.kind = "anchor" \/ f.inKey) => Built(f.first, nodes) \subseteq Live
        /\ (walk.keeping /\ f.entered /\ \A j \in Entered : j <= i)
            => Built(f.first, nodes) \subseteq Live
    /\ \A i \in DOMAIN decls : Built(decls[i].from, decls[i].to) \subseteq Live

(* handKey, markKey: as long as the visitor declines nothing, the key of   *)
(* every entry is handed over once, as the key and as nothing else.        *)
KeysToldOnce ==
    (~walk.declined /\ ~Done(walk)) =>
        /\ walk.told.reported = walk.told.right
        /\ \A i \in Entered : frames[i].kind = "mapping" =>
            /\ frames[i].told <= 1
            /\ frames[i].slot \in {"value", "end"} => frames[i].told = 1

(* resolveAlias, retag and take: every alias of a document read to its end *)
(* names an anchor of that document, and the most recent one of its name   *)
(* -- as long as no anchor of the name stands inside another of it -- with *)
(* the tag written before it, from inside the anchor's own node too.       *)
AliasesResolve ==
    Top.slot = "closed" => \A i \in DOMAIN aliases : LET a == aliases[i] IN
        /\ a.target.decl \in DOMAIN decls /\ decls[a.target.decl].name = a.name
        /\ (\A j \in DOMAIN decls : decls[j].name = a.name => ~decls[j].nested)
            => a.target.decl = a.latest
        /\ a.target.tagged = decls[a.target.decl].tagged
=============================================================================
