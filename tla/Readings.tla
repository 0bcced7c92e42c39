------------------------------ MODULE Readings ------------------------------
(***************************************************************************)
(* The three readings of one document.  A document is handed over node by  *)
(* node while the parser builds it; ValueBuilder makes a Go value of the   *)
(* handovers, JSONTokener makes JSON tokens of them, and once it is whole  *)
(* TreeReader reads the tree.  Document says what it denotes, and the      *)
(* three have to agree with that and so with each other.                   *)
(*                                                                         *)
(* The environment is any stream over the keys and names given, within the *)
(* bounds, with no tags; the caller may have declared anchors of its own,  *)
(* all naming the empty mapping that is the first node.                    *)
(***************************************************************************)
EXTENDS ValueBuilder, JSONTokener, TreeReader

CONSTANTS
    Key, Name,
    Declared,   \* the names WithAnchors declares
    MaxNodes,   \* how many nodes one document has
    MaxDocs,    \* how many documents a stream has
    MaxStream   \* and how many nodes, where it has several

ASSUME ReadingsAssumption ==
    /\ OtherKey \subseteq Key /\ Declared \subseteq Name
    /\ {MergeKey, NoKey} \cap Key = {} /\ NoName \notin Name

VARIABLES
    nodes,     \* the nodes of the stream so far
    path,      \* the collections and anchors being read, innermost last
    key,       \* the key of the entry whose value comes next
    anchors,   \* anchorTable: the node each name stands for
    first,     \* the first node of the document
    docs,      \* how many documents were begun
    walk,      \* the valueBuilder
    json       \* the jsonTokener, which hands over the first document

vars == <<nodes, path, key, anchors, first, docs, walk, json>>

DeclaredNodes ==
    IF Declared = {} THEN <<>> ELSE <<NewNode("mapping", 0, NoKey, NoName)>>
DeclaredAnchors == [n \in Name |-> IF n \in Declared THEN 1 ELSE 0]
DeclaredValue == [n \in Declared |-> Unordered(Denotes(DeclaredNodes, 1, <<>>, TRUE))]

Init ==
    /\ nodes = DeclaredNodes /\ path = <<>> /\ key = NoKey
    /\ anchors = DeclaredAnchors
    /\ first = Len(DeclaredNodes) + 1 /\ docs = 1
    /\ \E share \in BOOLEAN : walk = NewBuilder(share)
    /\ json = NewTokener

----------------------------------------------------------------------------
Depth == Len(path)
At == IF path = <<>> THEN 0 ELSE Last(path)
AtKind == IF path = <<>> THEN "document" ELSE nodes[At].kind
Room(n) == Len(nodes) + n <= Len(DeclaredNodes) + (IF docs = 1 THEN MaxNodes ELSE MaxStream)

Complete == path = <<>> /\ first <= Len(nodes)
TakesValue ==
    CASE AtKind = "document" -> first > Len(nodes)
      [] AtKind = "mapping" -> key # NoKey
      [] AtKind = "anchor" -> At = Len(nodes)
      [] OTHER -> TRUE
TakesKey == AtKind = "mapping" /\ key = NoKey /\ Room(1)

(* A reader that has refused is handed nothing more; the tokens of a later *)
(* document go nowhere.                                                    *)
Walks(b) == walk' = IF walk.err = "" THEN b ELSE walk
Tokens(t) == json' = IF json.err = "" /\ docs = 1 THEN t ELSE json
Rooted == EnterRoot(walk, path = <<>>)

Add(node) == nodes' = Append(nodes, node) /\ key' = NoKey /\ UNCHANGED <<first, docs>>

(* Enter, for a key and for "<<". *)
ReadKey(k) ==
    /\ TakesKey /\ k \notin KeysOf(nodes, At)
    /\ key' = k
    /\ Walks(EnterKey(walk, k)) /\ Tokens(NoteKey(json, k))
    /\ UNCHANGED <<nodes, path, anchors, first, docs>>
ReadMergeKey ==
    /\ TakesKey /\ MergeKey \notin KeysOf(nodes, At)
    /\ key' = MergeKey
    /\ Walks(EnterMerge(walk)) /\ Tokens(NoteMerge(json))
    /\ UNCHANGED <<nodes, path, anchors, first, docs>>

(* Enter, for what is then read on. *)
NewAt == Len(nodes) + 1
BeginMapping ==
    /\ TakesValue /\ Room(1)
    /\ Add(NewNode("mapping", At, key, NoName)) /\ path' = Append(path, NewAt)
    /\ Walks(EnterMapping(Rooted, NewAt)) /\ Tokens(OpenMapping(json, Depth))
    /\ UNCHANGED anchors
BeginSequence ==
    /\ TakesValue /\ Room(1)
    /\ Add(NewNode("sequence", At, key, NoName)) /\ path' = Append(path, NewAt)
    /\ Walks(EnterSequence(Rooted, NewAt)) /\ Tokens(OpenSequence(json, Depth))
    /\ UNCHANGED anchors
BeginAnchor(name) ==
    /\ TakesValue /\ Room(2) /\ AtKind # "anchor"
    /\ Add(NewNode("anchor", At, key, name)) /\ path' = Append(path, NewAt)
    /\ Walks(EnterAnchor(Rooted, name)) /\ Tokens(OpenAnchor(json))
    /\ UNCHANGED anchors

(* Enter, for a leaf. *)
ReadScalar ==
    /\ TakesValue /\ Room(1)
    /\ Add(NewNode("scalar", At, key, NoName))
    /\ Walks(Deliver(Rooted, Scalar(NewAt))) /\ Tokens(WriteScalar(json, NewAt))
    /\ UNCHANGED <<path, anchors>>
ReadAliasNode(name) ==
    /\ TakesValue /\ Room(1) /\ AtKind # "anchor"
    /\ Known(nodes, path, anchors, name)
    /\ Add(ResolveAlias(nodes, path, anchors, NewNode("alias", At, key, name)))
    /\ Walks(AliasValue(Rooted, NewAt, name, DeclaredValue))
    /\ Tokens(WriteAlias(json, nodes', NewAt))
    /\ UNCHANGED <<path, anchors>>

(* Leave. *)
EndMapping ==
    /\ AtKind = "mapping" /\ key = NoKey
    /\ path' = Front(path)
    /\ Walks(LeaveCollection(walk))
    /\ Tokens(LeaveMap(json, KeysOf(nodes, At) \ {MergeKey}, Depth - 1))
    /\ UNCHANGED <<nodes, key, anchors, first, docs>>
EndSequence ==
    /\ AtKind = "sequence"
    /\ path' = Front(path)
    /\ Walks(LeaveCollection(walk)) /\ Tokens(LeaveSequence(json, Depth - 1))
    /\ UNCHANGED <<nodes, key, anchors, first, docs>>
EndAnchor ==
    /\ AtKind = "anchor" /\ At < Len(nodes)
    /\ path' = Front(path)
    /\ anchors' = [anchors EXCEPT ![nodes[At].name] = At + 1]
    /\ Walks(LeaveProperty(walk))
    /\ UNCHANGED <<nodes, key, first, docs, json>>

NextDocument ==
    /\ Complete /\ docs < MaxDocs /\ Len(nodes) < Len(DeclaredNodes) + MaxStream
    /\ docs' = docs + 1 /\ first' = NewAt /\ anchors' = DeclaredAnchors
    /\ UNCHANGED <<nodes, path, key, walk, json>>

Next ==
    \/ \E k \in Key : ReadKey(k)
    \/ ReadMergeKey
    \/ BeginMapping \/ BeginSequence \/ ReadScalar
    \/ \E n \in Name : BeginAnchor(n) \/ ReadAliasNode(n)
    \/ EndMapping \/ EndSequence \/ EndAnchor
    \/ NextDocument

Spec == Init /\ [][Next]_vars

----------------------------------------------------------------------------
Of == first..Len(nodes)
Meaning == Denotes(nodes, first, <<>>, walk.share)

(* The walk looks among the anchors read before those being read, so an    *)
(* alias inside a node whose name was given before is handed the earlier.  *)
NameTakenInside(of) ==
    \E i \in of : /\ nodes[i].inside
                  /\ \E j \in of : /\ j < i /\ nodes[j].kind = "anchor"
                                   /\ nodes[j].name = nodes[i].name /\ i \notin Below(nodes, j)
Wide == \E i \in DOMAIN nodes : nodes[i].kind = "mapping" /\ KeysOf(nodes, i) \cap OtherKey # {}
Merging(n) == MergeKey \in KeysOf(nodes, n)
Merges == {i \in Of : IsMerge(nodes, i)}

(* A "<<" with a sequence of mappings one of which merges itself: the tree *)
(* strings their entries together as they are written.                     *)
SequenceOfMerging ==
    \E i \in Merges : /\ nodes[Unwrap(nodes, i)].kind = "sequence"
                      /\ \E s \in Range(Sources(nodes, i)) : Merging(s)

(* What jsonTokener reads of a "<<": mappings written in place that merge  *)
(* nothing anywhere, and aliases of mappings that do not merge.            *)
InPlace(i) == nodes[i].kind = "mapping" /\ \A j \in Below(nodes, i) : ~ Merging(j)
ByAlias(i) == /\ nodes[i].kind = "alias"
              /\ nodes[nodes[i].target].kind = "mapping" /\ ~ Merging(nodes[i].target)
PlainMerges ==
    \A i \in Merges : \A j \in Range(IF nodes[i].kind = "sequence" THEN ChildrenOf(nodes, i) ELSE <<i>>) :
        InPlace(j) \/ ByAlias(j)

RECURSIVE TokensOf(_)
TokensOf(v) ==
    CASE v.t = "sequence" -> <<Tok("[")>> \o FlattenSeq([i \in DOMAIN v.es |-> TokensOf(v.es[i])]) \o <<Tok("]")>>
      [] v.t = "mapping" -> <<Tok("{")>>
            \o FlattenSeq([i \in DOMAIN v.es |-> <<KeyTok(v.es[i].k)>> \o TokensOf(v.es[i].v)]) \o <<Tok("}")>>
      [] OTHER -> <<ScalarTok(v.v)>>

----------------------------------------------------------------------------
(* The value a walk builds is what the document denotes, whatever was      *)
(* merged and named in it and in the documents before; and a walk refuses  *)
(* a node that holds itself, and a merge that is no mapping, wherever they *)
(* stand.                                                                  *)
WalkReads ==
    Complete /\ ~ NameTakenInside(DOMAIN nodes) =>
        IF Sound(nodes, DOMAIN nodes)
        THEN walk.err = "aliasing" \/ (walk.err = "" /\ Strip(Last(walk.docs)) = Strip(Unordered(Meaning)))
        ELSE walk.err # ""

(* Every alias stands for a value with no collection of another; under     *)
(* ShareAliases, for the very value its anchor holds.  Without a mapping   *)
(* whose keys are not all strings.                                         *)
AliasesApart ==
    Complete /\ walk.err = "" /\ Sound(nodes, DOMAIN nodes) /\ ~ Wide =>
        Last(walk.docs) = Unordered(Meaning)

(* A walk refuses a stream for its aliases when, and only when, what they  *)
(* stand for comes to more values than the budget, over all its documents. *)
CopiesDue ==
    FoldLeft(LAMBDA n, i : IF nodes[i].kind = "alias" THEN n + Size(Denotes(nodes, nodes[i].target, <<>>, TRUE)) ELSE n,
             0, [i \in DOMAIN nodes |-> i])
BudgetExact ==
    Complete /\ Sound(nodes, DOMAIN nodes) /\ ~ Wide =>
        (walk.err = "aliasing" <=> (~ walk.share /\ CopiesDue > Budget))

(* What the tree is read as is what the document denotes, its entries in   *)
(* that order; and under ShareAliases an alias gets the value its anchor   *)
(* was read as, not one that is equal to it -- without merges there, and   *)
(* without aliases of declared anchors.                                    *)
TreeReads ==
    Complete /\ Sound(nodes, Of) =>
        IF walk.share
        THEN (Merges = {} /\ \A i \in Of : nodes[i].target = 0 \/ nodes[i].target \in Of)
             => ReadTree(nodes, first, TRUE) = Meaning
        ELSE ~ SequenceOfMerging =>
             StripOrdered(ReadTree(nodes, first, FALSE)) = StripOrdered(Meaning)

(* The JSON holds what the document denotes, its members in the order the  *)
(* tree has them; and a node that holds itself is refused.                 *)
JSONReads ==
    Complete /\ docs = 1 =>
        /\ Sound(nodes, Of) /\ PlainMerges => json.err = "" /\ json.out = TokensOf(Meaning)
        /\ (\E i \in Of : nodes[i].inside) => json.err # ""
=============================================================================
