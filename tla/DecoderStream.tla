--------------------------- MODULE DecoderStream ---------------------------
(***************************************************************************)
(* codec/decode.go: one Decoder that hands the documents of one stream to  *)
(* destinations of several kinds.                                          *)
(*                                                                         *)
(* The first Decode reads the whole source: by a walk where it is handed   *)
(* an any, by a typed walk straight into the destination where it is       *)
(* handed a struct, and into a tree otherwise and where the typed walk     *)
(* gives up.  A later Decode takes the next document off what was read, or *)
(* reads the source again into a tree.                                     *)
(*                                                                         *)
(* A document is a mapping of fields, an empty document, one that is none  *)
(* (comments and nothing else), or one no parser reads.  What an entry     *)
(* holds is told apart by how the readings take it:                        *)
(*    "plain"  every one reads it                                          *)
(*    "null"   a struct keeps what its field held                          *)
(*    "alias"  an alias or a property: a typed walk leaves it to the tree  *)
(*    "misfit" a value of another type than the struct's field has         *)
(*    "cycle"  an alias inside the node it names: none reads it            *)
(*    "repeat" a value under a key written twice: none reads the mapping   *)
(***************************************************************************)
EXTENDS Integers, Sequences, SequencesExt, FiniteSets

CONSTANTS
    Field,       \* the fields of the struct
    Kind,        \* what an entry may hold, of those above
    MaxDocs,     \* how many documents a stream has
    MaxEntries   \* and how many entries, over all of them

ASSUME DecoderStreamAssumption ==
    /\ Kind \subseteq {"plain", "null", "alias", "misfit", "cycle", "repeat"}
    /\ MaxDocs \in Nat /\ MaxEntries \in Nat

VARIABLES
    source,    \* the documents of the stream, which no step changes
    dec,       \* the Decoder
    answers,   \* what each Decode answered, as long as MaxAnswers
    last       \* what the last one did

vars == <<source, dec, answers, last>>

Destination == {"any", "ordered", "struct"}

(* A field holds the document that wrote it; what the caller set and the   *)
(* zero of its type are two values no document has.                        *)
Default == 0
Zero == -1

(* What a destination holds: a document, or the fields of a struct, each   *)
(* with the document that wrote it.                                        *)
Null == [doc |-> 0, fields |-> <<>>]
Whole(doc) == [doc |-> doc.id, fields |-> <<>>]
Fresh(to) == IF to = "struct" THEN [doc |-> 0, fields |-> [f \in Field |-> Default]] ELSE Null
Set(dst, f, v) == [dst EXCEPT !.fields[f] = v]
MaxAnswers == MaxDocs + 1

(* The documents, each with its place in the stream.                       *)
Entries == UNION {[1..n -> [field : Field, holds : Kind]] : n \in 0..MaxEntries}
KeysOnce(es) == \A i, j \in DOMAIN es : i # j => es[i].field # es[j].field
Documents ==
    {[kind |-> "mapping", entries |-> es] : es \in {e \in Entries : KeysOnce(e)}}
    \cup [kind : {"empty", "none", "broken"}, entries : {<<>>}]
EntryCount(docs) == FoldLeft(LAMBDA n, doc : n + Len(doc.entries), 0, docs)
Numbered(docs) == [i \in DOMAIN docs |->
                     [id |-> i, kind |-> docs[i].kind, entries |-> docs[i].entries]]

Has(doc, what) == \E i \in DOMAIN doc.entries : doc.entries[i].holds \in what
SomeHas(docs, what) == \E i \in DOMAIN docs : Has(docs[i], what)

----------------------------------------------------------------------------
(* holdsAValue and isEmptyDocument. *)
Picked(docs, kinds) ==
    LET picked[n \in 0 .. Len(docs)] ==
            IF n = 0 THEN <<>>
            ELSE IF docs[n].kind \in kinds THEN Append(picked[n-1], docs[n]) ELSE picked[n-1]
    IN  picked
OfKind(docs, kinds) == Picked(docs, kinds)[Len(docs)]
HoldingAValue(docs) == OfKind(docs, {"mapping", "empty", "broken"})
IsEmptyDocument(doc) == doc.kind = "empty"
Broken(docs) == \E i \in DOMAIN docs : docs[i].kind = "broken"

(* Decoder.parse: the documents that hold a value, and the books of each.  *)
\* Broken: keeps the books of every document of the file.
ParsedWithAllBooks(d) ==
    [d EXCEPT !.parsed = TRUE, !.docs = HoldingAValue(d.src),
              !.books = @ \o [i \in DOMAIN d.src |-> d.src[i].id]]
Parsed(d) ==
    LET docs == HoldingAValue(d.src)
    IN  [d EXCEPT !.parsed = TRUE, !.docs = docs, !.books = @ \o [i \in DOMAIN docs |-> docs[i].id]]

(* walkValues: the values the walk delivered, lined up with the documents  *)
(* that hold one by documentValues.                                        *)
Delivered(docs) == OfKind(docs, {"mapping"})
DocumentValues(docs) ==
    LET valued == HoldingAValue(docs)
        walked(i) == Cardinality({j \in 1..i : ~ IsEmptyDocument(valued[j])})
    IN  [i \in DOMAIN valued |->
            IF IsEmptyDocument(valued[i]) THEN Null ELSE Whole(Delivered(docs)[walked(i)])]
WalkRefuses(docs) == Broken(docs) \/ SomeHas(docs, {"cycle", "repeat"})

----------------------------------------------------------------------------
(* typedBuilder: fills dst with every document it is handed.  It stops     *)
(* where the tree is needed; a key written twice it meets as the mapping   *)
(* closes, and a document no parser reads stops it as well.                *)
\* Broken: a null clears the field.
TypedNullClears(st, doc, e) ==
    CASE st.stop # "none" -> st
      [] st.stop = "none" /\ e.holds \in {"plain", "repeat"} -> [st EXCEPT !.dst = Set(@, e.field, doc.id)]
      [] st.stop = "none" /\ e.holds = "null" -> [st EXCEPT !.dst = Set(@, e.field, Zero)]
      [] OTHER -> [st EXCEPT !.stop = "tree"]
TypedEntry(st, doc, e) ==
    CASE st.stop # "none" -> st
      [] st.stop = "none" /\ e.holds \in {"plain", "repeat"} -> [st EXCEPT !.dst = Set(@, e.field, doc.id)]
      [] st.stop = "none" /\ e.holds = "null" -> st
      [] OTHER -> [st EXCEPT !.stop = "tree"]
TypedEntries(st, doc) ==
    LET read[n \in 0 .. Len(doc.entries)] ==
            IF n = 0 THEN st ELSE TypedEntry(read[n-1], doc, doc.entries[n])
    IN  read
TypedDocument(st, doc) ==
    LET filled == TypedEntries(st, doc)[Len(doc.entries)]
    IN  IF filled.stop = "none" /\ (doc.kind = "broken" \/ Has(doc, {"repeat"}))
        THEN [filled EXCEPT !.stop = "error"] ELSE filled
TypedDocuments(docs, dst) ==
    LET read[n \in 0 .. Len(docs)] ==
            IF n = 0 THEN [dst |-> dst, stop |-> "none"] ELSE TypedDocument(read[n-1], docs[n])
    IN  read
WalkInto(docs, dst) == TypedDocuments(docs, dst)[Len(docs)]

(* decodeStruct: the entries a struct can hold, written over what it held. *)
(* An entry it cannot read is the answer, once the others are written.     *)
StructEntry(dst, doc, e) == IF e.holds \in {"plain", "alias"} THEN Set(dst, e.field, doc.id) ELSE dst
StructEntries(doc, dst) ==
    LET written[n \in 0 .. Len(doc.entries)] ==
            IF n = 0 THEN dst ELSE StructEntry(written[n-1], doc, doc.entries[n])
    IN  written
StructFilled(doc, dst) == StructEntries(doc, dst)[Len(doc.entries)]

----------------------------------------------------------------------------
NewDecoder(redelivers) ==
    [redelivers |-> redelivers,         \* a bytes.Buffer, which hands its bytes over again
     reader |-> source,                 \* what is left to read
     src |-> <<>>, walked |-> <<>>, walkedOK |-> FALSE, typedWalk |-> FALSE,
     parsed |-> FALSE, docs |-> <<>>, books |-> <<>>, book |-> 0, streamIndex |-> 0]

IsInitialized(d) == d.parsed \/ d.walkedOK

(* What a step leaves: the Decoder, the destination, and how it ended.     *)
Ends(d, dst, result, by) == [d |-> d, dst |-> dst, result |-> result, by |-> by]

(* readAll. *)
ReadAll(d) == [d EXCEPT !.src = d.reader, !.reader = IF d.redelivers THEN @ ELSE <<>>]

InitTree(d, dst) ==
    IF Broken(d.src) THEN Ends(d, dst, "error", "tree") ELSE Ends(Parsed(d), dst, "read", "tree")
InitWalk(d, dst) ==
    IF WalkRefuses(d.src) THEN Ends(d, dst, "error", "walk")
    ELSE Ends([d EXCEPT !.walked = DocumentValues(d.src), !.walkedOK = TRUE], dst, "read", "walk")
InitTyped(d, dst) ==
    LET walk == WalkInto(d.src, dst)
    IN  CASE walk.stop = "none" ->
                Ends([d EXCEPT !.walkedOK = TRUE, !.walked = <<>>, !.typedWalk = TRUE],
                     walk.dst, "read", "typed")
          [] walk.stop = "tree" -> InitTree(d, walk.dst)
          [] OTHER -> Ends(d, walk.dst, "error", "typed")

(* decodeInit, for a destination of each kind; DecodeFromNode's is none.   *)
DecodeInit(d, to, dst) ==
    CASE to = "any" -> InitWalk(ReadAll(d), dst)
      [] to = "struct" -> InitTyped(ReadAll(d), dst)
      [] OTHER -> InitTree(ReadAll(d), dst)

----------------------------------------------------------------------------
Next1(d) == [d EXCEPT !.streamIndex = IF @ > MaxDocs THEN @ ELSE @ + 1]

(* handWalked. *)
HandWalked(d) ==
    IF d.streamIndex >= Len(d.walked) THEN Ends(d, Null, "eof", "walk")
    ELSE Ends(Next1(d), d.walked[d.streamIndex + 1], "value", "walk")

(* decode, off the tree. *)
\* Broken: leaves an empty document where it stands.
EmptyDocumentStays(d, to) == Ends(d, Null, "value", "tree")
EmptyDocumentRead(d, to) == Ends(Next1(d), Null, "value", "tree")

ReadDocument(d, doc, to, dst) ==
    LET at == [d EXCEPT !.book = d.books[d.streamIndex + 1]]
        refused == IF to = "struct" THEN {"cycle", "repeat", "misfit"} ELSE {"cycle", "repeat"}
        read == CASE to # "struct" -> Whole(doc)
                  [] to = "struct" /\ Has(doc, {"repeat"}) -> dst
                  [] OTHER -> StructFilled(doc, dst)
    IN  IF Has(doc, refused) THEN Ends(at, IF to = "struct" THEN read ELSE dst, "error", "tree")
        ELSE Ends(Next1(at), read, "value", "tree")
DecodeTree(d, to, dst) ==
    IF Len(d.docs) <= d.streamIndex THEN Ends(d, dst, "eof", "tree")
    ELSE LET doc == d.docs[d.streamIndex + 1]
         IN  IF IsEmptyDocument(doc) THEN EmptyDocumentRead(d, to) ELSE ReadDocument(d, doc, to, dst)

(* buildTree: the source the walk read, read again. *)
\* Broken: starts the stream again.
BuildTreeAgain(d) == [Parsed(d) EXCEPT !.walked = <<>>, !.walkedOK = FALSE, !.streamIndex = 0]
BuildTree(d) == [Parsed(d) EXCEPT !.walked = <<>>, !.walkedOK = FALSE]

(* decode. *)
DecodeNext(d, to, dst) ==
    CASE d.typedWalk -> Ends(Next1([d EXCEPT !.typedWalk = FALSE, !.walkedOK = FALSE]), dst, "value", "typed")
      [] ~ d.typedWalk /\ d.walkedOK /\ to = "any" -> HandWalked(d)
      [] ~ d.typedWalk /\ d.walkedOK /\ to # "any" -> DecodeTree(BuildTree(d), to, dst)
      [] OTHER -> DecodeTree(d, to, dst)

(* DecodeContext. *)
Decoded(d, to, dst) ==
    IF IsInitialized(d) THEN DecodeNext(d, to, dst)
    ELSE LET init == DecodeInit(d, to, dst)
         IN  IF init.result = "error" THEN init ELSE DecodeNext(init.d, to, init.dst)

Answer(to, r) == [to |-> to, value |-> r.dst, result |-> r.result, by |-> r.by]

----------------------------------------------------------------------------
Init ==
    /\ \E docs \in UNION {[1..n -> Documents] : n \in 0..MaxDocs} :
          EntryCount(docs) <= MaxEntries /\ source = Numbered(docs)
    /\ \E redelivers \in BOOLEAN : dec = NewDecoder(redelivers)
    /\ answers = <<>> /\ last = "none"

(* Decode, into a destination of its own. *)
Decode(to) ==
    \E r \in {Decoded(dec, to, Fresh(to))} :
        /\ dec' = r.d /\ last' = r.result
        /\ answers' = IF r.result = "value" /\ Len(answers) < MaxAnswers
                      THEN Append(answers, Answer(to, r)) ELSE answers
        /\ UNCHANGED source

(* DecodeFromNode, which reads the source only to have read it. *)
DecodeFromNode ==
    /\ dec' = IF IsInitialized(dec) THEN dec ELSE DecodeInit(dec, "node", Null).d
    /\ UNCHANGED <<source, answers, last>>

Next == (\E to \in Destination : Decode(to)) \/ DecodeFromNode

(* A program that reads a stream calls Decode again until it ends. *)
Spec == Init /\ [][Next]_vars /\ WF_vars(\E to \in Destination : Decode(to))

----------------------------------------------------------------------------
Valued == HoldingAValue(source)

(* A typed walk that answers for anything but a stream of one document has *)
(* read them all into one struct.                                          *)
Overread ==
    \E i \in DOMAIN answers :
        answers[i].by = "typed" /\ (i # 1 \/ Len(Valued) # 1 \/ WalkRefuses(source))
(* A reader that was read to its end by a first Decode that failed.        *)
Lost == WalkRefuses(source) /\ dec.reader = <<>> /\ dec.src = <<>>

Writes(doc, f) ==
    \E i \in DOMAIN doc.entries : doc.entries[i].field = f /\ doc.entries[i].holds \in {"plain", "alias"}
Hands(a, doc) ==
    CASE doc.kind = "empty" -> a.value \in {Null, Fresh(a.to)}
      [] doc.kind # "empty" /\ a.to # "struct" -> a.value = Whole(doc)
      [] OTHER -> \A f \in Field : Writes(doc, f) => a.value.fields[f] = doc.id

(* Whatever the destinations are, and however each document is read, the   *)
(* values handed over are those of the documents in their order, none left *)
(* out, given twice or made up; a document that was refused is the next;   *)
(* and the stream ends once every one was handed over, and no earlier.     *)
AnswersInOrder ==
    ~ Overread =>
        /\ \A i \in DOMAIN answers : i <= Len(Valued) /\ Hands(answers[i], Valued[i])
        /\ ~ Lost /\ last = "eof" => Len(answers) = Len(Valued)

(* What an earlier reading may have left in a field: nothing, but in the   *)
(* first answer, where a typed walk that gave up had read past the first   *)
(* document, what a later one wrote.                                       *)
WritesTyped(doc, f) ==
    \E i \in DOMAIN doc.entries : doc.entries[i].field = f /\ doc.entries[i].holds \in {"plain", "repeat"}
LeftBehind(docs, i, f, v) ==
    i = 1 /\ \E j \in DOMAIN docs \ {1} : WritesTyped(docs[j], f) /\ v = docs[j].id

(* A field the document writes is that document's.  One it says nothing    *)
(* of, or null, keeps what the caller set, though a typed walk began to    *)
(* fill the struct and gave up: what it wrote does not show, unless it is  *)
(* of a later document of the stream, and then in the first answer alone.  *)
StructKeeps ==
    \A i \in DOMAIN answers :
        answers[i].to = "struct" /\ answers[i].value # Null /\ ~ Overread =>
            \A f \in Field :
                /\ Writes(Valued[i], f) => answers[i].value.fields[f] = Valued[i].id
                /\ ~ Writes(Valued[i], f) => \/ answers[i].value.fields[f] = Default
                                            \/ LeftBehind(Valued, i, f, answers[i].value.fields[f])

(* Between calls one reading of the source stands, and a document that     *)
(* comes off the tree was read with its own books, and not those of a      *)
(* document before or after it.                                            *)
BooksMatch ==
    /\ ~ dec.typedWalk /\ ~ (dec.parsed /\ dec.walkedOK)
    /\ last = "value" /\ Last(answers).by = "tree" /\ Last(answers).value # Null =>
        dec.book = dec.docs[dec.streamIndex].id

(* A program that calls Decode until it is told io.EOF is told so, where   *)
(* every document can be read into every destination.                      *)
Readable == ~ Broken(source) /\ ~ SomeHas(source, {"cycle", "repeat", "misfit"})
Drains == Readable => <>(last = "eof" \/ Overread)

(* docs/doc-site/values/marshal-unmarshal.md: Decode "reads one per call   *)
(* and returns io.EOF when the stream ends".                               *)
OnePerCall == Valued # <<>> => Len(answers) <= Len(Valued)
=============================================================================
