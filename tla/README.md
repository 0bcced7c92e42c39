# A verification development for go-yaml

TLA+ modules for the state machines of `go-openapi/go-yaml`, TLC
configurations that check them on small instances, and proofs that TLAPS checks
for every instance. The library reads YAML in one pass: a scanner makes tokens,
a grouper joins them, a recursive descent makes nodes, and a walk hands each
node to a visitor and then **reuses its memory**. Most of what can go wrong
quietly follows from that last step: tokens live in chunks that are refilled,
nodes in blocks that are rewound, keys on one stack shared by all open
mappings. This development starts there, and goes on to what is read from a
document in three ways that must agree, and written of values that are shared.

    tlc -workers 2 -config TokenArena.cfg MCTokenArena.tla
    tlapm TokenArenaProofs.tla      # and the other *Proofs modules

## Inventory

Paths are under `src/`. The third column says where each part stands here.

| Component | State and operations | Here |
|---|---|---|
| Token arena, `internal/tokenarena` | chunks on a live, a free and a saved list, an index by sequence number, tail, pins, save counts; `Add`, `SetTail`, `Pin`, `Unpin`, `Save`, `SaveAnchor`, `Release`, `ReleaseAll`, `Recycle`, `Reset` | `TokenArena`, `TokenTape` |
| Key ledger, `parser/key` | a stack of keys shared by the open mappings, a spill index, the keys of collections, one key set per `!!omap`; `Record`, `RecordOnce`, `RecordBuilt`, `Close`, `Holds`, `Open`, `OpenOrderedMap`, `MarkEntry`, `Reset` | `KeyLedger` |
| Node arena, `ast/arena.go` | blocks of nodes, a stack of marks; `Push`, `Pop`, `Commit`, `Rewind`, `Reset` | `NodeArena`, driven by `Descent` |
| Walk, `parser/walk.go` | open nodes, key mark, skip count, keep, quiet, failure; `enter`, `leave`, `hand`, `markKey`, `handKey`, `quiet`, `keep`; the runs its levels hold, `readTo`, `holdRun` | `WalkState`, driven by `Descent`; `WalkTape` |
| Anchors, `parser/anchors.go` | names, open names, aliases inside the node they name; `openName`, `keepAnchor`, `resolveAlias`, `retag`, `take` | `AnchorTable`, driven by `Descent` |
| Descent, `parser/{mapping,sequence,flow,tags,scalars,document,keys,descent}.go` | the call stack and what each call defers | `Descent` |
| Reader, `parser/reader.go` | token lookahead, documents, markers, directives, a kept error; `peek`, `take`, `fill`, `openDocument`, `bodyToken`, `closeDocument`, `judgeNext` | `Stream` |
| Grouper, `parser/group`, `parser/arena/run.go` | stages that join tokens, the window a `:` may make a key of, their cells by chunk, the release cursor | `KeyWindow`, `Grouper`, `Groups`; `CellRun`, `WalkTape`; `Grouping` is the part the reader is composed with |
| Scanner, `internal/scanner` | position, indentation stack, flow depth, multi-line scalars | what it can produce is the environment of `Groups` |
| Tokens, `token` | what a plain scalar resolves to; pure | not modelled |
| Directives and versions, `parser/{directives,version,options}.go` | `%YAML`, `%TAG` of a document | the scope of a version in `Stream` |
| Comments, `parser/comments.go` | which node a comment is attached to | not modelled: layout |
| Tree and rendering, `ast` | nodes, their text, cloning | not modelled: formatting |
| Key identity and merge, `ast/{keyidentity,merge}.go` | comparison of key trees, `<<` | merges in `Document`; key trees not modelled |
| Decoder, `codec/decode.go` and its walks | stream, books of anchors, alias budget, depth; a walk, a typed walk or a tree | `ValueBuilder`, `TreeReader`, `DecoderStream` |
| Encoder, `codec/encode.go` | names of what is shared, aliases; `Encode`, `encodeMap`, `encodeSlice`, `encodeStruct` | `Encoder` |
| JSON conversion, `codec/tojson.go`, `codec/jsontoken*.go` | a walk that emits JSON tokens, with merges | `JSONTokener` |
| Type caches and marshalers, `codec/{struct,walkstruct,marshaler}.go` | the only state goroutines share | `TypeCaches` |
| Ordered maps, `codec/orderedmap.go` | a slice of pairs | `Set`, in `TreeReader` |
| YAMLPath, `internal/yamlpath` | a query over a finished tree | not modelled |
| Transform and printing, `transform`, `printer` | a walk over a tree's tokens | not modelled |
| Errors, `errors` | wording, source excerpts | not modelled |
| Entry points, `yaml.go` | names for the above | not modelled |

### How the parts interact

All of the parser runs on one goroutine, by calls. The *descent* pulls a group
of tokens from the *grouper*, which pulls tokens from the *reader*, which pulls
from the *scanner*, and each token goes to the *token arena*. As the descent
finishes an entry it moves the arena's tail; while it reads an anchored node,
and while a visitor has asked for a node whole (`KeepNode`), it holds a pin; an
anchor's tokens are then saved until the end of the document. Nodes come from
the *node arena*: the descent pushes a mark before an entry and pops it after,
unless a key, an open anchor or a kept node still needs the cells
(`keepsNothing`), and commits what an anchor names. Every key goes to the *key
ledger*. Around each node it calls the *walk*, which calls the visitor. The
codec's decoder, encoder and JSON writer are such visitors, or readers of a
finished tree. A visitor stops the parse by a panic that `Walk` recovers, so
after a stop **only deferred calls have run**.

Nothing here blocks, waits, retries or talks to a network, and nothing is
persisted. The concurrency is in the field caches and the registry of
marshalers alone.

### What makes each part correct

- *Token arena*: a token that something still asks for is readable, through its
  address and its number; nothing else is kept for ever; the `Released` counter
  moves with every loss.
- *Key ledger*: each repeat is noted where it repeats, against where it was
  first written, however the mappings nest and whether the index or the scan
  answered.
- *Node arena*: no cell is handed out again while its node will still be read.
- *Walk*: `Leave` answers for the node `Enter` answered for, whatever the
  visitor declined, kept, failed on or stopped at; a key is told once.
- *Anchors*: an alias gets the most recent anchor of its name, tag included.
- *Reader, grouper*: the number of documents, an error that wins over what the
  descent makes of missing tokens, no group that refers to a refilled cell.
- *Decoder, JSON*: three ways of reading agree with what the document denotes;
  shared aliases never cross documents; the budget stops every bomb and nothing
  else; a stream gives its documents in order, whoever asks and however each is
  read.
- *Encoder*: what is written reads back as the value, and what is shared is
  written once.
- *Caches*: a goroutine that loads finds a complete value.

`PROJECT.json` lists the hazards one by one, at the line where each bites, with
the properties that cover it, or why none does.

## Modules

### TokenTape, TokenArena

`TokenTape` is the promise, without chunks: `held` is the set of tokens that
can still be read, and a call may shrink it, down to what is promised and
never further: what is at or above the floor (the tail, or the tail as it stood
at the first pin still held), and every saved run.

`TokenArena` is the code. `live`, `free`, `saved` and `head` are the fields of
the arena; `base`, `pos`, `saves`, `onSaved` and `buf` those of a chunk;
`byIndex` is the index of `chunkOf`. Each exported call is an action: `Add` is
`AddInHand` and `AddGrowing` (with `grow` and the new chunk's place in the
index), `Sweep` and `FreeChunks` are operators of several actions. `Recycle`
keeps each chunk's stale save count and contents, as the code does. What a
caller is promised is history (`run`, `since`, `handed`), which no operation
reads, except that a caller saves only what it can still read and gives back
only what it saved. The statistics and the generation counter are left out;
which free chunk is reused is left open.

### KeyLedger

`keys` is the `Set`, `scopes`, `pending`, `pendingIndex` and `expectOrderedMap`
are fields of the `Ledger`, and a frame is one call of `parseMap`,
`parseFlowMap`, `parseSequence` or `parseFlowSequence` with the mapping or
sequence node it builds (its base, its repeats, its place in an ordered map).
The hash that stands before the scan is a filter and is left out, as are the
texts of positions: a position is the number of the write. The keys written in
each collection are history, and the properties compute from it what the
repeats should be. A parse that is refused is ended by `NewStream`, which may
come at any moment, as `Reset` does.

### NodeArena, WalkState, AnchorTable, Descent

The first three are records and the operators on them, one per function of the
code; `Descent` holds one of each and the stack of calls. A frame of `Descent`
is a call that is being made; its `slot` is what it does next. Which node comes
next is left open, so every document the grammar allows up to the bounds is
read, and some orders it does not allow: the properties hold for those too. A
scalar under a tag may or may not be handed over, since `parseTagValue` reads
some itself and sends the others through `parseToken` (`AnswersLeaf`). At
any moment the document may be refused (`Refuse`), an anchor at its name too,
with the tape pinned for it and nobody to unpin it until `Reset`
(`RefuseAnchorName`), and at each call the visitor
answers nil, `SkipNode`, `KeepNode`, an error or `StopWalk`. `Unwind` returns
from a call with what it deferred: after an error all of it, after `StopWalk`
only what is a `defer` in the code. The arena's blocks are sequences of node
numbers, so a cell that was handed out again is seen by its number.

`decls`, `aliases` and the `told` and `declined` marks of a walk are history.
Left out: comments, paths, columns, the tokens behind a node (their pins are
counted), `readTo`, which moves the tail, `HoldsKey`, anchors published from
another file (`WithAnchors`), and the identities of anchored nodes.

### Grouping, Stream

`Stream` is the reader and the loop above it, from an open source to the
documents of a stream. `reader` holds the fields of the `reader` (`out` from
`at` on, `drained`, `taken`, `tail`, `tookDirective`, the lines of the two
markers, the kept error); `g` is the grouper, and `Grouping` the stages that
make the reader's lookahead longer than one token: a block scalar's header,
the last content a `:` could make a key of, a directive and the comments below
it. `phase` is where `parseDocument` stands. The scanner cuts a token where
`peek` needs one (`ScanToken`), so how far it is ahead is what the stages hold
back, and a scalar keeps the schema it was cut under until `Retype`.

The source is open: any token the scanner could cut may come next, up to
`MaxTokens`, and it may end or be refused anywhere. The descent may refuse
anywhere too (`Refuse`); what it must refuse is a node after a directive. What
the documents of a stream should be is read off its tokens alone
(`Beginnings`, `StopOf`, `Named`), without the reader's state.

Left out here, since `Groups` has them: the stages for keys, properties, `?` and
flow collections, which hold tokens back for longer and hand them on in order
too. Left out altogether: an invalid token, which ends the scan as
`ScanEnd(TRUE)` does; `%TAG` handles and a directive's form; a `%` whose name is
on another line; a mapping key on the line of a `---`, which `judgeNext` refuses
as it refuses a sequence entry there. `ended` is part of `phase`.

### KeyWindow, Grouper, Groups

`KeyWindow` has the units the grouping works on (a token or a group of them)
and `keyWindow`, the tokens a `:` arriving next could make a key of: the keys of
one line, the collections that may yet be one, the limit on how long a key may
be. `Grouper` has the stages in the order of the code: comments on the line of a
token, block scalars, anchors, aliases and tags, `?` and what it holds, keys by
value, directives; and the short way past five of them for a token no stage
reads. A stage is an operator from what it keeps and one unit to what it keeps
and what it hands on; `Through` runs a stage over what the one before handed on.
That is the code's order, since no stage reads what another keeps. `?` bodies
are regrouped by the stages the code runs over them.

`Groups` feeds one stream token by token and then flushes. Its tokens are those
the scanner can produce one after another: balanced brackets, a plain scalar
ended by what follows it, a name after `&` or `*`. Each token carries numbers,
so `OrderKept` says that every one is handed on once and in its place, and
`KeysExact` compares the keys made with those a reading of the whole stream
gives. `KeysExact` says nothing of a stream where a `:` claims a collection that
is itself the value of an entry on its line (malformed), and of keys past the
limit only that those refused were too long: the limit is not measured at the
`:`, and some collections are exempt. A refusal is final.

### CellRun, WalkTape

`CellRun` is the run of cells the grouper builds its groups in, filled again a
chunk at a time; in which order the chunks of one sweep go back is left open.
`WalkTape` composes it with `TokenArena` and the levels of a
walk: tokens are scanned ahead, a `:` makes a key of the token before it and
takes a cell, the descent moves the tail behind what it has read, and each
mapping and entry it is inside holds the chunk it began in (`holdRun`). A sweep
is skipped while the tape has released nothing (`sweptAt`). Pins and the saves
of anchors are left out: they only make the tape let go of less. The null that
stands for an absent key has no number and reads as 0, so its cell keeps its
chunk for good (`unknown`), its entry holds the stream's first chunk, and
`CellsStand` promises nothing for it.

### Document, ValueBuilder, TreeReader, JSONTokener, Readings

`Document` is a document as nodes in the order they are read, with what an alias
names, the mappings a `<<` folds, and what the whole denotes (`Denotes`): the
reference the three readings are held against. `ValueBuilder` is the walk that
builds a Go value with no tree, `TreeReader` the decoder's reading of the tree,
`JSONTokener` the walk that emits JSON tokens, buffering what a `<<` brings in.
Each is a record and an operator per handover. `Readings` hands one stream to
all three as the parser builds it: any document over two keys, one name that
the caller may have declared too, and two documents where they are short.

Values carry an identity, so that `AliasesApart` sees two aliases that share a
map. The properties leave out what the code reads in another way, on purpose or
not:

- a merge from a *sequence* strings together the entries of mappings that merge
  themselves as they are written, so in `{<<: [{<<: {x: s}, x: s}]}` the inner
  mapping's own `x` loses on the tree;
- an anchor inside what a `<<` brings in is not remembered by a shared reading
  of the tree (`{x: &a s, <<: &a {}, y: *a}`);
- in `&a [&a s, *a]` a walk hands the earlier anchor, the inner one;
- JSON refuses an anchored merge source (`<<: &a {..}`, `[&a {}]`), and does not
  refuse the merge of an alias of a scalar;
- a tree accepts a document whose unsound part an own key shadows
  (`{x: s, <<: &a {x: *a}}`); a chain of merges that is reached through an alias
  is written to JSON with a literal `"<<"` member.

### DecoderStream

One `Decoder` over a source, any sequence of destinations (`any`, `MapSlice`, a
struct). `dec` has the fields `DecodeContext` uses: the reader, the source kept for a second
reading, the walked values, whether a typed walk answered, the parsed file, the
index in it, the book of anchors. A document is what the properties can tell
apart: one no parser reads, comments alone, empty, or with entries, each of a kind (plain, null, an alias, one that
does not fit its field, one that holds itself, a repeated key) which decides
where a typed walk, a walk and a tree give up. `Overread` and `Lost` name the
two situations in which the code itself loses the stream: see the findings. A typed
walk that gives up at a later document has already filled its fields, and they
stay in the first answer where that document does not write them (`LeftBehind`);
`StructKeeps` says that nothing else stays.

### TypeCaches

Goroutines that look up the fields of a type, whether a walk may fill it, and a
marshaler, over the caches they share; every load, store, lock and unlock is an
action. Which fields a type has is a constant. A reading has an identity, so
that `OneReading` sees two goroutines left with different ones.

### Encoder

Objects (maps, slices, structs behind a pointer) of two slots, made one after
another and holding those made before; `enc` is what the `Encoder` keeps between
documents (`anchorRefToName`, `anchorNameMap`, `aliasRefToName`). A document is
the sequence of what it opens, each at a path; `ReadBack` reads it as a reader
would, and `Meaning` is the value. With smart anchors a value is encoded twice;
without them the tags `anchor`, `anchor=`, `alias=` and `inline` meet one another.
`Apart` leaves out, by name, what the code gets wrong or leaves to the program:

- an object that is the value of *two entries* of maps: `EncoderEntries` below;
- any document but the first of a smart `Encoder`: the first encoding starts
  from the names the document before left, and `aliasRefToName` is never cleared;
  encoding the same value twice is enough to write `*a` with no `&a`;
- without smart anchors, an object an earlier document named: the second
  document writes `*a` for it and no anchor;
- two objects one tag names alike, where an alias is of the later, and an
  inlined field whose entry, left out for an own one, held the anchor.

A value that holds itself is written for ever; an inlined field that is
anchored too wraps the whole struct in the anchor. Neither is modelled. Structs
are written under `WriteJSONTags`, where an own field hides the one of its name
an inlined struct has. The default mode refuses such a type whole ("duplicated
key", `codec/struct.go:729`) and treats the others alike; the refusal is left
out. Two
slices of one backing array have one address, and are one object to the
encoder; here objects have addresses of their own.

## Runs

| Run | Checks | Bounds and size |
|---|---|---|
| `TokenArena` | `TypeOK`, `FloorReadable`, `RunReadable`, `HeldReads`, `SavesCounted`, `NothingLeaks`, `ImplementsTape` | chunks of 2, 3 chunks, 2 holders, 5 tokens, 2 pins; 336 000 states |
| `WalkTape` | `CellsStand`, `CellsComeBack` | 6 tokens, chunks of 2 tokens and of 2 cells, 4 levels, 3 tokens ahead, 2 streams; 820 000 states |
| `KeyLedger` | `RepeatsNoted`, `KeysAreTheirMappings`, `HoldsWhatIsWritten` | 2 names, 2 kinds, spill at 2, 4 keys, nesting 3, sequences of 2; 5.7 million states |
| `Descent` | `LevelsMatch`, `MarksAndPinsMatch`, `CellsLive`, `KeysToldOnce`, `AliasesResolve` | 2 names, 5 nodes, nesting 3, 2 anchors and 1 alias a document, 2 documents; 5 million states |
| `Stream` | `DocumentsMatch`, `SchemasMatch`, `AcceptedIsSound`, `ParseEnds` | 6 tokens of 11 kinds, version 1.2 set by the caller; 960 000 states |
| `Groups` | `OrderKept`, `KeysExact`, `BodiesExact`, `ShortWayIsTheChain` | six sets of tokens, 5 or 6 tokens, 3 lines, a key limit of 2; a million states |
| `Readings` | `WalkReads`, `AliasesApart`, `BudgetExact`, `TreeReads`, `JSONReads` | 6 nodes, or 4 in two documents, 2 keys, 1 name, a budget of 3; 2 million states |
| `DecoderStream` | `AnswersInOrder`, `StructKeeps`, `BooksMatch`, `Drains` | 3 documents of 2 entries of every kind, 2 fields; 384 000 states |
| `TypeCaches` | `OneReading`, `WalkableExact`, `TakenCurrent`, `LookupsEnd` | 2 goroutines, 2 types, 2 tag modes, 2 lookups each, 2 registrations; 237 000 states |
| `Encoder` | `ReadsBack`, `SharedOnce` | 4 objects with smart anchors, 3 with tags and 2 documents; 269 000 states |
| `DecoderStreamEOF` | `OnePerCall`, violated | as `DecoderStream` |
| `EncoderEntries` | `FirstAnchored`, violated | as `Encoder`, smart anchors, one document |

### Fairness and ends

Three properties are liveness, each under the fairness of the code's own
scheduling and no more. `ParseEnds`: the parse is one goroutine, a step that can
be made is made, `WF_vars(Next)`; the loop of `parse` ends on a finite stream,
an empty one included, whose one document is made without taking a token.
`Drains`: weak fairness of `Decode` is the program that calls until it is told
`io.EOF`; it is told so wherever every document can be read and the typed walk
has not read past its document (`Overread`). `LookupsEnd`: weak fairness of each goroutine's steps,
which the Go runtime gives; nobody waits for ever for a lock or for a type that
holds itself.

`DecoderStream` is checked for deadlock: `Decode` may always be called again. In
the other runs a bounded stream ends, and `CHECK_DEADLOCK` is off; what matters
after that, `Recycle`, `Reset`, the next walk, stream or document, is an action
of its own where the code keeps anything: `NextWalk`, `NewStream` and `Recycle`
lead back to an initial state up to what is kept.

### Why these bounds are enough to be worth running

Of `TokenArena`, `WalkTape`, `KeyLedger`, `Descent`, `TypeCaches`, `Stream` and
`DecoderStream` every safety property is also proved below, without bounds; the runs find out first whether it
holds, and show that the interesting states are reached.

- *TokenArena*. Five tokens over chunks of two give a full chunk, a shared one
  and one partly filled; a run can span all three; two holders can save the
  same chunk in either order; three chunks force reuse, so a stale index entry
  or save count meets a new token. Chunks and holders are symmetric: no
  operation orders them.
- *WalkTape*. Six tokens over chunks of two put a key and its `:` in one chunk
  or in two; chunks of two cells let a newest cell be done with before its
  oldest; four levels are two mappings deep with their entries; a second stream
  starts on what the first left.
- *KeyLedger*. `SpillAt` is 64 in the code and 2 here. The code only compares
  it with a length, so what matters is that mappings below, at and above it
  occur, nested and after one another: four keys and three levels give all of
  these. Two names of two kinds give the repeats by node and by JSON name alone.
- *Descent*. Two levels of collection below a document with an anchor or a tag
  between them are needed for a mark to lie beneath a commit; two documents for
  what one leaves to the next; five nodes for a collection, two entries and
  what a rewind reuses. Two anchors of one name or of two give redeclared and
  nested ones, and an alias that finds the other's. The names are symmetric: the
  table only compares them for equality.
- *Stream*. `%YAML 1.1`, `---`, `...` and a scalar are six tokens, so the
  scanner cuts past the `...` that ends a version's scope; so are a version's
  directive, a `---`, a block scalar and its content. Six tokens also hold two
  directives with a comment between and a `---` below, or three documents. The
  caller's version is 1.2; a directive names 1.1 or 1.2, and the two are
  treated alike.
- *Groups*. Each set of tokens is what one group of stages reads, so that six
  tokens reach a collection in a collection that is a key, a `?` in the body of
  a `?`, an anchor and a tag before a key. The limit is 1024 characters in the
  code and 2 here, so that it is met; a token is one character.
- *Readings*. `{<<: [{x: s}, {x: s}]}` and `{x: &a {x: s, y: s}, <<: *a}` have
  six nodes, as have an anchored collection with two aliases, an anchor in the
  value of another, and a name given twice; two documents of four nodes give an
  alias of what the document before named. A budget of three is passed by two
  aliases of a collection.
- *DecoderStream*. Three documents put one without a value before, among and
  after others, and one that is refused before one that is not; two fields let
  the typed walk give up after it wrote the first.
- *TypeCaches*. One type holds itself and the other, which a walk may not fill
  and, in one mode, whose tags are refused; two goroutines meet at every step of
  reading them.
- *Encoder*. Four objects are an inner one, two that share it and what holds
  both; with tags three give an anchor, its alias and a merge. Two documents
  are what the first leaves to the second.

### What the violated runs show

Each is a statement of the repository about itself that a run refutes; the
rest of the module holds around it.

- `OnePerCall` (`codec/decode.go:3862`; `marshal-unmarshal.md:63`: Decode "reads one
  per call and returns `io.EOF` when the stream ends"): a typed walk reads every
  document into the one struct, leaves the decoder as if nothing had been read,
  and the next `Decode` answers a struct written by nothing with no error. The
  page's own loop does not end. Around it: an empty source into a struct gives
  nil and not `io.EOF`, and a first `Decode` that fails on a reader it has
  consumed loses the stream.
- `FirstAnchored` (`codec/encode.go:868`; `option.go:324`: "an anchor is
  automatically assigned to the first occurrence, and aliases are used for
  subsequent elements"): `encodeMap` puts the anchor around whatever it encoded,
  an alias included. A map whose entries `a` and `b` hold one pointer is written
  `a: &a ..`, `b: &a *a`, which is no YAML; with a third, the names no longer match.

### Other disagreements met while modelling

Seen in the code, or in a run of an earlier version of these modules; none has a run now.

- `tokenarena.go:187`, `:33`: "nothing is recycled" above zero pins. `Release`
  does not look at `frozen`; what a pin is taken for is kept (`FloorReadable`).
- `parser/mapping.go:129`: "holdRun keeps the entry's own tokens, which are read
  again". It saves the chunk of the key alone (`walk.go:664`); a `:` that begins
  the next chunk is released and refilled while the value is read, and
  `mapping.go:174` builds the entry's node from it. An entry with an absent key
  holds the stream's first chunk instead of its own.
- `key/set.go:133`: under JSON names, with an index another mapping made and
  exactly `spillAt` keys in this one, `Holds` asks the index before these keys
  are in it (`NotYetIndexed`, which `HoldsWhatIsWritten` leaves out, and nothing
  else). `key/ledger.go:68`: a collection key of an `!!omap` entry is not
  recorded across entries.
- `walk.go:77`: inside a mapping the visitor declined, `markKey` leaves a mark
  that nothing clears, and the next node handed over is called a key.
- `parser/tags.go:49`: "A tagged scalar is not handed over on its own, because
  parseScalarValue builds it". A tag on nothing hands over its null (`:216`), and
  a scalar whose tag names another kind, as in `!!seq 5`, goes through
  `parseToken` (`:319`, `:345`).
- `anchors.go:419`: an anchor that is refused at its name has pinned the tape,
  and only the next `Reset` takes the pin back.
- `codec/decode.go:3755`: a typed walk that gives up at the second document of a
  stream has written its fields into the struct; the tree then fills the first
  document's over them, and those the first does not write stay (`LeftBehind`).
- `keys.go:77`: in `{[a]}` the key is read without `enterKey`; its entries' cells
  are reused before the key is named.
- `anchors.go:198`: in `&x [&x 1, *x]` the inner anchor has closed when the alias
  is read, and the outer one, still open, answers.
- `reader.go:55`: with comments kept, a comment between two directives clears
  `tookDirective`, and a prelude that parses without comments is refused.
- `group/token.go:59-62`: the properties before a key are "the key's, not the
  mapping's", but in `!!seq &a [x]: v` the window has let the tag go before the
  `[` is held (`token_group.go:791`), and the tag is the mapping's. Comments in
  the body of a nested `?` are dropped; one that comes first in it ends the rule
  for sequences without indentation.
- `codec.ShareAliases`: "by default they are independent": not inside a
  `map[any]any`. `ToJSON` writes "the JSON that holds the same values": not of
  `{<<: {<<: {}}}`. `decode.go:159`: the budget of the tree counts every node of a
  file that is decoded from a node, so that one without aliases can be refused.

## Proofs

Eight modules of theorems, each for every value of the constants that meets
the assumptions below: any number of chunks, holders, cells, names, types,
goroutines, levels, documents and tokens, and any bound.

| Module | Theorem | States |
|---|---|---|
| `TokenArenaProofs` | `TypeCorrect` | `Spec => []TypeOK` |
| | `FloorCorrect` | `Spec => []FloorReadable` |
| | `RunCorrect` | `Spec => []RunReadable` |
| | `HeldCorrect` | `Spec => []HeldReads` |
| | `SavesCorrect` | `Spec => []SavesCounted` |
| | `LeaksNothing` | `Spec => []NothingLeaks` |
| | `ArenaImplementsTape` | `Spec => ImplementsTape` |
| `WalkTapeProofs` | `WalkUsesTape` | `WalkSpec => Spec`: a walk uses the tape as its specification says |
| | `StandsCorrect` | `WalkSpec => []CellsStand` |
| | `CellsReturn` | `WalkSpec => []CellsComeBack` |
| `KeyLedgerProofs` | `Invariant` | `Spec => []IInv` |
| | `NotesTheRepeats` | `Spec => []RepeatsNoted` |
| | `StackIsItsMappings` | `Spec => []KeysAreTheirMappings` |
| | `HoldsWhatWasWritten` | `Spec => []HoldsWhatIsWritten` |
| `DescentProofs` | `Invariant` | `Spec => [](IInv /\ Closes)` |
| | `LevelsFollowTheCalls` | `Spec => []LevelsMatch` |
| | `MarksAndPinsFollow` | `Spec => []MarksAndPinsMatch` |
| | `NoCellComesBackEarly` | `Spec => []CellsLive` |
| `KeyAliasProofs` | `EachKeyIsToldOnce` | `Spec => []KeysToldOnce` |
| | `AliasesNameTheLatest` | `Spec => []AliasesResolve` |
| `TypeCachesProofs` | `FieldsReadOnce` | `Spec => []OneReading` |
| | `VerdictsAreExact` | `Spec => []WalkableExact` |
| | `TakesWhatItWasTold` | `Spec => []TakenCurrent` |
| `StreamProofs` | `AcceptedCorrect` | `Spec => []AcceptedIsSound` |
| | `DocumentsCorrect` | `Spec => []DocumentsMatch` |
| | `SchemasCorrect` | `Spec => []SchemasMatch` |
| `DecoderProofs` | `HandedOverInOrder` | `Spec => []AnswersInOrder` |
| | `StructsKeep` | `Spec => []StructKeeps` |
| | `ReadWithOwnBooks` | `Spec => []BooksMatch` |

The assumptions are those the modules declare, and no others. `TokenArena`:
`ChunkSizeAssumption` (at least 1), `ChunkAssumption` (finitely many chunks, the
nil chunk not one of them), `HolderAssumption` (finitely many holders) and
`BoundAssumption`. `WalkTape`: `CellsAssumption` (chunks of at least one cell).
`KeyLedger`: `LedgerAssumption` (`SpillAt` is at least 1, and no kind of a key is
one of the two words the model uses for any kind and for a key built from a
collection). `Descent`: `DescentAssumption` (the three types of a node the arena
has blocks for; bounds are numbers). `TypeCaches`: `TypeCachesAssumption` and
`NoTypeAssumption` (the types' fields are types; the absent one is none).
`Stream`: `StreamAssumption` (a caller sets one of the two versions there are; the
length of a stream is bounded by a number). `DecoderStream`:
`DecoderStreamAssumption` (an entry holds one of the kinds the module lists; a
stream has a number of documents and of entries). Of the
sets of names, fields, kinds, types and goroutines nothing is assumed.

### TokenArenaProofs

None of the properties is inductive. `RunReadable` says nothing of a chunk's
save count, so a `Release` from a state in which a count is too low would lose
another holder's run; `FloorReadable` says nothing of `byIndex`, so an `Add`
from a state in which two chunks claim one number would overwrite it. The
invariant is `IInv == TypeOK /\ Structure /\ FloorLive /\ RunsHeld /\ SavesExact`:

- *Structure*: the lists are apart, the chunks in hand have bases at multiples
  of the chunk size, each is what `byIndex` finds at its base, their slots hold
  the numbers `handed` gives, only the head is partly filled;
- *FloorLive*: every token at or above the floor is in a live chunk;
- *RunsHeld*: every token of a saved run is in a chunk in hand;
- *SavesExact*: each chunk in hand counts the runs that touch it.

The argument goes by the two things a step may do to chunks. `LetGo` shows that
freeing a set of chunks that nothing counts on loses exactly their tokens;
`SweepLetsGo` and `SweepKeeps` show that a sweep's chunks are such a set, because
they end below the tail and no run counts on them. Each action then has one
lemma. Adding has the only two steps that extend the index, and there
`DivBounds`, `MultiplesApart` and `DivUnique` say that a number belongs to one
chunk's span. For the refinement, `HeldFromIndex` turns the invariant into what
the tape calls held and promised, `FreeForgets` into the abstract `Forget`, and
`StepImplements` maps each action to one action of `TokenTape` or to a stutter.

`NothingLeaks` is the other side: not what is kept, but that no more is. It needs
`LeakInv == SavedNeeded /\ Swept` beside `IInv`: a chunk on the saved list has a
count above zero, and with no pin held every live chunk but the head reaches to
the tail. The tail moves only by a sweep, or under a pin whose end sweeps; what
has come to lie behind it since was the head at that sweep, hence "at most one".

### WalkTapeProofs

The walk, the grouper and the descent are composed over one tape, so the proof
begins with `WalkUsesTape`: each step of the walk is a step of `TokenArena` or
leaves it alone. Every theorem about the tape is then one about the walk, and
the tape's invariant is a hypothesis of all that follows.

A key read again at the end of its entry is found in its cell, and the cell is
safe only through the token: cells go back when the tape has let go of their
tokens, and the tape keeps a key's chunk because its level holds it (`holdRun`).
`WInv == Typed /\ TapeUsed /\ LevelsHold /\ CellsKept /\ SweptUp` says so in
parts: each open level holds the run of its own key (`LevelsHold`); a chunk's
cursor has passed only cells whose tokens are gone (`Behind`), and the cell of
each key still to be read is in a chunk in use, at its slot (`Stands`). The
operations of `CellRun` have three lemmas (`TakeCells`, `ReleaseCells`,
`RecycleCells`) that know nothing of the tape; `CellTaken` and `CellsSwept` join
them to it. `SweptUp`, which gives `CellsComeBack`, needs the tape's history as
well: `Released` moves with every loss, so a count that has not moved means that
the cells done with now were done with at the last sweep, but for the chunk
that was being filled.

### KeyLedgerProofs

`RepeatsNoted` says nothing of the shared stack, and from a state in which an
inner mapping's base is below an outer one's keys the next `Record` would note
a repeat against a foreign key. The invariant is
`IInv == TypeOK /\ Settled(..) /\ MarksKnown(..)`. For every open mapping
(`MapsKept`): bases rise with nesting (`BasesRise`); the stack from its base to
the next one's holds each key it wrote, at the place it was first written and
once (`Kept`, `HoldsFirsts`); the spill index, once it has one key of a mapping
or the mapping has more than `spillAt`, has all of them (`IndexHasAll`), and names
nothing that is not on the stack
(`IndexOfOpen`). `ScopesKept` says the same of the key sets of ordered maps, and
`MarksKnown` that what one call leaves for the next (`pending`,
`expectOrderedMap`) is of the collection being opened.

`RecordAnswers` shows that the scan and the index answer alike, whichever is
asked: what was written under the name first, or nothing. `SpillIndexes` is the
step where a mapping passes `spillAt` and its keys enter the index, and
`CloseForgets` where they leave it. There is one lemma for each action; the
three properties are then read off `MapsKept`, what `Holds` answers by
`HoldsAnswers`: the scan is right always, the index but for `NotYetIndexed`. `LeastExists` (a set of numbers
that is not empty has a least one) is where "first written" comes from.

### DescentProofs, KeyAliasProofs

Both are about one state machine, and each part rests on the one before.

`DescentProofs`. `LevelsMatch` compares counters of the walk with the calls being
made, and is not inductive alone: whether `leave` pops what `enter` pushed
depends on a mark set between the two, and whether an entry pops its mark on
what `keepsNothing` answers *at its end*. The invariant is
`IInv == Shape /\ Levels /\ MarksMatch`: the calls nest as the parser makes them
(`FramesOK`), the walk's open nodes, skip count, key depth and pins are counts
over the frames (`InMatches`, `SkipMatches`, `CountsMatch`, the last only until
the visitor stops the parse, since counts that are not deferred then stay; the
pins may be one more in a document that was refused, `PinsMatch`), and
an entry pushed a mark exactly where nothing around it keeps nodes
(`FreeAt`). The last is the step that matters: `keepsNothing`, read at
the end of the entry, answers as it did at its beginning (`KeepsNothingIsFree`),
because a key, an anchor or a kept node inside it has ended by then. Each action
leaves the stack, pushes one frame or pops one (`Stays`, `Pushes`, `Pops`), and
three lemmas carry the counts over these. `Closes` is an action's promise to the
next.

For the cells it adds `CInv == FramesCells /\ DeclsHeld /\ MarksHold`: the cells of
each frame's nodes and of each anchor's are in their blocks, and *below every
mark that a rewind could go back to*. That is what a rewind needs (`RewindCells`)
and what `CellsLive` does not say. The arena's operations have a lemma each
(`TakeCellNodes`, `PushNodes`, `PopNodes`, `CommitNodes`).

`KeyAliasProofs` has two more invariants. `KInv`: as long as the visitor
declined nothing, there is one innermost call it is inside, what is inside that
is read under `quiet`, the key mark is up exactly while that call awaits its
key, and every entry around it has told its key. `AInv`: what the anchor table
stands for while a document is read. The open names are the
anchors being read, in the order they were declared (`OpenNames`); a name that is kept is of an anchor
that has closed, and of the latest (`NodeNames`, `LatestNames`); an alias waits
for the anchor it is inside (`HeldAliases`) or was pointed at one that is closed
(`PointedAliases`). For the tag, which is written onto the node only after the
anchor under it has closed, `TagsWait` and `TagTop` say that no alias was pointed
at that anchor in between, so that `retag` reaches every copy there is. At a
document's end the table is empty, which is why no alias reaches across.

### TypeCachesProofs

A property of answers says nothing of a goroutine between its load and its
store, so the invariant has a part for each: what stands for a type was read
from that type in that mode (`MapsHoldReadings`), an answer is the reading that
stands (`AnswersStand`), a registration a goroutine was told of is not above
the one in force (`ToldInForce`). For a walk over the types under one,
`WalkSound` says that all it has met can be reached; that as long as nothing bad
was found, the types it is done with lead only to types it has met or is still
to meet; and that what it found is really there. When nothing is left to meet,
the types met are closed under `Under`, so they are all that can be reached
(`Reach` is the least such set), types that hold themselves included, and the
verdict it stores is exact (`VerdictsExact`).

### StreamProofs

The three properties are about whole documents, and none says where the parse
is. The scanner is ahead of it: by the tokens that are out of the grouper and
not taken, and by those the grouper holds back, as a directive whose end is not
seen, as a window a `:` may still make a key of, or as the header of a block
scalar. The invariant is `IInv`, and says of a parse that has met no error
(`Live`) that there is a number *p* of tokens taken such that

- `TakenTo(p)`: the units that are out, those the directives' stage keeps, the
  window and the header stand in a row (`Chain`), without a gap, from the
  token after *p* to the last one cut; a directive among them is a `%`, its name
  and a version, whole (`IsDirective`) or as far as it was read (`AtName`); and
  no token taken stands where it may not on a marker's line (`Judged`), the one
  marker excepted whose line is still to be judged (`Marked`);
- `Stands(p)`: the document being read begins where one begins, holds no other
  beginning up to *p*, and the documents finished are as many as begin before it
  (`Place`, by phase; `Tailed` for the one document of an empty stream);
- `Resolved(p)`: the version in force is the one the directives above, or in,
  this document name; the scalars after *p* are resolved under it, and those
  read are, unless the document is itself a directive (`Scoped`).

Of the documents finished, `DocsOK` and `SchemasOK` say the same. The parts are
needed together: no token may be lost between *p* and the last one cut, or the
documents would not be those of the stream; and `retypeAhead` resolves again only
what is ahead of the tokens taken, which is all there is to resolve because a
token taken is of a document that is finished, or of the directive's own.

Two things in the code look delicate and are where the argument is longest. A
directive ends where its line does, which the grouper sees only at the next
token, by when it may keep comments that stand between (`CommentsIt`, `EmitsIt`).
And a `%` begins a document only if something other than a comment stands between
it and the last marker, so that comments taken as a document of their own may be
found to be the beginning of a directive's (`Prefaced`).

Each stage has a lemma for a unit that is added, and one for what it lets go;
those for the window go by the recursive function `Through`. That there is such
a function for a window of any length (`WalkExists`), and that what the stage
keeps true it keeps true through all of it (`LetGoPasses`), is induction on the
length, put as the least length that would be an exception (`LeastExists`). Each
action then has three lemmas, one for each part (`TakeBodySound`,
`TakeBodyStands`, `TakeBodyResolved`), and `NextKeeps` puts them together. What
remains is to see that `StopOf` and `Named`, which look forward and back over
the whole tape, agree with what was known at the time (`StopsAt`, `NamedAre`).

### DecoderProofs

`AnswersInOrder` compares what was handed over with the documents and says
nothing of what the `Decoder` holds, so from a state in which `walked` is not of
the source that was read, or `streamIndex` is not the number of answers, the next
`Decode` would hand over the wrong document. The invariant is
`IInv == SourceOK /\ Stands /\ AtHand /\ AnswersRight /\ LastRight`:

- *Stands*: one reading stands at a time, and it is exact: the walked values are
  those of the documents that hold one, in their order, with an empty document
  where none was delivered; the parsed documents are these, and the books are
  theirs, one each;
- *AtHand*: the source is still to be read or is what was read. Where it is
  gone, a first `Decode` failed on it, or a typed walk answered, and then every
  document of it can be filled into a struct by a typed walk;
- *AnswersRight*: `streamIndex` is the number of answers, and each answer is of
  the document at its place (`Right`), with the fields that one does not write
  as they were;
- *LastRight*: what the last call did fits what it left.

The readings are loops, written as recursive functions over a document's entries
or a stream's documents. That there is such a function for any length
(`PickExists`, `ReadsExist`, `WalksExist`, `FillsExist`) and that each keeps what one turn of
it keeps goes by the least length that would be an exception. `WalkLinesUp`
counts: the documents that are not empty, up to a place, are as many as the walk
delivered by then, so that `documentValues` lines the two up. `SparedLeaves` is
what a typed walk that gave up leaves in a struct: fields of documents of the
stream, as one that wrote them says. The tree writes those of the first
document again (`StructRight`), and so what is left is a later document's
(`LeftBehind`), and of none where there is one document only (`SparedFields`). A
reading off the tree, a walked one and a typed one
each answer rightly (`DecodeTreeRight`, `HandWalkedRight`, `TypedRight`), each
first reading prepares one of them or fails with nothing changed
(`DecodeInitReads`), and `DecodedKeeps` puts them together.

`AtHand` is what the proof asks for that the properties do not suggest. A `Decoder`
that a typed walk answered looks as if it had read nothing, and reads its reader
again; were a typed walk to stop then, a tree would be built with `streamIndex`
past its documents, and it cannot, because what was read by one typed walk is
read by the next.

### What is model-checked only

- Liveness under fairness, and `ENABLED`: `ParseEnds`, `Drains`, `LookupsEnd`.
- What a recursive definition computes for every input, since it takes
  induction over data: the properties of `Readings`, `Groups` and `Encoder`,
  whose modules declare or reach `RECURSIVE` operators (`Document`,
  `ValueBuilder`, `TreeReader`, `JSONTokener`, `Grouper` are the others).
- `ShortWayIsTheChain`, an equation between two ways through those stages.

## Plan

1. **Destinations.** The conversion of a value to a Go type and the fields of a
   struct, inlined and promoted ones included (`codec/struct.go`), as the typed
   walk and the tree each do it.
2. **Scanner.** Indentation and flow depth as a state machine whose output is
   what `Groups` takes for its environment.
3. **Key trees.** Identity of keys that are collections (`ast/keyidentity.go`)
   and of anchored nodes, against a reference.

## Not modelled

The scanner's characters, the resolution of scalars (`token`), comments and
layout, the tree's text (`ast/render.go`, `ast/verbatim.go`), YAML paths, printing and
errors: functions of text, with no state that outlives a call, where a test
reaches what a checker would. Of the encoder: marshalers, comments, styles and
the spelling of scalars. Of the decoder: conversion to Go types, and the budget
of the tree. The integration tests' generators (`internal/testintegration`) are
not part of the program.
