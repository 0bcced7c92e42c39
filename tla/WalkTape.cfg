\* Six tokens over chunks of two, so a key and its ':' may stand on either
\* side of a chunk's end; chunks of two cells, so that a chunk's newest cell
\* may be done with before its oldest; four levels, two mappings deep; a
\* second stream on what the first one left.
CONSTANTS
    ChunkSize = 2
    CellsPerChunk = 2
    Chunk = {c1, c2, c3}
    NoChunk = NoChunk
    Holder = {1, 2, 3, 4}
    MaxTokens = 6
    MaxPins = 0
    Ahead = 3
    MaxStreams = 2
SPECIFICATION WalkSpec
SYMMETRY Symmetry
INVARIANTS
    CellsStand
    CellsComeBack
CHECK_DEADLOCK FALSE
