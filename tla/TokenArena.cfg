\* Five tokens over chunks of two: three chunks, the last one partly filled;
\* two holders share chunks and outlive each other, and a run spans all three.
CONSTANTS
    ChunkSize = 2
    Chunk = {c1, c2, c3}
    NoChunk = NoChunk
    Holder = {h1, h2}
    MaxTokens = 5
    MaxPins = 2
SPECIFICATION Spec
SYMMETRY Symmetry
INVARIANTS
    TypeOK
    FloorReadable
    RunReadable
    HeldReads
    SavesCounted
    NothingLeaks
PROPERTY ImplementsTape
CHECK_DEADLOCK FALSE
