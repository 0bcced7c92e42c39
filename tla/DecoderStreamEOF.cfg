\* One document is enough.
CONSTANTS
    Field = {f, g}
    Kind <- EveryKind
    MaxDocs = 1
    MaxEntries = 2
SPECIFICATION Spec
INVARIANTS
    OnePerCall
