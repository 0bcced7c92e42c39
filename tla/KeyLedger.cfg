SPECIFICATION Spec
CONSTANTS
    Text = {a, b}
    Kind = {string, integer}
    AnyKind = AnyKind
    SpillAt = 2
    MaxWrites = 4
    MaxDepth = 3
    MaxEntries = 2
SYMMETRY Symmetry
INVARIANTS
    RepeatsNoted
    KeysAreTheirMappings
    HoldsWhatIsWritten
CHECK_DEADLOCK FALSE
