SPECIFICATION Spec
CONSTANTS
    Types <- MCTypes
    Name = {x, y}
    MaxNodes = 5
    MaxDepth = 3
    MaxDecls = 2
    MaxAliases = 1
    MaxDocs = 2
SYMMETRY Symmetry
INVARIANTS
    LevelsMatch
    MarksAndPinsMatch
    CellsLive
    KeysToldOnce
    AliasesResolve
CHECK_DEADLOCK FALSE
