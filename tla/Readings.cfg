\* Six nodes: "{<<: [{x: s}, {x: s}]}" and "{x: &a {x: s, y: s}, <<: *a}" are
\* among them, a name given twice, and two aliases of one collection; and a
\* second document where the two have four.
CONSTANTS
    Key = {x, y}
    OtherKey = {}
    Name = {"a"}
    Declared = {"a"}
    MaxNodes = 6
    MaxDocs = 2
    MaxStream = 4
    Budget = 3
    MaxDepth = 16
SPECIFICATION Spec
SYMMETRY Symmetry
INVARIANTS
    WalkReads
    AliasesApart
    BudgetExact
    TreeReads
    JSONReads
CHECK_DEADLOCK FALSE
