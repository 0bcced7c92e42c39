SPECIFICATION Spec
CONSTANTS
    Options = {"1.2"}
    MaxTokens = 6
INVARIANTS DocumentsMatch SchemasMatch AcceptedIsSound
PROPERTY ParseEnds
CHECK_DEADLOCK FALSE
