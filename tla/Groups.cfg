CONSTANTS
    ImplicitKeyLimit = 2
    Profile = {"keys", "tagged", "bodies", "notes", "properties", "prelude"}
    MaxLength <- MCMaxLength
    MaxLines = 3
SPECIFICATION Spec
INVARIANTS
    OrderKept
    KeysExact
    BodiesExact
PROPERTY ShortWayIsTheChain
CHECK_DEADLOCK FALSE
