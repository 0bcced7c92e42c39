\* Two goroutines, two vocabularies of tags.
CONSTANTS
    Goroutine = {g1, g2}
    Type <- Types
    Mode = {"yaml", "json"}
    Under <- UnderTypes
    Unwalkable = {"time"}
    Duplicated <- DuplicatedTypes
    Custom = {"time"}
    Own = {"list"}
    MaxLookups = 2
    MaxRegistered = 2
SPECIFICATION Spec
INVARIANTS
    OneReading
    WalkableExact
    TakenCurrent
PROPERTIES
    LookupsEnd
CHECK_DEADLOCK FALSE
