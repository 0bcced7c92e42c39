\* Three documents and two entries: a document that holds no value before, among
\* and after others, one refused and offered again, and a struct whose second
\* field sends the typed walk to the tree.
CONSTANTS
    Field = {f, g}
    Kind <- EveryKind
    MaxDocs = 3
    MaxEntries = 2
SPECIFICATION Spec
INVARIANTS
    AnswersInOrder
    StructKeeps
    BooksMatch
PROPERTIES
    Drains
