CONSTANTS
    Smart = {TRUE, FALSE}
    Shapes <- MCShapes
    MaxObjects <- MCMaxObjects
    MaxDocs <- MCMaxDocs
SPECIFICATION Spec
INVARIANTS
    ReadsBack
    SharedOnce
CHECK_DEADLOCK FALSE
