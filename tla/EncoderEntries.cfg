CONSTANTS
    Smart = {TRUE}
    Shapes <- MCShapes
    MaxObjects <- MCMaxObjects
    MaxDocs <- MCMaxDocs
SPECIFICATION Spec
INVARIANT FirstAnchored
CHECK_DEADLOCK FALSE
