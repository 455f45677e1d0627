SPECIFICATION Spec
CONSTANTS
    Proc = {p1, p2, p3}
    Root = p1
    NULL = NULL
    HANDLE_MAX = 3
    ReadLens = {2}
    WriteLens = {1}
    Share = TRUE
SYMMETRY Symmetry
CHECK_DEADLOCK FALSE
INVARIANTS PipeSound NobodyWaitsInVain
PROPERTIES TransfersExact
