SPECIFICATION Spec
CONSTANTS
    Proc = {p1, p2, p3}
    Root = p1
    NULL = NULL
    HANDLE_MAX = 2
    MaxOpens = 2
    Risks = {}
SYMMETRY Symmetry
CHECK_DEADLOCK FALSE
INVARIANTS  NobodyStuck
