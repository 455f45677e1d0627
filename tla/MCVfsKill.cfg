SPECIFICATION Spec
CONSTANTS
    Proc = {p1, p2, p3}
    Root = p1
    NULL = NULL
    HANDLE_MAX = 2
    MaxOpens = 2
    Risks = {"kill_open", "kill_read", "kill_write"}
SYMMETRY Symmetry
CHECK_DEADLOCK FALSE
INVARIANT NoPanic
