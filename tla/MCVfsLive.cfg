SPECIFICATION FairSpec
CONSTANTS
    Proc = {p1, p2, p3}
    Root = p1
    NULL = NULL
    HANDLE_MAX = 2
    MaxOpens = 1
    Risks = {}
CHECK_DEADLOCK FALSE
PROPERTIES ServiceSound
