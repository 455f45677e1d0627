SPECIFICATION FairSpec
CONSTANTS
    Proc = {p1, p2, p3, p4}
    First = p1
    NULL = NULL
    MaxPid = 5
    WaitStates = {}
    Calls = {"fork", "exit", "wait2", "wait2_pid", "getprocfs"}
    NsAnywhere = FALSE
CHECK_DEADLOCK FALSE
INVARIANTS NamespacesSound
PROPERTIES KernelEnds
