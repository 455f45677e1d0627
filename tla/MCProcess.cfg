SPECIFICATION Spec
CONSTANTS
    Proc = {p1, p2, p3, p4}
    First = p1
    NULL = NULL
    MaxPid = 5
    WaitStates = {"WAITS4TIMER", "WAITS4PIPE"}
    Calls = {"fork", "fork_newfs", "exit", "wait2", "intr", "intr_kill", "intr_set"}
    NsAnywhere = FALSE
SYMMETRY Symmetry
CHECK_DEADLOCK FALSE
INVARIANTS TypeOK TreeOK NoLostDeath WaiterHasChild KernelSound
PROPERTIES DeathsExact
