SPECIFICATION MemorySpec
CONSTANTS
    Pages = 7
    PAGE_SIZE = 4
    HDR = 2
    Lens = {0, 2}
    Counts = {1, 2}
    NDEBUG = FALSE
    NULL = NULL
    Proc = {p1, p2}
    Init1 = p1
    Dir = {d1, d2}
    None = None
    PageBytes = 2
    Fan = 2
    NTables = 2
    Frame = {1, 2, 3, 4}
    KernPage = 3
    KernFrame = 10
    MapLens = {1, 3}
CHECK_DEADLOCK FALSE
INVARIANTS HeapSound 
PROPERTIES PrivateSpaces
