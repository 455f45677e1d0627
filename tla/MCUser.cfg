SPECIFICATION UserSpec
CONSTANTS
    Octet = {1, 2}
    Gap = 0
    RbCap = 4
    Sizes = {0, 1, 2}
    Offsets <- MCOffsets
    MaxFile = 3
    Node = {r, n1, n2, n3}
    Root = r
    Nil = Nil
    FileName = {fa, fb}
    DirName = {da}
    Hid = {h1, h2}
    SizeMod = 8
    MaxRemoves = 1
    LineCap = 2
    MaxKeys = 4
    User = {u1, u2, u3}
    Creator = u1
    Poster = {q1, q2, q3, q4}
    MaxValue = 2
    MaxSignals = 2
    PProc = {p0, p1, p2}
    Boot = p0
    None = None
    FileId = {f1}
    MaxGid = 4
CHECK_DEADLOCK FALSE
INVARIANTS StdioSound TmpfsSound TermcookSound EsemSound ProcfsSound
  
