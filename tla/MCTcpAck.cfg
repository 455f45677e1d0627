SPECIFICATION TcpAlone
CONSTANTS
    Proc = {p1, p2}
    NULL = NULL
    Dev = {"com1", "kb", "mouse"}
    Uses = {{"com1"}, {"kb", "mouse"}, {"eth"}}
    Room = 2
    TmpLen = 3
    MaxLen = 2
    MaxBytes = 3
    RxRoom = 2
    NDesc = 4
    Sleeper = {s1, s2, s3}
    Ms = {0, 1, 15}
    NsPerMs = 2
    FsPerNs = 2
    hpet_period = 1
    Modulus = 64
    MaxNow = 8
    Cap = 5
    SegLen <- MCSegLen
    ReadCaps = {1, 2}
    MaxWrites = 1
    Slack = 0
    FragMax = 2
    PayloadLen <- MCPayloadLen
    IdMod = 3
    File = {f1, f2}
    Ip = {i1, i2}
    Mac = {m1, m2}
    NoMac = NoMac
    Port = {t1}
    MaxFrames = 3
    MaxRaw = 1
CHECK_DEADLOCK FALSE
INVARIANT AckOK
