SPECIFICATION AlgorithmsSpec
CONSTANTS
    Byte = {x, y}
    Junk = Junk
    Capacity = 4
    MaxLen = 3
    Datum = {1, 2}
    Uninit = 0
    Sec = 2
    Sectors = 3
    WBuf = 4
    Round = 2
    MemLen = 3
    MaxIo = 3
    MaxOff = 5
    Letter = {"a"}
    KernelPrefix <- MCKernelPrefix
    MaxPath = 6
    MaxName = 3
    MaxMounts = 4
    EntrySets <- MCEntrySets
    UnderSets <- MCUnderSets
    Opened <- MCOpened
    Caps = {1, 2, 3, 8}
    Archives <- MCArchives
    TarPaths <- MCTarPaths
    Block = 2
    PageSize = 3
    VPages = 2
    DstFrame = {1, 2, 3}
    SrcFrame = {4, 5}
    MaxCopy = 5
    Texts <- MCTexts
    MaxTokens = 3
    ArgvLen = 3
CHECK_DEADLOCK FALSE
INVARIANTS FilesSound PathsSound ListingSound TarSound CopySound ParserSound
PROPERTIES FifoSpec WritesSound
