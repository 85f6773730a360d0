SPECIFICATION PartsSpec
CONSTANTS
    RingSize = 4
    WordBits = 2
    Window = 4
    Lossless = TRUE
    SeqNos <- MCSeqNos
    ReorderDelays <- MCReorderDelays
    RenackIntervals <- MCRenackIntervals
    MaxTime = 4
    Values = {a, b}
    Cap = 4
    CounterMod = 8
    Seqs <- MCSeqs
    KWindow = 3
    Writers = 1
    RouteRun = 1
    RingSlots = 2
    RtxSlots = 1
    WriteBatch = 2
    Corruption = TRUE
    DiskFails = TRUE
    StreamBlocks = 7
    ReorderWindow = 3
    MaxFile = 7
    MaxLanes = 3
    ChunkBytes = 1
    MaxRanges = 2
    RangesPerMsg = 1
    BlockSizes = {1, 3}
    MaxSealFailures = 1
    MtuCeiling = 4
    PathLimit = 4
    CleanToGrow = 2
    FirstReprobe = 2
    LastReprobe = 8
    MaxInFlight = 2
    MaxWindow = 9
    FirstWindow = 4
    CleanEpochs = 2
    GrowStep = 2
    MaxBackoff = 3
    MaxEpochs = 3
    ByteBase = 256
    ProtocolVersions = {7, 8}
    MaskWords = 2
    MaxItems = 2
    MaxExtension = 16
    MaxStray = 2
INVARIANTS
    RingInWindow
    GapTimers
    NoSlotShared
    WrittenOnce
    MarksExact
    ReportsFit
    ReassemblyExact
    EveryByteOnce
    NonceSealsOneBlock
    FailedSizeRests
    OneHalvingPerRun
    DecodedAsSent
PROPERTIES
    ImplementsAckWindow
    ImplementsFifo
    BlocksInUseReported
CHECK_DEADLOCK FALSE
