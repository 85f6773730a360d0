SPECIFICATION LaneAndFileSpec
CONSTANTS
    Blocks = 4
    Window = 3
    MinInFlight = 1
    QueueSlots = 1
    RtoHoles = 1
    MaxQuietAcks = 1
    BurstSurvives = FALSE
    v1 = v1
    v2 = v2
    v3 = v3
    v4 = v4
    Versions <- MCVersions
    FileId <- MCFileId
    FileBlocks = 3
    ChunkBlocks = 2
    MaxSessions = 2
    MaxFailures = 2
INVARIANTS
    RegistryHoldsUnacked
    BelievedIsOnDisk
    AckedOnce
    OkMeansWritten
    TrailerHonest
    PathWhole
    OkIsThisFile
CHECK_DEADLOCK FALSE
