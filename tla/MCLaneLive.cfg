SPECIFICATION LiveSpec
CONSTANTS
    Blocks = 3
    Window = 2
    MinInFlight = 1
    QueueSlots = 2
    RtoHoles = 2
    MaxQuietAcks = 1
    BurstSurvives = TRUE
    MinWorkers = 1
    MaxWorkers = 3
    MaxSpawns = 4
    Addresses = {a1, a2, a3}
    MaxMoves = 2
    MaxChallenges = 6
    Values = {a}
    Cap = 2
    CounterMod = 4
INVARIANTS
    SingleThreadedTail
PROPERTIES
    LaneInUseCompletes
    PoolInUseStops
    AdoptedWasThere
    PeerInUseIsFound
    RingInUseFlows
CHECK_DEADLOCK FALSE
