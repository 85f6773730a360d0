SPECIFICATION HttpSpec
CONSTANTS
    Clients = {c1, c2}
    LineRoom = 9
    Reasons <- MCReasons
    HeaderBlocks <- MCHeaderBlocks
    Bodies <- MCBodies
    NULL = NULL
INVARIANTS
    AnswerArrivesAsGiven
CHECK_DEADLOCK FALSE
