SPECIFICATION Spec
CONSTANTS
    MaxRetries = 1
    MaxNonce = 3
    Streams <- MCStreams
    Units <- MCUnits
    OldSizes <- MCOldSizes
    OldNacks = {0}
    Window = 2
    RtoHoles = 1
INVARIANT ReceivedIsComplete
CHECK_DEADLOCK FALSE
