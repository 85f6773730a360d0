SPECIFICATION FairSpec
CONSTANTS
    Callers <- MCCallers
    Messages <- MCMessages
    MsgLen <- MCMsgLen
    Window = 2
    MinRoom = 1
    InboxCap = 2
    MaxClosing = 1
INVARIANTS
    ArrivalsInOrder
    OkHasArrivedUntilTimeout
PROPERTIES
    NothingLeftAtClose
    CloseReturns
CHECK_DEADLOCK FALSE
