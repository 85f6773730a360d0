SPECIFICATION Spec
CONSTANTS
    Callers <- MCCallers
    Messages <- MCMessages
    MsgLen <- MCMsgLen
    Window = 2
    MinRoom = 1
    InboxCap = 2
    MaxClosing = 0
INVARIANTS
    OkHasArrived
CHECK_DEADLOCK FALSE
