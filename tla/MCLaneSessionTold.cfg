\* The claim of recv_lane's give_up, against what a handshake does.
SPECIFICATION Spec
CONSTANTS
    Lanes <- MCLanes
INVARIANTS
    ToldSenderStops
CHECK_DEADLOCK FALSE
