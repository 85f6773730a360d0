\* Two lanes: each step of one can fall between any two of the other.
SPECIFICATION FairSpec
CONSTANTS
    Lanes <- MCLanes
INVARIANTS
    OutputReadyFirst
    PeerBlamedRightly
    ResumedHasDigest
PROPERTIES
    CallsReturn
CHECK_DEADLOCK FALSE
