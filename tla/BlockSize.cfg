SPECIFICATION SizeSpec
CONSTANTS
    MtuCeiling = 4
    PathLimit = 2
    CleanToGrow = 2
    FirstReprobe = 2
    LastReprobe = 8
    MaxInFlight = 2
PROPERTIES
    LostSizeLowersCeiling
CHECK_DEADLOCK FALSE
