SPECIFICATION FairSpec
CONSTANTS
    t1 = t1
    t2 = t2
    metro = metro
    bus = bus
    Threads <- TwoThreads
    Categories <- TwoCategories
    Modes <- BothModes
    MaxAttempts = 2
    Threshold = 2
    Recovery = 1
    Interval = 1
    Requests = 2
    MaxIdle = 1
    MaxFaults = 1
CHECK_DEADLOCK FALSE
INVARIANTS
    RecoveredIsReal
PROPERTIES
    PermitsAreSpaced
    SearchEnds
