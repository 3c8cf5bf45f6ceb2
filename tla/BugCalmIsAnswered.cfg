SPECIFICATION Spec
CONSTANTS
    t1 = t1
    t2 = t2
    metro = metro
    bus = bus
    Threads <- TwoThreads
    Categories <- TwoCategories
    Modes <- Partitions
    MaxAttempts = 1
    Threshold = 2
    Recovery = 1
    Interval = 1
    Requests = 1
    MaxIdle = 1
    MaxFaults = 1
CHECK_DEADLOCK FALSE
INVARIANTS
    CalmIsAnswered
