SPECIFICATION FairSpec
CONSTANTS
    r1 = r1
    r2 = r2
    k1 = k1
    c1 = c1
    c2 = c2
    h1 = h1
    h2 = h2
    n1 = n1
    None = None
    Runs <- OneRun
    Keys <- NoKeys
    Commands <- OneCommand
    Handlers <- TwoHandlers
    Notes <- OneNote
    Async = TRUE
    KeysExpire = FALSE
    MaxFaults = 1
CHECK_DEADLOCK FALSE
PROPERTY
    EnqueuedSettles
