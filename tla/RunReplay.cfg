SPECIFICATION Spec
CONSTANTS
    r1 = r1
    r2 = r2
    k1 = k1
    c1 = c1
    c2 = c2
    h1 = h1
    h2 = h2
    n1 = n1
    None = None
    Runs <- TwoRuns
    Keys <- OneKey
    Commands <- TwoCommands
    Handlers <- TwoHandlers
    Notes <- NoNotes
    Async = FALSE
    KeysExpire = TRUE
    MaxFaults = 0
CHECK_DEADLOCK FALSE
CONSTRAINT OneExecuted
SYMMETRY Alike
INVARIANTS
    ReplayMatchesRequest
