SPECIFICATION Spec
CONSTANTS
    r1 = r1
    r2 = r2
    a = a
    b = b
    forged = forged
    h1 = h1
    h2 = h2
    w = w
    None = None
    Worker = w
    Runs <- OneRun
    Selections <- OneSelection
    Allowed <- OneSelection
    Handlers <- OneHandler
    LeaseExpires = FALSE
    SlowHolders = FALSE
    MaxFaults = 1
INVARIANTS
    RejectionKeepsPause
