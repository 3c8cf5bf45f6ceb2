SPECIFICATION Spec
CONSTANTS
    r1 = r1
    r2 = r2
    a = a
    b = b
    forged = forged
    h1 = h1
    h2 = h2
    w = w
    None = None
    Worker = w
    Runs <- TwoRuns
    Selections <- TwoSelections
    Allowed <- TwoSelections
    Handlers <- TwoHandlers
    LeaseExpires = TRUE
    SlowHolders = TRUE
    MaxFaults = 1
SYMMETRY Symmetry
CONSTRAINT NoWorker
INVARIANTS
    OneRunPerSession
    ConfirmedIsAnalysed
    ReportsOutcome
    AuditIsTrue
