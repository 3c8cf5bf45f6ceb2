SPECIFICATION FairSpec
CONSTANTS
    coffee = coffee
    store = store
    mall = mall
    a = a
    b = b
    f1 = f1
    None = None
    Retail <- TwoRetail
    Other <- OneOther
    First = coffee
    Rows <- OneRow
    Fixtures <- OneRun
    MaxSessions = 2
    MaxVersions = 1
    MaxClicks = 5
    MaxFaults = 1
CHECK_DEADLOCK FALSE
INVARIANTS
    SummaryIsOfSession
PROPERTIES
    StartsWhatIsShown
    DiscoveredOnce
    CompletedIsRead
