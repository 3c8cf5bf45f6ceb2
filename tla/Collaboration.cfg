SPECIFICATION FairSpec
CONSTANTS
    a1 = a1
    a2 = a2
    poi = poi
    spatial = spatial
    Conversations <- TwoConversations
    Specialists <- TwoSpecialists
    Budgets <- AllBudgets
    MaxRetries = 2
    RecursionLimit = 11
CHECK_DEADLOCK FALSE
INVARIANTS
    WithinBudget
    FailsClosed
PROPERTIES
    NoLostRevision
    StaleMemoryRefused
    ReviewEnds
