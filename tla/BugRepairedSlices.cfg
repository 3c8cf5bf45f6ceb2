SPECIFICATION Spec
CONSTANTS
    cafe = cafe
    transit = transit
    office = office
    park = park
    Groups <- TwoGroups
    LateGroups <- OneLate
    Context <- OneBatch
    Bound = 2
    Reach = 1
    Limit = 2
    Budget = 3
    RangeLimit = 2
    LandLimit = 3
    MaxCandidates = 3
    Separation = 2
    Towns <- OneTown
    Fixture <- Catalogue
    Persisted <- Rows
    Cadastres <- Layers
    Observations <- Services
CHECK_DEADLOCK FALSE
INVARIANTS
    RepairedSlicesAreHonest
