SPECIFICATION Spec
CONSTANTS
    v1 = v1
    v2 = v2
    v3 = v3
    zoning = zoning
    parcels = parcels
    Versions <- ThreeVersions
    Initial = v1
    Measured <- Measures
    MaxEvents = 2
    N = 2
    Constraints <- OneConstraint
    Land = parcels
    Modes <- BothModes
    TopScore = 1
    MaxRevisions = 2
ACTION_CONSTRAINT WhenItMatters
CHECK_DEADLOCK FALSE
INVARIANTS
    FailedIsCleared
    LineageNamesRevision
