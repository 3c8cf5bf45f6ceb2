SPECIFICATION Spec
CONSTANTS
    api = api
    job = job
    Api = api
    Jobs <- OneJob
    Always <- Online
    Optional <- Choices
    MaxVersions = 1
    MaxFaults = 2
INVARIANTS
    TheRestIsClosed
    ClosedOnce
