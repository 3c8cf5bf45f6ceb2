SPECIFICATION Spec
CONSTANTS
    api = api
    job = job
    Api = api
    Jobs <- OneJob
    Always <- OnlyLand
    Optional <- Nothing
    MaxVersions = 1
    MaxFaults = 0
INVARIANTS
    NoDemoIsAuthoritative
