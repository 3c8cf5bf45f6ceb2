SPECIFICATION Spec
CONSTANTS
    api = api
    job = job
    Api = api
    Jobs <- NoJobs
    Always <- OnlyLand
    Optional <- Nothing
    MaxVersions = 2
    MaxFaults = 0
INVARIANTS
    VersionIsRead
