SPECIFICATION Spec
CONSTANTS
    Instance = {i1, i2}
    NumJobs = 1
    NumTenants = 2
    Ttl = 2
    MaxCrashes = 1
    MaxErrors = 1
    MaxOverruns = 1
INVARIANTS
    TypeOK
    OverlapIsPaidFor
    RowIsTruthful
    NoForgottenRun
    LockedForAReason
PROPERTIES
    RunStatusIsFinal
    EveryTenantIsServed
