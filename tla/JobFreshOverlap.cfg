SPECIFICATION Spec
CONSTANTS
    Instance = {i1, i2, i3}
    NumJobs = 1
    NumTenants = 1
    Ttl = 2
    MaxCrashes = 0
    MaxErrors = 0
    MaxOverruns = 1
INVARIANTS
    FreshRunsExclude
SYMMETRY InstanceSymmetry
