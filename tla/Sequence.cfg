SPECIFICATION Spec
CONSTANTS
    Request = {r1, r2}
    Admin = {a1, a2}
    Format = {f1}
    Increment = {1, 2}
    Start = {"missing", "plain", "periodic"}
    MaxPeriod = 1
    MaxStraddles = 0
    MaxEdits = 1
    MaxAborts = 1
INVARIANTS
    TypeOK
    NoDuplicateCode
    EnsureIsEnough
    SeededFollowsConfig
PROPERTIES
    NoCodeFromInactive
    EveryCallEnds
