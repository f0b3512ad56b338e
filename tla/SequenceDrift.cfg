SPECIFICATION Spec
CONSTANTS
    Request = {r1}
    Admin = {a1}
    Format = {f1, f2}
    Increment = {1}
    Start = {"missing"}
    MaxPeriod = 0
    MaxStraddles = 0
    MaxEdits = 0
    MaxAborts = 0
INVARIANTS
    CounterFollowsConfig
