SPECIFICATION Spec
CONSTANTS
    c1 = c1
    c2 = c2
    c3 = c3
    p1 = p1
    p2 = p2
    Call = {c1, c2, c3}
    Payload = {p1, p2}
    PayloadOf <- MCPayloadOf
    MaxOutages = 1
    MaxCrashes = 1
    MaxUncached = 1
INVARIANTS
    TypeOK
    CalmMeansOnce
PROPERTIES
    ImplementsOnce
    KeyComesFree
