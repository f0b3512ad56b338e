SPECIFICATION Spec
CONSTANTS
    e1 = e1
    c1 = c1
    c2 = c2
    Event = {e1}
    Consumer = {c1, c2}
    Worker = {w1, w2}
    Subs <- MCSubs
    Rank <- MCRank
    MaxAttempts = 2
    BatchSize = 1
    StaleAfter = 2
    Backoff = 1
    MaxCrashes = 1
    MaxStalls = 0
    MaxSinkErrors = 0
INVARIANTS
    NoSilentDone
