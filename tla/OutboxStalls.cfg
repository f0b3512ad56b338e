SPECIFICATION FairSpec
CONSTANTS
    e1 = e1
    c1 = c1
    c2 = c2
    Event = {e1}
    Consumer = {c1, c2}
    Worker = {w1, w2}
    Subs <- MCSubs
    Rank <- MCRank
    MaxAttempts = 2
    BatchSize = 1
    StaleAfter = 1
    Backoff = 1
    MaxCrashes = 1
    MaxStalls = 1
    MaxSinkErrors = 1
INVARIANTS
    NoConsumerSkipped
    ProcessedIsAccountedFor
    DeadLetterOnlyAfterMaxFailures
    SilentDeadLettersCostCrashes
PROPERTIES
    EveryEventTerminates
