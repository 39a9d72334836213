CONSTANTS
    j1 = j1
    j2 = j2
    w1 = w1
    w2 = w2
    p = p
    None = None
    Canceller = Canceller
    Jobs = {j1}
    Workers = {w1, w2}
    PartitionOf <- SamePartition
    MaxAttempts <- TwoAttempts
    ClaimLimit = 2
    LeaseTerm = 1
    Delays = {0, 1}
    Serial = TRUE
    Required = TRUE
    CountsRows = TRUE
    RetryDelay = 1
    Backoff = 2
    MaxCrashes = 1
    MaxErrors = 0
    WithEffects = TRUE
SPECIFICATION DFairSpec
INVARIANTS OutcomeMatchesRace
PROPERTIES LateWorkFenced WorkerReturns EndsOrIsStranded
