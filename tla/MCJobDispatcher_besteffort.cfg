CONSTANTS
    j1 = j1
    j2 = j2
    w1 = w1
    w2 = w2
    p = p
    None = None
    Canceller = Canceller
    Jobs = {j1}
    Workers = {w1, w2}
    PartitionOf <- SamePartition
    MaxAttempts <- TwoAttempts
    ClaimLimit = 2
    LeaseTerm = 1
    Delays = {0, 1}
    Serial = FALSE
    Required = FALSE
    CountsRows = TRUE
    RetryDelay = 1
    Backoff = 2
    MaxCrashes = 1
    MaxErrors = 1
    WithEffects = FALSE
SPECIFICATION DSpec
SYMMETRY WorkerSymmetry
INVARIANTS HooksFollowTransitions HistoryFollowsOutcome
