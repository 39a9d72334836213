CONSTANTS
    j1 = j1
    j2 = j2
    w1 = w1
    w2 = w2
    p = p
    None = None
    Canceller = Canceller
    Jobs = {j1, j2}
    Workers = {w1, w2}
    PartitionOf <- SamePartition
    MaxAttempts <- OneThenTwo
    ClaimLimit = 2
    LeaseTerm = 1
    Delays = {0}
    Serial = FALSE
    Required = TRUE
    CountsRows = TRUE
SPECIFICATION Spec
SYMMETRY WorkerSymmetry
INVARIANTS PartitionExclusive
