CONSTANTS
    k1 = k1
    r1 = r1
    r2 = r2
    r3 = r3
    f1 = f1
    p1 = p1
    p2 = p2
    None = None
    Keys = {k1}
    Requests = {r1, r2}
    Finalizers = {f1}
    KeyOf <- OneKey
    PrintOf <- Attempts
    HasTags = FALSE
    HasCache = FALSE
    MaxFaults = 1
SPECIFICATION WFairSpec
PROPERTIES RetriesSucceed
CHECK_DEADLOCK FALSE
