CONSTANTS
    s1 = s1
    s2 = s2
    w1 = w1
    w2 = w2
    None = None
    Schedules = {s1}
    Workers = {w1, w2}
    Slots <- EverySlot
    MisfireAfter = 1
    Policies <- TellingPolicies
    ClaimLimit = 1
    QueueAllLimit = 2
    MaxNow = 2
    MaxFaults = 1
    MaxLate = 1
SPECIFICATION SFairSpec
INVARIANTS OverlapRespected NothingPassedOver
PROPERTIES FiredIsEnqueued DueSchedulesMoveOn
