CONSTANTS
    o1 = o1
    o2 = o2
    Ops = {o1, o2}
    Definitions <- SomeDefinitions
    Environments <- SomeEnvironments
    Records <- SomeRecords
    MaxDeferred = 4
    MaxRegistered = 1
    MaxEffects = 2
SPECIFICATION OFairSpec
INVARIANTS AllOrNothing EffectsOnce
PROPERTIES ImplementsOutcome AnsweredOrDead
