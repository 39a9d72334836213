SPECIFICATION CSpec
CONSTANTS
    w1 = w1
    w2 = w2
    Writers = {w1, w2}
    Fields <- TwoFields
    Values <- Bits
    Records <- Pairs
    Conditions <- SomeConditions
    Matches <- Holds
    AlwaysHolds <- HoldsOfAny
    NeverHolds <- HoldsOfNone
    Patches <- SomePatches
    Bundles <- SomeBundles
    NoBundle = NoBundle
    NoRecord = NoRecord
    Nobody = Nobody
    Hooks = {"create", "update"}
    MaxChanges = 1
SYMMETRY Same
INVARIANTS NoLostUpdate AnswersTruthful
PROPERTIES ImplementsGuardedRecord
CHECK_DEADLOCK FALSE
