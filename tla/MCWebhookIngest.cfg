SPECIFICATION Spec
CONSTANTS
    Delivery = {d1, d2}
    Instance = {i1, i2}
    Attempts = 3
    MaxCrashes = 1
INVARIANTS
    TypeOK
    PromiseKept
    OnlyAcceptedIsQueued
    AnonymousLearnsNothing
    LossTakesEveryAttempt
PROPERTIES
    EveryRequestAnswered
CHECK_DEADLOCK FALSE
