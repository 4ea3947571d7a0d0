SPECIFICATION Spec
CONSTANTS
    d1 = d1
    e1 = e1
    Delivery = {d1}
    EventId = {e1}
    BodyOf <- SameBody
    Flaws = {{}, {"key"}}
    Attempts = 2
    IngestInstance = {g1}
    MaxIngestCrashes = 1
    Instance = {i1, i2}
    MaxEntries = 1
    MaxDeliveryAttempts = 2
    MaxLapses = 0
    MaxCrashes = 1
INVARIANTS
    HandledWasAccepted
    NothingPromisedIsLost
PROPERTIES
    ImplementsAtLeastOnce
CHECK_DEADLOCK FALSE
