SPECIFICATION TimedSpec
CONSTANTS
    m1 = m1
    m2 = m2
    m3 = m3
    e1 = e1
    e2 = e2
    i1 = i1
    i2 = i2
    Message = {m1, m3}
    EventId = {e1, e2}
    EventOf <- TwoCopies
    Malformed = {}
    Instance = {i1, i2}
    Store = {i1, i2}
    StoreOf <- OwnStore
    Durable = FALSE
    Oidc = FALSE
    MaxEntries = 2
    MaxDeliveryAttempts = 2
    MaxLapses = 1
    MaxCrashes = 1
    AckDeadline = 3
    WorstCase = 2
    Concurrency = 2
    MaxBreaks = 1
INVARIANTS
    MissedInTheQueue
    OverlapHasACause
CHECK_DEADLOCK FALSE
SYMMETRY InstanceSymmetry
