SPECIFICATION Spec
CONSTANTS
    m1 = m1
    m2 = m2
    m3 = m3
    e1 = e1
    e2 = e2
    Message = {m1, m2, m3}
    EventId = {e1, e2}
    EventOf <- TwoCopies
    Malformed = {m3}
    Instance = {i1, i2}
    Store = {"shared"}
    StoreOf <- OneStore
    Durable = TRUE
    Oidc = FALSE
    MaxEntries = 2
    MaxDeliveryAttempts = 2
    MaxLapses = 1
    MaxCrashes = 1
INVARIANTS
    CompletionsBounded
CHECK_DEADLOCK FALSE
