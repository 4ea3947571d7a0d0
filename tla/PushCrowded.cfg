SPECIFICATION Spec
CONSTANTS
    m1 = m1
    m2 = m2
    m3 = m3
    e1 = e1
    e2 = e2
    Message = {m1, m2, m3}
    EventId = {e1, e2}
    EventOf <- TwoCopies
    Malformed = {}
    Instance = {i1}
    Store = {i1}
    StoreOf <- OwnStore
    Durable = FALSE
    Oidc = FALSE
    MaxEntries = 1
    MaxDeliveryAttempts = 2
    MaxLapses = 1
    MaxCrashes = 1
INVARIANTS
    CompletionsBounded
CHECK_DEADLOCK FALSE
