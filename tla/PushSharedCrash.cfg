SPECIFICATION Spec
CONSTANTS
    m1 = m1
    m2 = m2
    m3 = m3
    e1 = e1
    e2 = e2
    Message = {m1}
    EventId = {e1}
    EventOf <- TwoCopies
    Malformed = {}
    Instance = {i1}
    Store = {"shared"}
    StoreOf <- OneStore
    Durable = TRUE
    Oidc = FALSE
    MaxEntries = 1
    MaxDeliveryAttempts = 2
    MaxLapses = 0
    MaxCrashes = 1
INVARIANTS
    AckedMeansSettled
CHECK_DEADLOCK FALSE
