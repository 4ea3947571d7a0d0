SPECIFICATION Spec
CONSTANTS
    m1 = m1
    m2 = m2
    m3 = m3
    e1 = e1
    e2 = e2
    Message = {m1, m2}
    EventId = {e1, e2}
    EventOf <- TwoCopies
    Malformed = {}
    Instance = {i1, i2}
    Store = {i1, i2}
    StoreOf <- OwnStore
    Durable = FALSE
    Oidc = TRUE
    MaxEntries = 2
    MaxDeliveryAttempts = 2
    MaxLapses = 1
    MaxCrashes = 1
INVARIANTS
    TypeOK
    AckedMeansSettled
    ClaimsStandForSuccess
PROPERTIES
    EveryMessageAccountedFor
CHECK_DEADLOCK FALSE
