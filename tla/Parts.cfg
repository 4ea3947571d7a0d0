SPECIFICATION MCSpec
CONSTANTS
    Message = {"good", "bad"}
    Poison = {"bad"}
    MaxDeliveryAttempts = 2
    ProcessorCommand = "processor_main:app"
    PushAccount = "push@project"
    OtherAccount = "other@elsewhere"
    ThisService = "https://processor"
    OtherService = "https://other"
    MaxTime = 1
    Instance = {"i1", "i2"}
    Key = {"old", "new"}
    MaxVersions = 3
    SourceName = "aptly"
    MaxAttempts = 3
    MaxCalls = 2
    Printable = {"m1", "m2", "m3"}
    Run = {"r1", "r2"}
    MaxMessages = 2
INVARIANTS
    OnlyPoisonIsDeadLettered
    OpenOnlyByName
    OnlyOurPushIsAdmitted
    OurPushIsAdmitted
    KeyInForce
    OwnMessagesParse
    OneJsonLineEach
    OwnFieldsStand
    EventIdSurvives
PROPERTIES
    ProvisionedInTheEnd
    QueuedIsSettled
    VerdictIsPermanent
    NothingIsDroppedUnseen
CHECK_DEADLOCK FALSE
