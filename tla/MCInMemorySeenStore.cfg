SPECIFICATION Spec
CONSTANTS
    EventId = {e1, e2, e3, e4}
    MaxEntries = 3
    Ttl <- MCTtl
    MaxTime <- MCMaxTime
    NoReply = NoReply
INVARIANTS
    TypeOK
    OldestFirst
    WithinBounds
PROPERTIES
    GrantLeavesOnlyLive
    ImplementsSeenStore
