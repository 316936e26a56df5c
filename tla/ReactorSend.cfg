CONSTANTS
    Foreign = {f1}
    PacketLen = 2
    SockCap = 2
    MaxPushed = 3
    Topic = {a, b}
    AliasMax = 1
    NoTopic = NoTopic
SPECIFICATION Spec
CHECK_DEADLOCK FALSE
INVARIANTS
    StreamIntact
    ClosedOnce
    AliasResolves
PROPERTY
    EventuallySent
