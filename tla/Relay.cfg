SPECIFICATION Spec
CONSTANTS
    Node = {1, 2}
    Thread = {t1, t2}
    ReactorThread = t1
    Message = {1, 2}
    Slow = {1}
    MaxDials = 2
    Capacity = 2
INVARIANTS
    RelayedOnce
    StreamFramed
    NothingAfterStop
PROPERTIES
    StopReturns
CHECK_DEADLOCK FALSE
