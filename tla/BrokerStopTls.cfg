CONSTANTS
    Plain = {p1}
    Tls = {t1}
    Worker = {w1, w2}
    HandoffCap = 2
SPECIFICATION Spec
CHECK_DEADLOCK FALSE
PROPERTY
    StopReturns
