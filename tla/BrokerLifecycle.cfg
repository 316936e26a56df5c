CONSTANTS
    Plain = {p1, p2}
    Tls = {t1, t2}
    Worker = {w1, w2}
    HandoffCap = 2
SPECIFICATION Spec
CHECK_DEADLOCK FALSE
INVARIANTS
    ClosedExactlyOnce

    
