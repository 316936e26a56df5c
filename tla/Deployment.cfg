CONSTANTS
    App = {v1, v2, w1, b1}
    Other = {w1}
    Broken = {b1}
    None = none
    Caller = {c1, c2}
    DriverChecksStop = TRUE
    Capacity = 1
    FrameCount = 3
    MaxPlans = 3
SPECIFICATION Spec
CHECK_DEADLOCK FALSE
INVARIANTS
    PlanIsLive
    FramesIntact
PROPERTY
    CallReturns
