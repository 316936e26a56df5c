CONSTANTS
    Report = {r1, r2, r3}
    StoreSurvivesCrash = TRUE
    CheckpointMayFail = FALSE
    MaxCrashes = 2
    MaxOutages = 2
SPECIFICATION Spec
INVARIANTS
    NeverDropped
    RecordedInOrder
    KeyNamesOneReport
PROPERTIES
    ImplementsPromise
    EventuallySettled
