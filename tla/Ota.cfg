CONSTANTS
    Version = {v1, v2, v3, v4}
    Initial = v1
    Signed = {v1, v2, v3}
    Healthy = {v1, v2, v4}
    NoVersion = none
    MaxRuns = 3
    MaxCrashes = 2
SPECIFICATION OtaSpec
CHECK_DEADLOCK FALSE
INVARIANTS
    OnlyVerifiedRuns
    NeverStranded
