CONSTANTS
    Value = {a, b}
    NoValue = none
    ConfiguredWindow = 2
    MaxSend = 3
    MaxArrivals = 3
    Thread = {t1}
    IdModulus = 3
    MaxRetries = 1
    MaxIgnored = 1
    MayBreak = TRUE
SPECIFICATION LinkSpec
CHECK_DEADLOCK FALSE
INVARIANTS
    ReleasedIsPrefix
    NoSilentLoss
PROPERTY
    BufferedIsKept
