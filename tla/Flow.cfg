\* Every application of MCFlow, two frames each.
SPECIFICATION FlowSpec
CONSTANTS
    Apps <- MCApps
    PayloadNames = {"x"}
    MaxIterations = 3
    MaxFrames = 2
    MaxStack = 5
INVARIANTS
    OrderSound
    TagWrittenOnce
    ExpressionKept
PROPERTIES
    EveryFrameEnds
CHECK_DEADLOCK FALSE
