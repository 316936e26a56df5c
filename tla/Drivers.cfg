\* The three polled drivers, two values written, ids that wrap after two.
SPECIFICATION DriversSpec
CONSTANTS
    Kind = {"modbus_tcp", "modbus_rtu", "opcua"}
    Value = {1, 2}
    TxnModulus = 2
    MaxBackoff = 1
    MaxPending = 2
INVARIANTS
    AnswerIsOwn
    WriteOkMeansDone
PROPERTIES
    TeardownEnds
    Reconnects
CHECK_DEADLOCK FALSE
