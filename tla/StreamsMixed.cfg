SPECIFICATION Spec
CONSTANTS
    e1 = e1
    e2 = e2
    e3 = e3
    Exchanges = {e1, e2, e3}
    StreamKeys = {k1}
    Responses <- MCThree
    IngestAssistant = TRUE
    IngestReasoning = FALSE
    InterruptGate = TRUE
    Faults = {}
    MaxBufs = 1
    MaxSeen = 8
    None = none
INVARIANT RowsUnmixed
CHECK_DEADLOCK FALSE
