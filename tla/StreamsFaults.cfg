SPECIFICATION Spec
CONSTANTS
    e1 = e1
    e2 = e2
    e3 = e3
    Exchanges = {e1, e2}
    StreamKeys = {k1, k2}
    Responses <- MCKinds
    IngestAssistant = TRUE
    IngestReasoning = TRUE
    InterruptGate = TRUE
    Faults = {"open", "process", "age"}
    MaxBufs = 1
    MaxSeen = 2
    None = none
INVARIANTS
    TypeOK
    RowsUnmixed
CHECK_DEADLOCK FALSE
