SPECIFICATION Spec
CONSTANTS
    e1 = e1
    e2 = e2
    e3 = e3
    Exchanges = {e1}
    StreamKeys = {k1}
    Responses <- MCTailUnended
    IngestAssistant = TRUE
    IngestReasoning = FALSE
    InterruptGate = TRUE
    Faults = {"process"}
    MaxBufs = 1
    MaxSeen = 8
    None = none
INVARIANT SkipLosesNothing
CHECK_DEADLOCK FALSE
