SPECIFICATION FairSpec
CONSTANTS
    e1 = e1
    e2 = e2
    e3 = e3
    Exchanges = {e1, e2}
    StreamKeys = {k1, k2}
    Responses <- MCResponses
    IngestAssistant = TRUE
    IngestReasoning = FALSE
    InterruptGate = TRUE
    Faults = {}
    MaxBufs = 2
    MaxSeen = 8
    None = none
INVARIANTS
    StoredOnce
    AnsweredStored
PROPERTY ResentIsStored
CHECK_DEADLOCK FALSE
