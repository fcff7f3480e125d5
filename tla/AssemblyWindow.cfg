\* Clients of the Responses format that call two tools at once.
SPECIFICATION Spec
CONSTANTS
    Prompts <- MCPrompts
    Turns <- MCTurnsParallel
    WindowSize = 2
    RecallLimit = 1
    MaxLine = 1
    MaxIngest = 6
    MaxArgs = 1
    LongEcho = 4
    IngestAssistant = TRUE
    MaxMessages = 6
    MaxRecall = 2
    MaxStaged = 1
    None = none
INVARIANT NoOrphanOutput
