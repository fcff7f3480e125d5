\* A host that sends the rewritten body again: not one of the checked runs,
\* it fails (README, observations).
SPECIFICATION Spec
CONSTANTS
    Prompts <- MCPrompts
    Turns <- MCTurns
    WindowSize = 2
    RecallLimit = 1
    MaxLine = 1
    MaxIngest = 6
    MaxArgs = 1
    LongEcho = 4
    IngestAssistant = TRUE
    MaxMessages = 6
    MaxRecall = 2
    MaxStaged = 1
    None = none
INVARIANT RecallAlwaysShown
