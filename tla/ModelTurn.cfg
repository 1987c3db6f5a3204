SPECIFICATION FairSpec
CONSTANTS
    RequestOverhead = 1
    PerMessage = 1
    ToolsSize = 1
    SystemSize = 1
    SummarySize = 1
    InputBudget = 11
    Trigger = 8
    KeepRecent = 2
    Prompts = {2}
    Results = {1, 3}
    MaxChunks = 1
    MaxAttempts = 2
    MaxPrompts = 2
    MaxTurns = 2
    MaxCalls = 2
    MaxCompacts = 1
    Asked = {2, 3}
    Wanting = {1}
    Overlap = TRUE
INVARIANT TurnConsistent
INVARIANT RequestExact
PROPERTY TranscriptKept
PROPERTY ModelCallEnds
CHECK_DEADLOCK FALSE
