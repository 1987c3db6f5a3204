SPECIFICATION Spec
CONSTANTS
    Sessions = {s1}
    None = None
    NoSeal = NoSeal
    Limit = 0
    MaxTurns = 2
    MaxCalls = 2
    SuspendPoints = {"model", "batch"}
    Events = {"cancel", "esc", "shutdown", "crash", "saveError"}
INVARIANT ToolRunsOnce
INVARIANT ConsentBeforeRun
INVARIANT NoDanglingCallAtModel
INVARIANT StatusMatchesTranscript
INVARIANT RepairExact
INVARIANT AllowedFollowUpRaised
