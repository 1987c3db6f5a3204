SPECIFICATION FairSpec
CONSTANTS
    Sessions = {s1}
    None = None
    NoSeal = NoSeal
    Limit = 2
    MaxTurns = 3
    MaxCalls = 2
    SuspendPoints = {"model", "batch"}
    Events = {"cancel", "esc", "shutdown", "crash"}
INVARIANT TurnStartsDurable
PROPERTY ResultsKept
 
PROPERTY ClaimReleased
