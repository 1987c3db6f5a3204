SPECIFICATION Spec
CONSTANTS
    Sessions = {s1}
    None = None
    NoSeal = NoSeal
    Limit = 0
    MaxTurns = 1
    MaxCalls = 1
    SuspendPoints = {"model", "batch"}
    Events = {}
INVARIANT FollowUpRaised
