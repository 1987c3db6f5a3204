SPECIFICATION Spec
CONSTANTS
    Sessions = {s1, s2}
    None = None
    NoSeal = NoSeal
    Limit = 0
    MaxTurns = 2
    MaxCalls = 1
    SuspendPoints = {"starting", "resuming", "model", "decide", "batch", "fold", "ending"}
    Events = {"cancel", "esc", "shutdown", "crash", "saveError"}
INVARIANT WholeInv
PROPERTY ResumeKeepsRow
PROPERTY ImplementsToolConsent
SYMMETRY SessionSymmetry
