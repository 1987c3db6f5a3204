SPECIFICATION FairSpec
CONSTANTS
    n = n
    h = h
    c1 = c1
    c2 = c2
    c3 = c3
    Runs = {n, h}
    Kind <- MCKind
    Calls = {c1, c2, c3}
    RunOf <- MCRunOf
    None = None
    Faults = {"runFails", "noId", "dies"}
INVARIANT IInv
INVARIANT SandboxesAccounted
PROPERTY CommandsAndCloseEnd
CHECK_DEADLOCK FALSE
