SPECIFICATION FairSpec
CONSTANTS
    a = a
    b = b
    Servers = {a, b}
    Tasks = {t1, t2}
    Owners = {o1, o2, o3}
    None = None
    Workspaces = {w1, w2}
    Cwd = w1
    Config = {a}
    Configs <- MCConfigs
    MaxCalls = 2
    MaxEdits = 1
INVARIANT ConnectionsConsistent
INVARIANT ClosedLeavesNothing
 
 
PROPERTY CallsAndExitEnd
CHECK_DEADLOCK FALSE
