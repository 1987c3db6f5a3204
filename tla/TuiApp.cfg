SPECIFICATION FairSpec
CONSTANTS
    c1 = c1
    c2 = c2
    Runs = {r0, r1}
    OldRun = r0
    Nested = sub
    None = None
    Calls = {c1, c2}
    ToolName <- MCToolName
    Batches <- MCBatches
    MaxActs = 3
    MaxQueue = 2
    MaxEvents = 1
    Acts = {"task", "clear", "compact", "resume", "mcp", "exit", "escape", "sigint"}
    Compactions = {"folded", "fits", "again", "raises"}
 
 
 
INVARIANT ShutdownLeavesNoRunning
 
CHECK_DEADLOCK FALSE
