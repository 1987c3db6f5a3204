SPECIFICATION Spec
CONSTANTS
    Agents = {a1, a2}
    Work = {w1, w2}
    User = User
    Nobody = Nobody
    MergeOnHost = TRUE
    Faults = {"inspect", "addFails", "addKilled", "undo", "look", "close", "finalize", "refuse", "merge", "ask", "abort", "removeMerged"}
    Events = {"cancelCreate", "cancelRun", "cancelMerge", "crash"}
INVARIANT BranchWorkKept
INVARIANT RootKept
INVARIANT OfferedWorkCommitted
INVARIANT IInv
SYMMETRY AgentSymmetry
CHECK_DEADLOCK FALSE
