SPECIFICATION Spec
CONSTANTS
    Agents = {a1, a2}
    Work = {w1}
    User = User
    Nobody = Nobody
    MergeOnHost = FALSE
    Faults = {"inspect", "addFails", "ask", "refuse"}
    Events = {"cancelRun", "detach", "userMerge"}
INVARIANT MergeConcluded
INVARIANT RolledBack
INVARIANT FinalizedWhenCancelled
SYMMETRY AgentSymmetry
CHECK_DEADLOCK FALSE
