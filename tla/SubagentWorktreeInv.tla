------------------------ MODULE SubagentWorktreeInv ------------------------
(***************************************************************************)
(* The inductive invariant of SubagentWorktree, agent by agent.            *)
(***************************************************************************)
EXTENDS SubagentWorktree

Provisioning == {"idle", "add", "undoTree", "undoBranch"}

\* git lists a worktree only if its directory is there; a rollback that has seen
\* it unlisted was right.
DirectoryInv(a) ==
    /\ wt[a].reg # "none" => wt[a].root
    /\ a \in absent => wt[a].reg = "none"
    /\ pc[a] \in {"idle", "add"} => a \notin absent /\ wt[a].reg = "none"
    /\ pc[a] = "add" => wt[a].root

\* Work exists only after the provisioning, and from then on the branch does.
BranchInv(a) ==
    /\ pc[a] \in Provisioning => a \notin container /\ produced[a] = {}
    /\ pc[a] = "run" \/ a \in container \/ produced[a] # {} => wt[a].branch

\* What was produced is on disk or committed; what was merged is on the branch.
WorkInv(a) ==
    /\ OnBranch(a) => produced[a] \subseteq wt[a].tree \cup wt[a].tip
    /\ merged[a] \subseteq wt[a].tip

\* Without a container nothing is written behind finalize_worktree's back.
OfferInv(a) ==
    /\ pc[a] \in Provisioning \cup {"run"} \cup Cleaning => result[a] = "none"
    /\ a \notin container =>
        /\ pc[a] = "commit" => wt[a].index = wt[a].tree
        /\ pc[a] = "count" => wt[a].tree = {}
        /\ result[a] = "kept" => wt[a].tree = {}

\* The inductive invariant: no agent has work, an offer or a directory that its
\* place in the lifecycle does not account for.
IInv ==
    /\ TypeOK
    /\ \A a \in Agents : DirectoryInv(a) /\ BranchInv(a) /\ WorkInv(a) /\ OfferInv(a)

-----------------------------------------------------------------------------
(* Three promises hold while certain commands are neither lost nor cut     *)
(* short.  Each names the ones it depends on; everything else may fail.    *)

\* No command of the rollback is lost, nor is `git worktree add` killed.
RollbackRuns ==
    /\ {"addKilled", "undo", "look"} \cap Faults = {}
    /\ "cancelCreate" \notin Events

\* The rollback removes the worktree, knows that it did, and then the branch.
RollbackInv(a) ==
    /\ pc[a] = "idle" => ~wt[a].branch /\ ~wt[a].root
    /\ pc[a] = "undoTree" => wt[a].reg # "locked"
    /\ pc[a] = "undoBranch" => a \in absent /\ wt[a].reg = "none"
    /\ result[a] = "failed" =>
        /\ pc[a] = "rest"
        /\ a \notin container
        /\ wt[a].reg = "none" /\ ~wt[a].branch /\ ~wt[a].root

\* The container can be removed and no finalizing command is lost.
FinalizingRuns == {"close", "finalize"} \cap Faults = {}

\* From the container's end on no one writes, and what finalize_worktree leaves
\* behind has been committed.
FinalInv(a) ==
    /\ a \in container => pc[a] \in {"run", "close"} \/ result[a] = "crashed"
    /\ result[a] = "crashed" => pc[a] = "rest"
    /\ pc[a] = "commit" => wt[a].index = wt[a].tree
    /\ pc[a] \in {"count", "remove"} => wt[a].tree = {}
    /\ pc[a] = "rest" /\ result[a] \in {"kept", "removed", "raised"} =>
        wt[a].tree = {}

\* A merge and its abort run to their end.
MergingRuns ==
    /\ {"merge", "abort"} \cap Faults = {}
    /\ {"cancelMerge", "crash"} \cap Events = {}
=============================================================================
