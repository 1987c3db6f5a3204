-------------------------- MODULE SubagentWorktree --------------------------
(***************************************************************************)
(* Writable nested Runs that share the repository of their parent.         *)
(*                                                                         *)
(* An agent is one call of the subagent Tool with write capability: it     *)
(* provisions a git worktree and a branch, lets a nested Run work there in *)
(* a container, closes the container, keeps the worktree if the branch got *)
(* ahead of the parent's HEAD and removes it otherwise.  An approved       *)
(* merge_worktree call merges the branch and removes the worktree.  The    *)
(* agents of one batch run concurrently.  Every await of the code is a git *)
(* or docker command, so a step is one command and what the code does with *)
(* its outcome.  A command may not start or be killed by its timeout, with *)
(* or without its effect; the state of git may make it refuse.             *)
(***************************************************************************)
EXTENDS FiniteSets

CONSTANTS
    Agents,         \* the subagent calls, one fresh uuid4 run id each
    Work,           \* the pieces of work a nested Run may produce
    User,           \* the person who works in the parent Workspace
    Nobody,         \* no merge is in progress
    MergeOnHost,    \* whether the parent's Sandbox sees the worktrees' paths
    Faults,         \* the commands that may be lost in this instance
    Events          \* the disturbances of this instance

ASSUME WorktreeAssumption ==
    /\ {User, Nobody} \cap Agents = {}
    /\ User # Nobody
    /\ MergeOnHost \in BOOLEAN
    /\ Faults \subseteq {"inspect", "addFails", "addKilled", "undo", "look",
                         "close", "finalize", "refuse", "merge", "ask", "abort",
                         "removeMerged"}
    /\ Events \subseteq {"cancelCreate", "cancelRun", "cancelMerge", "crash",
                         "detach", "userMerge"}

PC == {"idle", "add", "undoTree", "undoBranch", "run", "close", "status", "stage",
       "commit", "count", "remove", "rest", "merge", "unmerged", "abort", "removeMerged"}
Result == {"none", "failed", "kept", "removed", "raised", "merged", "conflict",
           "mergeFailed", "crashed"}

VARIABLES
    wt,         \* per agent: its directory, its branch and its worktree's entry
    merged,     \* per agent: the work that is in the parent's HEAD
    merging,    \* whose merge MERGE_HEAD in the parent is: an agent, User or Nobody
    paths,      \* whether the parent's index has unmerged paths
    pc,         \* where each agent's coroutine is
    container,  \* the agents whose container exists
    raising,    \* the agents that will raise when their cleanup has finished
    absent,     \* agents whose rollback has seen that git lists no worktree
    seen,       \* agents whose merge has seen unmerged paths
    result,     \* what each agent's Tool call has come to
    produced    \* (history) the work each nested Run has done

parent == <<merged, merging, paths>>
control == <<pc, raising, absent, seen, result>>
vars == <<wt, parent, control, container, produced>>

Worktree == [
    reg : {"none", "locked", "ready"},  \* git's entry; "locked": left initializing
    root : BOOLEAN,                     \* the directory of mkdtemp exists
    branch : BOOLEAN,                   \* refs/heads/subagent/<run id> exists
    head : {"branch", "detached"},      \* what the worktree's HEAD points at
    tree : SUBSET Work,                 \* uncommitted work on disk
    index : SUBSET Work,                \* the part of it that is staged
    tip : SUBSET Work,                  \* work committed to the branch
    loose : SUBSET Work]                \* work committed to a detached HEAD

NoWorktree == [reg |-> "none", root |-> FALSE, branch |-> FALSE, head |-> "branch",
               tree |-> {}, index |-> {}, tip |-> {}, loose |-> {}]

Init ==
    /\ wt = [a \in Agents |-> NoWorktree]
    /\ merged = [a \in Agents |-> {}]
    /\ merging = Nobody
    /\ paths = FALSE
    /\ pc = [a \in Agents |-> "idle"]
    /\ container = {}
    /\ raising = {}
    /\ absent = {}
    /\ seen = {}
    /\ result = [a \in Agents |-> "none"]
    /\ produced = [a \in Agents |-> {}]

Goto(a, to) == pc' = [pc EXCEPT ![a] = to]

\* The coroutine ends, and so does the Tool call.
Ends(a, r) ==
    /\ Goto(a, "rest")
    /\ result' = [result EXCEPT ![a] = r]

\* A command outside complete_cleanup is killed by its timeout or by a
\* cancellation.
Killable(fault, cancel) == fault \in Faults \/ cancel \in Events

-----------------------------------------------------------------------------
(* create_worktree and its rollback.                                       *)

\* The branch is looked up and mkdtemp makes the private directory.  The run id
\* is new, so the branch is absent; but git may give no answer.
Provision(a) ==
    /\ pc[a] = "idle"
    /\ \/ /\ wt' = [wt EXCEPT ![a].root = TRUE]
          /\ Goto(a, "add")
          /\ UNCHANGED result
       \/ /\ Killable("inspect", "cancelCreate")
          /\ Ends(a, "failed")
          /\ UNCHANGED wt
    /\ UNCHANGED <<parent, raising, absent, seen, container, produced>>

\* What `git worktree add` leaves when it does not succeed: nothing, the branch
\* alone, or everything when only the checks after it failed; and, killed before
\* it could clean up, an entry that is still locked.
AddLeftovers ==
    {l \in [reg : {"none", "locked", "ready"}, branch : BOOLEAN] :
        /\ l.reg # "none" => l.branch
        /\ l.reg = "locked" => Killable("addKilled", "cancelCreate")}

AddWorktree(a) ==
    /\ pc[a] = "add"
    /\ \/ /\ wt' = [wt EXCEPT ![a].reg = "ready", ![a].branch = TRUE]
          /\ Goto(a, "run")
       \/ /\ Killable("addFails", "cancelCreate")
          /\ \E l \in AddLeftovers :
                wt' = [wt EXCEPT ![a].reg = l.reg, ![a].branch = l.branch]
          /\ Goto(a, "undoTree")
    /\ UNCHANGED <<parent, raising, absent, seen, result, container, produced>>

\* Mutant of UndoTree: the branch is deleted without the worktree.
SkipUndoTree(a) ==
    /\ pc[a] = "undoTree"
    /\ absent' = absent \cup {a}
    /\ Goto(a, "undoBranch")
    /\ UNCHANGED <<wt, parent, raising, seen, result, container, produced>>

\* `git worktree remove --force`, which a locked entry refuses, and the list that
\* verifies it.  The rollback is shielded from cancellation.
UndoTree(a) ==
    /\ pc[a] = "undoTree"
    /\ \/ wt[a].reg = "ready" /\ wt' = [wt EXCEPT ![a].reg = "none"]
       \/ (wt[a].reg # "ready" \/ "undo" \in Faults) /\ UNCHANGED wt
    /\ \/ absent' = IF wt'[a].reg = "none" THEN absent \cup {a} ELSE absent
       \/ "look" \in Faults /\ UNCHANGED absent
    /\ Goto(a, "undoBranch")
    /\ UNCHANGED <<parent, raising, seen, result, container, produced>>

\* Mutant of MayDeleteRoot: the directory goes whatever git answered.
AlwaysDeleteRoot(a) == TRUE

\* worktree_removed.
MayDeleteRoot(a) == a \in absent

\* `git branch -D`, refused while a worktree has the branch checked out; then the
\* private directory, if the worktree is known to be gone.
UndoBranch(a) ==
    /\ pc[a] = "undoBranch"
    /\ \E gone \in BOOLEAN :
        /\ gone => wt[a].branch /\ wt[a].reg = "none"
        /\ ~gone => ~wt[a].branch \/ wt[a].reg # "none" \/ "undo" \in Faults
        /\ wt' = [wt EXCEPT ![a].branch = wt[a].branch /\ ~gone,
                            ![a].root = wt[a].root /\ ~MayDeleteRoot(a)]
    /\ Ends(a, "failed")
    /\ UNCHANGED <<parent, raising, absent, seen, container, produced>>

-----------------------------------------------------------------------------
(* The nested Run in its container.                                        *)

\* The first command starts the container.  A process that outlives the Run
\* goes on as long as the container and the directory that it mounts exist.
Active(a) == pc[a] = "run" \/ a \in container

WriteFile(a, w) ==
    /\ Active(a)
    /\ wt[a].root
    /\ w \notin produced[a]
    /\ wt' = [wt EXCEPT ![a].tree = @ \cup {w}]
    /\ produced' = [produced EXCEPT ![a] = @ \cup {w}]
    /\ container' = container \cup {a}
    /\ UNCHANGED <<parent, control>>

\* The worktree w with the work s committed to its HEAD.
Committed(w, s) ==
    LET left == [w EXCEPT !.tree = @ \ s, !.index = {}]
    IN  IF w.head = "branch" THEN [left EXCEPT !.tip = @ \cup s]
                             ELSE [left EXCEPT !.loose = @ \cup s]

CommitOwnWork(a) ==
    /\ a \in container
    /\ wt[a].reg = "ready"
    /\ wt[a].tree # {}
    /\ wt' = [wt EXCEPT ![a] = Committed(wt[a], wt[a].tree)]
    /\ UNCHANGED <<parent, control, container, produced>>

\* The container may write the worktree's own HEAD, not the parent's.
DetachHead(a) ==
    /\ "detach" \in Events
    /\ pc[a] = "run"
    /\ wt' = [wt EXCEPT ![a].head = "detached"]
    /\ container' = container \cup {a}
    /\ UNCHANGED <<parent, control, produced>>

\* harness.run returns a result or raises.
EndRun(a) ==
    /\ pc[a] = "run"
    /\ \/ UNCHANGED raising
       \/ raising' = raising \cup {a}
    /\ Goto(a, "close")
    /\ UNCHANGED <<wt, parent, absent, seen, result, container, produced>>

-----------------------------------------------------------------------------
(* Closing and finalizing, on both paths, under complete_cleanup.          *)

\* A container that cannot be removed is logged, no more.
Close(a) ==
    /\ pc[a] = "close"
    /\ \/ container' = container \ {a}
       \/ "close" \in Faults /\ UNCHANGED container
    /\ Goto(a, "status")
    /\ UNCHANGED <<wt, parent, raising, absent, seen, result, produced>>

Cleaning == {"close", "status", "stage", "commit", "count", "remove"}

\* Mutant of CancelCleanup: the cancellation reaches the cleanup.
CancelUnshielded(a) ==
    /\ "cancelRun" \in Events
    /\ pc[a] \in Cleaning
    /\ Ends(a, "raised")
    /\ UNCHANGED <<wt, parent, raising, absent, seen, container, produced>>

\* The cancellation waits until the cleanup has finished.
CancelCleanup(a) ==
    /\ "cancelRun" \in Events
    /\ pc[a] \in Cleaning
    /\ a \notin raising
    /\ raising' = raising \cup {a}
    /\ UNCHANGED <<wt, parent, pc, absent, seen, result, container, produced>>

\* finalize_worktree raises, or returns an outcome that an earlier failure
\* replaces.
FinalizeRaises(a) == Ends(a, "raised")
FinalizeReturns(a, r) == Ends(a, IF a \in raising THEN "raised" ELSE r)

\* A finalizing command that does not start or is killed by its timeout.
FinalizeLost == "finalize" \in Faults

\* Mutant of Dirty: a branch that is ahead needs no commit.
DirtyAndNotAhead(a) == wt[a].tree # {} /\ wt[a].tip = {}

\* git status --porcelain.
Dirty(a) == wt[a].tree # {}

InspectWorktree(a) ==
    /\ pc[a] = "status"
    /\ \/ /\ Goto(a, IF Dirty(a) THEN "stage" ELSE "count")
          /\ UNCHANGED result
       \/ FinalizeLost /\ FinalizeRaises(a)
    /\ UNCHANGED <<wt, parent, raising, absent, seen, container, produced>>

StageChanges(a) ==
    /\ pc[a] = "stage"
    /\ LET staged == [wt EXCEPT ![a].index = wt[a].tree]
       IN  \/ wt' = staged /\ Goto(a, "commit") /\ UNCHANGED result
           \/ FinalizeLost /\ wt' \in {wt, staged} /\ FinalizeRaises(a)
    /\ UNCHANGED <<parent, raising, absent, seen, container, produced>>

\* The commit is refused when a process left in the container has committed what
\* was staged.
CommitChanges(a) ==
    /\ pc[a] = "commit"
    /\ LET done == [wt EXCEPT ![a] = Committed(wt[a], wt[a].index)]
       IN  \/ wt[a].index # {} /\ wt' = done /\ Goto(a, "count") /\ UNCHANGED result
           \/ wt[a].index = {} /\ UNCHANGED wt /\ FinalizeRaises(a)
           \/ FinalizeLost /\ wt' \in {wt, done} /\ FinalizeRaises(a)
    /\ UNCHANGED <<parent, raising, absent, seen, container, produced>>

\* The branch has commits that the parent's HEAD lacks.
Ahead(a) == ~(wt[a].tip \subseteq merged[a])

CountCommits(a) ==
    /\ pc[a] = "count"
    /\ \/ Ahead(a) /\ FinalizeReturns(a, "kept")
       \/ ~Ahead(a) /\ Goto(a, "remove") /\ UNCHANGED result
       \/ FinalizeLost /\ FinalizeRaises(a)
    /\ UNCHANGED <<wt, parent, raising, absent, seen, container, produced>>

\* Mutant of Removable: git worktree remove --force.
ForciblyRemovable(a) == wt[a].reg = "ready"

\* git refuses to remove what it does not list, and a worktree with changes.
Removable(a) == wt[a].reg = "ready" /\ wt[a].tree = {}

\* The worktree a without its entry and its files; rmdir then drops the root.
Removed(a) == [wt EXCEPT ![a].reg = "none", ![a].tree = {}, ![a].index = {}]
RemovedWithRoot(a) == [Removed(a) EXCEPT ![a].root = FALSE]

RemoveClean(a) ==
    /\ pc[a] = "remove"
    /\ \/ Removable(a) /\ wt' = RemovedWithRoot(a) /\ FinalizeReturns(a, "removed")
       \/ ~Removable(a) /\ UNCHANGED wt /\ FinalizeRaises(a)
       \/ FinalizeLost /\ Removable(a) /\ wt' = Removed(a) /\ FinalizeRaises(a)
       \/ FinalizeLost /\ UNCHANGED wt /\ FinalizeRaises(a)
    /\ UNCHANGED <<parent, raising, absent, seen, container, produced>>

-----------------------------------------------------------------------------
(* merge_worktree, in the parent's Sandbox.                                *)

\* The user approves the follow-up, or the call is repeated after a failure.
ApproveMerge(a) ==
    /\ pc[a] = "rest"
    /\ result[a] \in {"kept", "conflict", "mergeFailed"}
    /\ Goto(a, "merge")
    /\ UNCHANGED <<wt, parent, raising, absent, seen, result, container, produced>>

MergedTip(a) == [merged EXCEPT ![a] = @ \cup wt[a].tip]

\* A merge that meets a conflict, or is killed under way, leaves MERGE_HEAD.
LeavesMerge(a) ==
    /\ merging = Nobody
    /\ Ahead(a)
    /\ merging' = a
    /\ paths' = TRUE
    /\ UNCHANGED merged

\* `git merge --no-ff`: it succeeds, conflicts, or refuses (a merge is in progress,
\* the parent's tree is dirty); a killed one raises without looking further.
MergeBranch(a) ==
    /\ pc[a] = "merge"
    /\ \/ /\ merging = Nobody
          /\ merged' = MergedTip(a)
          /\ Goto(a, "removeMerged")
          /\ UNCHANGED <<merging, paths, result>>
       \/ LeavesMerge(a) /\ Goto(a, "unmerged") /\ UNCHANGED result
       \/ /\ merging # Nobody \/ "refuse" \in Faults
          /\ Goto(a, "unmerged")
          /\ UNCHANGED <<parent, result>>
       \/ /\ Killable("merge", "cancelMerge")
          /\ Ends(a, "mergeFailed")
          /\ \/ LeavesMerge(a)
             \/ merging = Nobody /\ merged' = MergedTip(a)
                /\ UNCHANGED <<merging, paths>>
             \/ UNCHANGED parent
    /\ UNCHANGED <<wt, raising, absent, seen, container, produced>>

\* _has_unmerged_paths takes no answer for a no.
LookForUnmergedPaths(a) ==
    /\ pc[a] = "unmerged"
    /\ \/ seen' = IF paths THEN seen \cup {a} ELSE seen \ {a}
       \/ "ask" \in Faults /\ seen' = seen \ {a}
    /\ Goto(a, "abort")
    /\ UNCHANGED <<wt, parent, raising, absent, result, container, produced>>

\* Mutant of AbortWanted: only a conflict is aborted.
AbortConflict(a) == a \in seen

\* The merge is aborted whatever was seen.
AbortWanted(a) == TRUE

\* `git merge --abort` ends the merge in progress, whosever it is.
AbortMerge(a) ==
    /\ pc[a] = "abort"
    /\ IF AbortWanted(a)
       THEN \/ merging' = Nobody /\ paths' = FALSE
            \/ "abort" \in Faults /\ UNCHANGED <<merging, paths>>
       ELSE UNCHANGED <<merging, paths>>
    /\ Ends(a, IF a \in seen THEN "conflict" ELSE "mergeFailed")
    /\ UNCHANGED <<wt, merged, raising, absent, seen, container, produced>>

\* A Sandbox that does not see the worktree's path takes the directory for
\* missing: git drops the entry and leaves the files where they are.
RemovableHere(a) == IF MergeOnHost THEN Removable(a) ELSE wt[a].reg = "ready"
EntryDropped(a) == IF MergeOnHost THEN Removed(a) ELSE [wt EXCEPT ![a].reg = "none"]
RemovedHere(a) == IF MergeOnHost THEN RemovedWithRoot(a) ELSE EntryDropped(a)

RemoveMerged(a) ==
    /\ pc[a] = "removeMerged"
    /\ \/ RemovableHere(a) /\ wt' = RemovedHere(a) /\ Ends(a, "merged")
       \/ ~RemovableHere(a) /\ UNCHANGED wt /\ Ends(a, "mergeFailed")
       \/ /\ Killable("removeMerged", "cancelMerge")
          /\ \/ UNCHANGED wt
             \/ RemovableHere(a) /\ wt' = EntryDropped(a)
          /\ Ends(a, "mergeFailed")
    /\ UNCHANGED <<parent, raising, absent, seen, container, produced>>

\* merge_worktree is not shielded: a cancellation stops it between two commands.
CancelMerge(a) ==
    /\ "cancelMerge" \in Events
    /\ pc[a] \in {"merge", "unmerged", "abort", "removeMerged"}
    /\ Ends(a, "mergeFailed")
    /\ UNCHANGED <<wt, parent, raising, absent, seen, container, produced>>

-----------------------------------------------------------------------------
(* The parent's process and the user.                                      *)

\* The process dies.  Nothing looks for worktrees or containers afterwards.
Crash ==
    /\ "crash" \in Events
    /\ LET lost == {a \in Agents : pc[a] \notin {"idle", "rest"}}
       IN  /\ lost # {}
           /\ pc' = [a \in Agents |-> IF a \in lost THEN "rest" ELSE pc[a]]
           /\ result' = [a \in Agents |-> IF a \in lost THEN "crashed" ELSE result[a]]
    /\ UNCHANGED <<wt, parent, raising, absent, seen, container, produced>>

\* The user merges a branch of their own in the parent, resolves and commits.
UserMerges ==
    /\ "userMerge" \in Events
    /\ \/ merging = Nobody /\ merging' = User /\ paths' \in BOOLEAN
       \/ merging = User /\ paths /\ paths' = FALSE /\ UNCHANGED merging
       \/ merging = User /\ ~paths /\ merging' = Nobody /\ UNCHANGED paths
    /\ UNCHANGED <<wt, merged, control, container, produced>>

-----------------------------------------------------------------------------
Create(a) == Provision(a) \/ AddWorktree(a) \/ UndoTree(a) \/ UndoBranch(a)
NestedRun(a) ==
    \/ \E w \in Work : WriteFile(a, w)
    \/ CommitOwnWork(a) \/ DetachHead(a) \/ EndRun(a)
Finalize(a) ==
    \/ Close(a) \/ CancelCleanup(a) \/ InspectWorktree(a) \/ StageChanges(a)
    \/ CommitChanges(a) \/ CountCommits(a) \/ RemoveClean(a)
MergeAndRemove(a) ==
    \/ ApproveMerge(a) \/ MergeBranch(a) \/ LookForUnmergedPaths(a) \/ AbortMerge(a)
    \/ RemoveMerged(a) \/ CancelMerge(a)

Next ==
    \/ \E a \in Agents : Create(a) \/ NestedRun(a) \/ Finalize(a) \/ MergeAndRemove(a)
    \/ Crash
    \/ UserMerges

Spec == Init /\ [][Next]_vars

-----------------------------------------------------------------------------
TypeOK ==
    /\ wt \in [Agents -> Worktree]
    /\ merged \in [Agents -> SUBSET Work]
    /\ merging \in Agents \cup {User, Nobody}
    /\ paths \in BOOLEAN
    /\ pc \in [Agents -> PC]
    /\ result \in [Agents -> Result]
    /\ container \subseteq Agents
    /\ raising \subseteq Agents
    /\ absent \subseteq Agents
    /\ seen \subseteq Agents
    /\ produced \in [Agents -> SUBSET Work]

\* Where the work of an agent can still be found: the parent's history, the
\* branch, the files on disk, and a detached HEAD that a worktree keeps alive.
Preserved(a) ==
    merged[a] \cup wt[a].tree
        \cup (IF wt[a].branch THEN wt[a].tip ELSE {})
        \cup (IF wt[a].reg = "ready" THEN wt[a].loose ELSE {})

\* The same for the nested Runs that keep their HEAD on the branch they were given.
OnBranch(a) == wt[a].head = "branch"
BranchWorkKept == \A a \in Agents : OnBranch(a) => produced[a] \subseteq Preserved(a)

\* The directory of a worktree is deleted only once git does not list it: a
\* rollback that could not find out leaves the directory alone.
RootKept == \A a \in Agents : wt[a].reg # "none" => wt[a].root

\* A merge is offered only when nothing is left outside the branch: what a merge
\* takes is all of the nested Run's work.  (A container that could not be removed
\* may write on.)
OfferedWorkCommitted ==
    \A a \in Agents :
        result[a] = "kept" /\ a \notin container /\ OnBranch(a) =>
            produced[a] \subseteq wt[a].tip

\* A cancellation that arrives while the container is closed or the worktree is
\* finalized does not cut the cleanup short: when the call ends the container is
\* gone and the work is committed.
FinalizedWhenCancelled ==
    \A a \in Agents :
        pc[a] = "rest" /\ result[a] \in {"kept", "removed", "raised"} =>
            /\ a \notin container
            /\ OnBranch(a) => produced[a] \subseteq wt[a].tip

\* A failed provisioning leaves neither worktree nor branch nor directory.
RolledBack ==
    \A a \in Agents :
        result[a] = "failed" =>
            wt[a].reg = "none" /\ ~wt[a].branch /\ ~wt[a].root

\* A merge of an agent does not stay half-way in the parent Workspace: whoever
\* left MERGE_HEAD is still going to abort it.
MergeConcluded ==
    merging \in Agents => pc[merging] \in {"unmerged", "abort"}
=============================================================================
