----------------------- MODULE SubagentWorktreeProofs -----------------------
(***************************************************************************)
(* What the worktree's lifecycle keeps, for any number of agents and any   *)
(* work, faults and disturbances.                                          *)
(***************************************************************************)
EXTENDS SubagentWorktreeInv, TLAPS

LEMMA RecordType ==
    ASSUME TypeOK, NEW a \in Agents
    PROVE  /\ wt[a] \in Worktree
           /\ wt[a].tree \subseteq Work
           /\ wt[a].index \subseteq Work
           /\ wt[a].tip \subseteq Work
           /\ wt[a].loose \subseteq Work
  BY DEF TypeOK, Worktree

LEMMA CommittedType ==
    ASSUME NEW w \in Worktree, NEW s \in SUBSET Work
    PROVE  Committed(w, s) \in Worktree
  BY DEF Committed, Worktree

\* Every way the actions change the worktree of an agent keeps it a worktree.
LEMMA WorktreeFields ==
    ASSUME NEW w \in Worktree, NEW r \in {"none", "locked", "ready"},
           NEW b \in BOOLEAN, NEW c \in BOOLEAN, NEW s \in SUBSET Work
    PROVE  /\ [w EXCEPT !.root = b] \in Worktree
           /\ [w EXCEPT !.reg = r] \in Worktree
           /\ [w EXCEPT !.reg = r, !.branch = b] \in Worktree
           /\ [w EXCEPT !.branch = b, !.root = c] \in Worktree
           /\ [w EXCEPT !.tree = s] \in Worktree
           /\ [w EXCEPT !.index = s] \in Worktree
           /\ [w EXCEPT !.head = "detached"] \in Worktree
           /\ [w EXCEPT !.reg = r, !.tree = {}, !.index = {}] \in Worktree
  BY DEF Worktree

LEMMA WorktreeUpdate ==
    ASSUME TypeOK, NEW a \in Agents, NEW w \in Worktree
    PROVE  [wt EXCEPT ![a] = w] \in [Agents -> Worktree]
  BY DEF TypeOK

LEMMA RemovalType ==
    ASSUME TypeOK, NEW a \in Agents
    PROVE  /\ Removed(a) \in [Agents -> Worktree]
           /\ RemovedWithRoot(a) \in [Agents -> Worktree]
           /\ [wt EXCEPT ![a].reg = "none"] \in [Agents -> Worktree]
  <1>1. Removed(a) \in [Agents -> Worktree]
    <2>1. [wt[a] EXCEPT !.reg = "none", !.tree = {}, !.index = {}] \in Worktree
      BY RecordType, WorktreeFields
    <2> QED BY <2>1, SMT DEF Removed, TypeOK
  <1>2. ASSUME NEW f \in [Agents -> Worktree], NEW b \in BOOLEAN
        PROVE  [f EXCEPT ![a].root = b] \in [Agents -> Worktree]
    <2>1. [f[a] EXCEPT !.root = b] \in Worktree
      BY WorktreeFields
    <2> QED BY <2>1, SMT
  <1>3. [wt EXCEPT ![a].reg = "none"] \in [Agents -> Worktree]
    <2>1. [wt[a] EXCEPT !.reg = "none"] \in Worktree
      BY RecordType, WorktreeFields
    <2> QED BY <2>1, SMT DEF TypeOK
  <1>4. RemovedWithRoot(a) \in [Agents -> Worktree]
    BY <1>1, <1>2 DEF RemovedWithRoot
  <1> QED BY <1>1, <1>3, <1>4

\* The outcomes of the removal after a merge.
Removals(a) == {wt, Removed(a), RemovedWithRoot(a), [wt EXCEPT ![a].reg = "none"]}

LEMMA RemovalEffect ==
    ASSUME NEW a \in Agents, RemoveMerged(a)
    PROVE  /\ pc[a] = "removeMerged"
           /\ wt' \in Removals(a)
           /\ Ends(a, "merged") \/ Ends(a, "mergeFailed")
           /\ UNCHANGED <<parent, raising, absent, seen, container, produced>>
           /\ wt' = wt \/ wt[a].tree = {} \/ wt' = [wt EXCEPT ![a].reg = "none"]
  <1>1. RemovedHere(a) \in Removals(a) /\ EntryDropped(a) \in Removals(a)
    BY Zenon DEF RemovedHere, EntryDropped, Removals
  <1>2. wt' \in Removals(a)
    BY <1>1, Zenon DEF RemoveMerged, Removals
  <1>3. wt' = wt \/ wt[a].tree = {} \/ wt' = [wt EXCEPT ![a].reg = "none"]
    BY Zenon DEF RemoveMerged, RemovedHere, EntryDropped, RemovableHere, Removable
  <1> QED
    BY <1>2, <1>3, Zenon DEF RemoveMerged

USE DEF Goto, Ends, parent, control, OnBranch

LEMMA TypeStep == TypeOK /\ [Next]_vars => TypeOK'
  <1> SUFFICES ASSUME TypeOK, [Next]_vars PROVE TypeOK'
    OBVIOUS
  <1>1. ASSUME NEW a \in Agents, Create(a) PROVE TypeOK'
    <2>1. CASE Provision(a)
      <3>1. [wt[a] EXCEPT !.root = TRUE] \in Worktree
        BY RecordType, WorktreeFields
      <3>2. wt' \in [Agents -> Worktree]
        BY <2>1, <3>1, WorktreeUpdate, Zenon DEF Provision, TypeOK
      <3> QED BY <2>1, <3>2, SMT DEF Provision, TypeOK, PC, Result
    <2>2. CASE AddWorktree(a)
      <3>1. \A r \in {"none", "locked", "ready"}, b \in BOOLEAN :
                [wt[a] EXCEPT !.reg = r, !.branch = b] \in Worktree
        BY RecordType, WorktreeFields
      <3>2. \A r \in {"none", "locked", "ready"}, b \in BOOLEAN :
                [wt EXCEPT ![a].reg = r, ![a].branch = b] \in [Agents -> Worktree]
        <4> TAKE r \in {"none", "locked", "ready"}, b \in BOOLEAN
        <4>1. [wt[a] EXCEPT !.reg = r, !.branch = b] \in Worktree
          BY <3>1
        <4> QED BY <4>1, SMT DEF TypeOK
      <3>3. wt' \in [Agents -> Worktree]
        <4>1. CASE wt' = [wt EXCEPT ![a].reg = "ready", ![a].branch = TRUE]
          BY <4>1, <3>2, Zenon
        <4>2. ASSUME NEW l \in AddLeftovers,
                     wt' = [wt EXCEPT ![a].reg = l.reg, ![a].branch = l.branch]
              PROVE  wt' \in [Agents -> Worktree]
          <5>1. l.reg \in {"none", "locked", "ready"} /\ l.branch \in BOOLEAN
            BY DEF AddLeftovers
          <5> QED BY <4>2, <5>1, <3>2, Zenon
        <4> QED BY <2>2, <4>1, <4>2, Zenon DEF AddWorktree
      <3> QED BY <2>2, <3>3, SMT DEF AddWorktree, TypeOK, PC
    <2>3. CASE UndoTree(a)
      <3>1. [wt[a] EXCEPT !.reg = "none"] \in Worktree
        BY RecordType, WorktreeFields
      <3> QED BY <2>3, <3>1, SMT DEF UndoTree, TypeOK, PC
    <2>4. CASE UndoBranch(a)
      <3>1. \A b, c \in BOOLEAN : [wt[a] EXCEPT !.branch = b, !.root = c] \in Worktree
        BY RecordType, WorktreeFields
      <3>2. wt[a].branch \in BOOLEAN /\ wt[a].root \in BOOLEAN
        BY RecordType DEF Worktree
      <3>3. wt' \in [Agents -> Worktree]
        BY <2>4, <3>1, <3>2, WorktreeUpdate, ZenonT(60) DEF UndoBranch, TypeOK
      <3> QED BY <2>4, <3>3, SMT DEF UndoBranch, TypeOK, PC, Result
    <2> QED BY <1>1, <2>1, <2>2, <2>3, <2>4 DEF Create
  <1>2. ASSUME NEW a \in Agents, NestedRun(a) PROVE TypeOK'
    <2>1. ASSUME NEW w \in Work, WriteFile(a, w) PROVE TypeOK'
      <3>1. [wt[a] EXCEPT !.tree = @ \cup {w}] \in Worktree
        BY RecordType, WorktreeFields, wt[a].tree \cup {w} \in SUBSET Work
      <3> QED BY <2>1, <3>1, SMT DEF WriteFile, TypeOK
    <2>2. CASE CommitOwnWork(a)
      <3>1. Committed(wt[a], wt[a].tree) \in Worktree
        BY RecordType, CommittedType
      <3> QED BY <2>2, <3>1, SMT DEF CommitOwnWork, TypeOK
    <2>3. CASE DetachHead(a)
      <3>1. [wt[a] EXCEPT !.head = "detached"] \in Worktree
        BY RecordType, WorktreeFields
      <3> QED BY <2>3, <3>1, SMT DEF DetachHead, TypeOK
    <2>4. CASE EndRun(a)
      BY <2>4, SMT DEF EndRun, TypeOK, PC
    <2> QED BY <1>2, <2>1, <2>2, <2>3, <2>4 DEF NestedRun
  <1>3. ASSUME NEW a \in Agents, Finalize(a) PROVE TypeOK'
    <2>1. CASE Close(a)
      BY <2>1, SMT DEF Close, TypeOK, PC
    <2>2. CASE CancelCleanup(a)
      BY <2>2, SMT DEF CancelCleanup, TypeOK
    <2>3. CASE InspectWorktree(a)
      BY <2>3, SMT DEF InspectWorktree, FinalizeRaises, TypeOK, PC, Result
    <2>4. CASE StageChanges(a)
      <3>1. [wt[a] EXCEPT !.index = wt[a].tree] \in Worktree
        BY RecordType, WorktreeFields
      <3> QED BY <2>4, <3>1, SMT DEF StageChanges, FinalizeRaises, TypeOK, PC, Result
    <2>5. CASE CommitChanges(a)
      <3>1. Committed(wt[a], wt[a].index) \in Worktree
        BY RecordType, CommittedType
      <3> QED BY <2>5, <3>1, SMT DEF CommitChanges, FinalizeRaises, TypeOK, PC, Result
    <2>6. CASE CountCommits(a)
      BY <2>6, SMT DEF CountCommits, FinalizeRaises, FinalizeReturns, TypeOK, PC,
            Result
    <2>7. CASE RemoveClean(a)
      <3>1. wt' \in [Agents -> Worktree]
        BY <2>7, RemovalType, Zenon DEF RemoveClean, TypeOK
      <3> QED BY <2>7, <3>1, SMT DEF RemoveClean, FinalizeRaises, FinalizeReturns,
                  TypeOK, PC, Result
    <2> QED BY <1>3, <2>1, <2>2, <2>3, <2>4, <2>5, <2>6, <2>7 DEF Finalize
  <1>4. ASSUME NEW a \in Agents, MergeAndRemove(a) PROVE TypeOK'
    <2>1. CASE ApproveMerge(a)
      BY <2>1, SMT DEF ApproveMerge, TypeOK, PC
    <2>2. CASE MergeBranch(a)
      <3>1. MergedTip(a) \in [Agents -> SUBSET Work]
        BY RecordType DEF MergedTip, TypeOK
      <3>2. paths' \in BOOLEAN
        BY <2>2, Zenon DEF MergeBranch, LeavesMerge, TypeOK
      <3>3. merged' \in [Agents -> SUBSET Work] /\ merging' \in Agents \cup {User, Nobody}
        BY <2>2, <3>1, Zenon DEF MergeBranch, LeavesMerge, TypeOK
      <3>4. pc' \in [Agents -> PC] /\ result' \in [Agents -> Result]
        BY <2>2, SMT DEF MergeBranch, TypeOK, PC, Result
      <3> QED BY <2>2, <3>2, <3>3, <3>4, Zenon DEF MergeBranch, TypeOK
    <2>3. CASE LookForUnmergedPaths(a)
      BY <2>3, SMT DEF LookForUnmergedPaths, TypeOK, PC
    <2>4. CASE AbortMerge(a)
      <3>1. paths' \in BOOLEAN /\ merging' \in Agents \cup {User, Nobody}
        BY <2>4, Zenon DEF AbortMerge, TypeOK
      <3>2. pc' \in [Agents -> PC] /\ result' \in [Agents -> Result]
        BY <2>4, SMT DEF AbortMerge, TypeOK, PC, Result
      <3> QED BY <2>4, <3>1, <3>2, Zenon DEF AbortMerge, TypeOK
    <2>5. CASE RemoveMerged(a)
      <3>1. wt' \in [Agents -> Worktree]
        <4>1. wt' \in {wt, Removed(a), RemovedWithRoot(a), [wt EXCEPT ![a].reg = "none"]}
          BY <2>5, RemovalEffect DEF Removals
        <4>2. /\ Removed(a) \in [Agents -> Worktree]
              /\ RemovedWithRoot(a) \in [Agents -> Worktree]
              /\ [wt EXCEPT ![a].reg = "none"] \in [Agents -> Worktree]
          BY RemovalType
        <4>3. wt \in [Agents -> Worktree]
          BY DEF TypeOK
        <4> QED BY <4>1, <4>2, <4>3, Zenon
      <3> QED BY <2>5, <3>1, RemovalEffect, SMT DEF TypeOK, PC, Result
    <2>6. CASE CancelMerge(a)
      BY <2>6, SMT DEF CancelMerge, TypeOK, PC, Result
    <2> QED BY <1>4, <2>1, <2>2, <2>3, <2>4, <2>5, <2>6 DEF MergeAndRemove
  <1>5. CASE Crash
    BY <1>5, SMT DEF Crash, TypeOK, PC, Result
  <1>6. CASE UserMerges
    BY <1>6, Zenon DEF UserMerges, TypeOK
  <1>7. CASE UNCHANGED vars
    BY <1>7, SMT DEF vars, TypeOK
  <1> QED
    BY <1>1, <1>2, <1>3, <1>4, <1>5, <1>6, <1>7 DEF Next

-----------------------------------------------------------------------------
(* What two of the steps do to the worktrees.                              *)

LEMMA AddEffect ==
    ASSUME TypeOK, NEW b \in Agents, AddWorktree(b)
    PROVE  \E r \in {"none", "locked", "ready"}, c \in BOOLEAN :
              /\ wt' = [wt EXCEPT ![b].reg = r, ![b].branch = c]
              /\ pc'[b] = "run" => c
  <1>1. CASE wt' = [wt EXCEPT ![b].reg = "ready", ![b].branch = TRUE]
    BY <1>1, Zenon
  <1>2. ASSUME NEW l \in AddLeftovers, pc'[b] = "undoTree",
               wt' = [wt EXCEPT ![b].reg = l.reg, ![b].branch = l.branch]
        PROVE  \E r \in {"none", "locked", "ready"}, c \in BOOLEAN :
                  /\ wt' = [wt EXCEPT ![b].reg = r, ![b].branch = c]
                  /\ pc'[b] = "run" => c
    <2>1. l.reg \in {"none", "locked", "ready"} /\ l.branch \in BOOLEAN
      BY DEF AddLeftovers
    <2>2. pc'[b] # "run"
      BY <1>2
    <2> QED BY <1>2, <2>1, <2>2, Zenon
  <1>3. Goto(b, "undoTree") => pc'[b] = "undoTree"
    BY DEF TypeOK
  <1> QED BY <1>1, <1>2, <1>3, Zenon DEF AddWorktree

LEMMA CommitEffect ==
    ASSUME NEW b \in Agents, CommitChanges(b)
    PROVE  wt' = wt \/ wt' = [wt EXCEPT ![b] = Committed(wt[b], wt[b].index)]
  BY Zenon DEF CommitChanges

\* The directory of a listed worktree exists: no action breaks it.
LEMMA DirectoryStep ==
    ASSUME TypeOK, [Next]_vars, NEW a \in Agents, DirectoryInv(a)
    PROVE  DirectoryInv(a)'
  <1>1. ASSUME NEW b \in Agents, Create(b) PROVE DirectoryInv(a)'
    <2>1. CASE Provision(b)
      BY <2>1, SMT DEF Provision, TypeOK, Worktree, DirectoryInv
    <2>2. CASE AddWorktree(b)
      <3>1. PICK r \in {"none", "locked", "ready"}, c \in BOOLEAN :
                /\ wt' = [wt EXCEPT ![b].reg = r, ![b].branch = c]
                /\ pc'[b] = "run" => c
        BY <2>2, AddEffect
      <3>2. /\ pc[b] = "add"
            /\ \/ Goto(b, "run")
               \/ Goto(b, "undoTree")
            /\ UNCHANGED <<merged, absent, result, container, produced>>
        BY <2>2 DEF AddWorktree
      <3> QED BY <3>1, <3>2, SMT DEF TypeOK, Worktree, DirectoryInv
    <2>3. CASE UndoTree(b)
      BY <2>3, SMT DEF UndoTree, TypeOK, Worktree, DirectoryInv
    <2>4. CASE UndoBranch(b)
      BY <2>4, SMT DEF UndoBranch, MayDeleteRoot, TypeOK, Worktree, DirectoryInv
    <2> QED BY <1>1, <2>1, <2>2, <2>3, <2>4 DEF Create
  <1>2. ASSUME NEW b \in Agents, NestedRun(b) PROVE DirectoryInv(a)'
    <2>1. ASSUME NEW w \in Work, WriteFile(b, w) PROVE DirectoryInv(a)'
      BY <2>1, SMT DEF WriteFile, Active, TypeOK, Worktree, DirectoryInv
    <2>2. CASE CommitOwnWork(b)
      BY <2>2, SMT DEF CommitOwnWork, Committed, TypeOK, Worktree, DirectoryInv
    <2>3. CASE DetachHead(b)
      BY <2>3, SMT DEF DetachHead, TypeOK, Worktree, DirectoryInv
    <2>4. CASE EndRun(b)
      BY <2>4, SMT DEF EndRun, TypeOK, Worktree, DirectoryInv
    <2> QED BY <1>2, <2>1, <2>2, <2>3, <2>4 DEF NestedRun
  <1>3. ASSUME NEW b \in Agents, Finalize(b) PROVE DirectoryInv(a)'
    <2>1. CASE Close(b)
      BY <2>1, SMT DEF Close, TypeOK, Worktree, DirectoryInv
    <2>2. CASE CancelCleanup(b)
      BY <2>2, SMT DEF CancelCleanup, TypeOK, Worktree, DirectoryInv
    <2>3. CASE InspectWorktree(b)
      BY <2>3, SMT DEF InspectWorktree, FinalizeRaises, TypeOK, Worktree,
            DirectoryInv
    <2>4. CASE StageChanges(b)
      BY <2>4, SMT DEF StageChanges, FinalizeRaises, TypeOK, Worktree, DirectoryInv
    <2>5. CASE CommitChanges(b)
      <3>1. CASE wt' = wt
        BY <2>5, <3>1, SMT DEF CommitChanges, FinalizeRaises, TypeOK, DirectoryInv
      <3>2. CASE wt' = [wt EXCEPT ![b] = Committed(wt[b], wt[b].index)]
        BY <2>5, <3>2, SMT DEF CommitChanges, Committed, FinalizeRaises, TypeOK,
              Worktree, DirectoryInv
      <3> QED BY <2>5, <3>1, <3>2, CommitEffect
    <2>6. CASE CountCommits(b)
      BY <2>6, SMT DEF CountCommits, FinalizeRaises, FinalizeReturns, TypeOK,
            Worktree, DirectoryInv
    <2>7. CASE RemoveClean(b)
      BY <2>7, SMT DEF RemoveClean, FinalizeRaises, FinalizeReturns, Removable,
            Removed, RemovedWithRoot, TypeOK, Worktree, DirectoryInv
    <2> QED BY <1>3, <2>1, <2>2, <2>3, <2>4, <2>5, <2>6, <2>7 DEF Finalize
  <1>4. ASSUME NEW b \in Agents, MergeAndRemove(b) PROVE DirectoryInv(a)'
    <2>1. CASE ApproveMerge(b)
      BY <2>1, SMT DEF ApproveMerge, TypeOK, Worktree, DirectoryInv
    <2>2. CASE MergeBranch(b)
      BY <2>2, SMT DEF MergeBranch, LeavesMerge, MergedTip, TypeOK, Worktree,
            DirectoryInv
    <2>3. CASE LookForUnmergedPaths(b)
      BY <2>3, SMT DEF LookForUnmergedPaths, TypeOK, Worktree, DirectoryInv
    <2>4. CASE AbortMerge(b)
      BY <2>4, SMT DEF AbortMerge, TypeOK, Worktree, DirectoryInv
    <2>5. CASE RemoveMerged(b)
      <3> USE <2>5, RemovalEffect DEF TypeOK, Worktree, DirectoryInv
      <3>1. CASE wt' = wt
        BY <3>1, SMT
      <3>2. CASE wt' = Removed(b) /\ wt[b].tree = {}
        BY <3>2, SMT DEF Removed
      <3>3. CASE wt' = RemovedWithRoot(b) /\ wt[b].tree = {}
        BY <3>3, SMT DEF RemovedWithRoot, Removed
      <3>4. CASE wt' = [wt EXCEPT ![b].reg = "none"]
        BY <3>4, SMT
      <3> QED BY <3>1, <3>2, <3>3, <3>4 DEF Removals
    <2>6. CASE CancelMerge(b)
      BY <2>6, SMT DEF CancelMerge, TypeOK, Worktree, DirectoryInv
    <2> QED BY <1>4, <2>1, <2>2, <2>3, <2>4, <2>5, <2>6 DEF MergeAndRemove
  <1>5. CASE Crash
    BY <1>5, SMT DEF Crash, TypeOK, DirectoryInv
  <1>6. CASE UserMerges
    BY <1>6, SMT DEF UserMerges, TypeOK, DirectoryInv
  <1>7. CASE UNCHANGED vars
    BY <1>7, SMT DEF vars, DirectoryInv
  <1> QED
    BY <1>1, <1>2, <1>3, <1>4, <1>5, <1>6, <1>7 DEF Next

\* The branch outlives the work on it.
LEMMA BranchStep ==
    ASSUME TypeOK, [Next]_vars, NEW a \in Agents, BranchInv(a)
    PROVE  BranchInv(a)'
  <1>1. ASSUME NEW b \in Agents, Create(b) PROVE BranchInv(a)'
    <2>1. CASE Provision(b)
      BY <2>1, SMT DEF Provision, TypeOK, Worktree, BranchInv, Provisioning
    <2>2. CASE AddWorktree(b)
      <3>1. PICK r \in {"none", "locked", "ready"}, c \in BOOLEAN :
                /\ wt' = [wt EXCEPT ![b].reg = r, ![b].branch = c]
                /\ pc'[b] = "run" => c
        BY <2>2, AddEffect
      <3>2. /\ pc[b] = "add"
            /\ \/ Goto(b, "run")
               \/ Goto(b, "undoTree")
            /\ UNCHANGED <<merged, absent, result, container, produced>>
        BY <2>2 DEF AddWorktree
      <3> QED BY <3>1, <3>2, SMT DEF TypeOK, Worktree, BranchInv, Provisioning
    <2>3. CASE UndoTree(b)
      BY <2>3, SMT DEF UndoTree, TypeOK, Worktree, BranchInv, Provisioning
    <2>4. CASE UndoBranch(b)
      BY <2>4, SMT DEF UndoBranch, MayDeleteRoot, TypeOK, Worktree, BranchInv,
            Provisioning
    <2> QED BY <1>1, <2>1, <2>2, <2>3, <2>4 DEF Create
  <1>2. ASSUME NEW b \in Agents, NestedRun(b) PROVE BranchInv(a)'
    <2>1. ASSUME NEW w \in Work, WriteFile(b, w) PROVE BranchInv(a)'
      BY <2>1, SMT DEF WriteFile, Active, TypeOK, Worktree, BranchInv, Provisioning
    <2>2. CASE CommitOwnWork(b)
      BY <2>2, SMT DEF CommitOwnWork, Committed, TypeOK, Worktree, BranchInv,
            Provisioning
    <2>3. CASE DetachHead(b)
      BY <2>3, SMT DEF DetachHead, TypeOK, Worktree, BranchInv, Provisioning
    <2>4. CASE EndRun(b)
      BY <2>4, SMT DEF EndRun, TypeOK, Worktree, BranchInv, Provisioning
    <2> QED BY <1>2, <2>1, <2>2, <2>3, <2>4 DEF NestedRun
  <1>3. ASSUME NEW b \in Agents, Finalize(b) PROVE BranchInv(a)'
    <2>1. CASE Close(b)
      BY <2>1, SMT DEF Close, TypeOK, Worktree, BranchInv, Provisioning
    <2>2. CASE CancelCleanup(b)
      BY <2>2, SMT DEF CancelCleanup, TypeOK, Worktree, BranchInv, Provisioning
    <2>3. CASE InspectWorktree(b)
      BY <2>3, SMT DEF InspectWorktree, FinalizeRaises, TypeOK, Worktree, BranchInv,
            Provisioning
    <2>4. CASE StageChanges(b)
      BY <2>4, SMT DEF StageChanges, FinalizeRaises, TypeOK, Worktree, BranchInv,
            Provisioning
    <2>5. CASE CommitChanges(b)
      <3>1. CASE wt' = wt
        BY <2>5, <3>1, SMT DEF CommitChanges, FinalizeRaises, TypeOK, BranchInv,
              Provisioning
      <3>2. CASE wt' = [wt EXCEPT ![b] = Committed(wt[b], wt[b].index)]
        BY <2>5, <3>2, SMT DEF CommitChanges, Committed, FinalizeRaises, TypeOK,
              Worktree, BranchInv, Provisioning
      <3> QED BY <2>5, <3>1, <3>2, CommitEffect
    <2>6. CASE CountCommits(b)
      BY <2>6, SMT DEF CountCommits, FinalizeRaises, FinalizeReturns, TypeOK,
            Worktree, BranchInv, Provisioning
    <2>7. CASE RemoveClean(b)
      BY <2>7, SMT DEF RemoveClean, FinalizeRaises, FinalizeReturns, Removable,
            Removed, RemovedWithRoot, TypeOK, Worktree, BranchInv, Provisioning
    <2> QED BY <1>3, <2>1, <2>2, <2>3, <2>4, <2>5, <2>6, <2>7 DEF Finalize
  <1>4. ASSUME NEW b \in Agents, MergeAndRemove(b) PROVE BranchInv(a)'
    <2>1. CASE ApproveMerge(b)
      BY <2>1, SMT DEF ApproveMerge, TypeOK, Worktree, BranchInv, Provisioning
    <2>2. CASE MergeBranch(b)
      BY <2>2, SMT DEF MergeBranch, LeavesMerge, MergedTip, TypeOK, Worktree,
            BranchInv, Provisioning
    <2>3. CASE LookForUnmergedPaths(b)
      BY <2>3, SMT DEF LookForUnmergedPaths, TypeOK, Worktree, BranchInv,
            Provisioning
    <2>4. CASE AbortMerge(b)
      BY <2>4, SMT DEF AbortMerge, TypeOK, Worktree, BranchInv, Provisioning
    <2>5. CASE RemoveMerged(b)
      <3> USE <2>5, RemovalEffect DEF TypeOK, Worktree, BranchInv, Provisioning
      <3>1. CASE wt' = wt
        BY <3>1, SMT
      <3>2. CASE wt' = Removed(b) /\ wt[b].tree = {}
        BY <3>2, SMT DEF Removed
      <3>3. CASE wt' = RemovedWithRoot(b) /\ wt[b].tree = {}
        BY <3>3, SMT DEF RemovedWithRoot, Removed
      <3>4. CASE wt' = [wt EXCEPT ![b].reg = "none"]
        BY <3>4, SMT
      <3> QED BY <3>1, <3>2, <3>3, <3>4 DEF Removals
    <2>6. CASE CancelMerge(b)
      BY <2>6, SMT DEF CancelMerge, TypeOK, Worktree, BranchInv, Provisioning
    <2> QED BY <1>4, <2>1, <2>2, <2>3, <2>4, <2>5, <2>6 DEF MergeAndRemove
  <1>5. CASE Crash
    BY <1>5, SMT DEF Crash, TypeOK, BranchInv, Provisioning
  <1>6. CASE UserMerges
    BY <1>6, SMT DEF UserMerges, TypeOK, BranchInv, Provisioning
  <1>7. CASE UNCHANGED vars
    BY <1>7, SMT DEF vars, BranchInv, Provisioning
  <1> QED
    BY <1>1, <1>2, <1>3, <1>4, <1>5, <1>6, <1>7 DEF Next

\* No action drops work.
LEMMA WorkStep ==
    ASSUME TypeOK, [Next]_vars, NEW a \in Agents, WorkInv(a), BranchInv(a)
    PROVE  WorkInv(a)'
  <1>1. ASSUME NEW b \in Agents, Create(b) PROVE WorkInv(a)'
    <2>1. CASE Provision(b)
      BY <2>1, SMT DEF Provision, TypeOK, Worktree, WorkInv, BranchInv, Provisioning
    <2>2. CASE AddWorktree(b)
      <3>1. PICK r \in {"none", "locked", "ready"}, c \in BOOLEAN :
                /\ wt' = [wt EXCEPT ![b].reg = r, ![b].branch = c]
                /\ pc'[b] = "run" => c
        BY <2>2, AddEffect
      <3>2. /\ pc[b] = "add"
            /\ \/ Goto(b, "run")
               \/ Goto(b, "undoTree")
            /\ UNCHANGED <<merged, absent, result, container, produced>>
        BY <2>2 DEF AddWorktree
      <3> QED BY <3>1, <3>2, SMT DEF TypeOK, Worktree, WorkInv, BranchInv, Provisioning
    <2>3. CASE UndoTree(b)
      BY <2>3, SMT DEF UndoTree, TypeOK, Worktree, WorkInv, BranchInv, Provisioning
    <2>4. CASE UndoBranch(b)
      BY <2>4, SMT DEF UndoBranch, MayDeleteRoot, TypeOK, Worktree, WorkInv,
            BranchInv, Provisioning
    <2> QED BY <1>1, <2>1, <2>2, <2>3, <2>4 DEF Create
  <1>2. ASSUME NEW b \in Agents, NestedRun(b) PROVE WorkInv(a)'
    <2>1. ASSUME NEW w \in Work, WriteFile(b, w) PROVE WorkInv(a)'
      BY <2>1, SMT DEF WriteFile, Active, TypeOK, Worktree, WorkInv, BranchInv,
            Provisioning
    <2>2. CASE CommitOwnWork(b)
      BY <2>2, SMT DEF CommitOwnWork, Committed, TypeOK, Worktree, WorkInv,
            BranchInv, Provisioning
    <2>3. CASE DetachHead(b)
      BY <2>3, SMT DEF DetachHead, TypeOK, Worktree, WorkInv, BranchInv,
            Provisioning
    <2>4. CASE EndRun(b)
      BY <2>4, SMT DEF EndRun, TypeOK, Worktree, WorkInv, BranchInv, Provisioning
    <2> QED BY <1>2, <2>1, <2>2, <2>3, <2>4 DEF NestedRun
  <1>3. ASSUME NEW b \in Agents, Finalize(b) PROVE WorkInv(a)'
    <2>1. CASE Close(b)
      BY <2>1, SMT DEF Close, TypeOK, Worktree, WorkInv, BranchInv, Provisioning
    <2>2. CASE CancelCleanup(b)
      BY <2>2, SMT DEF CancelCleanup, TypeOK, Worktree, WorkInv, BranchInv,
            Provisioning
    <2>3. CASE InspectWorktree(b)
      BY <2>3, SMT DEF InspectWorktree, FinalizeRaises, TypeOK, Worktree, WorkInv,
            BranchInv, Provisioning
    <2>4. CASE StageChanges(b)
      BY <2>4, SMTT(30) DEF StageChanges, FinalizeRaises, TypeOK, Worktree, WorkInv,
            BranchInv, Provisioning
    <2>5. CASE CommitChanges(b)
      <3>1. CASE wt' = wt
        BY <2>5, <3>1, SMT DEF CommitChanges, FinalizeRaises, TypeOK, WorkInv,
              BranchInv, Provisioning
      <3>2. CASE wt' = [wt EXCEPT ![b] = Committed(wt[b], wt[b].index)]
        BY <2>5, <3>2, SMT DEF CommitChanges, Committed, FinalizeRaises, TypeOK,
              Worktree, WorkInv, BranchInv, Provisioning
      <3> QED BY <2>5, <3>1, <3>2, CommitEffect
    <2>6. CASE CountCommits(b)
      BY <2>6, SMT DEF CountCommits, FinalizeRaises, FinalizeReturns, TypeOK,
            Worktree, WorkInv, BranchInv, Provisioning
    <2>7. CASE RemoveClean(b)
      BY <2>7, SMT DEF RemoveClean, FinalizeRaises, FinalizeReturns, Removable,
            Removed, RemovedWithRoot, TypeOK, Worktree, WorkInv, BranchInv,
            Provisioning
    <2> QED BY <1>3, <2>1, <2>2, <2>3, <2>4, <2>5, <2>6, <2>7 DEF Finalize
  <1>4. ASSUME NEW b \in Agents, MergeAndRemove(b) PROVE WorkInv(a)'
    <2>1. CASE ApproveMerge(b)
      BY <2>1, SMT DEF ApproveMerge, TypeOK, Worktree, WorkInv, BranchInv,
            Provisioning
    <2>2. CASE MergeBranch(b)
      BY <2>2, SMT DEF MergeBranch, LeavesMerge, MergedTip, TypeOK, Worktree,
            WorkInv, BranchInv, Provisioning
    <2>3. CASE LookForUnmergedPaths(b)
      BY <2>3, SMT DEF LookForUnmergedPaths, TypeOK, Worktree, WorkInv, BranchInv,
            Provisioning
    <2>4. CASE AbortMerge(b)
      BY <2>4, SMT DEF AbortMerge, TypeOK, Worktree, WorkInv, BranchInv,
            Provisioning
    <2>5. CASE RemoveMerged(b)
      <3> USE <2>5, RemovalEffect DEF TypeOK, Worktree, WorkInv
      <3>1. CASE wt' = wt
        BY <3>1, SMT
      <3>2. CASE wt' = Removed(b) /\ wt[b].tree = {}
        BY <3>2, SMT DEF Removed
      <3>3. CASE wt' = RemovedWithRoot(b) /\ wt[b].tree = {}
        BY <3>3, SMT DEF RemovedWithRoot, Removed
      <3>4. CASE wt' = [wt EXCEPT ![b].reg = "none"]
        BY <3>4, SMT
      <3> QED BY <3>1, <3>2, <3>3, <3>4 DEF Removals
    <2>6. CASE CancelMerge(b)
      BY <2>6, SMT DEF CancelMerge, TypeOK, Worktree, WorkInv, BranchInv,
            Provisioning
    <2> QED BY <1>4, <2>1, <2>2, <2>3, <2>4, <2>5, <2>6 DEF MergeAndRemove
  <1>5. CASE Crash
    BY <1>5, SMT DEF Crash, TypeOK, WorkInv, BranchInv, Provisioning
  <1>6. CASE UserMerges
    BY <1>6, SMT DEF UserMerges, TypeOK, WorkInv, BranchInv, Provisioning
  <1>7. CASE UNCHANGED vars
    BY <1>7, SMT DEF vars, WorkInv, BranchInv, Provisioning
  <1> QED
    BY <1>1, <1>2, <1>3, <1>4, <1>5, <1>6, <1>7 DEF Next

\* Nothing is left uncommitted behind an offer.
LEMMA OfferStep ==
    ASSUME TypeOK, [Next]_vars, NEW a \in Agents, OfferInv(a), BranchInv(a)
    PROVE  OfferInv(a)'
  <1>1. ASSUME NEW b \in Agents, Create(b) PROVE OfferInv(a)'
    <2>1. CASE Provision(b)
      BY <2>1, SMT DEF Provision, TypeOK, Worktree, OfferInv, BranchInv,
            Provisioning, Cleaning
    <2>2. CASE AddWorktree(b)
      <3>1. PICK r \in {"none", "locked", "ready"}, c \in BOOLEAN :
                /\ wt' = [wt EXCEPT ![b].reg = r, ![b].branch = c]
                /\ pc'[b] = "run" => c
        BY <2>2, AddEffect
      <3>2. /\ pc[b] = "add"
            /\ \/ Goto(b, "run")
               \/ Goto(b, "undoTree")
            /\ UNCHANGED <<merged, absent, result, container, produced>>
        BY <2>2 DEF AddWorktree
      <3> QED BY <3>1, <3>2, SMT DEF TypeOK, Worktree, OfferInv, BranchInv, Provisioning, Cleaning
    <2>3. CASE UndoTree(b)
      BY <2>3, SMT DEF UndoTree, TypeOK, Worktree, OfferInv, BranchInv,
            Provisioning, Cleaning
    <2>4. CASE UndoBranch(b)
      BY <2>4, SMT DEF UndoBranch, MayDeleteRoot, TypeOK, Worktree, OfferInv,
            BranchInv, Provisioning, Cleaning
    <2> QED BY <1>1, <2>1, <2>2, <2>3, <2>4 DEF Create
  <1>2. ASSUME NEW b \in Agents, NestedRun(b) PROVE OfferInv(a)'
    <2>1. ASSUME NEW w \in Work, WriteFile(b, w) PROVE OfferInv(a)'
      BY <2>1, SMT DEF WriteFile, Active, TypeOK, Worktree, OfferInv, BranchInv,
            Provisioning, Cleaning
    <2>2. CASE CommitOwnWork(b)
      BY <2>2, SMT DEF CommitOwnWork, Committed, TypeOK, Worktree, OfferInv,
            BranchInv, Provisioning, Cleaning
    <2>3. CASE DetachHead(b)
      BY <2>3, SMT DEF DetachHead, TypeOK, Worktree, OfferInv, BranchInv,
            Provisioning, Cleaning
    <2>4. CASE EndRun(b)
      BY <2>4, SMT DEF EndRun, TypeOK, Worktree, OfferInv, BranchInv, Provisioning,
            Cleaning
    <2> QED BY <1>2, <2>1, <2>2, <2>3, <2>4 DEF NestedRun
  <1>3. ASSUME NEW b \in Agents, Finalize(b) PROVE OfferInv(a)'
    <2>1. CASE Close(b)
      BY <2>1, SMT DEF Close, TypeOK, Worktree, OfferInv, BranchInv, Provisioning,
            Cleaning
    <2>2. CASE CancelCleanup(b)
      BY <2>2, SMT DEF CancelCleanup, TypeOK, Worktree, OfferInv, BranchInv,
            Provisioning, Cleaning
    <2>3. CASE InspectWorktree(b)
      BY <2>3, SMT DEF InspectWorktree, Dirty, FinalizeRaises, TypeOK, Worktree,
            OfferInv, BranchInv, Provisioning, Cleaning
    <2>4. CASE StageChanges(b)
      BY <2>4, SMT DEF StageChanges, FinalizeRaises, TypeOK, Worktree, OfferInv,
            BranchInv, Provisioning, Cleaning
    <2>5. CASE CommitChanges(b)
      <3>1. CASE wt' = wt
        <4>1. wt[b].index # {} => Committed(wt[b], wt[b].index).index # wt[b].index
          BY RecordType DEF Committed, Worktree
        <4>2. ~Goto(b, "count") \/ wt[b].index = {}
          BY <2>5, <3>1, <4>1, SMT DEF CommitChanges, FinalizeRaises, TypeOK
        <4> QED BY <2>5, <3>1, <4>2, SMT DEF CommitChanges, FinalizeRaises, TypeOK,
                    OfferInv, Cleaning, Provisioning
      <3>2. CASE wt' = [wt EXCEPT ![b] = Committed(wt[b], wt[b].index)]
        BY <2>5, <3>2, SMT DEF CommitChanges, Committed, FinalizeRaises, TypeOK,
              Worktree, OfferInv, BranchInv, Provisioning, Cleaning
      <3> QED BY <2>5, <3>1, <3>2, CommitEffect
    <2>6. CASE CountCommits(b)
      BY <2>6, SMT DEF CountCommits, FinalizeRaises, FinalizeReturns, TypeOK,
            Worktree, OfferInv, BranchInv, Provisioning, Cleaning
    <2>7. CASE RemoveClean(b)
      BY <2>7, SMT DEF RemoveClean, FinalizeRaises, FinalizeReturns, Removable,
            Removed, RemovedWithRoot, TypeOK, Worktree, OfferInv, BranchInv,
            Provisioning, Cleaning
    <2> QED BY <1>3, <2>1, <2>2, <2>3, <2>4, <2>5, <2>6, <2>7 DEF Finalize
  <1>4. ASSUME NEW b \in Agents, MergeAndRemove(b) PROVE OfferInv(a)'
    <2>1. CASE ApproveMerge(b)
      BY <2>1, SMT DEF ApproveMerge, TypeOK, Worktree, OfferInv, BranchInv,
            Provisioning, Cleaning
    <2>2. CASE MergeBranch(b)
      BY <2>2, SMT DEF MergeBranch, LeavesMerge, MergedTip, TypeOK, Worktree,
            OfferInv, BranchInv, Provisioning, Cleaning
    <2>3. CASE LookForUnmergedPaths(b)
      BY <2>3, SMT DEF LookForUnmergedPaths, TypeOK, Worktree, OfferInv, BranchInv,
            Provisioning, Cleaning
    <2>4. CASE AbortMerge(b)
      BY <2>4, SMT DEF AbortMerge, TypeOK, Worktree, OfferInv, BranchInv,
            Provisioning, Cleaning
    <2>5. CASE RemoveMerged(b)
      <3> USE <2>5, RemovalEffect DEF TypeOK, Worktree, OfferInv, BranchInv, Provisioning, Cleaning
      <3>1. CASE wt' = wt
        BY <3>1, SMT
      <3>2. CASE wt' = Removed(b) /\ wt[b].tree = {}
        BY <3>2, SMT DEF Removed
      <3>3. CASE wt' = RemovedWithRoot(b) /\ wt[b].tree = {}
        BY <3>3, SMT DEF RemovedWithRoot, Removed
      <3>4. CASE wt' = [wt EXCEPT ![b].reg = "none"]
        BY <3>4, SMT
      <3> QED BY <3>1, <3>2, <3>3, <3>4 DEF Removals
    <2>6. CASE CancelMerge(b)
      BY <2>6, SMT DEF CancelMerge, TypeOK, Worktree, OfferInv, BranchInv,
            Provisioning, Cleaning
    <2> QED BY <1>4, <2>1, <2>2, <2>3, <2>4, <2>5, <2>6 DEF MergeAndRemove
  <1>5. CASE Crash
    BY <1>5, SMT DEF Crash, TypeOK, OfferInv, BranchInv, Provisioning, Cleaning
  <1>6. CASE UserMerges
    BY <1>6, SMT DEF UserMerges, TypeOK, OfferInv, BranchInv, Provisioning, Cleaning
  <1>7. CASE UNCHANGED vars
    BY <1>7, SMT DEF vars, OfferInv, BranchInv, Provisioning, Cleaning
  <1> QED
    BY <1>1, <1>2, <1>3, <1>4, <1>5, <1>6, <1>7 DEF Next

\* A rollback whose commands run ends with nothing left.
LEMMA RollbackStep ==
    ASSUME TypeOK, [Next]_vars, NEW a \in Agents, RollbackRuns,
           DirectoryInv(a), BranchInv(a), OfferInv(a), RollbackInv(a)
    PROVE  RollbackInv(a)'
  <1>1. ASSUME NEW b \in Agents, Create(b) PROVE RollbackInv(a)'
    <2>1. CASE Provision(b)
      BY <2>1, SMT DEF Provision, TypeOK, Worktree, DirectoryInv, BranchInv,
            Provisioning, OfferInv, Cleaning, RollbackInv
    <2>2. CASE AddWorktree(b)
      <3>1. ~Killable("addKilled", "cancelCreate")
        BY DEF RollbackRuns, Killable
      <3>2. PICK r \in {"none", "ready"}, c \in BOOLEAN :
                wt' = [wt EXCEPT ![b].reg = r, ![b].branch = c]
        <4>1. \A l \in AddLeftovers : l.reg \in {"none", "ready"} /\ l.branch \in BOOLEAN
          BY <3>1 DEF AddLeftovers
        <4> QED BY <2>2, <4>1, Zenon DEF AddWorktree
      <3>3. /\ pc[b] = "add"
            /\ \/ Goto(b, "run")
               \/ Goto(b, "undoTree")
            /\ UNCHANGED <<merged, absent, result, container, produced>>
        BY <2>2 DEF AddWorktree
      <3> QED BY <3>2, <3>3, SMT DEF TypeOK, Worktree, DirectoryInv, BranchInv,
                  Provisioning, OfferInv, Cleaning, RollbackInv
    <2>3. CASE UndoTree(b)
      <3>1. {"undo", "look"} \cap Faults = {}
        BY DEF RollbackRuns
      <3> QED BY <2>3, <3>1, SMT DEF UndoTree, TypeOK, Worktree, DirectoryInv,
                  BranchInv, Provisioning, OfferInv, Cleaning, RollbackInv
    <2>4. CASE UndoBranch(b)
      <3>1. "undo" \notin Faults
        BY DEF RollbackRuns
      <3> QED BY <2>4, <3>1, SMT DEF UndoBranch, MayDeleteRoot, TypeOK, Worktree,
                  DirectoryInv, BranchInv, Provisioning, OfferInv, Cleaning, RollbackInv
    <2> QED BY <1>1, <2>1, <2>2, <2>3, <2>4 DEF Create
  <1>2. ASSUME NEW b \in Agents, NestedRun(b) PROVE RollbackInv(a)'
    <2>1. ASSUME NEW w \in Work, WriteFile(b, w) PROVE RollbackInv(a)'
      BY <2>1, SMT DEF WriteFile, Active, TypeOK, Worktree, DirectoryInv,
            BranchInv, Provisioning, OfferInv, Cleaning, RollbackInv
    <2>2. CASE CommitOwnWork(b)
      BY <2>2, SMT DEF CommitOwnWork, Committed, TypeOK, Worktree, DirectoryInv,
            BranchInv, Provisioning, OfferInv, Cleaning, RollbackInv
    <2>3. CASE DetachHead(b)
      BY <2>3, SMT DEF DetachHead, TypeOK, Worktree, DirectoryInv, BranchInv,
            Provisioning, OfferInv, Cleaning, RollbackInv
    <2>4. CASE EndRun(b)
      BY <2>4, SMT DEF EndRun, TypeOK, Worktree, DirectoryInv, BranchInv,
            Provisioning, OfferInv, Cleaning, RollbackInv
    <2> QED BY <1>2, <2>1, <2>2, <2>3, <2>4 DEF NestedRun
  <1>3. ASSUME NEW b \in Agents, Finalize(b) PROVE RollbackInv(a)'
    <2>1. CASE Close(b)
      BY <2>1, SMT DEF Close, TypeOK, Worktree, DirectoryInv, BranchInv,
            Provisioning, OfferInv, Cleaning, RollbackInv
    <2>2. CASE CancelCleanup(b)
      BY <2>2, SMT DEF CancelCleanup, TypeOK, Worktree, DirectoryInv, BranchInv,
            Provisioning, OfferInv, Cleaning, RollbackInv
    <2>3. CASE InspectWorktree(b)
      BY <2>3, SMT DEF InspectWorktree, Dirty, FinalizeLost, FinalizeRaises,
            TypeOK, Worktree, DirectoryInv, BranchInv, Provisioning, OfferInv,
            Cleaning, RollbackInv
    <2>4. CASE StageChanges(b)
      BY <2>4, SMT DEF StageChanges, FinalizeLost, FinalizeRaises, TypeOK,
            Worktree, DirectoryInv, BranchInv, Provisioning, OfferInv, Cleaning,
            RollbackInv
    <2>5. CASE CommitChanges(b)
      <3>1. CASE wt' = wt
        BY <2>5, <3>1, SMT DEF CommitChanges, FinalizeLost, FinalizeRaises,
              Committed, TypeOK, Worktree, DirectoryInv, BranchInv, Provisioning,
              OfferInv, Cleaning, RollbackInv
      <3>2. CASE wt' = [wt EXCEPT ![b] = Committed(wt[b], wt[b].index)]
        BY <2>5, <3>2, SMT DEF CommitChanges, Committed, FinalizeLost,
              FinalizeRaises, TypeOK, Worktree, DirectoryInv, BranchInv,
              Provisioning, OfferInv, Cleaning, RollbackInv
      <3> QED BY <2>5, <3>1, <3>2, CommitEffect
    <2>6. CASE CountCommits(b)
      BY <2>6, SMT DEF CountCommits, FinalizeLost, FinalizeRaises,
            FinalizeReturns, TypeOK, Worktree, DirectoryInv, BranchInv,
            Provisioning, OfferInv, Cleaning, RollbackInv
    <2>7. CASE RemoveClean(b)
      BY <2>7, SMT DEF RemoveClean, FinalizeLost, FinalizeRaises, FinalizeReturns,
            Removable, Removed, RemovedWithRoot, TypeOK, Worktree, DirectoryInv,
            BranchInv, Provisioning, OfferInv, Cleaning, RollbackInv
    <2> QED BY <1>3, <2>1, <2>2, <2>3, <2>4, <2>5, <2>6, <2>7 DEF Finalize
  <1>4. ASSUME NEW b \in Agents, MergeAndRemove(b) PROVE RollbackInv(a)'
    <2>1. CASE ApproveMerge(b)
      BY <2>1, SMT DEF ApproveMerge, TypeOK, Worktree, DirectoryInv, BranchInv,
            Provisioning, OfferInv, Cleaning, RollbackInv
    <2>2. CASE MergeBranch(b)
      BY <2>2, SMT DEF MergeBranch, LeavesMerge, MergedTip, TypeOK, Worktree,
            DirectoryInv, BranchInv, Provisioning, OfferInv, Cleaning, RollbackInv
    <2>3. CASE LookForUnmergedPaths(b)
      BY <2>3, SMT DEF LookForUnmergedPaths, TypeOK, Worktree, DirectoryInv,
            BranchInv, Provisioning, OfferInv, Cleaning, RollbackInv
    <2>4. CASE AbortMerge(b)
      BY <2>4, SMT DEF AbortMerge, TypeOK, Worktree, DirectoryInv, BranchInv,
            Provisioning, OfferInv, Cleaning, RollbackInv
    <2>5. CASE RemoveMerged(b)
      <3> USE <2>5, RemovalEffect DEF TypeOK, Worktree, DirectoryInv, BranchInv,
            Provisioning, OfferInv, Cleaning, RollbackInv
      <3>1. CASE wt' = wt
        BY <3>1, SMT
      <3>2. CASE wt' = Removed(b) /\ wt[b].tree = {}
        BY <3>2, SMT DEF Removed
      <3>3. CASE wt' = RemovedWithRoot(b) /\ wt[b].tree = {}
        BY <3>3, SMT DEF RemovedWithRoot, Removed
      <3>4. CASE wt' = [wt EXCEPT ![b].reg = "none"]
        BY <3>4, SMT
      <3> QED BY <3>1, <3>2, <3>3, <3>4 DEF Removals
    <2>6. CASE CancelMerge(b)
      BY <2>6, SMT DEF CancelMerge, TypeOK, Worktree, DirectoryInv, BranchInv,
            Provisioning, OfferInv, Cleaning, RollbackInv
    <2> QED BY <1>4, <2>1, <2>2, <2>3, <2>4, <2>5, <2>6 DEF MergeAndRemove
  <1>5. CASE Crash
    BY <1>5, SMT DEF Crash, TypeOK, DirectoryInv, BranchInv, Provisioning,
          OfferInv, Cleaning, RollbackInv
  <1>6. CASE UserMerges
    BY <1>6, SMT DEF UserMerges, TypeOK, DirectoryInv, BranchInv, Provisioning,
          OfferInv, Cleaning, RollbackInv
  <1>7. CASE UNCHANGED vars
    BY <1>7, SMT DEF vars, DirectoryInv, BranchInv, Provisioning, OfferInv,
          Cleaning, RollbackInv
  <1> QED
    BY <1>1, <1>2, <1>3, <1>4, <1>5, <1>6, <1>7 DEF Next

\* After the container's end nothing is left uncommitted.
LEMMA FinalStep ==
    ASSUME TypeOK, [Next]_vars, NEW a \in Agents, FinalizingRuns,
           BranchInv(a), OfferInv(a), FinalInv(a)
    PROVE  FinalInv(a)'
  <1>1. ASSUME NEW b \in Agents, Create(b) PROVE FinalInv(a)'
    <2>1. CASE Provision(b)
      BY <2>1, SMT DEF Provision, TypeOK, Worktree, BranchInv, Provisioning,
            OfferInv, Cleaning, FinalizingRuns, FinalInv
    <2>2. CASE AddWorktree(b)
      <3>1. PICK r \in {"none", "locked", "ready"}, c \in BOOLEAN :
                /\ wt' = [wt EXCEPT ![b].reg = r, ![b].branch = c]
                /\ pc'[b] = "run" => c
        BY <2>2, AddEffect
      <3>2. /\ pc[b] = "add"
            /\ \/ Goto(b, "run")
               \/ Goto(b, "undoTree")
            /\ UNCHANGED <<merged, absent, result, container, produced>>
        BY <2>2 DEF AddWorktree
      <3> QED BY <3>1, <3>2, SMT DEF TypeOK, Worktree, BranchInv, Provisioning,
            OfferInv, Cleaning, FinalizingRuns, FinalInv
    <2>3. CASE UndoTree(b)
      BY <2>3, SMT DEF UndoTree, TypeOK, Worktree, BranchInv, Provisioning,
            OfferInv, Cleaning, FinalizingRuns, FinalInv
    <2>4. CASE UndoBranch(b)
      BY <2>4, SMT DEF UndoBranch, MayDeleteRoot, TypeOK, Worktree, BranchInv,
            Provisioning, OfferInv, Cleaning, FinalizingRuns, FinalInv
    <2> QED BY <1>1, <2>1, <2>2, <2>3, <2>4 DEF Create
  <1>2. ASSUME NEW b \in Agents, NestedRun(b) PROVE FinalInv(a)'
    <2>1. ASSUME NEW w \in Work, WriteFile(b, w) PROVE FinalInv(a)'
      BY <2>1, SMT DEF WriteFile, Active, TypeOK, Worktree, BranchInv,
            Provisioning, OfferInv, Cleaning, FinalizingRuns, FinalInv
    <2>2. CASE CommitOwnWork(b)
      BY <2>2, SMT DEF CommitOwnWork, Committed, TypeOK, Worktree, BranchInv,
            Provisioning, OfferInv, Cleaning, FinalizingRuns, FinalInv
    <2>3. CASE DetachHead(b)
      BY <2>3, SMT DEF DetachHead, TypeOK, Worktree, BranchInv, Provisioning,
            OfferInv, Cleaning, FinalizingRuns, FinalInv
    <2>4. CASE EndRun(b)
      BY <2>4, SMT DEF EndRun, TypeOK, Worktree, BranchInv, Provisioning,
            OfferInv, Cleaning, FinalizingRuns, FinalInv
    <2> QED BY <1>2, <2>1, <2>2, <2>3, <2>4 DEF NestedRun
  <1>3. ASSUME NEW b \in Agents, Finalize(b) PROVE FinalInv(a)'
    <2>1. CASE Close(b)
      BY <2>1, SMT DEF Close, TypeOK, Worktree, BranchInv, Provisioning, OfferInv,
            Cleaning, FinalizingRuns, FinalInv
    <2>2. CASE CancelCleanup(b)
      BY <2>2, SMT DEF CancelCleanup, TypeOK, Worktree, BranchInv, Provisioning,
            OfferInv, Cleaning, FinalizingRuns, FinalInv
    <2>3. CASE InspectWorktree(b)
      BY <2>3, SMT DEF InspectWorktree, Dirty, FinalizeLost, FinalizeRaises,
            TypeOK, Worktree, BranchInv, Provisioning, OfferInv, Cleaning,
            FinalizingRuns, FinalInv
    <2>4. CASE StageChanges(b)
      BY <2>4, SMT DEF StageChanges, FinalizeLost, FinalizeRaises, TypeOK,
            Worktree, BranchInv, Provisioning, OfferInv, Cleaning, FinalizingRuns,
            FinalInv
    <2>5. CASE CommitChanges(b)
      <3>1. CASE wt' = wt
        <4>1. wt[b].index # {} => Committed(wt[b], wt[b].index).index # wt[b].index
          BY RecordType DEF Committed, Worktree
        <4>2. wt[b].index = {} /\ FinalizeRaises(b)
          BY <2>5, <3>1, <4>1, SMT DEF CommitChanges, FinalizeLost, FinalizingRuns, TypeOK
        <4> QED BY <2>5, <3>1, <4>2, SMT DEF CommitChanges, FinalizeRaises, TypeOK,
                    OfferInv, Cleaning, FinalInv
      <3>2. CASE wt' = [wt EXCEPT ![b] = Committed(wt[b], wt[b].index)]
        BY <2>5, <3>2, SMT DEF CommitChanges, Committed, FinalizeLost, FinalizeRaises,
              TypeOK, Worktree, BranchInv, Provisioning, OfferInv, Cleaning,
              FinalizingRuns, FinalInv
      <3> QED BY <2>5, <3>1, <3>2, CommitEffect
    <2>6. CASE CountCommits(b)
      BY <2>6, SMT DEF CountCommits, FinalizeLost, FinalizeRaises,
            FinalizeReturns, TypeOK, Worktree, BranchInv, Provisioning, OfferInv,
            Cleaning, FinalizingRuns, FinalInv
    <2>7. CASE RemoveClean(b)
      BY <2>7, SMT DEF RemoveClean, FinalizeLost, FinalizeRaises, FinalizeReturns,
            Removable, Removed, RemovedWithRoot, TypeOK, Worktree, BranchInv,
            Provisioning, OfferInv, Cleaning, FinalizingRuns, FinalInv
    <2> QED BY <1>3, <2>1, <2>2, <2>3, <2>4, <2>5, <2>6, <2>7 DEF Finalize
  <1>4. ASSUME NEW b \in Agents, MergeAndRemove(b) PROVE FinalInv(a)'
    <2>1. CASE ApproveMerge(b)
      BY <2>1, SMT DEF ApproveMerge, TypeOK, Worktree, BranchInv, Provisioning,
            OfferInv, Cleaning, FinalizingRuns, FinalInv
    <2>2. CASE MergeBranch(b)
      BY <2>2, SMT DEF MergeBranch, LeavesMerge, MergedTip, TypeOK, Worktree,
            BranchInv, Provisioning, OfferInv, Cleaning, FinalizingRuns, FinalInv
    <2>3. CASE LookForUnmergedPaths(b)
      BY <2>3, SMT DEF LookForUnmergedPaths, TypeOK, Worktree, BranchInv,
            Provisioning, OfferInv, Cleaning, FinalizingRuns, FinalInv
    <2>4. CASE AbortMerge(b)
      BY <2>4, SMT DEF AbortMerge, TypeOK, Worktree, BranchInv, Provisioning,
            OfferInv, Cleaning, FinalizingRuns, FinalInv
    <2>5. CASE RemoveMerged(b)
      <3> USE <2>5, RemovalEffect DEF TypeOK, Worktree, BranchInv, Provisioning,
            OfferInv, Cleaning, FinalizingRuns, FinalInv
      <3>1. CASE wt' = wt
        BY <3>1, SMT
      <3>2. CASE wt' = Removed(b) /\ wt[b].tree = {}
        BY <3>2, SMT DEF Removed
      <3>3. CASE wt' = RemovedWithRoot(b) /\ wt[b].tree = {}
        BY <3>3, SMT DEF RemovedWithRoot, Removed
      <3>4. CASE wt' = [wt EXCEPT ![b].reg = "none"]
        BY <3>4, SMT
      <3> QED BY <3>1, <3>2, <3>3, <3>4 DEF Removals
    <2>6. CASE CancelMerge(b)
      BY <2>6, SMT DEF CancelMerge, TypeOK, Worktree, BranchInv, Provisioning,
            OfferInv, Cleaning, FinalizingRuns, FinalInv
    <2> QED BY <1>4, <2>1, <2>2, <2>3, <2>4, <2>5, <2>6 DEF MergeAndRemove
  <1>5. CASE Crash
    BY <1>5, SMT DEF Crash, TypeOK, BranchInv, Provisioning, OfferInv, Cleaning,
          FinalizingRuns, FinalInv
  <1>6. CASE UserMerges
    BY <1>6, SMT DEF UserMerges, TypeOK, BranchInv, Provisioning, OfferInv,
          Cleaning, FinalizingRuns, FinalInv
  <1>7. CASE UNCHANGED vars
    BY <1>7, SMT DEF vars, BranchInv, Provisioning, OfferInv, Cleaning,
          FinalizingRuns, FinalInv
  <1> QED
    BY <1>1, <1>2, <1>3, <1>4, <1>5, <1>6, <1>7 DEF Next

\* A merge in progress is either the user's or about to be aborted.
LEMMA MergeStep ==
    ASSUME WorktreeAssumption, TypeOK, [Next]_vars, MergingRuns, MergeConcluded
    PROVE  MergeConcluded'
  <1> USE DEF MergeConcluded
  <1>1. ASSUME NEW b \in Agents, Create(b) PROVE MergeConcluded'
    BY <1>1, SMT DEF Create, Provision, AddWorktree, UndoTree, UndoBranch, TypeOK
  <1>2. ASSUME NEW b \in Agents, NestedRun(b) PROVE MergeConcluded'
    BY <1>2, SMT DEF NestedRun, WriteFile, CommitOwnWork, DetachHead, EndRun, TypeOK
  <1>3. ASSUME NEW b \in Agents, Finalize(b) PROVE MergeConcluded'
    BY <1>3, SMT DEF Finalize, Close, CancelCleanup, InspectWorktree, StageChanges,
          CommitChanges, CountCommits, RemoveClean, FinalizeRaises, FinalizeReturns,
          Cleaning, TypeOK
  <1>4. ASSUME NEW b \in Agents, MergeAndRemove(b) PROVE MergeConcluded'
    <2>1. CASE ApproveMerge(b)
      BY <2>1, SMT DEF ApproveMerge, TypeOK
    <2>2. CASE MergeBranch(b)
      <3>1. ~Killable("merge", "cancelMerge")
        BY DEF MergingRuns, Killable
      <3>2. pc[b] = "merge" /\ Nobody \notin Agents
        BY <2>2 DEF MergeBranch, WorktreeAssumption
      <3> QED BY <2>2, <3>1, <3>2, SMT DEF MergeBranch, LeavesMerge, TypeOK
    <2>3. CASE LookForUnmergedPaths(b)
      BY <2>3, SMT DEF LookForUnmergedPaths, TypeOK
    <2>4. CASE AbortMerge(b)
      <3>1. "abort" \notin Faults /\ Nobody \notin Agents
        BY DEF MergingRuns, WorktreeAssumption
      <3>2. merging' = Nobody
        BY <2>4, <3>1, Zenon DEF AbortMerge, AbortWanted
      <3> QED BY <3>1, <3>2
    <2>5. CASE RemoveMerged(b)
      BY <2>5, RemovalEffect, SMT DEF TypeOK
    <2>6. CASE CancelMerge(b)
      BY <2>6 DEF CancelMerge, MergingRuns
    <2> QED BY <1>4, <2>1, <2>2, <2>3, <2>4, <2>5, <2>6 DEF MergeAndRemove
  <1>5. CASE Crash
    BY <1>5 DEF Crash, MergingRuns
  <1>6. CASE UserMerges
    <2>1. merging' \in {User, Nobody}
      BY <1>6, Zenon DEF UserMerges
    <2> QED BY <2>1 DEF WorktreeAssumption
  <1>7. CASE UNCHANGED vars
    BY <1>7 DEF vars
  <1> QED
    BY <1>1, <1>2, <1>3, <1>4, <1>5, <1>6, <1>7 DEF Next

-----------------------------------------------------------------------------
(* The theorems.                                                           *)

LEMMA InitHolds ==
    Init => /\ TypeOK
            /\ \A a \in Agents : DirectoryInv(a) /\ BranchInv(a) /\ WorkInv(a) /\ OfferInv(a)
  <1> SUFFICES ASSUME Init
      PROVE  /\ TypeOK
             /\ \A a \in Agents : DirectoryInv(a) /\ BranchInv(a) /\ WorkInv(a) /\ OfferInv(a)
    OBVIOUS
  <1>1. NoWorktree \in Worktree
    BY DEF NoWorktree, Worktree
  <1>2. paths \in BOOLEAN
    BY Zenon DEF Init
  <1>3. TypeOK
    BY <1>1, <1>2, SMT DEF Init, TypeOK, PC, Result
  <1>4. ASSUME NEW a \in Agents PROVE DirectoryInv(a) /\ BranchInv(a)
    BY SMT DEF Init, NoWorktree, DirectoryInv, BranchInv, Provisioning
  <1>5. ASSUME NEW a \in Agents PROVE WorkInv(a) /\ OfferInv(a)
    BY SMT DEF Init, NoWorktree, WorkInv, OfferInv, Provisioning, Cleaning
  <1> QED
    BY <1>3, <1>4, <1>5

\* Type correctness.
THEOREM TypeCorrect == Spec => []TypeOK
  <1>1. Init => TypeOK
    BY InitHolds
  <1> QED
    BY <1>1, TypeStep, PTL DEF Spec

\* IInv is inductive.
THEOREM Invariance == Spec => []IInv
  <1>1. Init => IInv
    BY InitHolds DEF IInv
  <1>2. IInv /\ [Next]_vars => IInv'
    BY TypeStep, DirectoryStep, BranchStep, WorkStep, OfferStep DEF IInv
  <1> QED
    BY <1>1, <1>2, PTL DEF Spec

\* git never lists a worktree whose directory is gone, whatever fails and
\* whatever the rollback could not find out.
THEOREM DirectoryKept == Spec => []RootKept
  <1>1. IInv => RootKept
    BY DEF IInv, DirectoryInv, RootKept
  <1> QED
    BY <1>1, Invariance, PTL

\* No work of a nested Run that stays on its branch is ever dropped, by any
\* fault, cancellation or crash.
THEOREM NothingLost == Spec => []BranchWorkKept
  <1>1. IInv => BranchWorkKept
    BY SMT DEF IInv, BranchInv, WorkInv, BranchWorkKept, OnBranch, Preserved
  <1> QED
    BY <1>1, Invariance, PTL

\* A merge is offered only for a branch that holds all of the Run's work.
THEOREM WholeWorkOffered == Spec => []OfferedWorkCommitted
  <1>1. IInv => OfferedWorkCommitted
    BY SMT DEF IInv, WorkInv, OfferInv, OnBranch, OfferedWorkCommitted
  <1> QED
    BY <1>1, Invariance, PTL

\* A provisioning that failed has left neither worktree nor branch nor directory,
\* provided the commands of its rollback run: whatever made it fail, and whatever
\* is lost or cut short elsewhere.
THEOREM RollbackComplete ==
    ASSUME RollbackRuns
    PROVE  Spec => []RolledBack
  <1> DEFINE Inv == IInv /\ \A a \in Agents : RollbackInv(a)
  <1>1. Init => \A a \in Agents : RollbackInv(a)
    BY SMT DEF Init, NoWorktree, RollbackInv
  <1>2. Init => Inv
    BY <1>1, InitHolds DEF IInv
  <1>3. Inv /\ [Next]_vars => Inv'
    BY TypeStep, DirectoryStep, BranchStep, WorkStep, OfferStep, RollbackStep DEF IInv
  <1>4. Inv => RolledBack
    BY DEF RollbackInv, RolledBack
  <1> HIDE DEF Inv
  <1> QED
    BY <1>2, <1>3, <1>4, PTL DEF Spec

\* When the cleanup of a nested Run has ended, cancelled or not, its container is
\* gone and all of its work is on the branch, provided the container can be
\* removed and no finalizing command is lost.
THEOREM CleanupComplete ==
    ASSUME FinalizingRuns
    PROVE  Spec => []FinalizedWhenCancelled
  <1> DEFINE Inv == IInv /\ \A a \in Agents : FinalInv(a)
  <1>1. Init => \A a \in Agents : FinalInv(a)
    BY SMT DEF Init, NoWorktree, FinalInv
  <1>2. Init => Inv
    BY <1>1, InitHolds DEF IInv
  <1>3. Inv /\ [Next]_vars => Inv'
    BY TypeStep, DirectoryStep, BranchStep, WorkStep, OfferStep, FinalStep DEF IInv
  <1>4. Inv => FinalizedWhenCancelled
    BY SMT DEF IInv, WorkInv, FinalInv, FinalizedWhenCancelled
  <1> HIDE DEF Inv
  <1> QED
    BY <1>2, <1>3, <1>4, PTL DEF Spec

\* Whoever left MERGE_HEAD in the parent Workspace is still going to abort it,
\* provided no merge or abort is killed, cancelled or crashed; git may refuse
\* either, and the user may merge meanwhile.
THEOREM MergesConclude ==
    ASSUME MergingRuns
    PROVE  Spec => []MergeConcluded
  <1>1. Init => MergeConcluded
    BY WorktreeAssumption DEF Init, MergeConcluded, WorktreeAssumption
  <1>2. TypeOK /\ MergeConcluded /\ [Next]_vars => MergeConcluded'
    BY MergeStep, WorktreeAssumption
  <1> QED
    BY <1>1, <1>2, TypeCorrect, PTL DEF Spec
=============================================================================
