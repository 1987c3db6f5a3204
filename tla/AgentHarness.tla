---------------------------- MODULE AgentHarness ----------------------------
(***************************************************************************)
(* One Run driven by the sessions that share a Checkpoint store.           *)
(*                                                                         *)
(* A session is an operating-system process (a TUI, a CLI command) with    *)
(* its ForegroundRun, AgentHarness, AgentLoop, ToolStepExecutor and        *)
(* CheckpointHandler.  A session runs on one event loop, so its steps are  *)
(* the stretches of code between two awaits that really suspend and, where *)
(* a crash or another process can come between, between two writes to the  *)
(* store.  SuspendPoints are the places where the event loop may run       *)
(* something else: always the model turn and the Tool batch, and, with a   *)
(* Handler that awaits something in its callback, a broadcast as well.     *)
(***************************************************************************)
EXTENDS RunState

CONSTANTS
    Sessions,       \* the processes that may open the Run
    None,           \* no session: the claim is free
    NoSeal,         \* a session that has no seal_interrupt under way
    Limit,          \* max_model_calls; 0 is the interactive session's "no limit"
    MaxTurns,       \* bound on the model calls of a behaviour
    SuspendPoints,  \* the control points at which a session's event loop is free
    Events          \* the disturbances of this instance

PC == {"idle", "starting", "resuming", "prepared", "top", "model", "decide",
       "batch", "fold", "finish", "ending", "aborted"}

ASSUME ConstantsAssumption ==
    /\ None \notin Sessions
    /\ NoSeal \notin State
    /\ Limit \in Nat
    /\ MaxTurns \in Nat
    /\ {"model", "batch"} \subseteq SuspendPoints
    /\ SuspendPoints \subseteq
           {"starting", "resuming", "model", "decide", "batch", "fold", "ending"}
    /\ Events \subseteq {"cancel", "esc", "shutdown", "crash", "saveError"}

Status == {"absent", "running", "waiting_for_approval", "paused_limit",
           "completed", "failed", "cancelled"}
Decision == {"ALLOW", "DENY", "NEEDS_APPROVAL"}

VARIABLES
    row,        \* the row of the Run in the store: its status and its snapshot
    fresh,      \* sessions whose get_run still holds the row's updated_at
    lock,       \* the session that claims the Run, or None
    minted,     \* how many Tool calls the Provider has issued
    pc,         \* where each session is
    st,         \* the RunState held by advance, or by the PreparedRun
    inLoop,     \* whether control is inside AgentLoop.advance and its handlers
    verdicts,   \* the user's verdicts that respond_approval(s) was given
    ask,        \* the calls for which this turn will halt for an approval
    batch,      \* the Tool batch that is being resolved
    outcome,    \* the terminal status being published
    token,      \* the RunCancellation of the session's current Run
    runId,      \* whether ForegroundRun.run_id names this Run
    down,       \* whether the session has been told to shut down
    sealing,    \* the snapshot read by a seal_interrupt that has not saved yet
    ran,        \* (history) how often each call's Tool was started
    finished,   \* (history) the calls whose Tool returned to the harness
    consent,    \* (history) what the policy and the user said of each call
    wanted,     \* (history) the recorded results that asked for a follow-up
    disturbed   \* (history) whether a disturbance has happened

store == <<row, fresh>>
control == <<pc, st, inLoop, verdicts, ask, batch, outcome>>
foreground == <<token, runId, down>>
history == <<ran, finished, consent, wanted>>
vars == <<store, lock, minted, control, foreground, sealing, history, disturbed>>

Batch == [kind : {"none", "verdict", "model", "synth"},
          running : SUBSET Call,                    \* Tools under way
          resolved : SUBSET (Call \X Outcome),      \* results not yet in the transcript
          folded : SUBSET (Call \X Outcome),        \* results appended and saved
          wants : SUBSET Call,                      \* outcomes with a follow_up
          cut : BOOLEAN]                            \* a Tool was cancelled

NoBatch == [kind |-> "none", running |-> {}, resolved |-> {}, folded |-> {},
            wants |-> {}, cut |-> FALSE]
NoVerdicts == [approve |-> {}, deny |-> {}]

StoreTypes ==
    /\ row \in [status : Status, st : State]
    /\ fresh \subseteq Sessions

ControlTypes ==
    /\ pc \in [Sessions -> PC]
    /\ st \in [Sessions -> State]
    /\ inLoop \in [Sessions -> BOOLEAN]
    /\ verdicts \in [Sessions -> [approve : SUBSET Call, deny : SUBSET Call]]
    /\ ask \in [Sessions -> SUBSET Call]
    /\ batch \in [Sessions -> Batch]
    /\ outcome \in [Sessions -> Status]

ForegroundTypes ==
    /\ token \in [Sessions -> BOOLEAN]
    /\ runId \in [Sessions -> BOOLEAN]
    /\ down \in [Sessions -> BOOLEAN]

HistoryTypes ==
    /\ ran \in [Call -> Nat]
    /\ finished \subseteq Call
    /\ consent \in [Call -> {"none", "asked", "approved", "denied"}]
    /\ wanted \subseteq Call

\* Every variable has its type: in particular the row, which saves that keep the
\* stored status (COALESCE in save_state) write as well as those that set it.
TypeOK ==
    /\ StoreTypes
    /\ lock \in Sessions \union {None}
    /\ minted \in 0..MaxCalls
    /\ ControlTypes
    /\ ForegroundTypes
    /\ sealing \in [Sessions -> State \union {NoSeal}]
    /\ HistoryTypes
    /\ disturbed \in BOOLEAN

Init ==
    /\ row = [status |-> "absent", st |-> EmptyState]
    /\ fresh = {}
    /\ lock = None
    /\ minted = 0
    /\ pc = [s \in Sessions |-> "idle"]
    /\ st = [s \in Sessions |-> EmptyState]
    /\ inLoop = [s \in Sessions |-> FALSE]
    /\ verdicts = [s \in Sessions |-> NoVerdicts]
    /\ ask = [s \in Sessions |-> {}]
    /\ batch = [s \in Sessions |-> NoBatch]
    /\ outcome = [s \in Sessions |-> "absent"]
    /\ token = [s \in Sessions |-> FALSE]
    /\ runId = [s \in Sessions |-> FALSE]
    /\ down = [s \in Sessions |-> FALSE]
    /\ sealing = [s \in Sessions |-> NoSeal]
    /\ ran = [c \in Call |-> 0]
    /\ finished = {}
    /\ consent = [c \in Call |-> "none"]
    /\ wanted = {}
    /\ disturbed = FALSE

-----------------------------------------------------------------------------
(* The store. *)

\* Mutant of Coalesce: the UPDATE stores the status it was given.
GivenStatus(status) == status

\* COALESCE(?, status): after_model and after_tool save without a status.
Coalesce(status) == IF status = "keep" THEN row.status ELSE status

\* save_state: the snapshot is replaced as a whole, and updated_at moves on.
Save(state, status) ==
    /\ row' = [status |-> Coalesce(status), st |-> state]
    /\ fresh' = {}

\* Mutant of Unchanged: prepare_resume without its WHERE clause.
AnyVersion(s) == TRUE

\* The WHERE clause of prepare_resume: nobody wrote the row since get_run.
Unchanged(s) == s \in fresh

(***************************************************************************)
(* Control.                                                                *)
(***************************************************************************)

At(s, p) == pc[s] = p /\ sealing[s] = NoSeal

Goto(s, p) == pc' = [pc EXCEPT ![s] = p]

\* Mutant of Released: a Run that waits for the user keeps its claim.
ReleasedUnlessWaiting(s) ==
    IF lock = s /\ row.status # "waiting_for_approval" THEN None ELSE lock

\* The finally of RunLock.claim, and the operating system when a process dies.
Released(s) == IF lock = s THEN None ELSE lock

\* Control leaves the with-claim block: the claim is released, and whatever the
\* harness held in memory and ForegroundRun's token are gone.
Leave(s, p) ==
    /\ lock' = Released(s)
    /\ Goto(s, p)
    /\ token' = [token EXCEPT ![s] = FALSE]
    /\ st' = [st EXCEPT ![s] = EmptyState]
    /\ inLoop' = [inLoop EXCEPT ![s] = FALSE]
    /\ verdicts' = [verdicts EXCEPT ![s] = NoVerdicts]
    /\ ask' = [ask EXCEPT ![s] = {}]
    /\ batch' = [batch EXCEPT ![s] = NoBatch]
    /\ outcome' = [outcome EXCEPT ![s] = "absent"]

\* The step moves the session's control and touches nothing that is shared.
OnlyControlMoves ==
    UNCHANGED <<store, lock, minted, foreground, sealing, history, disturbed>>

\* One of the finish_* methods is called with the given state.
Finish(s, state, status) ==
    /\ Goto(s, "finish")
    /\ st' = [st EXCEPT ![s] = state]
    /\ outcome' = [outcome EXCEPT ![s] = status]
    /\ batch' = [batch EXCEPT ![s] = NoBatch]
    /\ ask' = [ask EXCEPT ![s] = {}]
    /\ verdicts' = [verdicts EXCEPT ![s] = NoVerdicts]
    /\ UNCHANGED inLoop

\* A batch is gathered: the Tools start, a refusal is a result at once.
StartBatch(s, kind, runs, denies) ==
    /\ Goto(s, "batch")
    /\ batch' = [batch EXCEPT ![s] =
           [kind |-> kind, running |-> runs, resolved |-> denies \X {"denied"},
            folded |-> {}, wants |-> {}, cut |-> FALSE]]
    /\ ran' = [c \in Call |-> ran[c] + IF c \in runs THEN 1 ELSE 0]

\* The state with the results that the current batch has appended so far.
Folded(s) == AppendToolResults(st[s], batch[s].folded)

-----------------------------------------------------------------------------
(***************************************************************************)
(* AgentHarness.run: a fresh Run.                                          *)
(***************************************************************************)

\* ForegroundRun.start_new and run() up to run_before_start: the Run gets a
\* new id, so its claim is free, and run_id is not yet recorded.
StartNew(s) ==
    /\ At(s, "idle") /\ ~down[s]
    /\ row.status = "absent" /\ lock = None
    /\ lock' = s
    /\ Save(EmptyState, "running")
    /\ Goto(s, "starting")
    /\ token' = [token EXCEPT ![s] = FALSE]
    /\ UNCHANGED <<minted, st, inLoop, verdicts, ask, batch, outcome, runId, down,
                   sealing, history, disturbed>>

\* run_started: the seeded transcript is saved and the loop is entered.
RunStarted(s) ==
    /\ At(s, "starting")
    /\ Save(EmptyState, "running")
    /\ Goto(s, "top")
    /\ st' = [st EXCEPT ![s] = EmptyState]
    /\ inLoop' = [inLoop EXCEPT ![s] = TRUE]
    /\ UNCHANGED <<lock, minted, verdicts, ask, batch, outcome, foreground, sealing,
                   history, disturbed>>

(***************************************************************************)
(* AgentHarness.resume, respond_approval and respond_approvals.            *)
(***************************************************************************)

\* Mutants of ResumeState: nothing is repaired; everything is.
ResumeUnsealed(stored) == stored.st
ResumeSealed(stored) == Seal(stored.st)

\* What resume advances from: a Run that waits for an approval is taken as it
\* is, any other is repaired.
ResumeState(stored) ==
    IF stored.status = "waiting_for_approval" THEN stored.st ELSE Seal(stored.st)

\* The claim, get_run, load_state and the repair: one stretch without an await.
Claim(s, state, given) ==
    /\ lock = None
    /\ lock' = s
    /\ fresh' = fresh \union {s}
    /\ st' = [st EXCEPT ![s] = state]
    /\ verdicts' = [verdicts EXCEPT ![s] = given]
    /\ Goto(s, "resuming")
    /\ UNCHANGED row

\* A user command on a stored Run: ForegroundRun records the Run's id and a
\* fresh token before the Harness has claimed anything.
Command(s) ==
    /\ At(s, "idle") /\ ~down[s]
    /\ runId' = [runId EXCEPT ![s] = TRUE]
    /\ token' = [token EXCEPT ![s] = FALSE]
    /\ UNCHANGED <<minted, inLoop, ask, batch, outcome, down, sealing, history, disturbed>>

ContinueWith(s) ==
    /\ Command(s)
    /\ row.status # "absent"
    /\ Claim(s, ResumeState(row), NoVerdicts)

\* One verdict, for the oldest pending call.
RespondApproval(s) ==
    /\ Command(s)
    /\ row.status = "waiting_for_approval"
    /\ LET oldest == Oldest(UnmatchedToolCalls(row.st))
       IN /\ oldest # {}
          /\ \/ Claim(s, row.st, [approve |-> oldest, deny |-> {}])
             \/ Claim(s, row.st, [approve |-> {}, deny |-> oldest])

\* Verdicts for any of the pending calls; the others stay pending.
RespondApprovals(s) ==
    /\ Command(s)
    /\ row.status = "waiting_for_approval"
    /\ \E yes \in SUBSET UnmatchedToolCalls(row.st) :
          \E no \in SUBSET (UnmatchedToolCalls(row.st) \ yes) :
             Claim(s, row.st, [approve |-> yes, deny |-> no])

\* ResumeError: the Run is claimed elsewhere, or a prompt was given to a Run
\* that waits for an approval.  Only run_id has changed.
CommandRefused(s) ==
    /\ Command(s)
    /\ row.status # "absent"
    /\ lock # None \/ row.status = "waiting_for_approval"
    /\ UNCHANGED <<store, lock, pc, st, verdicts>>

\* prepare_resume: the compare-and-set succeeds and the Run is RUNNING again.
PrepareResume(s) ==
    /\ At(s, "resuming")
    /\ Unchanged(s)
    /\ Save(st[s], "running")
    /\ Goto(s, "prepared")
    /\ UNCHANGED <<lock, minted, st, inLoop, verdicts, ask, batch, outcome, foreground,
                   sealing, history, disturbed>>

\* The row was written since get_run: prepare_resume raises.
PrepareResumeConflict(s) ==
    /\ At(s, "resuming")
    /\ ~Unchanged(s)
    /\ Leave(s, "idle")
    /\ UNCHANGED <<store, minted, runId, down, sealing, history, disturbed>>

(***************************************************************************)
(* _apply_approvals: from a PreparedRun to the loop, a batch or a halt.    *)
(***************************************************************************)

NothingPending(s) ==
    /\ At(s, "prepared")
    /\ UnmatchedToolCalls(st[s]) = {}
    /\ Goto(s, "top")
    /\ inLoop' = [inLoop EXCEPT ![s] = TRUE]
    /\ verdicts' = [verdicts EXCEPT ![s] = NoVerdicts]
    /\ UNCHANGED <<store, lock, minted, st, ask, batch, outcome, foreground, sealing,
                   history, disturbed>>

ApprovalCancelled(s) ==
    /\ At(s, "prepared")
    /\ UnmatchedToolCalls(st[s]) # {} /\ token[s]
    /\ Finish(s, st[s], "cancelled")
    /\ OnlyControlMoves

\* The calls that have a verdict.
Judged(s) == verdicts[s].approve \union verdicts[s].deny

\* Mutant of Approved: a verdict of DENY is executed like any other.
ApprovedOrDenied(s) == Judged(s)

\* The calls the user approved are the only ones that a verdict batch runs.
Approved(s) == verdicts[s].approve

ApplyVerdicts(s) ==
    LET pending == UnmatchedToolCalls(st[s])
        decided == pending \intersect Judged(s)
    IN /\ At(s, "prepared")
       /\ decided # {} /\ ~token[s]
       /\ StartBatch(s, "verdict", decided \intersect Approved(s), decided \ Approved(s))
       /\ ask' = [ask EXCEPT ![s] = pending \ decided]
       /\ consent' = [c \in Call |->
             IF c \notin decided THEN consent[c]
             ELSE IF c \in verdicts[s].approve THEN "approved" ELSE "denied"]
       /\ UNCHANGED <<store, lock, minted, st, inLoop, verdicts, outcome, foreground,
                      sealing, finished, wanted, disturbed>>

\* No verdict for any pending call: the Run halts again.
StillPending(s) ==
    LET pending == UnmatchedToolCalls(st[s])
    IN /\ At(s, "prepared")
       /\ pending # {} /\ ~token[s]
       /\ pending \intersect Judged(s) = {}
       /\ Finish(s, st[s], "waiting_for_approval")
       /\ OnlyControlMoves

(***************************************************************************)
(* AgentLoop.advance: the model turn.                                      *)
(***************************************************************************)

LimitReached(state) == Limit > 0 /\ state.turns >= Limit

TurnStart(s) ==
    /\ At(s, "top")
    /\ \/ /\ LimitReached(st[s])
          /\ Finish(s, st[s], "paused_limit")
       \/ /\ ~LimitReached(st[s]) /\ token[s]
          /\ Finish(s, st[s], "cancelled")
       \/ /\ ~LimitReached(st[s]) /\ ~token[s]
          /\ Goto(s, "model")
          /\ UNCHANGED <<st, inLoop, verdicts, ask, batch, outcome>>
    /\ OnlyControlMoves

\* The Provider answers with some new calls, or with none.
\* append_model_response and after_model, whose first Handler saves the state.
ModelResponds(s) ==
    /\ At(s, "model")
    /\ st[s].turns < MaxTurns
    /\ \E n \in minted .. MaxCalls :
          LET calls == minted + 1 .. n
              grown == AppendModelResponse(st[s], calls)
          IN /\ minted' = n
             /\ st' = [st EXCEPT ![s] = grown]
             /\ Save(grown, "keep")
             /\ ask' = [ask EXCEPT ![s] = calls]
    /\ Goto(s, "decide")
    /\ UNCHANGED <<lock, inLoop, verdicts, batch, outcome, foreground, sealing, history,
                   disturbed>>

\* The stream raises, or before_model does.
ModelFails(s) ==
    /\ At(s, "model")
    /\ Finish(s, st[s], "failed")
    /\ OnlyControlMoves

\* Mutant of ModelInterrupted: the stream is not cancellable.
ModelUninterruptible(s) == FALSE

\* run_cancellable sees the token before the response.
ModelInterrupted(s) ==
    /\ At(s, "model")
    /\ token[s]
    /\ Finish(s, st[s], "cancelled")
    /\ OnlyControlMoves

(***************************************************************************)
(* AgentLoop.advance: the policy's decisions and the Tool batch.           *)
(***************************************************************************)

Decided(d, decision) == {c \in DOMAIN d : d[c] = decision}

\* The policy marks a call as one that the user has to approve.
Ask(calls) ==
    consent' = [c \in Call |-> IF c \in calls THEN "asked" ELSE consent[c]]

\* A response without Tool calls ends the Run.
NoToolCalls(s) ==
    /\ At(s, "decide")
    /\ ask[s] = {}
    /\ Finish(s, st[s], "completed")
    /\ OnlyControlMoves

CancelledAfterModel(s) ==
    /\ At(s, "decide")
    /\ ask[s] # {} /\ token[s]
    /\ Finish(s, st[s], "cancelled")
    /\ OnlyControlMoves

\* The batch is split: what the policy allows or denies is resolved first, and
\* the rest is kept for the halt.  SessionToolPolicy.decide is any function.
Decide(s) ==
    /\ At(s, "decide")
    /\ ask[s] # {} /\ ~token[s]
    /\ \E d \in [ask[s] -> Decision] :
          LET runnable == Decided(d, "ALLOW") \union Decided(d, "DENY")
              waiting == Decided(d, "NEEDS_APPROVAL")
          IN /\ Ask(waiting)
             /\ \/ /\ runnable # {}
                   /\ StartBatch(s, "model", Decided(d, "ALLOW"), Decided(d, "DENY"))
                   /\ ask' = [ask EXCEPT ![s] = waiting]
                   /\ UNCHANGED <<st, inLoop, verdicts, outcome>>
                \/ /\ runnable = {}
                   /\ Finish(s, st[s], "waiting_for_approval")
                   /\ UNCHANGED ran
    /\ UNCHANGED <<store, lock, minted, foreground, sealing, finished, wanted, disturbed>>

\* A call of the batch is answered; it is stopped without an answer; and its
\* answer is appended to the transcript.
Answered(b, c, wants) ==
    [b EXCEPT !.running = @ \ {c}, !.resolved = @ \union {<<c, "done">>},
              !.wants = @ \union wants]
Stopped(b, c) == [b EXCEPT !.running = @ \ {c}, !.cut = TRUE]
Appended(b, r) == [b EXCEPT !.resolved = @ \ {r}, !.folded = @ \union {r}]

\* A Tool of the batch returns, with or without a follow_up.
ToolReturns(s, c) ==
    /\ At(s, "batch")
    /\ c \in batch[s].running
    /\ finished' = finished \union {c}
    /\ \E wants \in {{}, {c}} :
          batch' = [batch EXCEPT ![s] = Answered(@, c, wants)]
    /\ UNCHANGED <<store, lock, minted, pc, st, inLoop, verdicts, ask, outcome,
                   foreground, sealing, ran, consent, wanted, disturbed>>

\* run_cancellable sees the token first: the Tool is stopped, without a result.
ToolCut(s, c) ==
    /\ At(s, "batch")
    /\ c \in batch[s].running /\ token[s]
    /\ batch' = [batch EXCEPT ![s] = Stopped(@, c)]
    /\ UNCHANGED <<store, lock, minted, pc, st, inLoop, verdicts, ask, outcome,
                   foreground, sealing, history, disturbed>>

\* resolve_batch returns: every call of the batch is resolved or cut.
Gathered(s) ==
    /\ At(s, "batch")
    /\ batch[s].running = {}
    /\ Goto(s, "fold")
    /\ UNCHANGED <<store, lock, minted, st, inLoop, verdicts, ask, batch, outcome,
                   foreground, sealing, history, disturbed>>

\* Mutant of AfterTool: the snapshot is taken before the result is appended.
BeforeResult(s, r) == Folded(s)

\* The state that after_tool carries for a result: the CheckpointHandler saves it.
AfterTool(s, r) == AppendToolResults(Folded(s), {r})

\* append_tool_result and after_tool for the next result in request order.
FoldResult(s) ==
    /\ At(s, "fold")
    /\ \E r \in batch[s].resolved :
          /\ \A q \in batch[s].resolved : r[1] <= q[1]
          /\ batch' = [batch EXCEPT ![s] = Appended(@, r)]
          /\ Save(AfterTool(s, r), "keep")
    /\ UNCHANGED <<lock, minted, pc, st, inLoop, verdicts, ask, outcome, foreground,
                   sealing, history, disturbed>>

\* What a turn does when its last batch is in the transcript.
AfterBatch(s, state, waiting) ==
    \/ /\ waiting # {}
       /\ Finish(s, state, "waiting_for_approval")
    \/ /\ waiting = {}
       /\ Goto(s, "top")
       /\ inLoop' = [inLoop EXCEPT ![s] = TRUE]
       /\ st' = [st EXCEPT ![s] = state]
       /\ batch' = [batch EXCEPT ![s] = NoBatch]
       /\ verdicts' = [verdicts EXCEPT ![s] = NoVerdicts]
       /\ UNCHANGED <<ask, outcome>>

\* Mutant of FollowUpSources: a batch that will halt raises no follow-up.
FollowUpSourcesUnlessWaiting(s) ==
    IF batch[s].kind = "model" /\ ask[s] = {} THEN batch[s].wants ELSE {}

\* The calls whose recorded outcome is looked at for a follow_up: those of the
\* model's own batch.  A synthesized call's and an approved call's are not.
FollowUpSources(s) == IF batch[s].kind = "model" THEN batch[s].wants ELSE {}

\* Mutant of BatchCancelled: the state from before the batch is published.
BatchCancelledEarlier(s) ==
    /\ At(s, "fold")
    /\ batch[s].resolved = {} /\ batch[s].cut
    /\ Finish(s, st[s], "cancelled")
    /\ OnlyControlMoves

BatchCancelled(s) ==
    /\ At(s, "fold")
    /\ batch[s].resolved = {} /\ batch[s].cut
    /\ Finish(s, Folded(s), "cancelled")
    /\ OnlyControlMoves

BatchDone(s) ==
    /\ At(s, "fold")
    /\ batch[s].resolved = {} /\ ~batch[s].cut
    /\ FollowUpSources(s) = {}
    /\ AfterBatch(s, Folded(s), ask[s])
    /\ wanted' = wanted \union batch[s].wants
    /\ UNCHANGED <<store, lock, minted, foreground, sealing, ran, finished, consent,
                   disturbed>>

\* append_synthetic_tool_call for each follow_up; the synthesized calls go
\* through the same policy, and those that may run are a batch of their own.
Synthesize(s) ==
    LET calls == {FollowUp(c) : c \in FollowUpSources(s)}
        grown == AppendSyntheticToolCalls(Folded(s), calls)
    IN /\ At(s, "fold")
       /\ batch[s].resolved = {} /\ ~batch[s].cut
       /\ calls # {}
       /\ wanted' = wanted \union batch[s].wants
       /\ \E d \in [calls -> Decision] :
             LET runnable == Decided(d, "ALLOW") \union Decided(d, "DENY")
                 waiting == Decided(d, "NEEDS_APPROVAL")
             IN /\ Ask(waiting)
                /\ \/ /\ runnable # {}
                      /\ StartBatch(s, "synth", Decided(d, "ALLOW"), Decided(d, "DENY"))
                      /\ ask' = [ask EXCEPT ![s] = @ \union waiting]
                      /\ st' = [st EXCEPT ![s] = grown]
                      /\ UNCHANGED <<inLoop, verdicts, outcome>>
                   \/ /\ runnable = {}
                      /\ AfterBatch(s, grown, ask[s] \union waiting)
                      /\ UNCHANGED ran
       /\ UNCHANGED <<store, lock, minted, foreground, sealing, finished, disturbed>>

(***************************************************************************)
(* The terminal signal and the return to ForegroundRun.                    *)
(***************************************************************************)

\* The first Handler of run_completed, run_paused, run_cancelled or run_failed.
Terminal(s) ==
    /\ At(s, "finish")
    /\ Save(st[s], outcome[s])
    /\ Goto(s, "ending")
    /\ UNCHANGED <<lock, minted, st, inLoop, verdicts, ask, batch, outcome, foreground,
                   sealing, history, disturbed>>

\* The RunResult is returned: the claim is released and run_id recorded.
Return(s) ==
    /\ At(s, "ending")
    /\ Leave(s, "idle")
    /\ runId' = [runId EXCEPT ![s] = TRUE]
    /\ UNCHANGED <<store, minted, down, sealing, history, disturbed>>

(***************************************************************************)
(* Disturbances.                                                           *)
(***************************************************************************)

Disturb == disturbed' = TRUE

Suspended(s) == pc[s] \in SuspendPoints /\ sealing[s] = NoSeal

\* The token is set and nothing else: a nested Run whose parent is cancelled.
Cancel(s) ==
    /\ "cancel" \in Events /\ Suspended(s) /\ ~token[s]
    /\ token' = [token EXCEPT ![s] = TRUE]
    /\ Disturb
    /\ UNCHANGED <<store, lock, minted, control, runId, down, sealing, history>>

\* The TUI's Esc, and its worker's end at shutdown: the token is set and the
\* asyncio task is cancelled where it is suspended.
Interrupt(s) == Suspended(s) /\ ("esc" \in Events \/ down[s])

\* advance catches the CancelledError, with the state of its last assignment.
InterruptLoop(s) ==
    /\ Interrupt(s)
    /\ inLoop[s]
    /\ token' = [token EXCEPT ![s] = TRUE]
    /\ Finish(s, st[s], "cancelled")
    /\ Disturb
    /\ UNCHANGED <<store, lock, minted, runId, down, sealing, history>>

\* Outside advance it propagates: the claim is released on the way out.
InterruptPreparation(s) ==
    /\ Interrupt(s)
    /\ ~inLoop[s]
    /\ Leave(s, "aborted")
    /\ Disturb
    /\ UNCHANGED <<store, minted, runId, down, sealing, history>>

\* get_run and load_state of seal_interrupt, which claims nothing.
SealRead(s) ==
    sealing' = IF runId[s] /\ row.status = "running"
               THEN [sealing EXCEPT ![s] = row.st] ELSE sealing

\* ForegroundRun's except CancelledError: shutdown().
ShutdownAfterAbort(s) ==
    /\ At(s, "aborted")
    /\ Goto(s, "idle")
    /\ SealRead(s)
    /\ UNCHANGED <<store, lock, minted, st, inLoop, verdicts, ask, batch, outcome,
                   foreground, history, disturbed>>

\* save_state of seal_interrupt.
SealWrite(s) ==
    /\ sealing[s] # NoSeal
    /\ Save(Seal(sealing[s]), "cancelled")
    /\ sealing' = [sealing EXCEPT ![s] = NoSeal]
    /\ UNCHANGED <<lock, minted, control, foreground, history, disturbed>>

\* request_shutdown: ForegroundRun.shutdown sets the token and seals the Run.
Shutdown(s) ==
    /\ "shutdown" \in Events
    /\ ~down[s]
    /\ Suspended(s) \/ At(s, "idle")
    /\ down' = [down EXCEPT ![s] = TRUE]
    /\ token' = [token EXCEPT ![s] = pc[s] # "idle"]
    /\ SealRead(s)
    /\ Disturb
    /\ UNCHANGED <<store, lock, minted, control, runId, history>>

\* The process ends after a shutdown, and the user starts another one.
Restart(s) ==
    /\ At(s, "idle") /\ down[s]
    /\ down' = [down EXCEPT ![s] = FALSE]
    /\ runId' = [runId EXCEPT ![s] = FALSE]
    /\ UNCHANGED <<store, lock, minted, control, token, sealing, history, disturbed>>

\* The process dies: the operating system releases its claim.
Crash(s) ==
    /\ "crash" \in Events
    /\ pc[s] # "idle" \/ sealing[s] # NoSeal
    /\ Leave(s, "idle")
    /\ runId' = [runId EXCEPT ![s] = FALSE]
    /\ down' = [down EXCEPT ![s] = FALSE]
    /\ sealing' = [sealing EXCEPT ![s] = NoSeal]
    /\ Disturb
    /\ UNCHANGED <<store, minted, history>>

\* The exception leaves the Harness: nobody publishes a terminal signal.
Propagate(s) ==
    /\ Leave(s, "idle")
    /\ UNCHANGED <<store, minted, runId, down, sealing, history>>

\* save_state raises where advance does not catch: in run_started, in
\* prepare_resume, in a verdict's after_tool, in a terminal signal that is not
\* published from advance's try block.
SaveFailsOutside(s) ==
    /\ "saveError" \in Events /\ Disturb
    /\ \/ At(s, "starting")
       \/ At(s, "resuming") /\ Unchanged(s)
       \/ At(s, "fold") /\ ~inLoop[s] /\ batch[s].resolved # {}
       \/ At(s, "finish") /\ (~inLoop[s] \/ outcome[s] \in {"failed", "cancelled"})
    /\ Propagate(s)

\* save_state raises in after_tool: finish_failed publishes the state that
\* advance had before the batch.
FoldSaveFails(s) ==
    /\ "saveError" \in Events /\ Disturb
    /\ At(s, "fold") /\ inLoop[s] /\ batch[s].resolved # {}
    /\ Finish(s, st[s], "failed")
    /\ UNCHANGED <<store, lock, minted, foreground, sealing, history>>

\* save_state raises in after_model or in a terminal signal inside the try
\* block: the same state is published as FAILED.
ModelSaveFails(s) ==
    /\ "saveError" \in Events /\ Disturb
    /\ At(s, "model")
    /\ st[s].turns < MaxTurns
    /\ \E n \in minted .. MaxCalls :
          /\ minted' = n
          /\ Finish(s, AppendModelResponse(st[s], minted + 1 .. n), "failed")
    /\ UNCHANGED <<store, lock, foreground, sealing, history>>

TerminalSaveFails(s) ==
    /\ "saveError" \in Events /\ Disturb
    /\ At(s, "finish") /\ inLoop[s] /\ outcome[s] # "failed"
    /\ Finish(s, st[s], "failed")
    /\ UNCHANGED <<store, lock, minted, foreground, sealing, history>>

-----------------------------------------------------------------------------
\* What the session does of itself once it has been given a command.
Drive(s) ==
    \/ RunStarted(s) \/ PrepareResume(s) \/ PrepareResumeConflict(s)
    \/ NothingPending(s) \/ ApprovalCancelled(s) \/ ApplyVerdicts(s) \/ StillPending(s)
    \/ TurnStart(s) \/ ModelInterrupted(s)
    \/ NoToolCalls(s) \/ CancelledAfterModel(s) \/ Decide(s)
    \/ \E c \in Call : ToolCut(s, c)
    \/ Gathered(s) \/ FoldResult(s) \/ BatchCancelled(s) \/ BatchDone(s) \/ Synthesize(s)
    \/ Terminal(s) \/ Return(s) \/ ShutdownAfterAbort(s) \/ SealWrite(s)

\* What the Provider and the Tools do.
Provider(s) == ModelResponds(s) \/ ModelFails(s)
Tool(s) == \E c \in Call : ToolReturns(s, c)

User(s) ==
    \/ StartNew(s) \/ ContinueWith(s) \/ RespondApproval(s) \/ RespondApprovals(s)
    \/ CommandRefused(s) \/ Cancel(s) \/ Shutdown(s) \/ Restart(s)
    \/ InterruptLoop(s) \/ InterruptPreparation(s)

Fault(s) ==
    \/ Crash(s) \/ SaveFailsOutside(s) \/ FoldSaveFails(s) \/ ModelSaveFails(s)
    \/ TerminalSaveFails(s)

Next == \E s \in Sessions : Drive(s) \/ Provider(s) \/ Tool(s) \/ User(s) \/ Fault(s)

Spec == Init /\ [][Next]_vars

\* The event loop runs what can run.  Nothing is assumed of the Provider, of a
\* Tool or of the user.
FairSpec == Spec /\ \A s \in Sessions : WF_vars(Drive(s))

-----------------------------------------------------------------------------
(* Properties. *)

\* The calls that a Provider would find without a result.
Open(state) == {c \in state.issued : \A r \in state.results : r[1] # c}

\* Across sessions, crashes, cancellations, failed saves and repeated
\* approvals, no Tool call is ever started twice: resume repairs a call whose
\* result is missing instead of executing it again.
ToolRunsOnce == \A c \in Call : ran[c] <= 1

\* A Tool that the policy reserved for the user's approval runs only after an
\* APPROVE verdict on that very call.
ConsentBeforeRun == \A c \in Call : ran[c] > 0 => consent[c] \in {"none", "approved"}

\* The model is never handed a transcript with a dangling Tool call
\* (docs/ARCHITECTURE.md, "Repair on load").
NoDanglingCallAtModel ==
    \A s \in Sessions : pc[s] = "model" => Open(st[s]) = {}

\* The status of the row says what the transcript in it allows: a Run waits
\* for an approval only with a call to approve, which has not run, and a Run
\* that completed or reached its limit has no call left open.
StatusMatchesTranscript ==
    /\ row.status = "waiting_for_approval" =>
          /\ Open(row.st) # {}
          /\ \A c \in Open(row.st) : ran[c] = 0
    /\ row.status \in {"completed", "paused_limit"} => Open(row.st) = {}

\* Every transcript, stored or in memory, answers a call once and answers only
\* calls that were issued, through every repair and every fold; and the repair is
\* not applied to a Run that nothing has disturbed: a call that waits for its
\* approval is never sealed as "interrupted" meanwhile.
RepairExact ==
    /\ WellFormed(row.st)
    /\ \A s \in Sessions : WellFormed(st[s]) /\ WellFormed(Folded(s))
    /\ ~disturbed => \A r \in row.st.results : r[2] # "interrupted"

\* When the model is called, everything the transcript holds is on disk: an
\* interrupted process loses at most the turn in flight.
TurnStartsDurable ==
    \A s \in Sessions : pc[s] = "model" => st[s] = row.st

\* A result that asked for a follow-up call leaves that call in the transcript
\* when the Run next comes to rest, whoever approved the call that asked.
FollowUpRaised ==
    lock = None /\ ~disturbed =>
        \A c \in wanted \intersect ModelCall : FollowUp(c) \in row.st.issued

\* The same for the calls that the policy allowed, which the loop ran itself.
AllowedFollowUpRaised ==
    lock = None /\ ~disturbed =>
        \A c \in wanted \intersect ModelCall :
            consent[c] = "none" => FollowUp(c) \in row.st.issued

\* Wherever the result of a Tool may be: in a batch, in memory or on disk.
Held(c) ==
    \/ <<c, "done">> \in row.st.results
    \/ \E s \in Sessions : <<c, "done">> \in batch[s].resolved \union st[s].results

\* A Tool that returned is recorded, and stays so until it is on disk: only the end of
\* the worker or of the process takes it away, never a cancelled sibling, a fold or the
\* way the Run comes to rest; and nothing at all takes it away once it is on disk.
ResultsKept ==
    /\ [][\A c \in finished' :
              \/ (c \notin finished \/ Held(c)) => Held(c)'
              \/ \E s \in Sessions : InterruptLoop(s) \/ InterruptPreparation(s)
                                     \/ Crash(s)]_vars
    /\ [][\A c \in Call : <<c, "done">> \in row.st.results =>
                              <<c, "done">> \in row'.st.results]_vars

\* prepare_resume replaces the snapshot only by one that contains it: what was
\* written after the resuming session read the row is never overwritten by it.
ResumeKeepsRow ==
    [][\A s \in Sessions : pc[s] = "resuming" /\ pc'[s] = "prepared" =>
           /\ row.st.issued \subseteq row'.st.issued
           /\ row.st.results \subseteq row'.st.results]_vars

\* A cancelled Run stops without the help of the Provider or of any Tool.
CancelStops == \A s \in Sessions : token[s] ~> ~token[s]

\* If the Provider answers and every Tool returns, a Run with a call limit always gives
\* its claim back.
ClaimReleased ==
    (\A s \in Sessions : WF_vars(Provider(s)) /\ WF_vars(Tool(s)))
        => \A s \in Sessions : lock = s ~> lock # s
=============================================================================
