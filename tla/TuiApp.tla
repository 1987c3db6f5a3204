------------------------------- MODULE TuiApp -------------------------------
(***************************************************************************)
(* The interactive application: MilkyFrogApp on its message queue, the     *)
(* workers it starts, ForegroundRun beneath them and the shutdown.         *)
(*                                                                         *)
(* The application handles one message at a time.  Workers, the user and   *)
(* SIGINT put messages in its queue; a worker runs between two awaits of   *)
(* its own.  Handling a message is one step, and so is what a worker does  *)
(* from one await to the next: in particular the last event of a Run and   *)
(* the finally block of ForegroundRun, for no Handler of the UI awaits.    *)
(***************************************************************************)
EXTENDS TuiPresentation, FiniteSets

CONSTANTS
    OldRun,         \* a Run that an earlier session left
    MaxActs,        \* bound on what the user does
    MaxQueue,       \* bound on the application's queue
    MaxEvents,      \* bound on the events that one worker's Run shows
    Batches,        \* the batches of calls a Run may halt on
    Acts,           \* what the user may do in this instance
    Compactions     \* how session.compact may end in this instance

ASSUME TuiAssumption ==
    /\ OldRun \in Runs /\ None \notin Runs \union Calls
    /\ Nested \notin Runs /\ Nested # None
    /\ Batches \subseteq Seq(Calls)
    /\ MaxActs \in Nat /\ MaxQueue \in Nat /\ MaxEvents \in Nat
    /\ Acts \subseteq {"task", "clear", "compact", "resume", "mcp", "exit", "escape", "sigint"}
    /\ Compactions \subseteq {"folded", "fits", "again", "raises"}

\* Each act of the user starts at most one worker, and so does the launch.
Workers == 1..MaxActs + 1
NoWorker == 0

VARIABLES
    queue,      \* the messages that the application has not handled
    app,        \* MilkyFrogApp: _worker, the prompt, the status bar, the picker
    menu,       \* ApprovalViewModel
    view,       \* ConversationViewModel
    active,     \* TuiPresentationHandler._active_run_id
    fg,         \* ForegroundRun: busy, run_id, and the worker of its _cancellation
    sd,         \* ShutdownManager: requested, done, the worker attached to it
    worker,     \* the asyncio Tasks of the session
    row,        \* the stored status of each Run
    halted,     \* the pending calls of each Run that waits
    acts,       \* how often the user has acted (bounded)
    said,       \* (history) the answers to the batch, each with the call shown
    closings,   \* (history) how many messages have closed each worker
    astray      \* (history) the ways in which workers ended outside AgentLoop.advance

vars == <<queue, app, menu, view, active, fg, sd, worker, row, halted, acts,
          said, closings, astray>>

App == [worker : Workers \union {NoWorker}, input : BOOLEAN,
        bar : {"ready", "working", "cancelling"}, picker : {"none", "runs", "mcp"},
        launch : {"none", "task", "attach", "resume"}, exited : BOOLEAN]

Worker == [
    kind : {"none", "start", "continue", "approve", "compact"},
    run : Runs \union {None},
    pc : {"unborn", "configuring", "approving", "advancing", "compacting", "gone"},
    cancel : BOOLEAN,       \* asyncio has been asked to cancel the Task
    token : BOOLEAN,        \* its RunCancellation is set
    prompt : BOOLEAN,       \* it continues the Run with a prompt
    verdicts : UNION {[cs -> Verdict] : cs \in SUBSET Calls},
    open : SUBSET Calls,    \* the Tool calls of the Run that are running
    nested : BOOLEAN,       \* a nested Run is advancing under one of them
    entered : BOOLEAN,      \* (history) it has taken its Run into RUNNING
    events : 0..MaxEvents]

Unborn == [kind |-> "none", run |-> None, pc |-> "unborn", cancel |-> FALSE,
           token |-> FALSE, prompt |-> FALSE, verdicts |-> NoVerdicts, open |-> {},
           nested |-> FALSE, entered |-> FALSE, events |-> 0]

Alive(w) == worker[w].pc \notin {"unborn", "gone"}
Pending == menu.run # None

\* One type invariant for the module.
TypeOK ==
    /\ app \in App /\ view \in View /\ active \in Runs \union {None}
    /\ menu.run \in Runs \union {None} /\ menu.pos \in 1..Len(menu.calls) + 1
    /\ DOMAIN menu.verdicts \subseteq Calls
    /\ fg \in [busy : BOOLEAN, run : Runs \union {None}, token : Workers \union {NoWorker}]
    /\ sd \in [requested : BOOLEAN, done : BOOLEAN, attached : Workers \union {NoWorker}]
    /\ worker \in [Workers -> Worker]
    /\ row \in [Runs -> {"absent", "running", "waiting_for_approval", "completed",
                         "failed", "cancelled"}]
    /\ acts \in 0..MaxActs
    /\ said \subseteq [call : Calls, action : Action]
    /\ astray \subseteq {"configuring", "refused", "approving", "compacting"}

Init ==
    /\ queue = <<>> /\ menu = NoBatch /\ view = FreshView /\ active = None
    /\ app \in [worker : {NoWorker}, input : {TRUE}, bar : {"ready"}, picker : {"none"},
                launch : {"none", "task", "attach", "resume"}, exited : {FALSE}]
    /\ fg = [busy |-> FALSE, run |-> None, token |-> NoWorker]
    /\ sd = [requested |-> FALSE, done |-> FALSE, attached |-> NoWorker]
    /\ worker = [w \in Workers |-> Unborn]
    /\ \E s \in {"waiting_for_approval", "running"} :
          row = [r \in Runs |-> IF r = OldRun THEN s ELSE "absent"]
    /\ \E b \in Batches : halted = [r \in Runs |-> IF r = OldRun THEN b ELSE <<>>]
    /\ acts = 0 /\ said = {} /\ closings = [w \in Workers |-> 0] /\ astray = {}

-----------------------------------------------------------------------------
(* Starting a worker, asking to shut down. *)

\* The next Task: the bound on the acts leaves one for every message that starts one.
Newborn(w) == worker[w].pc = "unborn" /\ \A u \in 1..w - 1 : worker[u].pc # "unborn"

\* _do_run, _do_continue, _do_approve and _do_compact: the Task is created and
\* attached to the ShutdownManager, which cancels it at once if it is too late.
\* a is the application as the caller leaves it.
Start(a, k, r, prompted, vs) ==
    LET first == IF sd.requested THEN "gone"
                 ELSE IF k = "compact" THEN "compacting" ELSE "configuring"
    IN \E w \in {x \in Workers : Newborn(x)} :
    /\ worker' = [worker EXCEPT ![w] = [Unborn EXCEPT !.kind = k, !.run = r, !.pc = first,
                                        !.prompt = prompted, !.verdicts = vs]]
    /\ sd' = IF sd.requested THEN sd ELSE [sd EXCEPT !.attached = w]
    /\ app' = [a EXCEPT !.worker = w, !.input = FALSE, !.bar = "working"]
    /\ view' = IF first = "compacting" THEN StartCompaction(view) ELSE ClosePhase(view)

\* Mutant of CancelRun: the Task is cancelled with the token left alone.
CancelRunTask(task) ==
    [w \in Workers |-> [worker[w] EXCEPT !.cancel = @ \/ (w = task /\ Alive(w))]]

\* Mutant of CancelRun: only the token is set.
CancelRunToken(task) == [w \in Workers |-> [worker[w] EXCEPT !.token = @ \/ w = fg.token]]

\* The RunCancellation of the Run in flight is set, then a Task is cancelled.
CancelRun(task) ==
    [w \in Workers |-> [worker[w] EXCEPT !.token = @ \/ w = fg.token,
                                        !.cancel = @ \/ (w = task /\ Alive(w))]]

\* ShutdownManager.request_shutdown: the token of the Run in flight, its row,
\* and the worker, once.
RequestShutdown ==
    IF sd.done THEN sd' = [sd EXCEPT !.requested = TRUE] /\ UNCHANGED <<worker, row>>
    ELSE
    /\ sd' = [requested |-> TRUE, done |-> TRUE, attached |-> NoWorker]
    /\ worker' = CancelRun(sd.attached)
    /\ row' = [r \in Runs |-> IF r = fg.run /\ row[r] = "running" THEN "cancelled" ELSE row[r]]

-----------------------------------------------------------------------------
(* The user.  Keys and clicks wait in the queue behind what is there. *)

Ready == app.launch = "none" /\ ~app.exited /\ acts < MaxActs /\ Len(queue) < MaxQueue

UserDoes(msg) ==
    /\ Ready
    /\ acts' = acts + 1
    /\ queue' = Append(queue, msg)
    /\ UNCHANGED <<app, menu, view, active, fg, sd, worker, row, halted, said, closings, astray>>

\* Enter in the prompt: a task, a command, or the reason for a denial; the line
\* before it has been handled.
TypeLine ==
    /\ app.input
    /\ \A i \in 1..Len(queue) : queue[i].kind # "submit"
    /\ \E text \in Acts \ {"escape", "sigint"} : UserDoes(Msg("submit", None, text))

PressEscape == "escape" \in Acts /\ UserDoes(Msg("escape", None, None))

\* One answer per menu shown: the next key comes after the menu has changed.
PickOption ==
    /\ menu.shown /\ ~menu.deny
    /\ \A i \in 1..Len(queue) : queue[i].kind # "option"
    /\ \E a \in Action : UserDoes(Msg("option", None, [call |-> Current(menu), action |-> a]))

ConfirmPicker ==
    /\ \A i \in 1..Len(queue) : queue[i].kind \notin {"pick_run", "pick_mcp", "escape"}
    /\ \/ app.picker = "mcp" /\ UserDoes(Msg("pick_mcp", None, None))
       \/ /\ app.picker = "runs"
          /\ \E r \in {x \in Runs : row[x] # "absent"} : UserDoes(Msg("pick_run", r, None))

Sigint ==
    /\ "sigint" \in Acts /\ Ready
    /\ acts' = acts + 1
    /\ RequestShutdown
    /\ queue' = Append(queue, Msg("exit", None, None))
    /\ UNCHANGED <<app, menu, view, active, fg, halted, said, closings, astray>>

\* Another session answers the batch of a Run that waits, and drives it to its end.
AnsweredElsewhere(r) ==
    /\ row[r] = "waiting_for_approval"
    /\ row' = [row EXCEPT ![r] = "completed"]
    /\ UNCHANGED <<queue, app, menu, view, active, fg, sd, worker, halted, acts, said,
                   closings, astray>>

-----------------------------------------------------------------------------
(* The application handles a message. *)

Handle(kind) == /\ queue # <<>> /\ ~app.exited /\ app.launch = "none"
                /\ Head(queue).kind = kind

\* _start_run, also from the launch arguments.
StartRun(a) ==
    /\ Start(a, IF fg.run = None THEN "start" ELSE "continue", fg.run, TRUE, NoVerdicts)
    /\ fg' = [fg EXCEPT !.busy = TRUE]

\* _attach_or_continue_run without a prompt: a Run that waits shows its calls,
\* any other is advanced (or, from the command line, only attached).
Attach(a, r, advance) ==
    IF row[r] = "waiting_for_approval" THEN
        /\ queue' = (IF queue = <<>> THEN queue ELSE Tail(queue))
                        \o <<Msg("approval", r, halted[r])>>
        /\ fg' = [fg EXCEPT !.run = r] /\ app' = a
        /\ UNCHANGED <<view, sd, worker>>
    ELSE IF advance THEN
        /\ Start(a, "continue", r, FALSE, NoVerdicts)
        /\ fg' = [fg EXCEPT !.run = r, !.busy = TRUE]
        /\ queue' = IF queue = <<>> THEN queue ELSE Tail(queue)
    ELSE
        /\ fg' = [fg EXCEPT !.run = r] /\ app' = a
        /\ queue' = IF queue = <<>> THEN queue ELSE Tail(queue)
        /\ UNCHANGED <<view, sd, worker>>

ApplyLaunch ==
    LET a == [app EXCEPT !.launch = "none"] IN
    /\ app.launch # "none"
    /\ \/ /\ app.launch = "task"
          /\ StartRun(a) /\ UNCHANGED queue
       \/ /\ app.launch \in {"attach", "resume"}
          /\ Attach(a, OldRun, app.launch = "resume")
    /\ UNCHANGED <<menu, active, row, halted, acts, said, closings, astray>>

\* Mutant of Settle: every answer is dispatched at once.
SettleEach(n) ==
    /\ menu' = (IF IsDecided(n) THEN NoBatch ELSE n)
    /\ Start(app, "approve", n.run, FALSE, n.verdicts)
    /\ fg' = [fg EXCEPT !.busy = TRUE]

\* The answer n to the batch: the next call is shown, or the verdicts are
\* dispatched to a worker (_show_current, _dispatch_batch).
Settle(n) ==
    IF IsDecided(n) THEN
        /\ menu' = NoBatch
        /\ Start(app, "approve", n.run, FALSE, n.verdicts)
        /\ fg' = [fg EXCEPT !.busy = TRUE]
    ELSE
        /\ menu' = n
        /\ app' = [app EXCEPT !.input = n.deny]
        /\ UNCHANGED <<view, sd, worker, fg>>

OnApprovalRequired ==
    LET e == Head(queue)
        n == Begin(e.run, e.arg) IN
    /\ Handle("approval")
    /\ queue' = Tail(queue)
    /\ said' = {}
    /\ menu' = n
    /\ view' = ClosePhase(view)
    /\ fg' = [fg EXCEPT !.busy = FALSE]
    /\ app' = [app EXCEPT !.input = FALSE]
    /\ UNCHANGED <<active, sd, worker, row, halted, acts, closings, astray>>

OnOption ==
    LET answer == Head(queue).arg IN
    /\ Handle("option")
    /\ queue' = Tail(queue)
    /\ IF Pending
       THEN /\ said' = said \union {answer}
            /\ Settle(Apply(menu, answer.action))
       ELSE UNCHANGED <<said, menu, app, view, sd, worker, fg>>
    /\ UNCHANGED <<active, row, halted, acts, closings, astray>>

\* While a batch is pending, a line is the reason of a denial or nothing.
OnReason ==
    /\ Handle("submit") /\ Pending
    /\ queue' = Tail(queue)
    /\ IF menu.deny
       THEN /\ said' = said \union {[call |-> Current(menu), action |-> "deny"]}
            /\ Settle(Record(menu, "deny"))
       ELSE UNCHANGED <<said, menu, app, view, sd, worker, fg>>
    /\ UNCHANGED <<active, row, halted, acts, closings, astray>>

\* Every other line is dropped while the session is busy.
Idle == ~Pending /\ ~fg.busy

OnIgnored ==
    /\ Handle("submit") /\ ~Pending /\ fg.busy
    /\ queue' = Tail(queue)
    /\ UNCHANGED <<app, menu, view, active, fg, sd, worker, row, halted, acts, said, closings, astray>>

OnTask ==
    /\ Handle("submit") /\ Idle /\ Head(queue).arg = "task"
    /\ StartRun(app)
    /\ queue' = Tail(queue)
    /\ UNCHANGED <<menu, active, row, halted, acts, said, closings, astray>>

OnClear ==
    /\ Handle("submit") /\ Idle /\ Head(queue).arg = "clear"
    /\ fg' = [fg EXCEPT !.run = None]
    /\ queue' = Tail(queue)
    /\ UNCHANGED <<app, menu, view, active, sd, worker, row, halted, acts, said, closings, astray>>

OnCompact ==
    /\ Handle("submit") /\ Idle /\ Head(queue).arg = "compact"
    /\ queue' = Tail(queue)
    /\ IF fg.run = None
       THEN view' = ClosePhase(view) /\ UNCHANGED <<app, fg, sd, worker>>
       ELSE /\ Start(app, "compact", fg.run, FALSE, NoVerdicts)
            /\ fg' = [fg EXCEPT !.busy = TRUE]
    /\ UNCHANGED <<menu, active, row, halted, acts, said, closings, astray>>

\* /resume and /mcp: a picker takes the place of the prompt.
OnPicker ==
    /\ Handle("submit") /\ Idle /\ Head(queue).arg \in {"resume", "mcp"}
    /\ queue' = Tail(queue)
    /\ app' = [app EXCEPT !.input = FALSE,
                          !.picker = IF Head(queue).arg = "mcp" THEN "mcp" ELSE "runs"]
    /\ UNCHANGED <<menu, view, active, fg, sd, worker, row, halted, acts, said, closings, astray>>

\* Dismissing a picker picks nothing; confirming the MCP servers starts a
\* worker that reloads them beside whatever else runs (module McpSession).
OnPicked ==
    LET r == Head(queue).run
        a == [app EXCEPT !.picker = "none", !.input = TRUE] IN
    /\ Handle("pick_run") \/ Handle("pick_mcp")
    /\ IF r # None THEN Attach(a, r, TRUE)
       ELSE app' = a /\ queue' = Tail(queue) /\ UNCHANGED <<view, fg, sd, worker>>
    /\ UNCHANGED <<menu, active, row, halted, acts, said, closings, astray>>

OnExitLine ==
    /\ Handle("submit") /\ Idle /\ Head(queue).arg = "exit"
    /\ RequestShutdown
    /\ queue' = Append(Tail(queue), Msg("exit", None, None))
    /\ UNCHANGED <<app, menu, view, active, fg, halted, acts, said, closings, astray>>

OnExit ==
    /\ Handle("exit")
    /\ app' = [app EXCEPT !.exited = TRUE]
    /\ queue' = Tail(queue)
    /\ UNCHANGED <<menu, view, active, fg, sd, worker, row, halted, acts, said, closings, astray>>

\* action_cancel_run: a picker is dismissed; else the token first, then the Task.
OnEscape ==
    /\ Handle("escape")
    /\ IF app.picker # "none"
       THEN /\ queue' = Append(Tail(queue),
                               Msg(IF app.picker = "mcp" THEN "pick_mcp" ELSE "pick_run", None, None))
            /\ UNCHANGED <<app, worker>>
       ELSE /\ queue' = Tail(queue)
            /\ IF ~fg.busy THEN UNCHANGED <<app, worker>>
               ELSE /\ app' = [app EXCEPT !.bar = "cancelling"]
                    /\ worker' = CancelRun(app.worker)
    /\ UNCHANGED <<menu, view, active, fg, sd, row, halted, acts, said, closings, astray>>

\* on_run_finished and on_run_error: _clear_worker, the bar, the prompt.
Cleared == [app EXCEPT !.worker = NoWorker, !.bar = "ready", !.input = TRUE]

Detached == [sd EXCEPT !.attached = NoWorker]

OnRunClosed ==
    /\ Handle("finished") \/ Handle("error")
    /\ queue' = Tail(queue)
    /\ app' = Cleared /\ sd' = Detached
    /\ view' = IF Head(queue).kind = "finished" THEN Finish(view) ELSE ClosePhase(view)
    /\ UNCHANGED <<menu, active, fg, worker, row, halted, acts, said, closings, astray>>

\* The messages that only change what is on the screen.
OnShown ==
    LET e == Head(queue) IN
    /\ \/ Handle("thinking") /\ view' = OnThinking(view)
       \/ Handle("text") /\ view' = OnText(view)
       \/ Handle("tool") /\ view' = OnToolCall(view, e.arg)
       \/ Handle("result") /\ view' = FinalizeToolCall(view, e.arg)
       \/ Handle("compaction") /\ view' = SettleCompaction(view)
    /\ queue' = Tail(queue)
    /\ UNCHANGED <<app, menu, active, fg, sd, worker, row, halted, acts, said, closings, astray>>

HandleMessage ==
    \/ OnApprovalRequired \/ OnOption \/ OnReason \/ OnIgnored \/ OnTask \/ OnClear
    \/ OnCompact \/ OnPicker \/ OnPicked \/ OnExitLine \/ OnExit \/ OnEscape
    \/ OnRunClosed \/ OnShown

-----------------------------------------------------------------------------
(* The workers. *)

At(w, pc) == worker[w].pc = pc /\ ~worker[w].cancel

\* Messages of a worker; those that close it are counted.
Closing == {"approval", "finished", "error"}

Send(w, msgs) ==
    /\ queue' = queue \o msgs
    /\ closings' = [closings EXCEPT ![w] = @ +
          Cardinality({i \in 1..Len(msgs) : msgs[i].kind \in Closing})]

Gone(w) == worker' = [worker EXCEPT ![w] = [@ EXCEPT !.pc = "gone", !.open = {}, !.nested = FALSE]]

\* ForegroundRun's finally.
Released == [fg EXCEPT !.busy = FALSE, !.token = NoWorker]

\* _configure_workspace is over: start_new creates the Run, continue_with and
\* respond_approvals take the stored one.
EnterStart(w) ==
    /\ At(w, "configuring") /\ worker[w].kind = "start"
    /\ \E r \in Runs :
        /\ row[r] = "absent"
        /\ row' = [row EXCEPT ![r] = "running"]
        /\ worker' = [worker EXCEPT ![w].run = r, ![w].pc = "advancing",
                                    ![w].entered = TRUE]
        /\ active' = OnStarted(active, r)
    /\ fg' = [fg EXCEPT !.busy = TRUE, !.token = w]
    /\ UNCHANGED <<queue, app, menu, view, sd, halted, acts, said, closings, astray>>

EnterStored(w) ==
    LET r == worker[w].run IN
    /\ At(w, "configuring")
    /\ \/ worker[w].kind = "approve" /\ row[r] = "waiting_for_approval"
       \/ worker[w].kind = "continue" /\ row[r] # "waiting_for_approval"
    /\ worker' = [worker EXCEPT ![w].pc = IF @ = "configuring" /\ worker[w].kind = "approve"
                                          THEN "approving" ELSE "advancing",
                                ![w].open = DOMAIN worker[w].verdicts, ![w].entered = TRUE]
    /\ row' = [row EXCEPT ![r] = "running"]
    /\ active' = OnResume(active, r)
    /\ fg' = [busy |-> TRUE, run |-> r, token |-> w]
    /\ Send(w, IF worker[w].kind = "approve"
               THEN [i \in 1..Len(halted[r]) |-> Msg("tool", r, halted[r][i])] ELSE <<>>)
    /\ UNCHANGED <<app, menu, view, sd, halted, acts, said, astray>>

\* ResumeError from the Harness (the claim is taken, or a prompt for a Run that
\* waits): ForegroundRun has set busy and clears it.  The handler still presents
\* a Run that had waited for approval.
EnterRefused(w) ==
    /\ At(w, "configuring") /\ worker[w].kind \in {"continue", "approve"}
    /\ Gone(w)
    /\ fg' = [busy |-> FALSE, run |-> worker[w].run, token |-> NoWorker]
    /\ Send(w, <<Msg("error", worker[w].run, None)>>)
    /\ astray' = astray \union (IF active = None THEN {} ELSE {"refused"})
    /\ UNCHANGED <<app, menu, view, active, sd, row, halted, acts, said>>

\* ResumeError before ForegroundRun sets busy (an unknown Run, or an approval for
\* a Run that does not wait): the busy flag set by the application stays.
NotResumable(w) ==
    /\ At(w, "configuring") /\ worker[w].kind = "approve"
    /\ row[worker[w].run] # "waiting_for_approval"
    /\ Gone(w)
    /\ Send(w, <<Msg("error", worker[w].run, None)>>)
    /\ astray' = astray \union {"refused"}
    /\ UNCHANGED <<app, menu, view, active, fg, sd, row, halted, acts, said>>

\* The approved calls have run: their results, then the loop.
ApprovalsApplied(w) ==
    LET r == worker[w].run IN
    /\ At(w, "approving")
    /\ Send(w, IF IsActive(active, r)
               THEN [i \in 1..Len(halted[r]) |-> Msg("result", r, halted[r][i])] ELSE <<>>)
    /\ worker' = [worker EXCEPT ![w].pc = "advancing", ![w].open = {}]
    /\ UNCHANGED <<app, menu, view, active, fg, sd, row, halted, acts, said, astray>>

\* Something of the turn is shown.
ShowEvent(w) ==
    LET r == worker[w].run IN
    /\ At(w, "advancing") /\ worker[w].events < MaxEvents /\ Len(queue) < MaxQueue
    /\ \/ /\ worker[w].open = {}
          /\ \E kind \in {"thinking", "text"} : Send(w, Post(active, r, Msg(kind, r, None)))
          /\ worker' = [worker EXCEPT ![w].events = @ + 1]
       \/ \E c \in Calls \ worker[w].open :
          /\ Send(w, Post(active, r, Msg("tool", r, c)))
          /\ worker' = [worker EXCEPT ![w].events = @ + 1, ![w].open = @ \union {c}]
       \/ \E c \in worker[w].open :
          /\ ~worker[w].nested
          /\ Send(w, Post(active, r, Msg("result", r, c)))
          /\ worker' = [worker EXCEPT ![w].open = @ \ {c}]
    /\ UNCHANGED <<app, menu, view, active, fg, sd, row, halted, acts, said, astray>>

\* A nested Run starts and ends underneath a Tool call.
NestedStarts(w) ==
    /\ At(w, "advancing") /\ worker[w].open # {} /\ ~worker[w].nested
    /\ active' = OnStarted(active, Nested)
    /\ worker' = [worker EXCEPT ![w].nested = TRUE]
    /\ UNCHANGED <<queue, app, menu, view, fg, sd, row, halted, acts, said, closings, astray>>

NestedEnds(w) ==
    /\ At(w, "advancing") /\ worker[w].nested
    /\ active' = OnTerminal(active, Nested)
    /\ Send(w, Post(active, Nested, Msg("finished", Nested, None)))
    /\ worker' = [worker EXCEPT ![w].nested = FALSE]
    /\ UNCHANGED <<app, menu, view, fg, sd, row, halted, acts, said, astray>>

\* AgentLoop.advance returns a terminal result, or pauses for approval.
Finishes(w) ==
    LET r == worker[w].run IN
    /\ At(w, "advancing") /\ worker[w].open = {}
    /\ \E s \in {"completed", "failed"} : row' = [row EXCEPT ![r] = s]
    /\ active' = OnTerminal(active, r)
    /\ Send(w, Post(active, r, Msg("finished", r, None)))
    /\ Gone(w)
    /\ fg' = [Released EXCEPT !.run = r]
    /\ UNCHANGED <<app, menu, view, sd, halted, acts, said, astray>>

Halts(w) ==
    LET r == worker[w].run IN
    /\ At(w, "advancing") /\ worker[w].open = {}
    /\ row' = [row EXCEPT ![r] = "waiting_for_approval"]
    /\ \E b \in Batches :
        /\ halted' = [halted EXCEPT ![r] = b]
        /\ Send(w, Post(active, r, Msg("approval", r, b)))
    /\ Gone(w)
    /\ fg' = [Released EXCEPT !.run = r]
    /\ UNCHANGED <<app, menu, view, active, sd, acts, said, astray>>

\* The CancelledError arrives in AgentLoop.advance: with the token set, the Run
\* is finished as cancelled and the worker returns; without it, it goes on to
\* ForegroundRun, which seals the row of the Run it knows of.
CancelledInAdvance(w) ==
    LET r == worker[w].run IN
    /\ worker[w].pc = "advancing" /\ worker[w].cancel
    /\ IF worker[w].token
       THEN /\ row' = [row EXCEPT ![r] = "cancelled"]
            /\ active' = OnTerminal(active, r)
            /\ Send(w, Post(active, r, Msg("finished", r, None)))
            /\ fg' = [Released EXCEPT !.run = r]
       ELSE /\ row' = [row EXCEPT ![r] = IF fg.run = r /\ @ = "running" THEN "cancelled" ELSE @]
            /\ Send(w, <<Msg("finished", r, None)>>)
            /\ fg' = Released
            /\ UNCHANGED active
    /\ Gone(w)
    /\ UNCHANGED <<app, menu, view, sd, halted, acts, said, astray>>

\* It arrives while approved calls run, outside advance: no terminal event.
CancelledInApprovals(w) ==
    LET r == worker[w].run IN
    /\ worker[w].pc = "approving" /\ worker[w].cancel
    /\ row' = [row EXCEPT ![r] = IF fg.run = r /\ @ = "running" THEN "cancelled" ELSE @]
    /\ Send(w, <<Msg("finished", r, None)>>)
    /\ fg' = Released
    /\ Gone(w)
    /\ astray' = astray \union {"approving"}
    /\ UNCHANGED <<app, menu, view, active, sd, halted, acts, said>>

\* It arrives while the MCP servers connect, before ForegroundRun is entered.
CancelledInConfigure(w) ==
    /\ worker[w].pc = "configuring" /\ worker[w].cancel
    /\ Send(w, <<Msg("finished", worker[w].run, None)>>)
    /\ Gone(w)
    /\ astray' = astray \union {"configuring"}
    /\ UNCHANGED <<app, menu, view, active, fg, sd, row, halted, acts, said>>

\* session.compact: folded, nothing to fold (with or without an earlier summary),
\* an error, or the cancellation; then _do_compact's finally.
Compacts(w) ==
    LET r == worker[w].run IN
    /\ worker[w].pc = "compacting"
    /\ \E end \in IF worker[w].cancel THEN {"raises"} ELSE Compactions :
        /\ queue' = queue \o (IF end = "folded"
                              THEN Post(active, r, Msg("compaction", r, None)) ELSE <<>>)
        /\ view' = IF end = "fits" THEN SettleCompaction(view) ELSE view
        /\ astray' = astray \union (IF end \in {"again", "raises"} THEN {"compacting"} ELSE {})
    /\ Gone(w)
    /\ app' = Cleared /\ sd' = Detached
    /\ fg' = [fg EXCEPT !.busy = FALSE]
    /\ UNCHANGED <<menu, active, row, halted, acts, said, closings>>

WorkerStep(w) ==
    \/ EnterStart(w) \/ EnterStored(w) \/ EnterRefused(w) \/ NotResumable(w)
    \/ ApprovalsApplied(w) \/ ShowEvent(w) \/ NestedStarts(w) \/ NestedEnds(w)
    \/ Finishes(w) \/ Halts(w)
    \/ CancelledInAdvance(w) \/ CancelledInApprovals(w) \/ CancelledInConfigure(w)
    \/ Compacts(w)

-----------------------------------------------------------------------------
Next ==
    \/ ApplyLaunch \/ HandleMessage
    \/ TypeLine \/ PressEscape \/ PickOption \/ ConfirmPicker \/ Sigint
    \/ \E r \in Runs : AnsweredElsewhere(r)
    \/ \E w \in Workers : WorkerStep(w)

Spec == Init /\ [][Next]_vars

\* The application goes on handling its messages, and a cancelled Task is thrown
\* the CancelledError; nothing makes a Provider or a user answer.
FairSpec ==
    /\ Spec
    /\ WF_vars(HandleMessage) /\ WF_vars(ApplyLaunch)
    /\ \A w \in Workers : WF_vars(worker[w].cancel /\ WorkerStep(w))

-----------------------------------------------------------------------------
(* Properties. *)

\* One worker drives the foreground at a time: busy, the disabled prompt and the
\* pickers keep the user from starting a second one beside it.
OneForegroundWorker == \A u, w \in Workers : Alive(u) /\ Alive(w) => u = w

\* When a worker is gone and its messages are handled, the application takes the
\* next prompt and nothing on the screen moves on (_clear_worker, set_ready,
\* _enable_input_focus, finish), if no worker ended outside advance.
IdleIsUsable ==
    /\ astray = {} /\ queue = <<>> /\ app.launch = "none"
    /\ ~sd.requested /\ ~Pending /\ app.picker = "none"
    /\ \A w \in Workers : ~Alive(w)
    => /\ ~fg.busy /\ app.input /\ app.bar = "ready" /\ active = None
       /\ app.worker = NoWorker /\ sd.attached = NoWorker /\ Settled(view)

\* Between two messages the application is one that the user can go on with.
AppConsistent == TypeOK /\ OneForegroundWorker /\ IdleIsUsable

\* A worker's Run is closed by exactly one message, whichever of the Handlers,
\* the except clauses and the error paths sends it.
ClosedOnce ==
    \A w \in Workers :
        /\ closings[w] <= 1
        /\ /\ worker[w].pc = "gone" /\ worker[w].kind # "compact"
           /\ astray = {} /\ ~sd.requested
           => closings[w] = 1

\* No message about a nested Run reaches the application.
NestedHidden == \A i \in 1..Len(queue) : queue[i].run # Nested

\* What the application is told: all of its own Runs and nothing of the others.
MessagesExact == ClosedOnce /\ NestedHidden

\* The verdicts that are dispatched are those the user gave: a call is approved
\* only by an answer that covers it, and a call that was denied stays denied
\* whatever is always allowed after it.
VerdictsAreTheUsers ==
    /\ FollowsAnswers(menu.verdicts, said)
    /\ \A w \in Workers :
        worker[w].kind = "approve" /\ worker[w].pc = "configuring" =>
            /\ FollowsAnswers(worker[w].verdicts, said)
            /\ DOMAIN worker[w].verdicts =
                 {halted[worker[w].run][i] : i \in 1..Len(halted[worker[w].run])}

\* Once shutdown was requested and the workers are gone, no Run of this session
\* is left RUNNING in the store: not even a fresh one, whose id ForegroundRun
\* does not know before start_new returns.
ShutdownLeavesNoRunning ==
    sd.requested /\ (\A w \in Workers : ~Alive(w)) =>
        \A w \in Workers : worker[w].entered => row[worker[w].run] # "running"

\* Esc is answered: the status bar does not stay at "cancelling", unless a worker
\* had left the session busy before.
EscAnswered ==
    app.bar = "cancelling" /\ astray = {} ~> app.bar # "cancelling" \/ app.exited

\* After a request to shut down no worker stays alive, also one that is started
\* by a message that was already in the queue.
ShutdownStopsWorkers == sd.requested ~> \A w \in Workers : ~Alive(w)

\* Whoever asks for an end is answered, wherever the worker is at the time.
StopsWhenAsked == EscAnswered /\ ShutdownStopsWorkers
=============================================================================
