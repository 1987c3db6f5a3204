-------------------------- MODULE LifecycleEvents --------------------------
(***************************************************************************)
(* The lifecycle signals of the Runs that share a session's EventHub: when *)
(* AgentHarness and AgentLoop publish each of them, how the hub delivers   *)
(* them one Handler after the other, what happens when a Handler raises,   *)
(* and what the store, the LangfuseHandler and the caller make of it.      *)
(*                                                                         *)
(* The Runs are a foreground Run and the nested Runs of its Tools, all on  *)
(* one event loop.  It is only free where something is awaited that really *)
(* suspends: a Tool batch, the model, and of all Handlers the              *)
(* CompactionHandler, which awaits a summary inside before_model.          *)
(***************************************************************************)
EXTENDS LangfuseHandler

CONSTANTS
    MaxTurns,       \* max_model_calls of every Run
    MaxActivations, \* bound on how often each Run is started or resumed
    MaxFaults,      \* bound on the faults of a behaviour
    Faults          \* "save": the store raises; "extra": another Handler raises;
                    \* "summary": the summary fails; "model": the model fails;
                    \* "conflict": prepare_resume finds a changed row

ASSUME BoundsAssumption ==
    /\ {MaxTurns, MaxActivations, MaxFaults} \subseteq Nat
    /\ Calls \subseteq Nat \ {NoCall}
    /\ Faults \subseteq {"save", "extra", "summary", "model", "conflict"}

VARIABLES
    row,        \* the stored status of each Run
    act,        \* the activation of each Run: see Activation
    bus,        \* the broadcast each Run is in: its event and the handlers left
    token,      \* the RunCancellation the active Runs share
    stop,       \* whether the worker of the foreground Run has been cancelled
    tables,     \* the tables of the LangfuseHandler
    export,     \* its client: see Export
    seen,       \* (history) the last terminal status the LangfuseHandler was told
    silent,     \* (history) Runs whose last activation ended without that event
    starts,     \* how often each Run has been started or resumed
    faults      \* how many faults there have been

vars == <<row, act, bus, token, stop, tables, export, seen, silent, starts, faults>>

Status == {"absent", "running", "waiting_for_approval", "paused_limit", "completed",
           "cancelled", "failed"}

Activation == [
    pc : {"idle", "starting", "resuming", "prepared", "top", "shaping", "model",
          "decide", "open", "tools", "fold", "complete", "ending"},
    zone : {"outside", "loop", "except"},   \* of advance's try statement
    turns : 0..MaxTurns,                    \* completed_model_calls
    calls : SUBSET Calls,                   \* the response's Tool calls
    todo : SUBSET Calls,                    \* decided, before_tool is still to come
    running : SUBSET Calls,                 \* Tools under way
    results : SUBSET Calls,                 \* resolved, after_tool is still to come
    pending : SUBSET Calls,                 \* calls the user has to be asked about
    cut : BOOLEAN,                          \* a Tool of the batch was cancelled
    result : Status \union {"none", "raised"}   \* what the caller got
]

NoActivation == [pc |-> "idle", zone |-> "outside", turns |-> 0, calls |-> {}, todo |-> {},
                 running |-> {}, results |-> {}, pending |-> {}, cut |-> FALSE,
                 result |-> "none"]

\* queued: ended observations that no flush has taken; carried: those in the flush.
Export == [queued : BOOLEAN, carried : BOOLEAN, flushing : BOOLEAN,
           life : {"open", "draining", "flushing", "closed"}]

Quiet == [event |-> Signal("notice", CHOOSE r \in Runs : TRUE), left |-> <<>>]

\* Every variable has its type, and a Run that is not active is in no broadcast and
\* has no Tool under way.
TypeOK ==
    /\ row \in [Runs -> Status]
    /\ act \in [Runs -> Activation]
    /\ \A r \in Runs :
        /\ bus[r].event.kind \in Kind
        /\ act[r].pc = "idle" => bus[r].left = <<>> /\ act[r].running = {}
    /\ token \in BOOLEAN /\ stop \in BOOLEAN
    /\ tables \in Tables
    /\ export \in Export
    /\ seen \in [Runs -> Status]
    /\ silent \subseteq Runs
    /\ starts \in [Runs -> 0..MaxActivations]
    /\ faults \in 0..MaxFaults

Init ==
    /\ row = [r \in Runs |-> "absent"]
    /\ act = [r \in Runs |-> NoActivation]
    /\ bus = [r \in Runs |-> Quiet]
    /\ token = FALSE
    /\ stop = FALSE
    /\ tables = NoTables
    /\ export = [queued |-> FALSE, carried |-> FALSE, flushing |-> FALSE, life |-> "open"]
    /\ seen = [r \in Runs |-> "absent"]
    /\ silent = {}
    /\ starts = [r \in Runs |-> 0]
    /\ faults = 0

-----------------------------------------------------------------------------
(* The event loop.                                                         *)

Summarising(r) == bus[r].left # <<>> /\ Head(bus[r].left) = "compaction"

\* A Run is suspended while it awaits a summary, the model or its Tools.
Suspended(r) ==
    \/ Summarising(r)
    \/ bus[r].left = <<>> /\ act[r].pc \in {"idle", "model", "tools"}

\* It is a Run's turn to act: it is in no broadcast and no other Run has the loop.
Acts(r, pc) ==
    /\ act[r].pc = pc
    /\ bus[r].left = <<>>
    /\ \A q \in Runs \ {r} : Suspended(q)

\* The same for what wakes it up, which a cancelled worker does not wait for.
Wakes(r, pc) == Acts(r, pc) /\ ~stop

Active == {r \in Runs : act[r].pc # "idle"}

\* The Run whose Tools have started others, and those.
NestedUnder(r) == IF act[r].pc = "tools" THEN Active \ {r} ELSE {}

First(calls) == CHOOSE c \in calls : \A d \in calls : c <= d

Publish(r, event) == bus' = [bus EXCEPT ![r] = [event |-> event, left |-> Deliveries(event)]]

Fault(kind) == kind \in Faults /\ faults < MaxFaults /\ faults' = faults + 1

Rest == UNCHANGED <<tables, export, seen>>

\* What a step of the Run's own code leaves alone.
OwnStep(r) == UNCHANGED <<row, token, stop, silent, starts, faults>> /\ Rest

\* finish_*: the terminal event, after which the activation returns.
Finish(r, status, zone) ==
    /\ Publish(r, Terminal(r, status))
    /\ act' = [act EXCEPT ![r] = [@ EXCEPT !.pc = "ending", !.zone = zone, !.running = {},
                                           !.todo = {}, !.results = {}]]

\* The activation ends with an exception: nobody is told on the hub.
Escapes(r) ==
    /\ act' = [act EXCEPT ![r] = [NoActivation EXCEPT !.turns = act[r].turns,
                                                      !.result = "raised"]]
    /\ bus' = [bus EXCEPT ![r].left = <<>>]
    /\ silent' = silent \union {r}
    /\ stop' = (stop /\ Active # {r})

-----------------------------------------------------------------------------
(* AgentHarness.run, resume and respond_approvals.                         *)

\* run: for the foreground, or by a running Tool of another Run.
StartNew(r) ==
    /\ act[r].pc = "idle" /\ row[r] = "absent" /\ export.life = "open"
    /\ \A q \in Runs : Suspended(q)
    /\ ~stop
    /\ \/ Active = {} /\ token' = FALSE
       \/ /\ \E q \in Active : Cardinality(act[q].running) > Cardinality(NestedUnder(q))
          /\ UNCHANGED token
    /\ starts[r] < MaxActivations
    /\ starts' = [starts EXCEPT ![r] = @ + 1]
    /\ row' = [row EXCEPT ![r] = "running"]
    /\ act' = [act EXCEPT ![r] = [NoActivation EXCEPT !.pc = "starting"]]
    /\ Publish(r, Signal("before_start", r))
    /\ UNCHANGED <<stop, silent, faults>> /\ Rest

RunStarts(r) ==
    /\ Acts(r, "starting")
    /\ act' = [act EXCEPT ![r].pc = "prepared"]
    /\ Publish(r, Signal("run_started", r))
    /\ OwnStep(r)

\* resume and respond_approvals: the pending calls are those of the stored Run.
Resume(r) ==
    /\ Active = {} /\ row[r] # "absent" /\ export.life = "open"
    /\ starts[r] < MaxActivations
    /\ starts' = [starts EXCEPT ![r] = @ + 1]
    /\ token' = FALSE
    /\ act' = [act EXCEPT ![r] =
           [NoActivation EXCEPT !.pc = "resuming", !.turns = act[r].turns,
                !.pending = IF row[r] = "waiting_for_approval" THEN act[r].pending ELSE {}]]
    /\ Publish(r, Signal("before_resume", r))
    /\ UNCHANGED <<row, stop, silent, faults>> /\ Rest

\* prepare_resume, then _apply_approvals up to its batch: verdicts for some calls.
Prepared(r, verdicts) ==
    /\ Acts(r, "resuming")
    /\ verdicts \subseteq act[r].pending
    /\ row' = [row EXCEPT ![r] = "running"]
    /\ act' = [act EXCEPT ![r] =
           [@ EXCEPT !.pc = IF act[r].pending = {} THEN "prepared"
                            ELSE IF verdicts = {} THEN "fold" ELSE "open",
                     !.todo = verdicts, !.pending = act[r].pending \ verdicts]]
    /\ UNCHANGED <<bus, token, stop, silent, starts, faults>> /\ Rest

\* ResumeConflictError: another process has written the row.
Conflicts(r) ==
    /\ Acts(r, "resuming")
    /\ Fault("conflict")
    /\ Escapes(r)
    /\ UNCHANGED <<row, token, starts>> /\ Rest

EnterLoop(r) ==
    /\ Acts(r, "prepared")
    /\ act' = [act EXCEPT ![r] = [@ EXCEPT !.pc = "top", !.zone = "loop"]]
    /\ UNCHANGED bus
    /\ OwnStep(r)

-----------------------------------------------------------------------------
(* AgentLoop.advance and the batches of _apply_approvals.                  *)

Top(r) ==
    /\ Acts(r, "top")
    /\ \/ act[r].turns = MaxTurns /\ Finish(r, "paused_limit", "loop")
       \/ act[r].turns < MaxTurns /\ token /\ Finish(r, "cancelled", "loop")
       \/ /\ act[r].turns < MaxTurns /\ ~token
          /\ act' = [act EXCEPT ![r].pc = "shaping"]
          /\ Publish(r, Signal("turn_started", r))
    /\ OwnStep(r)

Shape(r) ==
    /\ Acts(r, "shaping")
    /\ act' = [act EXCEPT ![r].pc = "model"]
    /\ Publish(r, Signal("before_model", r))
    /\ OwnStep(r)

\* _model_turn's chunks, and the notice of a retry.
Chunk(r, kind) ==
    /\ Wakes(r, "model")
    /\ kind \in {"model_chunk", "notice"}
    /\ Publish(r, Signal(kind, r))
    /\ UNCHANGED act
    /\ OwnStep(r)

\* The response, with its Tool calls.
Respond(r, calls) ==
    /\ Wakes(r, "model")
    /\ act' = [act EXCEPT ![r] = [@ EXCEPT !.pc = "decide", !.turns = act[r].turns + 1,
                                           !.calls = calls]]
    /\ Publish(r, Signal("after_model", r))
    /\ OwnStep(r)

ModelFails(r) ==
    /\ Wakes(r, "model")
    /\ Fault("model")
    /\ Finish(r, "failed", "except")
    /\ UNCHANGED <<row, token, stop, silent, starts>> /\ Rest

ModelCancelled(r) ==
    /\ Wakes(r, "model") /\ token
    /\ Finish(r, "cancelled", "loop")
    /\ OwnStep(r)

\* decide for every call: asked about, or run (or denied) right away.
Decide(r, asked) ==
    /\ Acts(r, "decide")
    /\ asked \subseteq act[r].calls
    /\ \/ /\ act[r].calls = {}
          /\ act' = [act EXCEPT ![r].pc = "complete"]
          /\ Publish(r, Signal("turn_ended", r))
       \/ act[r].calls # {} /\ token /\ Finish(r, "cancelled", "loop")
       \/ /\ act[r].calls # {} /\ ~token
          /\ act' = [act EXCEPT ![r] =
                 [@ EXCEPT !.pc = IF asked = act[r].calls THEN "fold" ELSE "open",
                           !.calls = {}, !.pending = asked, !.todo = act[r].calls \ asked]]
          /\ UNCHANGED bus
    /\ OwnStep(r)

Complete(r) ==
    /\ Acts(r, "complete")
    /\ Finish(r, "completed", "loop")
    /\ OwnStep(r)

\* before_tool for every call of the batch, in order, then the batch itself.
Open(r) ==
    /\ Acts(r, "open")
    /\ \/ /\ act[r].todo # {}
          /\ LET c == First(act[r].todo)
             IN  /\ Publish(r, ToolSignal("before_tool", r, c))
                 /\ act' = [act EXCEPT ![r] =
                        [@ EXCEPT !.todo = act[r].todo \ {c},
                                  !.running = act[r].running \union {c}]]
       \/ /\ act[r].todo = {}
          /\ act' = [act EXCEPT ![r].pc = "tools"]
          /\ UNCHANGED bus
    /\ OwnStep(r)

\* A Tool returns, or is cut short by the token; one that runs a Run ends after it.
ToolEnds(r, c) ==
    /\ Wakes(r, "tools")
    /\ c \in act[r].running
    /\ Cardinality(act[r].running) > Cardinality(NestedUnder(r))
    /\ \/ act' = [act EXCEPT ![r] =
              [@ EXCEPT !.running = act[r].running \ {c}, !.results = act[r].results \union {c}]]
       \/ token /\ act' = [act EXCEPT ![r] =
              [@ EXCEPT !.running = act[r].running \ {c}, !.cut = TRUE]]
    /\ UNCHANGED bus
    /\ OwnStep(r)

Resolved(r) ==
    /\ Wakes(r, "tools")
    /\ act[r].running = {}
    /\ act' = [act EXCEPT ![r].pc = "fold"]
    /\ UNCHANGED bus
    /\ OwnStep(r)

\* after_tool for every result, then what the batch leads to.
Fold(r) ==
    /\ Acts(r, "fold")
    /\ \/ /\ act[r].results # {}
          /\ LET c == First(act[r].results)
             IN  /\ Publish(r, ToolSignal("after_tool", r, c))
                 /\ act' = [act EXCEPT ![r].results = @ \ {c}]
       \/ act[r].results = {} /\ act[r].cut /\ Finish(r, "cancelled", act[r].zone)
       \/ /\ act[r].results = {} /\ ~act[r].cut /\ act[r].pending # {}
          /\ Finish(r, "waiting_for_approval", act[r].zone)
       \/ /\ act[r].results = {} /\ ~act[r].cut /\ act[r].pending = {}
          /\ \/ /\ act[r].zone = "loop"
                /\ act' = [act EXCEPT ![r].pc = "top"]
                /\ Publish(r, Signal("turn_ended", r))
             \/ /\ act[r].zone = "outside"
                /\ act' = [act EXCEPT ![r].pc = "prepared"]
                /\ UNCHANGED bus
    /\ OwnStep(r)

\* The activation returns the RunResult of its terminal event.
Return(r) ==
    /\ Acts(r, "ending")
    /\ act' = [act EXCEPT ![r] = [NoActivation EXCEPT !.turns = act[r].turns,
                                      !.pending = IF bus[r].event.status = "waiting_for_approval"
                                                  THEN act[r].pending ELSE {},
                                      !.result = bus[r].event.status]]
    /\ stop' = (stop /\ Active # {r})
    /\ UNCHANGED <<row, bus, token, silent, starts, faults>> /\ Rest

-----------------------------------------------------------------------------
(* EventHub.broadcast.                                                     *)

CanDeliver(r, handler) ==
    /\ bus[r].left # <<>> /\ Head(bus[r].left) = handler
    /\ \A q \in Runs \ {r} : Suspended(q)

Delivered(r) == bus' = [bus EXCEPT ![r].left = Tail(@)]

\* CheckpointHandler: the state is saved, with the status of the event if it has one.
Saves(r) ==
    /\ CanDeliver(r, "checkpoint")
    /\ row' = [row EXCEPT ![r] = CASE bus[r].event.kind = "run_started" -> "running"
                                   [] bus[r].event.kind = "terminal" -> bus[r].event.status
                                   [] OTHER -> @]
    /\ Delivered(r)
    /\ UNCHANGED <<act, token, stop, silent, starts, faults>> /\ Rest

\* Another Handler returns; the CompactionHandler with or without a proposal, but not
\* once the worker is cancelled.
Observes(r, handler) ==
    /\ CanDeliver(r, handler)
    /\ handler \in {"extra", "compaction"}
    /\ handler = "compaction" => ~stop
    /\ Delivered(r)
    /\ UNCHANGED act
    /\ OwnStep(r)

\* _schedule_flush: a flush that is under way is not waited for.
Scheduled(e) ==
    IF e.flushing THEN [e EXCEPT !.queued = TRUE]
    ELSE [e EXCEPT !.queued = FALSE, !.carried = TRUE, !.flushing = TRUE]

\* The LangfuseHandler never raises.
Traces(r) ==
    LET event == bus[r].event
        final == event.kind = "terminal"
    IN /\ CanDeliver(r, "langfuse")
       /\ tables' = OnEvent(tables, event)
       /\ export' = IF final THEN Scheduled(export)
                    ELSE [export EXCEPT !.queued = @ \/ Ends(tables, event)]
       /\ seen' = IF final THEN [seen EXCEPT ![r] = event.status] ELSE seen
       /\ silent' = IF final THEN silent \ {r} ELSE silent
       /\ Delivered(r)
       /\ UNCHANGED <<row, act, token, stop, starts, faults>>

\* A Handler raises: the Handlers after it are not called, and the exception reaches
\* advance, which fails the Run, unless it is not in its try block (any more).
Raises(r, handler, kind) ==
    /\ CanDeliver(r, handler)
    /\ handler = "compaction" => ~stop
    /\ Fault(kind)
    /\ \/ act[r].zone = "loop" /\ Finish(r, "failed", "except") /\ UNCHANGED <<silent, stop>>
       \/ act[r].zone # "loop" /\ Escapes(r)
    /\ UNCHANGED <<row, token, starts>> /\ Rest

-----------------------------------------------------------------------------
(* Cancellation, and the end of the session.                               *)

\* Esc: the token of the Runs is set.
Cancel ==
    /\ Active # {} /\ ~token
    /\ \A q \in Runs : Suspended(q)
    /\ token' = TRUE
    /\ UNCHANGED <<row, act, bus, stop, silent, starts, faults>> /\ Rest

\* The worker itself is cancelled, by a shutdown or by Ctrl-C.
StopWorker ==
    /\ Active # {} /\ ~stop
    /\ \A q \in Runs : Suspended(q)
    /\ stop' = TRUE
    /\ UNCHANGED <<row, act, bus, token, silent, starts, faults>> /\ Rest

\* The Runs that ForegroundRun.shutdown seals: run_id is that of a resumed Run, but a
\* new Run's is not known yet, and it still is that of an earlier one, if any.
Sealed(r) ==
    IF starts[r] > 1 THEN {{r}} ELSE {{}} \union {{q} : q \in Runs \ Active}

\* CancelledError where the Run is suspended, after the Runs of its Tools have ended.
Interrupted(r) ==
    /\ stop /\ r \in Active
    /\ Suspended(r) /\ NestedUnder(r) = {}
    /\ \A q \in Runs \ {r} : Suspended(q)
    /\ \/ /\ act[r].zone = "loop" /\ token
          /\ Finish(r, "cancelled", "except")
          /\ UNCHANGED <<row, silent, stop>>
       \/ /\ act[r].zone # "loop" \/ ~token
          /\ Escapes(r)
          /\ IF Active = {r}
             THEN \E sealed \in Sealed(r) :
                     row' = [q \in Runs |-> IF q \in sealed /\ row[q] = "running"
                                            THEN "cancelled" ELSE row[q]]
             ELSE UNCHANGED row
    /\ UNCHANGED <<token, starts, faults>> /\ Rest

FlushEnds ==
    /\ export.flushing
    /\ export' = [export EXCEPT !.flushing = FALSE, !.carried = FALSE,
                                !.life = IF @ = "flushing" THEN "closed" ELSE @]
    /\ UNCHANGED <<row, act, bus, token, stop, tables, seen, silent, starts, faults>>

Close ==
    /\ export.life = "open" /\ Active = {}
    /\ export' = [export EXCEPT !.life = "draining"]
    /\ UNCHANGED <<row, act, bus, token, stop, tables, seen, silent, starts, faults>>

\* aclose: the flush under way has ended, another one takes what has come since.
Drained ==
    /\ export.life = "draining" /\ ~export.flushing
    /\ export' = [queued |-> FALSE, carried |-> export.queued, flushing |-> TRUE,
                  life |-> "flushing"]
    /\ UNCHANGED <<row, act, bus, token, stop, tables, seen, silent, starts, faults>>

HarnessStep(r) ==
    \/ StartNew(r)
    \/ RunStarts(r)
    \/ Resume(r)
    \/ \E verdicts \in SUBSET Calls : Prepared(r, verdicts)
    \/ Conflicts(r)
    \/ EnterLoop(r)

LoopStep(r) ==
    \/ Top(r)
    \/ Shape(r)
    \/ \E kind \in {"model_chunk", "notice"} : Chunk(r, kind)
    \/ \E calls \in SUBSET Calls : Respond(r, calls)
    \/ ModelFails(r)
    \/ ModelCancelled(r)
    \/ \E asked \in SUBSET Calls : Decide(r, asked)
    \/ Complete(r)
    \/ Open(r)
    \/ \E c \in Calls : ToolEnds(r, c)
    \/ Resolved(r)
    \/ Fold(r)
    \/ Return(r)

HubStep(r) ==
    \/ Saves(r)
    \/ \E handler \in {"extra", "compaction"} : Observes(r, handler)
    \/ Traces(r)
    \/ Raises(r, "checkpoint", "save")
    \/ Raises(r, "extra", "extra")
    \/ Raises(r, "compaction", "summary")

Next ==
    \/ \E r \in Runs : HarnessStep(r)
    \/ \E r \in Runs : LoopStep(r)
    \/ \E r \in Runs : HubStep(r)
    \/ \E r \in Runs : Interrupted(r)
    \/ Cancel
    \/ StopWorker
    \/ FlushEnds
    \/ Close
    \/ Drained

Spec == Init /\ [][Next]_vars

-----------------------------------------------------------------------------
(* What the lifecycle promises.                                            *)

\* Whoever is told that a Run has halted finds that status in the store: the
\* CheckpointHandler precedes the others and a failed save stops the broadcast.
SavedBeforeSeen ==
    \A r \in Runs :
        (/\ bus[r].event.kind = "terminal" /\ bus[r].left # <<>>
         /\ Head(bus[r].left) # "checkpoint")
            => row[r] = bus[r].event.status

\* The caller, the store and the observers agree on how a Run has ended, whatever a
\* Handler, the model or the user did, unless the activation raised.
OutcomeAgrees ==
    \A r \in Runs :
        (act[r].pc = "idle" /\ act[r].result \notin {"none", "raised"})
            => row[r] = act[r].result /\ seen[r] = act[r].result

\* What the observers are shown is what the store holds.
ObserversAgree == TypeOK /\ SavedBeforeSeen /\ OutcomeAgrees

\* A Run that has ended with its terminal event has no trace, turn, generation or Tool
\* observation left open, and its end leaves those of the other Runs alone.
SpansEndWithTheRun ==
    \A r \in Runs :
        /\ (act[r].pc = "idle" /\ r \notin silent) => ~Holds(tables, r)
        /\ act[r].pc = "tools" => \A c \in act[r].running : <<r, c>> \in tables.tools

\* An open observation is only ever replaced, and then never ended, in a Run whose last
\* activation ended without its terminal event.
LostOnlyAfterSilence ==
    [][(tables'.lost \ tables.lost) \subseteq silent]_vars

\* A closed session has handed over every observation that ended.
FlushedAtClose == export.life = "closed" => ~export.queued /\ ~export.carried

\* The observations of a Run end with it, and are handed over before the exit.
TracesEnd == SpansEndWithTheRun /\ FlushedAtClose
=============================================================================
