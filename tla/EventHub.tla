------------------------------ MODULE EventHub ------------------------------
(***************************************************************************)
(* EventHub's registry and its order of delivery, and what the Handlers of *)
(* a session subscribe to.                                                 *)
(*                                                                         *)
(* An event is the signal that RunEmitter publishes: its kind, its Run,    *)
(* the Tool call it is about and, for a terminal one, the status of its    *)
(* RunResult.  RunCompleted, RunPaused, RunCancelled and RunFailed are one *)
(* kind here, told apart by that status.                                   *)
(***************************************************************************)
EXTENDS Integers, FiniteSets, Sequences

NoCall == 0

Event(kind, r, call, status) == [kind |-> kind, run |-> r, call |-> call, status |-> status]

Signal(kind, r) == Event(kind, r, NoCall, "none")
ToolSignal(kind, r, c) == Event(kind, r, c, "none")
Terminal(r, status) == Event("terminal", r, NoCall, status)

Kind == {"before_start", "run_started", "before_resume", "turn_started", "before_model",
         "model_chunk", "notice", "after_model", "before_tool", "after_tool",
         "turn_ended", "terminal"}

\* The boundaries at which the CheckpointHandler saves the state of the event.
Durable == {"run_started", "after_model", "after_tool", "terminal"}

-----------------------------------------------------------------------------
Registration(handler, priority, order) ==
    [handler |-> handler, priority |-> priority, order |-> order]

\* Mutant of Precedes: the lowest priority comes first.
PrecedesAscending(a, b) ==
    \/ a.priority < b.priority
    \/ (a.priority = b.priority /\ a.order < b.order)

\* _sorted: the highest priority first, then the order of registration.
Precedes(a, b) ==
    \/ a.priority > b.priority
    \/ (a.priority = b.priority /\ a.order < b.order)

\* The handlers of one broadcast, in the order in which they are awaited.
InOrder(registrations) ==
    [i \in 1..Cardinality(registrations) |->
        (CHOOSE r \in registrations :
            Cardinality({q \in registrations : Precedes(q, r)}) = i - 1).handler]

\* The registrations of a session: the CheckpointHandler, an extra Handler (the
\* TUI's), the LangfuseHandler and, from the first Run on, the CompactionHandler.
Registered(kind) ==
    {r \in {Registration("checkpoint", 100, 0), Registration("extra", 0, 1),
            Registration("langfuse", 0, 2), Registration("compaction", 0, 3)} :
        /\ r.handler = "checkpoint" => kind \in Durable
        /\ r.handler = "compaction" => kind = "before_model"}

Deliveries(event) == InOrder(Registered(event.kind))
=============================================================================
