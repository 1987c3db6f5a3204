------------------------- MODULE LifecycleEventsInv -------------------------
(***************************************************************************)
(* The inductive invariant of LifecycleEvents.  No part of it relates two  *)
(* Runs: what keeps their observations apart is the key they are filed     *)
(* under, not the event loop.                                              *)
(***************************************************************************)
EXTENDS LifecycleEvents

\* The statuses an activation can end with.
Outcomes == {"waiting_for_approval", "paused_limit", "completed", "cancelled", "failed"}

\* What Deliveries comes down to, for each kind of signal.
Order(kind) ==
    IF kind \in Durable THEN <<"checkpoint", "extra", "langfuse">>
    ELSE IF kind = "before_model" THEN <<"extra", "langfuse", "compaction">>
    ELSE <<"extra", "langfuse">>

\* What can be left of its broadcast.
Remaining(kind) ==
    IF kind \in Durable
    THEN {<<"checkpoint", "extra", "langfuse">>, <<"extra", "langfuse">>, <<"langfuse">>, <<>>}
    ELSE IF kind = "before_model"
    THEN {<<"extra", "langfuse", "compaction">>, <<"langfuse", "compaction">>,
          <<"compaction">>, <<>>}
    ELSE {<<"extra", "langfuse">>, <<"langfuse">>, <<>>}

\* The signals an activation can be broadcasting, by what it does next.
Announced == [
    idle |-> {}, starting |-> {"before_start"}, resuming |-> {"before_resume"},
    prepared |-> {"run_started"}, top |-> {"turn_ended"}, shaping |-> {"turn_started"},
    model |-> {"before_model", "model_chunk", "notice"}, decide |-> {"after_model"},
    open |-> {"before_tool"}, tools |-> {}, fold |-> {"after_tool"},
    complete |-> {"turn_ended"}, ending |-> {"terminal"}]

\* The CheckpointHandler has still to save the state of the Run's last signal.
Unsaved(r) == bus[r].left = <<"checkpoint", "extra", "langfuse">>

\* The LangfuseHandler knows of the Run's last signal.
Told(r) == bus[r].left \in {<<>>, <<"compaction">>}

\* It has still to be told of this one, and of this call.
Untold(r, kind) == ~Told(r) /\ bus[r].event.kind = kind
UntoldTool(r, kind, c) == Untold(r, kind) /\ bus[r].event.call = c

-----------------------------------------------------------------------------
Events == [kind : Kind, run : Runs, call : Calls \union {NoCall},
           status : Status \union {"none"}]

Types ==
    /\ row \in [Runs -> Status]
    /\ act \in [Runs -> Activation]
    /\ bus \in [Runs -> [event : Events, left : UNION {Remaining(kind) : kind \in Kind}]]
    /\ token \in BOOLEAN /\ stop \in BOOLEAN
    /\ tables \in Tables
    /\ export \in Export
    /\ seen \in [Runs -> Status]
    /\ silent \subseteq Runs
    /\ starts \in [Runs -> 0..MaxActivations]
    /\ faults \in 0..MaxFaults

\* A broadcast is about its Run and about what its activation has just done; only a
\* terminal event carries a status, and the activation ends with that event alone.
BusInv(r) ==
    /\ bus[r].left \in Remaining(bus[r].event.kind)
    /\ bus[r].left # <<>> => /\ bus[r].event.run = r
                             /\ bus[r].event.kind \in Announced[act[r].pc]
    /\ bus[r].left # <<>> /\ bus[r].event.kind \in {"before_tool", "after_tool"}
           => bus[r].event.call \in Calls
    /\ act[r].pc = "ending" => /\ bus[r].event.kind = "terminal"
                               /\ bus[r].event.status \in Outcomes

\* The calls of a batch are taken up, run and folded by the pieces of the loop that
\* do so, and a call that is announced is already one of those that run; nothing of a
\* batch is left anywhere else, and a cut one leads nowhere else.
BatchInv(r) ==
    /\ act[r].pc \notin {"open", "tools", "fold", "ending"} =>
           act[r].results = {} /\ ~act[r].cut
    /\ act[r].pc \notin {"open", "tools"} => act[r].running = {}
    /\ act[r].pc # "open" => act[r].todo = {}
    /\ act[r].pc = "open" => /\ act[r].results = {} /\ ~act[r].cut
                             /\ act[r].todo \intersect act[r].running = {}
                             /\ \A c \in Calls : UntoldTool(r, "before_tool", c)
                                                  => c \in act[r].running
    /\ act[r].pc \in {"shaping", "model"} => act[r].turns < MaxTurns

\* advance's try statement holds its turns, and no other part of an activation.
ZoneInv(r) ==
    /\ act[r].pc \in {"idle", "starting", "resuming", "prepared"} => act[r].zone = "outside"
    /\ act[r].pc \in {"top", "shaping", "model", "decide", "complete"} => act[r].zone = "loop"
    /\ act[r].pc \in {"open", "tools", "fold"} => act[r].zone # "except"

\* The terminal status is in the store before anyone else is told, the observers know
\* it when the activation returns, and what it has returned stays true.
StoreInv(r) ==
    /\ act[r].pc = "ending" =>
           /\ ~Unsaved(r) => row[r] = bus[r].event.status
           /\ bus[r].left = <<>> => seen[r] = bus[r].event.status
    /\ act[r].pc = "idle" /\ act[r].result \notin {"none", "raised"} =>
           /\ act[r].result \in Outcomes
           /\ row[r] = act[r].result /\ seen[r] = act[r].result

\* A Run has a trace from its first signal to its last, and its Tools their spans.
TraceInv(r) ==
    /\ act[r].pc \notin {"idle", "starting", "resuming", "ending"} => r \in tables.traces
    /\ act[r].pc \in {"starting", "resuming"} /\ Told(r) => r \in tables.traces
    /\ act[r].pc \in {"open", "tools"} =>
           \A c \in act[r].running : <<r, c>> \in tables.tools \/ UntoldTool(r, "before_tool", c)

-----------------------------------------------------------------------------
\* When a Run that has not been silent may have an observation open.
Ended(r) == act[r].pc = "idle" \/ (act[r].pc = "ending" /\ Told(r))

TurnOpen(r) ==
    \/ act[r].pc = "shaping" /\ Told(r)
    \/ act[r].pc \in {"model", "decide"}
    \/ act[r].pc \in {"open", "tools", "fold"} /\ act[r].zone = "loop"
    \/ act[r].pc \in {"top", "complete", "ending"} /\ ~Told(r)

GenerationOpen(r) ==
    \/ act[r].pc = "model" /\ ~Untold(r, "before_model")
    \/ act[r].pc \in {"decide", "ending"} /\ ~Told(r)

ToolOpen(r, c) ==
    \/ act[r].pc = "ending" /\ ~Told(r)
    \/ act[r].cut
    \/ c \in act[r].running /\ ~UntoldTool(r, "before_tool", c)
    \/ c \in act[r].results
    \/ act[r].pc = "fold" /\ UntoldTool(r, "after_tool", c)

\* The observations that are open are those of what the activation is in the middle of.
SpanInv(r) ==
    r \notin silent =>
        /\ Ended(r) => ~Holds(tables, r)
        /\ r \in tables.turns => TurnOpen(r)
        /\ r \in tables.generations => GenerationOpen(r)
        /\ \A c \in Calls : <<r, c>> \in tables.tools => ToolOpen(r, c)

RunInv(r) ==
    BusInv(r) /\ BatchInv(r) /\ ZoneInv(r) /\ StoreInv(r) /\ TraceInv(r) /\ SpanInv(r)

\* A session that is being closed has no Run to observe, and its last flush takes all.
ExportInv ==
    /\ export.life # "open" => Active = {}
    /\ export.life \in {"flushing", "closed"} => ~export.queued
    /\ export.life = "closed" => ~export.carried /\ ~export.flushing

\* The inductive invariant.
IInv == Types /\ ExportInv /\ \A r \in Runs : RunInv(r)
=============================================================================
