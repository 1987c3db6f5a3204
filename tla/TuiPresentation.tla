-------------------------- MODULE TuiPresentation --------------------------
(***************************************************************************)
(* What the terminal UI shows of a Run: TuiPresentationHandler turns the   *)
(* events of the hub into messages for the application, and                *)
(* ConversationViewModel keeps the live widgets that they feed.            *)
(*                                                                         *)
(* The subagent Tool runs a nested Run on the same hub, underneath a Tool  *)
(* call of the Run that is presented; the handler tells them apart by      *)
(* _active_run_id alone.                                                   *)
(***************************************************************************)
EXTENDS ApprovalMenu

CONSTANT Nested         \* the id of a nested Run

Phase == {"none", "thinking", "answer"}

\* Messages of the application's queue: from the handlers, the workers and the
\* widgets.  run is the Run a message is about, arg what it carries.
Msg(kind, r, arg) == [kind |-> kind, run |-> r, arg |-> arg]

-----------------------------------------------------------------------------
(* TuiPresentationHandler: the new _active_run_id, and what is posted. *)

IsActive(active, r) == active \in {None, r}

\* Mutant of OnStarted: the Run that started last is presented.
OnStartedLast(active, r) == r

\* RunStarted: a second start is that of a nested Run.
OnStarted(active, r) == IF active = None THEN r ELSE active

\* RunBeforeResume: a resumed Run is always the foreground one.
OnResume(active, r) == r

\* RunCompleted, RunFailed, RunCancelled and RunPaused at the call limit.
OnTerminal(active, r) == IF IsActive(active, r) THEN None ELSE active

\* Whatever is posted is posted for the presented Run only.
Post(active, r, msg) == IF IsActive(active, r) THEN <<msg>> ELSE <<>>

-----------------------------------------------------------------------------
(* ConversationViewModel: streaming phase, tool cards, spinners. *)

View == [
    phase : Phase,          \* "thinking" has a timer of its own
    tools : SUBSET Calls,   \* the tool cards that are live
    spin : BOOLEAN,         \* the timer of the tool cards
    compacting : BOOLEAN    \* the timer and the widget of a compaction
]

FreshView == [phase |-> "none", tools |-> {}, spin |-> FALSE, compacting |-> FALSE]

ClosePhase(v) == [v EXCEPT !.phase = "none"]

OnThinking(v) == [v EXCEPT !.phase = "thinking"]

OnText(v) == [v EXCEPT !.phase = "answer"]

OnToolCall(v, c) == [ClosePhase(v) EXCEPT !.tools = @ \union {c}, !.spin = TRUE]

FinalizeToolCall(v, c) ==
    LET live == v.tools \ {c} IN [v EXCEPT !.tools = live, !.spin = @ /\ live # {}]

StartCompaction(v) == [ClosePhase(v) EXCEPT !.compacting = TRUE]

SettleCompaction(v) == [v EXCEPT !.compacting = FALSE]

Finish(v) == [SettleCompaction(ClosePhase(v)) EXCEPT !.tools = {}, !.spin = FALSE]

\* Nothing on the screen is still moving.
Settled(v) == v.phase = "none" /\ v.tools = {} /\ ~v.spin /\ ~v.compacting
=============================================================================
