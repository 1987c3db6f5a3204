-------------------------- MODULE LangfuseHandler --------------------------
(***************************************************************************)
(* LangfuseHandler's tables: the trace of each Run and the observations    *)
(* that are still open, filed under the id of their Run (and the Tool      *)
(* call).  The handler catches whatever its client raises.                 *)
(*                                                                         *)
(* lost is no table of the handler: it collects the Runs that have had an  *)
(* open observation replaced by a new one, which nothing will ever end.    *)
(***************************************************************************)
EXTENDS EventHub

CONSTANTS Runs, Calls

Tables == [
    traces : SUBSET Runs,                   \* _trace_ids
    turns : SUBSET Runs,                    \* _turn_spans
    generations : SUBSET Runs,              \* _generations
    texts : SUBSET Runs,                    \* _stream_text, _stream_reasoning
    tools : SUBSET (Runs \X Calls),         \* _tool_spans
    lost : SUBSET Runs
]

NoTables == [traces |-> {}, turns |-> {}, generations |-> {}, texts |-> {},
             tools |-> {}, lost |-> {}]

\* Whether a Run has anything in the tables.
Holds(t, r) ==
    \/ r \in t.traces \union t.turns \union t.generations \union t.texts
    \/ \E c \in Calls : <<r, c>> \in t.tools

\* Mutant of Key: the id of the call alone.
KeyByCall(r, c) == <<CHOOSE q \in Runs : TRUE, c>>

\* The key of a Tool span: the ids of two Runs' calls may be the same.
Key(r, c) == <<r, c>>

Lose(t, r, replaced) == IF replaced THEN t.lost \union {r} ELSE t.lost

OpenTurn(t, r) ==
    IF r \in t.traces
    THEN [t EXCEPT !.turns = @ \union {r}, !.lost = Lose(t, r, r \in t.turns)]
    ELSE t

OpenGeneration(t, r) ==
    [t EXCEPT !.traces = @ \union {r}, !.generations = @ \union {r},
              !.lost = Lose(t, r, r \in t.generations)]

OpenTool(t, r, c) ==
    IF r \in t.traces
    THEN [t EXCEPT !.tools = @ \union {Key(r, c)}, !.lost = Lose(t, r, Key(r, c) \in t.tools)]
    ELSE t

\* Mutant of CleanupRun: the Tool spans are left to their after_tool.
CleanupRunButTools(t, r) ==
    [t EXCEPT !.traces = @ \ {r}, !.turns = @ \ {r}, !.generations = @ \ {r},
              !.texts = @ \ {r}]

\* _cleanup_run: whatever is still open for the Run is ended.
CleanupRun(t, r) ==
    [t EXCEPT !.traces = @ \ {r}, !.turns = @ \ {r}, !.generations = @ \ {r},
              !.texts = @ \ {r}, !.tools = @ \ ({r} \X Calls)]

\* The tables after an event.
OnEvent(t, e) ==
    CASE e.kind \in {"before_start", "run_started", "before_resume"} ->
             [t EXCEPT !.traces = @ \union {e.run}]
      [] e.kind = "turn_started" -> OpenTurn(t, e.run)
      [] e.kind = "turn_ended" -> [t EXCEPT !.turns = @ \ {e.run}]
      [] e.kind = "before_model" -> OpenGeneration(t, e.run)
      [] e.kind = "model_chunk" -> [t EXCEPT !.texts = @ \union {e.run}]
      [] e.kind = "after_model" ->
             [t EXCEPT !.generations = @ \ {e.run}, !.texts = @ \ {e.run}]
      [] e.kind = "before_tool" -> OpenTool(t, e.run, e.call)
      [] e.kind = "after_tool" -> [t EXCEPT !.tools = @ \ {Key(e.run, e.call)}]
      [] e.kind = "terminal" -> CleanupRun(t, e.run)
      [] OTHER -> t

\* Whether handling the event ends an observation, to be exported by a flush.
Ends(t, e) ==
    \/ e.kind \in {"before_start", "before_resume"}
    \/ e.kind = "turn_ended" /\ e.run \in t.turns
    \/ e.kind = "after_model" /\ e.run \in t.generations
    \/ e.kind = "after_tool" /\ Key(e.run, e.call) \in t.tools
    \/ e.kind \in {"terminal", "notice"} /\ e.run \in t.traces
=============================================================================
