--------------------------- MODULE ContextWindow ---------------------------
(***************************************************************************)
(* How a transcript becomes the request that is sent to the Model:         *)
(* ContextManager.assemble, TokenBudget.trim, the cut-off of a compaction  *)
(* and the token counts they all rest on.                                  *)
(*                                                                         *)
(* A message keeps its role, the Tool calls it issues or the call it       *)
(* answers, and the token count of its text, Tool arguments included       *)
(* (message_count_dict).  A summary keeps the positions of the transcript  *)
(* that its text stands for.                                               *)
(***************************************************************************)
EXTENDS Integers, Sequences, SequencesExt

CONSTANTS
    RequestOverhead,    \* reply priming, once per request
    PerMessage,         \* the framing of one message, its role included
    ToolsSize,          \* the tokens of the Tool schemas
    SystemSize,         \* the tokens of the system prompt
    SummarySize,        \* the tokens of a summary
    InputBudget,        \* context_window - output_reserve - safety_margin
    Trigger,            \* summarization_trigger_tokens
    KeepRecent          \* summarization_keep_recent_tokens

ASSUME SizesAssumption ==
    /\ {RequestOverhead, ToolsSize, SystemSize, SummarySize} \subseteq Nat
    /\ {InputBudget, Trigger} \subseteq Int
    /\ {PerMessage, KeepRecent} \subseteq Nat \ {0}

None == 0       \* no call, no cut-off

Message(role, size, calls, answers) ==
    [role |-> role, size |-> size, calls |-> calls, answers |-> answers]

Prompt(n) == Message("user", n, {}, None)
Answer(n, calls) == Message("assistant", n, calls, None)
Result(n, c) == Message("tool", n, {}, c)

From(messages, i) == SubSeq(messages, i, Len(messages))

IsResult(m) == m.role = "tool"

Issued(messages) == UNION {messages[i].calls : i \in DOMAIN messages}
Answered(messages) == {messages[i].answers : i \in DOMAIN messages} \ {None}

\* unmatched_tool_calls.
Unmatched(messages) == Issued(messages) \ Answered(messages)

-----------------------------------------------------------------------------
(* Counting. *)

\* The texts alone, without the framing: what _cutoff adds up.
CountTexts(messages) ==
    LET sum[i \in 0..Len(messages)] ==
            IF i = 0 THEN 0 ELSE sum[i - 1] + messages[i].size
    IN  sum[Len(messages)]

CountMessages(messages) ==
    RequestOverhead + PerMessage * Len(messages) + CountTexts(messages)

\* count_request_tokens: every request of a Run carries the same Tool schemas.
CountRequest(messages) == CountMessages(messages) + ToolsSize

-----------------------------------------------------------------------------
(* ContextManager. *)

NoCompaction == [through |-> 0, covers |-> {}]

SystemMessage == Message("system", SystemSize, {}, None)
SummaryMessage == Message("user", SummarySize, {}, None)

Body(st) ==
    IF st.compaction = NoCompaction
    THEN st.messages
    ELSE <<SummaryMessage>> \o From(st.messages, st.compaction.through + 1)

Assemble(st) == <<SystemMessage>> \o Body(st)

-----------------------------------------------------------------------------
(* TokenBudget. *)

\* The messages whose role is one of these, in their order.
OfRoles(messages, roles) ==
    LET kept[i \in 0..Len(messages)] ==
            IF i = 0 THEN <<>>
            ELSE IF messages[i].role \in roles THEN Append(kept[i - 1], messages[i])
            ELSE kept[i - 1]
    IN  kept[Len(messages)]

\* The first position from i on that does not hold a Tool result.
SkipResults(messages, i) ==
    CHOOSE j \in i..(Len(messages) + 1) :
        /\ \A k \in i..(j - 1) : IsResult(messages[k])
        /\ j <= Len(messages) => ~IsResult(messages[j])

Fits(messages) == CountRequest(messages) <= InputBudget

\* The oldest boundary to which the tail can grow before it overflows.
Boundary(system, rest) ==
    CHOOSE i \in 1..(Len(rest) + 1) :
        /\ \A j \in i..Len(rest) : Fits(system \o From(rest, j))
        /\ i > 1 => ~Fits(system \o From(rest, i - 1))

TrimRequest(request) ==
    LET system == OfRoles(request, {"system"})
        rest == OfRoles(request, {"user", "assistant", "tool"})
    IN  IF Fits(system)
        THEN system \o From(rest, SkipResults(rest, Boundary(system, rest)))
        ELSE request

Trim(request) == IF Fits(request) THEN request ELSE TrimRequest(request)

-----------------------------------------------------------------------------
(* CompactionHandler. *)

\* The positions whose tail is longer than keep; _cutoff meets the last first.
Overflows(messages, already, keep) ==
    {i \in already..(Len(messages) - 1) : CountTexts(From(messages, i + 1)) > keep}

Newest(S) == CHOOSE i \in S : \A j \in S : j <= i

\* Mutant of Cutoff: the boundary is left where the walk stopped.
CutoffAnywhere(messages, already, keep) ==
    LET over == Overflows(messages, already, keep)
        cut == IF over = {} THEN None ELSE Newest(over)
    IN  IF already < cut /\ cut < Len(messages) THEN cut ELSE None

\* How many of the messages to summarize, None when there is nothing to do.
Cutoff(messages, already, keep) ==
    LET over == Overflows(messages, already, keep)
        cut == IF over = {} THEN None ELSE SkipResults(messages, Newest(over) + 1) - 1
    IN  IF already < cut /\ cut < Len(messages) THEN cut ELSE None

\* force_compact without a keep window, as AgentSession.compact calls it.
ForceCut(messages, already) == IF already < Len(messages) THEN Len(messages) ELSE None

\* Mutant of Summarize: the previous summary is not part of the new one.
SummarizeNewOnly(st, cut) ==
    [through |-> cut, covers |-> (st.compaction.through + 1)..cut]

\* The summary of the previous summary and of the messages newly dropped.
Summarize(st, cut) ==
    [through |-> cut,
     covers |-> st.compaction.covers \union ((st.compaction.through + 1)..cut)]
=============================================================================
