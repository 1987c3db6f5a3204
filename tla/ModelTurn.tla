----------------------------- MODULE ModelTurn -----------------------------
(***************************************************************************)
(* The model turns of one Run: AgentLoop from the assembled request to the *)
(* recorded response, the compaction that may come before it, the retries  *)
(* of RetryingModel over OpenAIModel's stream, and AgentSession.compact,   *)
(* which rewrites the stored transcript of a Run without claiming it.      *)
(*                                                                         *)
(* One process drives the Run.  The Tool batch is one step here, after the *)
(* response that asked for it: which calls ran, which wait for the user,   *)
(* and which asked for a follow-up call (AgentHarness has the detail).     *)
(***************************************************************************)
EXTENDS ContextWindow

CONSTANTS
    Prompts,        \* the token counts of prompts
    Results,        \* the token counts of Tool results
    MaxChunks,      \* bound on the text chunks of one attempt
    MaxAttempts,    \* max_retries
    MaxPrompts,     \* bound on the prompts of the Run
    MaxTurns,       \* bound on its model calls
    MaxCalls,       \* bound on the Tool calls the Provider issues
    MaxCompacts,    \* bound on the times /compact is given
    Asked,          \* the calls that the policy asks the user about
    Wanting,        \* the calls whose Tool asks for a follow-up call
    Overlap         \* whether a second session may compact a Run being driven

ASSUME BoundsAssumption ==
    /\ Prompts \subseteq Nat /\ Results \subseteq Nat
    /\ {MaxChunks, MaxPrompts, MaxTurns, MaxCalls, MaxCompacts} \subseteq Nat
    /\ MaxAttempts \in Nat \ {0}
    /\ Asked \subseteq Nat /\ Wanting \subseteq Nat
    /\ Overlap \in BOOLEAN

VARIABLES
    row,        \* the stored Run: its status, messages and compaction
    st,         \* the RunState that advance holds
    pc,         \* where the driver is
    request,    \* the request of the model call under way
    stream,     \* that model call: its attempt, the chunks of that attempt, and
                \* the attempt of every chunk the Handlers have been shown
    batch,      \* the calls under way and those the user will be asked about
    token,      \* the RunCancellation
    compactor,  \* AgentSession.compact: the state it has loaded
    forced      \* (history) a compaction by the user folded an unanswered call

vars == <<row, st, pc, request, stream, batch, token, compactor, forced>>
driver == <<st, pc, request, stream, batch, token>>

PC == {"idle", "top", "summarising", "sending", "streaming", "backoff", "batch"}
Status == {"absent", "running", "waiting_for_approval", "completed", "failed", "cancelled"}

EmptyState == [messages |-> <<>>, compaction |-> NoCompaction]
NoStream == [attempt |-> 1, got |-> 0, shown |-> <<>>]
NoBatch == [running |-> {}, ask |-> {}, synthetic |-> FALSE]

Call == 1..(2 * MaxCalls)
FollowUp(c) == c + MaxCalls

UserPrompts(messages) == Len(SelectSeq(messages, LAMBDA m : m.role = "user"))

\* completed_model_calls: a synthesized call is no model call.
ModelCalls(messages) ==
    Len(SelectSeq(messages,
        LAMBDA m : m.role = "assistant" /\ m.calls \subseteq 1..MaxCalls))

\* The calls of a set, in their order.
InOrder(calls) ==
    CHOOSE order \in [1..Cardinality(calls) -> calls] :
        \A i, j \in DOMAIN order : i < j => order[i] < order[j]

\* One message for each of the calls.
ResultsOf(calls, n) == [i \in 1..Cardinality(calls) |-> Result(n, InOrder(calls)[i])]
FollowUps(calls) == [i \in 1..Cardinality(calls) |-> Answer(0, {InOrder(calls)[i]})]

MessageType ==
    [role : {"system", "user", "assistant", "tool"}, size : Nat,
     calls : SUBSET Call, answers : Call \union {None}]

IsState(s) ==
    /\ \A i \in DOMAIN s.messages : s.messages[i] \in MessageType
    /\ s.compaction.through \in 0..Len(s.messages)

\* Every variable has its type; a stored compaction never reaches past the
\* transcript that is stored with it.
TypeOK ==
    /\ row.status \in Status /\ IsState(row.st)
    /\ IsState(st)
    /\ pc \in PC
    /\ \A i \in DOMAIN request : request[i] \in MessageType
    /\ stream.attempt \in 1..MaxAttempts
    /\ stream.got \in 0..MaxChunks
    /\ \A i \in DOMAIN stream.shown : stream.shown[i] \in 1..MaxAttempts
    /\ batch \in [running : SUBSET Call, ask : SUBSET Call, synthetic : BOOLEAN]
    /\ token \in BOOLEAN
    /\ compactor.busy \in BOOLEAN /\ compactor.left \in 0..MaxCompacts
    /\ IsState(compactor.st)
    /\ forced \in BOOLEAN

Init ==
    /\ row = [status |-> "absent", st |-> EmptyState]
    /\ st = EmptyState
    /\ pc = "idle"
    /\ request = <<>>
    /\ stream = NoStream
    /\ batch = NoBatch
    /\ token = FALSE
    /\ compactor = [busy |-> FALSE, left |-> MaxCompacts, st |-> EmptyState]
    /\ forced = FALSE

-----------------------------------------------------------------------------
(* The store. *)

\* save_state without a status keeps the stored one.
Save(s) == row' = [row EXCEPT !.st = s]

\* finish_*: the terminal event saves the state with its status, and the
\* activation is over.
Finish(status, s) ==
    /\ row' = [status |-> status, st |-> s]
    /\ pc' = "idle"
    /\ st' = EmptyState /\ request' = <<>> /\ stream' = NoStream
    /\ batch' = NoBatch
    /\ token' = FALSE

Appended(s, messages) == [s EXCEPT !.messages = @ \o messages]

-----------------------------------------------------------------------------
(* AgentHarness: the Run is started, continued or released. *)

MayDrive == compactor.busy => Overlap

Start(n) ==
    /\ row.status = "absent"
    /\ MayDrive
    /\ st' = [EmptyState EXCEPT !.messages = <<Prompt(n)>>]
    /\ row' = [status |-> "running", st |-> st']
    /\ pc' = "top"
    /\ UNCHANGED <<request, stream, batch, token, compactor, forced>>

Sealed(s) == Appended(s, ResultsOf(Unmatched(s.messages), 1))

\* resume with a prompt: the transcript is sealed, then the prompt appended.
Continue(n) ==
    /\ pc = "idle"
    /\ row.status \in {"completed", "failed", "cancelled"}
    /\ MayDrive
    /\ UserPrompts(row.st.messages) < MaxPrompts
    /\ st' = Appended(Sealed(row.st), <<Prompt(n)>>)
    /\ row' = [status |-> "running", st |-> st']
    /\ pc' = "top"
    /\ UNCHANGED <<request, stream, batch, token, compactor, forced>>

\* respond_approvals: the calls with a verdict run, the others stay pending.
Respond(decided) ==
    /\ pc = "idle"
    /\ row.status = "waiting_for_approval"
    /\ MayDrive
    /\ decided # {}
    /\ decided \subseteq Unmatched(row.st.messages)
    /\ st' = row.st
    /\ row' = [row EXCEPT !.status = "running"]
    /\ batch' = [running |-> decided, ask |-> Unmatched(row.st.messages) \ decided,
                 synthetic |-> TRUE]
    /\ pc' = "batch"
    /\ UNCHANGED <<request, stream, token, compactor, forced>>

\* Esc.
Cancel ==
    /\ pc # "idle"
    /\ ~token
    /\ token' = TRUE
    /\ UNCHANGED <<row, st, pc, request, stream, batch, compactor, forced>>

-----------------------------------------------------------------------------
(* AgentLoop up to the request. *)

CancelledAtTop ==
    /\ pc = "top"
    /\ token
    /\ Finish("cancelled", st)
    /\ UNCHANGED <<compactor, forced>>

NextCut == Cutoff(st.messages, st.compaction.through, KeepRecent)

\* before_model: the CompactionHandler measures the request and, past the
\* trigger, awaits a summary; otherwise the turn goes on.
BeforeModel ==
    /\ pc = "top"
    /\ ~token
    /\ ModelCalls(st.messages) < MaxTurns
    /\ IF CountRequest(Assemble(st)) > Trigger /\ NextCut # None
       THEN pc' = "summarising"
       ELSE pc' = "sending"
    /\ UNCHANGED <<row, st, request, stream, batch, token, compactor, forced>>

\* Mutant of Summarised: the messages that were summarized are dropped.
SummarisedDropping ==
    /\ pc = "summarising"
    /\ st' = [messages |-> From(st.messages, NextCut + 1),
              compaction |-> [through |-> 1, covers |-> {1}]]
    /\ pc' = "sending"
    /\ UNCHANGED <<row, request, stream, batch, token, compactor, forced>>

\* The summary is folded into the state; an empty one proposes nothing.
Summarised ==
    /\ pc = "summarising"
    /\ \/ st' = [st EXCEPT !.compaction = Summarize(st, NextCut)]
       \/ UNCHANGED st
    /\ pc' = "sending"
    /\ UNCHANGED <<row, request, stream, batch, token, compactor, forced>>

\* The summarizing call is not retried: an error, or a stream that is idle for
\* too long, fails the Run.
SummaryFails ==
    /\ pc = "summarising"
    /\ Finish("failed", st)
    /\ UNCHANGED <<compactor, forced>>

\* The request is trimmed to the budget; run_cancellable starts the turn.
Send ==
    /\ pc = "sending"
    /\ request' = Trim(Assemble(st))
    /\ stream' = NoStream
    /\ pc' = "streaming"
    /\ UNCHANGED <<row, st, batch, token, compactor, forced>>

-----------------------------------------------------------------------------
(* RetryingModel and OpenAIModel. *)

Chunk ==
    /\ pc = "streaming"
    /\ stream.got < MaxChunks
    /\ stream' = [stream EXCEPT !.got = @ + 1, !.shown = Append(@, stream.attempt)]
    /\ UNCHANGED <<row, st, pc, request, batch, token, compactor, forced>>

\* A transient error, the idle timeout of the stream included.
Fails ==
    /\ pc = "streaming"
    /\ IF stream.attempt < MaxAttempts
       THEN pc' = "backoff" /\ UNCHANGED <<row, st, request, stream, batch, token>>
       ELSE Finish("failed", st)
    /\ UNCHANGED <<compactor, forced>>

\* Any other error: a refused request, Tool arguments that are no JSON object.
Refused ==
    /\ pc = "streaming"
    /\ Finish("failed", st)
    /\ UNCHANGED <<compactor, forced>>

\* Mutant of Retry: the attempts are counted anew.
RetryAnew ==
    /\ pc = "backoff"
    /\ stream' = NoStream
    /\ pc' = "streaming"
    /\ UNCHANGED <<row, st, request, batch, token, compactor, forced>>

Retry ==
    /\ pc = "backoff"
    /\ stream' = [stream EXCEPT !.attempt = @ + 1, !.got = 0]
    /\ pc' = "streaming"
    /\ UNCHANGED <<row, st, request, batch, token, compactor, forced>>

\* run_cancellable: the poll sees the token and the turn is abandoned; a summary
\* is interrupted by the cancellation of the worker alone.
TurnCancelled ==
    /\ pc \in {"summarising", "streaming", "backoff"}
    /\ token
    /\ Finish("cancelled", st)
    /\ UNCHANGED <<compactor, forced>>

\* StreamDone: the response is appended and saved.  Without Tool calls the Run
\* is complete; otherwise the policy splits the calls into run and ask.
Responds(calls) ==
    LET s == Appended(st, <<Answer(stream.got, calls)>>)
    IN  /\ pc = "streaming"
        /\ IF calls = {} THEN Finish("completed", s)
           ELSE IF token THEN Finish("cancelled", s)
           ELSE /\ st' = s
                /\ Save(s)
                /\ request' = <<>> /\ stream' = NoStream
                /\ batch' = [running |-> calls \ Asked, ask |-> calls \intersect Asked,
                             synthetic |-> FALSE]
                /\ pc' = "batch"
                /\ UNCHANGED token
        /\ UNCHANGED <<compactor, forced>>

NewCalls == Cardinality(Issued(st.messages) \intersect 1..MaxCalls)

StreamDone ==
    \E k \in 0..(MaxCalls - NewCalls) : Responds((NewCalls + 1)..(NewCalls + k))

-----------------------------------------------------------------------------
(* The Tool batch. *)

\* The results of the calls that completed are appended and saved in the order
\* of the calls.  A cancelled sibling ends the Run; otherwise follow-ups are
\* synthesized for the model's own calls, to be run or asked about in turn.
Resolve(done, n) ==
    LET s == Appended(st, ResultsOf(done, n))
        follow == IF batch.synthetic THEN {} ELSE {FollowUp(c) : c \in done \intersect Wanting}
    IN  /\ pc = "batch"
        /\ batch.running # {}
        /\ IF done # batch.running
           THEN Finish("cancelled", s)
           ELSE /\ st' = Appended(s, FollowUps(follow))
                /\ Save(s)
                /\ batch' = [running |-> follow \ Asked,
                             ask |-> batch.ask \union (follow \intersect Asked),
                             synthetic |-> TRUE]
                /\ UNCHANGED <<pc, request, stream, token>>
        /\ UNCHANGED <<compactor, forced>>

ResolveBatch ==
    \E done \in SUBSET batch.running, n \in Results :
        /\ done # batch.running => token
        /\ Resolve(done, n)

\* The batch is folded: the next turn, or a halt for the calls to ask about.
BatchDone ==
    /\ pc = "batch"
    /\ batch.running = {}
    /\ IF batch.ask = {}
       THEN pc' = "top" /\ batch' = NoBatch /\ UNCHANGED <<row, st, request, stream, token>>
       ELSE Finish("waiting_for_approval", st)
    /\ UNCHANGED <<compactor, forced>>

-----------------------------------------------------------------------------
(* AgentSession.compact. *)

\* The state is loaded and its summary awaited.
CompactLoad ==
    /\ ~compactor.busy
    /\ compactor.left > 0
    /\ row.status # "absent"
    /\ \/ Overlap
       \/ (pc = "idle" /\ row.status # "waiting_for_approval")
    /\ ForceCut(row.st.messages, row.st.compaction.through) # None
    /\ compactor' = [busy |-> TRUE, left |-> compactor.left - 1, st |-> row.st]
    /\ UNCHANGED <<row, driver, forced>>

\* The state that was loaded is saved with its summary, under the status that
\* the row has by then.
CompactSave ==
    /\ compactor.busy
    /\ LET s == compactor.st
           cut == ForceCut(s.messages, s.compaction.through)
       IN  Save([s EXCEPT !.compaction = Summarize(s, cut)])
    /\ forced' = (forced \/ Unmatched(compactor.st.messages) # {})
    /\ compactor' = [compactor EXCEPT !.busy = FALSE, !.st = EmptyState]
    /\ UNCHANGED driver

\* An empty summary, an error or Esc: nothing is saved.
CompactGivesUp ==
    /\ compactor.busy
    /\ compactor' = [compactor EXCEPT !.busy = FALSE, !.st = EmptyState]
    /\ UNCHANGED <<row, driver, forced>>

-----------------------------------------------------------------------------
\* What a model call does by itself: the timeouts and the retries are on this
\* list, the answers of the Provider are not.
Progress == SummaryFails \/ Send \/ Fails \/ Retry

Next ==
    \/ \E n \in Prompts : Start(n) \/ Continue(n)
    \/ \E decided \in SUBSET Call : Respond(decided)
    \/ Cancel \/ CancelledAtTop \/ TurnCancelled
    \/ BeforeModel \/ Summarised
    \/ Progress
    \/ Chunk \/ Refused \/ StreamDone
    \/ ResolveBatch \/ BatchDone
    \/ CompactLoad \/ CompactSave \/ CompactGivesUp

Spec == Init /\ [][Next]_vars

FairSpec == Spec /\ WF_vars(Progress)
-----------------------------------------------------------------------------
(* Properties. *)

\* Each assistant message is followed by the results of all its calls, so no
\* follow-up has come between a call and its result.
Contiguous(messages) ==
    \A i, j \in DOMAIN messages :
        /\ i < j
        /\ ~IsResult(messages[j])
        => messages[i].calls \intersect Answered(From(messages, j)) = {}

\* Every Tool result of a request answers a call that the request shows: "the
\* provider never sees an orphaned tool result" (TokenBudget).  Neither trimming
\* nor the cut-off of a compaction may separate them.
NoOrphanResult ==
    pc = "streaming" => Answered(request) \subseteq Issued(request)

\* As far as that goes in the code: while no follow-up call has come between a
\* call and its result, and no /compact has folded a call without its result.
ResultsFollowTheirCalls ==
    Contiguous(st.messages) /\ ~forced => NoOrphanResult

\* A request that does not fit is cut, and no more than it has to be: the next
\* message that was dropped, with the results that stand before it, would not
\* have fitted any more (_trim_request's longest tail).
TrimmedNoFurther ==
    LET whole == Assemble(st)
        dropped == Len(whole) - Len(request)
    IN  /\ pc = "streaming"
        /\ CountRequest(<<SystemMessage>>) <= InputBudget
        =>
        /\ CountRequest(request) <= InputBudget
        /\ \A i \in 2..(dropped + 1) :
               ~IsResult(whole[i]) =>
                   CountRequest(<<SystemMessage>> \o From(whole, i)) > InputBudget

\* A request holds as much of the transcript as fits, and no result without its call.
RequestExact == ResultsFollowTheirCalls /\ TrimmedNoFurther

\* A summary stands for every message that it hides from the Model, however many
\* compactions, automatic and manual, it has been through.
SummaryCoversPrefix ==
    \A c \in {row.st.compaction, st.compaction} : c.covers = 1..c.through

\* What RetryingModel will give back is the text of one attempt: what the
\* Handlers were shown since the last retry, and nothing of an attempt that failed.
AnswerIsLastAttempt ==
    stream.got = Cardinality({i \in DOMAIN stream.shown : stream.shown[i] = stream.attempt})

\* What a turn holds is one history: the summary and the messages after it, and one
\* attempt's answer.
TurnConsistent == TypeOK /\ SummaryCoversPrefix /\ AnswerIsLastAttempt

\* The stored transcript only grows ("the transcript is append-only",
\* CompactionState), except when a /compact saves a state that was loaded before
\* the Run went on in another session: only then are messages lost.
TranscriptKept ==
    [][\/ IsPrefix(row.st.messages, row'.st.messages)
       \/ /\ compactor.busy /\ ~compactor'.busy
          /\ compactor.st.messages # row.st.messages]_vars

\* A model call ends, though the Provider may stop answering at any point:
\* the idle timeout and the bounded retries see to it.
ModelCallEnds ==
    pc \in {"summarising", "sending", "streaming", "backoff"} ~>
        pc \in {"idle", "batch", "top"}

=============================================================================
