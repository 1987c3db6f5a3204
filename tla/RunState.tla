------------------------------ MODULE RunState ------------------------------
(***************************************************************************)
(* The pure operations of harness/state.py on a Run's transcript.          *)
(*                                                                         *)
(* A transcript is abstracted to what the harness's decisions depend on:   *)
(* how many model calls it has completed, which Tool calls an assistant    *)
(* message in it issued, and which Tool results it holds.  A result is a   *)
(* pair, so that a transcript with two results for one call is a value the *)
(* model can express.  Prompts, texts and the order of messages are not    *)
(* represented here.                                                       *)
(*                                                                         *)
(* Calls are numbered in the order the Provider issues them, and the       *)
(* follow-up that the harness synthesizes for call c is c + MaxCalls, so   *)
(* among the calls pending in one turn the order of the numbers is the     *)
(* order of the transcript: the model's calls first, then the follow-ups.  *)
(***************************************************************************)
EXTENDS Integers

CONSTANT MaxCalls    \* how many Tool calls the Provider issues in a behaviour

ASSUME MaxCallsAssumption == MaxCalls \in Nat

ModelCall == 1..MaxCalls
Call == 1..(2 * MaxCalls)

\* The id f"{call.id}:follow-up" of the synthetic call.
FollowUp(c) == c + MaxCalls

\* "done" is the Tool's own result (a success or an error it reported),
\* "denied" a result that stands for a refusal, "interrupted" the repair
\* that seal appends.
Outcome == {"done", "denied", "interrupted"}

State == [turns : Nat, issued : SUBSET Call, results : SUBSET (Call \X Outcome)]

\* The transcript of a Run that has only its prompt.
EmptyState == [turns |-> 0, issued |-> {}, results |-> {}]

Resolved(st) == {r[1] : r \in st.results}

\* Mutant of UnmatchedToolCalls: a synthesized call is not seen.
UnmatchedModelCalls(st) == (st.issued \ Resolved(st)) \intersect ModelCall

UnmatchedToolCalls(st) == st.issued \ Resolved(st)

\* The oldest of the pending calls, as a set: the one respond_approval decides.
Oldest(calls) == {c \in calls : \A d \in calls : c <= d}

AppendModelResponse(st, calls) ==
    [st EXCEPT !.turns = @ + 1, !.issued = @ \union calls]

AppendSyntheticToolCalls(st, calls) ==
    [st EXCEPT !.issued = @ \union calls]

AppendToolResults(st, results) ==
    [st EXCEPT !.results = @ \union results]

Seal(st) == AppendToolResults(st, UnmatchedToolCalls(st) \X {"interrupted"})

\* No call has two results, and no result answers a call nobody issued:
\* the transcript is one that a Provider accepts.
WellFormed(st) ==
    /\ Resolved(st) \subseteq st.issued
    /\ \A q, r \in st.results : q[1] = r[1] => q = r
=============================================================================
