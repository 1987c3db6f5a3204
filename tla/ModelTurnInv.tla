---------------------------- MODULE ModelTurnInv ----------------------------
(***************************************************************************)
(* The inductive invariant of ModelTurn: what the stored transcript, the   *)
(* one that the driver holds and the one that a /compact has loaded have   *)
(* to do with each other, and which calls each still has to answer.        *)
(***************************************************************************)
EXTENDS ModelTurn

-----------------------------------------------------------------------------
(* Types. *)

Transcript == Seq({m \in MessageType : m.role # "system"})

\* A summary stands for a prefix of the transcript it is stored with.
State ==
    {s \in [messages : Transcript, compaction : [through : Nat, covers : SUBSET Nat]] :
        /\ s.compaction.through <= Len(s.messages)
        /\ s.compaction.covers = 1..s.compaction.through}

Types ==
    /\ row \in [status : Status, st : State]
    /\ st \in State
    /\ pc \in PC
    /\ request \in Seq(MessageType)
    /\ stream \in [attempt : 1..MaxAttempts, got : 0..MaxChunks, shown : Seq(1..MaxAttempts)]
    /\ batch \in [running : SUBSET Call, ask : SUBSET Call, synthetic : BOOLEAN]
    /\ token \in BOOLEAN
    /\ compactor \in [busy : BOOLEAN, left : 0..MaxCompacts, st : State]
    /\ forced \in BOOLEAN

-----------------------------------------------------------------------------
(* Where the driver is. *)

\* A batch is under way in its place alone, a cut-off has been found for the summary
\* that is awaited, and another attempt is left to back off for.
PlaceInv ==
    /\ row.status = "absent" => row.st = EmptyState /\ pc = "idle" /\ ~compactor.busy
    /\ pc # "batch" => batch = NoBatch
    /\ ~batch.synthetic => batch.running \subseteq 1..MaxCalls
    /\ pc = "summarising" => NextCut # None
    /\ pc = "backoff" => stream.attempt < MaxAttempts

\* What has been shown is of the attempts so far; what is gathered, of this one.
StreamInv ==
    /\ \A i \in DOMAIN stream.shown : stream.shown[i] <= stream.attempt
    /\ AnswerIsLastAttempt

\* The transcript of an attempt does not change under it.
RequestInv == pc \in {"streaming", "backoff"} => request = Trim(Assemble(st))

\* The driver holds what is stored and more, and what a /compact has loaded was stored.
HistoryInv ==
    /\ pc # "idle" => IsPrefix(row.st.messages, st.messages)
    /\ compactor.busy =>
        /\ IsPrefix(compactor.st.messages, row.st.messages)
        /\ compactor.st.compaction.through < Len(compactor.st.messages)

-----------------------------------------------------------------------------
(* Calls and results. *)

\* The messages that no summary hides.
Shown(s) == From(s.messages, s.compaction.through + 1)

\* Calls without a result are shown; so are those of the results that are shown, if
\* every call has its results right behind it.
Sound(s) ==
    /\ Unmatched(s.messages) \subseteq Issued(Shown(s))
    /\ Contiguous(s.messages) => Answered(Shown(s)) \subseteq Issued(Shown(s))

\* A turn starts with every call answered; a batch has all that are not.
PairInv ==
    /\ pc \notin {"idle", "batch"} => Unmatched(st.messages) = {}
    /\ pc = "batch" => Unmatched(st.messages) \subseteq batch.running \union batch.ask
    /\ ~forced =>
        /\ Sound(row.st)
        /\ pc # "idle" => Sound(st)
        /\ pc = "batch" => batch.running \subseteq Issued(Shown(st))

\* The inductive invariant.
IInv == Types /\ PlaceInv /\ StreamInv /\ RequestInv /\ HistoryInv /\ PairInv
=============================================================================
