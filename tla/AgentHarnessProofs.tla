------------------------- MODULE AgentHarnessProofs -------------------------
(***************************************************************************)
(* Proofs about AgentHarness for every number of sessions, calls and turns,*)
(* every call limit, and every choice of suspend points and disturbances.  *)
(***************************************************************************)
EXTENDS AgentHarnessInv, TLAPS

-----------------------------------------------------------------------------
(* Lemmas about the operations of RunState. *)

LEMMA CallFacts ==
    /\ ModelCall \subseteq Call
    /\ \A c \in ModelCall : FollowUp(c) \in Call /\ FollowUp(c) \notin ModelCall
    /\ \A c, d \in ModelCall : FollowUp(c) = FollowUp(d) => c = d
    /\ Call \subseteq Nat
BY MaxCallsAssumption DEF ModelCall, Call, FollowUp

LEMMA EmptyStateType == EmptyState \in State
BY DEF EmptyState, State

LEMMA AppendTypes ==
    ASSUME NEW state \in State, NEW calls \in SUBSET Call,
           NEW results \in SUBSET (Call \X Outcome)
    PROVE  /\ AppendModelResponse(state, calls) \in State
           /\ AppendSyntheticToolCalls(state, calls) \in State
           /\ AppendToolResults(state, results) \in State
<1>1. /\ state.turns \in Nat /\ state.turns + 1 \in Nat
      /\ state.issued \union calls \in SUBSET Call
      /\ state.results \union results \in SUBSET (Call \X Outcome)
  BY DEF State
<1>2. AppendModelResponse(state, calls) \in State
  BY <1>1 DEF State, AppendModelResponse
<1>3. AppendSyntheticToolCalls(state, calls) \in State
  BY <1>1 DEF State, AppendSyntheticToolCalls
<1>4. AppendToolResults(state, results) \in State
  BY <1>1 DEF State, AppendToolResults
<1>5. QED
  BY <1>2, <1>3, <1>4

LEMMA SealType ==
    ASSUME NEW state \in State
    PROVE  Seal(state) \in State
<1>1. UnmatchedToolCalls(state) \X {"interrupted"} \in SUBSET (Call \X Outcome)
  BY DEF State, UnmatchedToolCalls, Outcome
<1>2. QED
  BY <1>1, AppendTypes DEF Seal

LEMMA UnmatchedType ==
    ASSUME NEW state \in State
    PROVE  UnmatchedToolCalls(state) \in SUBSET Call
BY DEF State, UnmatchedToolCalls

\* Answering calls removes them from the unmatched ones and adds none.
LEMMA UnmatchedAfterResults ==
    ASSUME NEW state \in State, NEW results \in SUBSET (Call \X Outcome)
    PROVE  UnmatchedToolCalls(AppendToolResults(state, results))
             = UnmatchedToolCalls(state) \ Calls(results)
BY DEF State, UnmatchedToolCalls, AppendToolResults, Resolved, Calls

\* seal leaves no call unmatched.
LEMMA SealMatchesAll ==
    ASSUME NEW state \in State
    PROVE  UnmatchedToolCalls(Seal(state)) = {}
<1> DEFINE open == UnmatchedToolCalls(state)
           repair == open \X {"interrupted"}
<1>1. repair \in SUBSET (Call \X Outcome)
  BY DEF State, UnmatchedToolCalls, Outcome
<1>2. open \subseteq Calls(repair)
  <2> SUFFICES ASSUME NEW c \in open PROVE c \in Calls(repair)
    OBVIOUS
  <2>1. <<c, "interrupted">> \in repair /\ <<c, "interrupted">>[1] = c
    OBVIOUS
  <2>2. QED
    BY <2>1 DEF Calls
<1>3. QED
  BY <1>1, <1>2, UnmatchedAfterResults DEF Seal

\* New calls are the only ones that a response or a synthesis can leave open.
LEMMA UnmatchedAfterCalls ==
    ASSUME NEW state \in State, NEW calls \in SUBSET Call
    PROVE  /\ UnmatchedToolCalls(AppendModelResponse(state, calls))
                \subseteq UnmatchedToolCalls(state) \union calls
           /\ UnmatchedToolCalls(AppendSyntheticToolCalls(state, calls))
                \subseteq UnmatchedToolCalls(state) \union calls
BY DEF State, UnmatchedToolCalls, AppendModelResponse, AppendSyntheticToolCalls, Resolved

-----------------------------------------------------------------------------
(* Type correctness: first what the shared parts of the actions assign. *)

LEMMA NoneTypes ==
    /\ NoBatch \in Batch
    /\ NoVerdicts \in [approve : SUBSET Call, deny : SUBSET Call]
BY DEF NoBatch, Batch, NoVerdicts

LEMMA FoldedType ==
    ASSUME ControlTypes, NEW s \in Sessions
    PROVE  Folded(s) \in State
BY AppendTypes DEF ControlTypes, Folded, Batch

LEMMA SaveTypes ==
    ASSUME StoreTypes, NEW state \in State, NEW status \in Status \union {"keep"},
           Save(state, status)
    PROVE  StoreTypes'
<1>1. Coalesce(status) \in Status
  BY DEF StoreTypes, Coalesce
<1>2. QED
  BY <1>1 DEF StoreTypes, Save

LEMMA FinishTypes ==
    ASSUME ControlTypes, NEW s \in Sessions, NEW state \in State,
           NEW status \in Status, Finish(s, state, status)
    PROVE  ControlTypes'
BY NoneTypes DEF ControlTypes, Finish, Goto, PC

LEMMA LeaveTypes ==
    ASSUME ControlTypes, ForegroundTypes, lock \in Sessions \union {None},
           NEW s \in Sessions, NEW p \in PC, Leave(s, p)
    PROVE  /\ ControlTypes'
           /\ lock' \in Sessions \union {None}
           /\ token' \in [Sessions -> BOOLEAN]
<1>1. ControlTypes'
  BY NoneTypes, EmptyStateType DEF ControlTypes, Leave, Goto, Status
<1>2. QED
  BY <1>1 DEF ForegroundTypes, Leave, Released

LEMMA StartBatchTypes ==
    ASSUME ControlTypes, HistoryTypes, NEW s \in Sessions,
           NEW kind \in {"verdict", "model", "synth"},
           NEW runs \in SUBSET Call, NEW denies \in SUBSET Call,
           StartBatch(s, kind, runs, denies)
    PROVE  /\ pc' \in [Sessions -> PC]
           /\ batch' \in [Sessions -> Batch]
           /\ ran' \in [Call -> Nat]
<1>1. denies \X {"denied"} \in SUBSET (Call \X Outcome)
  BY DEF Outcome
<1>2. [kind |-> kind, running |-> runs, resolved |-> denies \X {"denied"},
       folded |-> {}, wants |-> {}, cut |-> FALSE] \in Batch
  BY <1>1 DEF Batch
<1>3. ran' \in [Call -> Nat]
  BY DEF HistoryTypes, StartBatch
<1>4. QED
  BY <1>2, <1>3 DEF ControlTypes, StartBatch, Goto, PC

LEMMA BatchStepTypes ==
    ASSUME NEW b \in Batch
    PROVE  /\ \A c \in Call, wants \in SUBSET Call : Answered(b, c, wants) \in Batch
           /\ \A c \in Call : Stopped(b, c) \in Batch
           /\ \A r \in Call \X Outcome : Appended(b, r) \in Batch
<1>1. ASSUME NEW c \in Call, NEW wants \in SUBSET Call
      PROVE  Answered(b, c, wants) \in Batch
  <2>1. /\ b.running \ {c} \in SUBSET Call
        /\ b.resolved \union {<<c, "done">>} \in SUBSET (Call \X Outcome)
        /\ b.wants \union wants \in SUBSET Call
    BY DEF Batch, Outcome
  <2>2. QED
    BY <2>1 DEF Answered, Batch
<1>2. ASSUME NEW c \in Call PROVE Stopped(b, c) \in Batch
  BY DEF Stopped, Batch
<1>3. ASSUME NEW r \in Call \X Outcome PROVE Appended(b, r) \in Batch
  <2>1. /\ b.resolved \ {r} \in SUBSET (Call \X Outcome)
        /\ b.folded \union {r} \in SUBSET (Call \X Outcome)
    BY DEF Batch
  <2>2. QED
    BY <2>1 DEF Appended, Batch
<1>4. QED
  BY <1>1, <1>2, <1>3

LEMMA AfterBatchTypes ==
    ASSUME ControlTypes, NEW s \in Sessions, NEW state \in State, NEW waiting,
           AfterBatch(s, state, waiting)
    PROVE  ControlTypes'
<1>1. CASE waiting # {}
  <2>1. Finish(s, state, "waiting_for_approval")
    BY <1>1 DEF AfterBatch
  <2>2. QED
    BY <2>1, FinishTypes DEF Status
<1>2. CASE waiting = {}
  <2>1. /\ pc' = [pc EXCEPT ![s] = "top"]
        /\ inLoop' = [inLoop EXCEPT ![s] = TRUE]
        /\ st' = [st EXCEPT ![s] = state]
        /\ batch' = [batch EXCEPT ![s] = NoBatch]
        /\ verdicts' = [verdicts EXCEPT ![s] = NoVerdicts]
        /\ ask' = ask /\ outcome' = outcome
    BY <1>2 DEF AfterBatch, Goto
  <2>2. QED
    BY <2>1, NoneTypes DEF ControlTypes, PC
<1>3. QED
  BY <1>1, <1>2

LEMMA ClaimTypes ==
    ASSUME StoreTypes, ControlTypes, NEW s \in Sessions, NEW state \in State,
           NEW given \in [approve : SUBSET Call, deny : SUBSET Call],
           Command(s), Claim(s, state, given)
    PROVE  /\ StoreTypes' /\ ControlTypes'
           /\ lock' \in Sessions
BY DEF StoreTypes, ControlTypes, Command, Claim, Goto, PC

LEMMA AskTypes ==
    ASSUME HistoryTypes, NEW calls \in SUBSET Call, Ask(calls)
    PROVE  consent' \in [Call -> {"none", "asked", "approved", "denied"}]
BY DEF HistoryTypes, Ask

\* Every action of a session keeps every variable in its type.
LEMMA TypeStep ==
    ASSUME TypeOK, \A s \in Sessions : BatchInv(s), [Next]_vars
    PROVE  TypeOK'
<1> USE DEF TypeOK
<1>start. ASSUME NEW s \in Sessions, StartNew(s) PROVE TypeOK'
  BY <1>start, SaveTypes, EmptyStateType
  DEF StartNew, ControlTypes, ForegroundTypes, HistoryTypes, Goto, PC, Status, history
<1>started. ASSUME NEW s \in Sessions, RunStarted(s) PROVE TypeOK'
  BY <1>started, SaveTypes, EmptyStateType
  DEF RunStarted, ControlTypes, ForegroundTypes, HistoryTypes, Goto, PC, Status,
      foreground, history
<1>continue. ASSUME NEW s \in Sessions, ContinueWith(s) PROVE TypeOK'
  <2>1. ResumeState(row) \in State
    BY SealType DEF StoreTypes, ResumeState
  <2>2. QED
    BY <1>continue, <2>1, ClaimTypes, NoneTypes
    DEF ContinueWith, Command, ForegroundTypes, HistoryTypes, history
<1>respond. ASSUME NEW s \in Sessions, RespondApproval(s) PROVE TypeOK'
  <2> DEFINE oldest == Oldest(UnmatchedToolCalls(row.st))
  <2>1. row.st \in State /\ oldest \in SUBSET Call
    BY UnmatchedType DEF StoreTypes, Oldest
  <2>2. PICK given \in [approve : SUBSET Call, deny : SUBSET Call] :
           Claim(s, row.st, given)
    BY <1>respond, <2>1 DEF RespondApproval
  <2>3. QED
    BY <1>respond, <2>1, <2>2, ClaimTypes
    DEF RespondApproval, Command, ForegroundTypes, HistoryTypes, history
<1>responds. ASSUME NEW s \in Sessions, RespondApprovals(s) PROVE TypeOK'
  <2>1. row.st \in State /\ UnmatchedToolCalls(row.st) \in SUBSET Call
    BY UnmatchedType DEF StoreTypes
  <2>2. PICK given \in [approve : SUBSET Call, deny : SUBSET Call] :
           Claim(s, row.st, given)
    BY <1>responds, <2>1 DEF RespondApprovals
  <2>3. QED
    BY <1>responds, <2>1, <2>2, ClaimTypes
    DEF RespondApprovals, Command, ForegroundTypes, HistoryTypes, history
<1>refused. ASSUME NEW s \in Sessions, CommandRefused(s) PROVE TypeOK'
  BY <1>refused
  DEF CommandRefused, Command, StoreTypes, ControlTypes, ForegroundTypes, HistoryTypes,
      store, history
<1>prepare. ASSUME NEW s \in Sessions, PrepareResume(s) PROVE TypeOK'
  <2>1. st[s] \in State
    BY DEF ControlTypes
  <2>2. QED
    BY <1>prepare, <2>1, SaveTypes
    DEF PrepareResume, ControlTypes, ForegroundTypes, HistoryTypes, Goto, PC, Status,
        foreground, history
<1>conflict. ASSUME NEW s \in Sessions, PrepareResumeConflict(s) PROVE TypeOK'
  BY <1>conflict, LeaveTypes
  DEF PrepareResumeConflict, StoreTypes, ForegroundTypes, HistoryTypes, PC, store, history
<1>nothing. ASSUME NEW s \in Sessions, NothingPending(s) PROVE TypeOK'
  BY <1>nothing, NoneTypes
  DEF NothingPending, StoreTypes, ControlTypes, ForegroundTypes, HistoryTypes, Goto, PC,
      store, foreground, history
<1>finish. ASSUME NEW s \in Sessions, NEW status \in Status,
                  Finish(s, st[s], status), OnlyControlMoves
           PROVE  TypeOK'
  <2>1. st[s] \in State
    BY DEF ControlTypes
  <2>2. QED
    BY <1>finish, <2>1, FinishTypes
    DEF OnlyControlMoves, StoreTypes, ForegroundTypes, HistoryTypes, store, foreground,
        history
<1>apply. ASSUME NEW s \in Sessions, ApplyVerdicts(s) PROVE TypeOK'
  <2> DEFINE pending == UnmatchedToolCalls(st[s])
             decided == pending \intersect Judged(s)
  <2>1. pending \in SUBSET Call
    BY UnmatchedType DEF ControlTypes
  <2> DEFINE yes == decided \intersect Approved(s)
             no == decided \ Approved(s)
  <2>2. StartBatch(s, "verdict", yes, no) /\ yes \in SUBSET Call /\ no \in SUBSET Call
    BY <1>apply, <2>1 DEF ApplyVerdicts
  <2> HIDE DEF yes, no
  <2>3. /\ pc' \in [Sessions -> PC]
        /\ batch' \in [Sessions -> Batch]
        /\ ran' \in [Call -> Nat]
    BY <2>1, <2>2, StartBatchTypes
  <2>4. consent' \in [Call -> {"none", "asked", "approved", "denied"}]
    BY <1>apply DEF ApplyVerdicts, HistoryTypes
  <2>5. ask' \in [Sessions -> SUBSET Call]
    BY <1>apply, <2>1 DEF ApplyVerdicts, ControlTypes
  <2>6. QED
    BY <1>apply, <2>3, <2>4, <2>5
    DEF ApplyVerdicts, StoreTypes, ControlTypes, ForegroundTypes, HistoryTypes, store,
        foreground
<1>turn. ASSUME NEW s \in Sessions, TurnStart(s) PROVE TypeOK'
  <2>1. CASE pc' = [pc EXCEPT ![s] = "model"] /\ UNCHANGED <<st, inLoop, verdicts, ask, batch, outcome>>
    BY <1>turn, <2>1
    DEF TurnStart, OnlyControlMoves, StoreTypes, ControlTypes, ForegroundTypes,
        HistoryTypes, PC, store, foreground, history
  <2>2. CASE \E status \in Status : Finish(s, st[s], status)
    BY <1>turn, <2>2, <1>finish DEF TurnStart
  <2>3. QED
    BY <1>turn, <2>1, <2>2 DEF TurnStart, Goto, Status
<1>model. ASSUME NEW s \in Sessions, ModelResponds(s) PROVE TypeOK'
  <2>1. PICK n \in minted .. MaxCalls :
           /\ minted' = n
           /\ st' = [st EXCEPT ![s] = AppendModelResponse(st[s], minted + 1 .. n)]
           /\ Save(AppendModelResponse(st[s], minted + 1 .. n), "keep")
           /\ ask' = [ask EXCEPT ![s] = minted + 1 .. n]
    BY <1>model DEF ModelResponds
  <2>2. /\ n \in 0 .. MaxCalls
        /\ minted + 1 .. n \in SUBSET Call
    BY <2>1, MaxCallsAssumption DEF Call
  <2>3. AppendModelResponse(st[s], minted + 1 .. n) \in State
    BY <2>2, AppendTypes DEF ControlTypes
  <2>4. StoreTypes'
    BY <2>1, <2>3, SaveTypes
  <2>5. QED
    BY <1>model, <2>1, <2>2, <2>3, <2>4
    DEF ModelResponds, ControlTypes, ForegroundTypes, HistoryTypes, Goto, PC, foreground,
        history
<1>decide. ASSUME NEW s \in Sessions, Decide(s) PROVE TypeOK'
  <2>1. PICK d \in [ask[s] -> Decision] :
           /\ Ask(Decided(d, "NEEDS_APPROVAL"))
           /\ \/ /\ StartBatch(s, "model", Decided(d, "ALLOW"), Decided(d, "DENY"))
                 /\ ask' = [ask EXCEPT ![s] = Decided(d, "NEEDS_APPROVAL")]
                 /\ UNCHANGED <<st, inLoop, verdicts, outcome>>
              \/ /\ Finish(s, st[s], "waiting_for_approval")
                 /\ UNCHANGED ran
    BY <1>decide DEF Decide
  <2>2. /\ st[s] \in State
        /\ \A decision \in Decision : Decided(d, decision) \in SUBSET Call
    BY <2>1 DEF ControlTypes, Decided
  <2>3. consent' \in [Call -> {"none", "asked", "approved", "denied"}]
    BY <2>1, <2>2, AskTypes DEF Decision
  <2>4. ControlTypes' /\ ran' \in [Call -> Nat]
    <3>1. CASE /\ StartBatch(s, "model", Decided(d, "ALLOW"), Decided(d, "DENY"))
               /\ ask' = [ask EXCEPT ![s] = Decided(d, "NEEDS_APPROVAL")]
               /\ UNCHANGED <<st, inLoop, verdicts, outcome>>
      <4>1. /\ pc' \in [Sessions -> PC]
            /\ batch' \in [Sessions -> Batch]
            /\ ran' \in [Call -> Nat]
        BY <2>2, <3>1, StartBatchTypes DEF Decision
      <4>2. QED
        BY <2>2, <3>1, <4>1 DEF ControlTypes, Decision
    <3>2. CASE Finish(s, st[s], "waiting_for_approval") /\ UNCHANGED ran
      BY <2>2, <3>2, FinishTypes DEF HistoryTypes, Status
    <3>3. QED
      BY <2>1, <3>1, <3>2
  <2>5. QED
    BY <1>decide, <2>3, <2>4
    DEF Decide, StoreTypes, ForegroundTypes, HistoryTypes, store, foreground
<1>returns. ASSUME NEW s \in Sessions, NEW c \in Call, ToolReturns(s, c) PROVE TypeOK'
  <2>1. PICK wants \in {{}, {c}} :
           batch' = [batch EXCEPT ![s] = Answered(@, c, wants)]
    BY <1>returns DEF ToolReturns
  <2>2. Answered(batch[s], c, wants) \in Batch
    BY BatchStepTypes DEF ControlTypes
  <2>3. batch' \in [Sessions -> Batch]
    BY <2>1, <2>2 DEF ControlTypes
  <2>4. QED
    BY <1>returns, <2>3
    DEF ToolReturns, StoreTypes, ControlTypes, ForegroundTypes, HistoryTypes, store,
        foreground
<1>cut. ASSUME NEW s \in Sessions, NEW c \in Call, ToolCut(s, c) PROVE TypeOK'
  <2>1. Stopped(batch[s], c) \in Batch
    BY BatchStepTypes DEF ControlTypes
  <2>2. batch' \in [Sessions -> Batch]
    BY <1>cut, <2>1 DEF ToolCut, ControlTypes
  <2>3. QED
    BY <1>cut, <2>2
    DEF ToolCut, StoreTypes, ControlTypes, ForegroundTypes, HistoryTypes, store,
        foreground, history
<1>gathered. ASSUME NEW s \in Sessions, Gathered(s) PROVE TypeOK'
  BY <1>gathered
  DEF Gathered, StoreTypes, ControlTypes, ForegroundTypes, HistoryTypes, Goto, PC, store,
      foreground, history
<1>fold. ASSUME NEW s \in Sessions, FoldResult(s) PROVE TypeOK'
  <2>1. PICK r \in batch[s].resolved :
           /\ batch' = [batch EXCEPT ![s] = Appended(@, r)]
           /\ Save(AfterTool(s, r), "keep")
    BY <1>fold DEF FoldResult
  <2>2. r \in Call \X Outcome
    BY <2>1 DEF ControlTypes, Batch
  <2>3. AfterTool(s, r) \in State
    BY <2>2, FoldedType, AppendTypes DEF AfterTool
  <2>4. StoreTypes'
    BY <2>1, <2>3, SaveTypes
  <2>5. Appended(batch[s], r) \in Batch
    BY <2>2, BatchStepTypes DEF ControlTypes
  <2>6. batch' \in [Sessions -> Batch]
    BY <2>1, <2>5 DEF ControlTypes
  <2>7. QED
    BY <1>fold, <2>4, <2>6
    DEF FoldResult, ControlTypes, ForegroundTypes, HistoryTypes, foreground, history
<1>batchCancelled. ASSUME NEW s \in Sessions, BatchCancelled(s) PROVE TypeOK'
  BY <1>batchCancelled, FoldedType, FinishTypes
  DEF BatchCancelled, OnlyControlMoves, Status, StoreTypes, ForegroundTypes, HistoryTypes,
      store, foreground, history
<1>done. ASSUME NEW s \in Sessions, BatchDone(s) PROVE TypeOK'
  <2>1. wanted' \subseteq Call
    BY <1>done DEF BatchDone, HistoryTypes, ControlTypes, Batch
  <2>2. QED
    BY <1>done, <2>1, FoldedType, AfterBatchTypes
    DEF BatchDone, StoreTypes, ForegroundTypes, HistoryTypes, store, foreground
<1>synthesize. ASSUME NEW s \in Sessions, Synthesize(s) PROVE TypeOK'
  <2> DEFINE calls == {FollowUp(c) : c \in FollowUpSources(s)}
             grown == AppendSyntheticToolCalls(Folded(s), calls)
  <2>1. PICK d \in [calls -> Decision] :
           /\ Ask(Decided(d, "NEEDS_APPROVAL"))
           /\ \/ /\ StartBatch(s, "synth", Decided(d, "ALLOW"), Decided(d, "DENY"))
                 /\ ask' = [ask EXCEPT ![s] = @ \union Decided(d, "NEEDS_APPROVAL")]
                 /\ st' = [st EXCEPT ![s] = grown]
                 /\ UNCHANGED <<inLoop, verdicts, outcome>>
              \/ /\ AfterBatch(s, grown, ask[s] \union Decided(d, "NEEDS_APPROVAL"))
                 /\ UNCHANGED ran
    BY <1>synthesize DEF Synthesize
  <2>2. /\ calls \in SUBSET Call
        /\ \A decision \in Decision : Decided(d, decision) \in SUBSET Call
    <3>1. FollowUpSources(s) \in SUBSET ModelCall
      BY <1>synthesize DEF Synthesize, At, BatchInv, FollowUpSources
    <3>2. calls \in SUBSET Call
      BY <3>1, CallFacts
    <3>3. QED
      BY <2>1, <3>2 DEF Decided
  <2>3. grown \in State
    BY <2>2, FoldedType, AppendTypes
  <2>4. consent' \in [Call -> {"none", "asked", "approved", "denied"}]
    BY <2>1, <2>2, AskTypes DEF Decision
  <2>5. wanted' \subseteq Call
    BY <1>synthesize DEF Synthesize, HistoryTypes, ControlTypes, Batch
  <2>6. ControlTypes' /\ ran' \in [Call -> Nat]
    <3>1. CASE /\ StartBatch(s, "synth", Decided(d, "ALLOW"), Decided(d, "DENY"))
               /\ ask' = [ask EXCEPT ![s] = @ \union Decided(d, "NEEDS_APPROVAL")]
               /\ st' = [st EXCEPT ![s] = grown]
               /\ UNCHANGED <<inLoop, verdicts, outcome>>
      <4>1. /\ pc' \in [Sessions -> PC]
            /\ batch' \in [Sessions -> Batch]
            /\ ran' \in [Call -> Nat]
        BY <2>2, <3>1, StartBatchTypes DEF Decision
      <4>2. QED
        BY <2>2, <2>3, <3>1, <4>1 DEF ControlTypes, Decision
    <3>2. CASE /\ AfterBatch(s, grown, ask[s] \union Decided(d, "NEEDS_APPROVAL"))
               /\ UNCHANGED ran
      BY <2>3, <3>2, AfterBatchTypes DEF HistoryTypes
    <3>3. QED
      BY <2>1, <3>1, <3>2
  <2>7. QED
    BY <1>synthesize, <2>4, <2>5, <2>6
    DEF Synthesize, StoreTypes, ForegroundTypes, HistoryTypes, store, foreground
<1>terminal. ASSUME NEW s \in Sessions, Terminal(s) PROVE TypeOK'
  <2>1. st[s] \in State /\ outcome[s] \in Status
    BY DEF ControlTypes
  <2>2. QED
    BY <1>terminal, <2>1, SaveTypes
    DEF Terminal, ControlTypes, ForegroundTypes, HistoryTypes, Goto, PC, foreground,
        history
<1>return. ASSUME NEW s \in Sessions, Return(s) PROVE TypeOK'
  BY <1>return, LeaveTypes
  DEF Return, StoreTypes, ForegroundTypes, HistoryTypes, PC, store, history
<1>cancel. ASSUME NEW s \in Sessions, Cancel(s) PROVE TypeOK'
  BY <1>cancel
  DEF Cancel, Disturb, StoreTypes, ControlTypes, ForegroundTypes, HistoryTypes, store,
      control, history
<1>interrupt. ASSUME NEW s \in Sessions, InterruptLoop(s) PROVE TypeOK'
  <2>1. ControlTypes'
    BY <1>interrupt, FinishTypes DEF InterruptLoop, ControlTypes, Status
  <2>2. QED
    BY <1>interrupt, <2>1
    DEF InterruptLoop, Disturb, StoreTypes, ForegroundTypes, HistoryTypes, store, history
<1>abandon. ASSUME NEW s \in Sessions, InterruptPreparation(s) PROVE TypeOK'
  BY <1>abandon, LeaveTypes
  DEF InterruptPreparation, Disturb, StoreTypes, ForegroundTypes, HistoryTypes, PC, store,
      history
<1>sealRead. ASSUME NEW s \in Sessions, SealRead(s)
             PROVE  sealing' \in [Sessions -> State \union {NoSeal}]
  BY <1>sealRead DEF SealRead, StoreTypes
<1>aborted. ASSUME NEW s \in Sessions, ShutdownAfterAbort(s) PROVE TypeOK'
  BY <1>aborted, <1>sealRead
  DEF ShutdownAfterAbort, StoreTypes, ControlTypes, ForegroundTypes, HistoryTypes, Goto,
      PC, store, foreground, history
<1>sealWrite. ASSUME NEW s \in Sessions, SealWrite(s) PROVE TypeOK'
  <2>1. Seal(sealing[s]) \in State
    BY <1>sealWrite, SealType DEF SealWrite
  <2>2. QED
    BY <1>sealWrite, <2>1, SaveTypes
    DEF SealWrite, ControlTypes, ForegroundTypes, HistoryTypes, Status, control,
        foreground, history
<1>shutdown. ASSUME NEW s \in Sessions, Shutdown(s) PROVE TypeOK'
  BY <1>shutdown, <1>sealRead
  DEF Shutdown, Disturb, StoreTypes, ControlTypes, ForegroundTypes, HistoryTypes, store,
      control, history
<1>restart. ASSUME NEW s \in Sessions, Restart(s) PROVE TypeOK'
  BY <1>restart
  DEF Restart, StoreTypes, ControlTypes, ForegroundTypes, HistoryTypes, store, control,
      history
<1>crash. ASSUME NEW s \in Sessions, Crash(s) PROVE TypeOK'
  BY <1>crash, LeaveTypes
  DEF Crash, Disturb, StoreTypes, ForegroundTypes, HistoryTypes, PC, store, history
<1>saveFails. ASSUME NEW s \in Sessions, SaveFailsOutside(s) PROVE TypeOK'
  BY <1>saveFails, LeaveTypes
  DEF SaveFailsOutside, Propagate, Disturb, StoreTypes, ForegroundTypes, HistoryTypes, PC,
      store, history
<1>failed. ASSUME NEW s \in Sessions, NEW state \in State, Finish(s, state, "failed"),
                  minted' \in 0 .. MaxCalls, Disturb,
                  UNCHANGED <<store, lock, foreground, sealing, history>>
           PROVE  TypeOK'
  BY <1>failed, FinishTypes
  DEF Disturb, Status, StoreTypes, ForegroundTypes, HistoryTypes, store, foreground,
      history
<1>foldFails. ASSUME NEW s \in Sessions, FoldSaveFails(s) PROVE TypeOK'
  BY <1>foldFails, <1>failed DEF FoldSaveFails, ControlTypes
<1>terminalFails. ASSUME NEW s \in Sessions, TerminalSaveFails(s) PROVE TypeOK'
  BY <1>terminalFails, <1>failed DEF TerminalSaveFails, ControlTypes
<1>modelFails. ASSUME NEW s \in Sessions, ModelSaveFails(s) PROVE TypeOK'
  <2>1. PICK n \in minted .. MaxCalls :
           /\ minted' = n
           /\ Finish(s, AppendModelResponse(st[s], minted + 1 .. n), "failed")
    BY <1>modelFails DEF ModelSaveFails
  <2>2. /\ n \in 0 .. MaxCalls
        /\ minted + 1 .. n \in SUBSET Call
    BY <2>1, MaxCallsAssumption DEF Call
  <2>3. AppendModelResponse(st[s], minted + 1 .. n) \in State
    BY <2>2, AppendTypes DEF ControlTypes
  <2>4. QED
    BY <1>modelFails, <1>failed, <2>1, <2>2, <2>3 DEF ModelSaveFails
<1>stutter. ASSUME UNCHANGED vars PROVE TypeOK'
  BY <1>stutter
  DEF vars, StoreTypes, ControlTypes, ForegroundTypes, HistoryTypes, store, control,
      foreground, history
<1>finishing. ASSUME NEW s \in Sessions,
                     \/ ApprovalCancelled(s) \/ StillPending(s) \/ ModelInterrupted(s)
                     \/ NoToolCalls(s) \/ CancelledAfterModel(s) \/ ModelFails(s)
              PROVE  TypeOK'
  <2>1. PICK status \in Status : Finish(s, st[s], status) /\ OnlyControlMoves
    BY <1>finishing
    DEF ApprovalCancelled, StillPending, ModelInterrupted, NoToolCalls,
        CancelledAfterModel, ModelFails, Status
  <2>2. QED
    BY <2>1, <1>finish
<1>qed. QED
  <2>1. ASSUME NEW s \in Sessions, Drive(s) PROVE TypeOK'
    BY <2>1, <1>started, <1>prepare, <1>conflict, <1>nothing, <1>apply, <1>turn, <1>decide,
       <1>cut, <1>gathered, <1>fold, <1>batchCancelled, <1>done, <1>synthesize,
       <1>terminal, <1>return, <1>aborted, <1>sealWrite, <1>finishing DEF Drive
  <2>2. ASSUME NEW s \in Sessions, Provider(s) \/ Tool(s) PROVE TypeOK'
    BY <2>2, <1>model, <1>finishing, <1>returns DEF Provider, Tool
  <2>3. ASSUME NEW s \in Sessions, User(s) PROVE TypeOK'
    BY <2>3, <1>start, <1>continue, <1>respond, <1>responds, <1>refused, <1>cancel,
       <1>shutdown, <1>restart, <1>interrupt, <1>abandon DEF User
  <2>4. ASSUME NEW s \in Sessions, Fault(s) PROVE TypeOK'
    BY <2>4, <1>crash, <1>saveFails, <1>foldFails, <1>modelFails, <1>terminalFails
    DEF Fault
  <2>5. QED
    BY <1>stutter, <2>1, <2>2, <2>3, <2>4 DEF Next

-----------------------------------------------------------------------------
(* The inductive invariant: what the shared parts of the actions preserve. *)

\* Only the session that holds the claim is anywhere but idle or aborted.
LEMMA OthersQuiet ==
    ASSUME TypeOK, ClaimInv, NEW s \in Sessions, lock \in {s, None},
           NEW t \in Sessions, t # s
    PROVE  pc[t] \in {"idle", "aborted"}
BY ConstantsAssumption DEF ClaimInv

\* Nothing is asked of a session that is quiet, starting or ending.
LEMMA QuietInv ==
    ASSUME NEW s \in Sessions, pc[s] \in {"idle", "aborted", "starting", "ending"}
    PROVE  SessionInv(s)
BY DEF SessionInv, RunningInv, PreparedInv, TurnInv, DecideInv, BatchInv, HaltInv

\* A step of the claiming session leaves the others quiet.
LEMMA OthersInv ==
    ASSUME TypeOK, ClaimInv, NEW s \in Sessions, lock \in {s, None},
           NEW p, pc' = [pc EXCEPT ![s] = p]
    PROVE  \A t \in Sessions \ {s} : pc'[t] \in {"idle", "aborted"} /\ SessionInv(t)'
<1> SUFFICES ASSUME NEW t \in Sessions \ {s}
             PROVE  pc'[t] \in {"idle", "aborted"} /\ SessionInv(t)'
  OBVIOUS
<1>1. pc'[t] \in {"idle", "aborted"}
  BY OthersQuiet DEF TypeOK, ControlTypes
<1>2. QED
  BY <1>1, QuietInv
  DEF SessionInv, RunningInv, PreparedInv, TurnInv, DecideInv, BatchInv, HaltInv

\* The claim stays with the session whose step it is.
LEMMA ClaimStep ==
    ASSUME TypeOK, ClaimInv, NEW s \in Sessions, lock \in {s, None}, lock' = s,
           NEW p, pc' = [pc EXCEPT ![s] = p]
    PROVE  ClaimInv'
BY OthersInv DEF ClaimInv, TypeOK, ControlTypes

LEMMA LeaveInv ==
    ASSUME TypeOK, SharedInv, \A t \in Sessions : SessionInv(t), NEW s \in Sessions,
           NEW p \in {"idle", "aborted"}, Leave(s, p),
           UNCHANGED <<row, minted, ran, consent>>
    PROVE  SharedInv' /\ \A t \in Sessions : SessionInv(t)'
<1>1. pc' = [pc EXCEPT ![s] = p] /\ pc \in [Sessions -> PC]
  BY DEF Leave, Goto, TypeOK, ControlTypes
<1>2. ClaimInv'
  BY <1>1 DEF SharedInv, ClaimInv, Leave, Released
<1>3. SharedInv'
  BY <1>2
  DEF SharedInv, ToolRunsOnce, ConsentBeforeRun, MintedInv, WaitingInv, Untouched,
      Awaiting, NeverRan, Known
<1>4. ASSUME NEW t \in Sessions PROVE SessionInv(t)'
  <2>1. CASE t = s
    BY <1>1, <2>1
    DEF SessionInv, RunningInv, PreparedInv, TurnInv, DecideInv, BatchInv, HaltInv
  <2>2. CASE t # s
    <3>1. /\ pc'[t] = pc[t] /\ st'[t] = st[t] /\ ask'[t] = ask[t]
          /\ batch'[t] = batch[t] /\ outcome'[t] = outcome[t]
      BY <2>2 DEF Leave, Goto, TypeOK, ControlTypes
    <3>2. QED
      BY <3>1
      DEF SessionInv, RunningInv, PreparedInv, TurnInv, DecideInv, BatchInv, HaltInv,
          Awaiting, NeverRan, Known, Untouched, Accounted
  <2>3. QED
    BY <2>1, <2>2
<1>5. QED
  BY <1>3, <1>4

\* More calls may exist after a step than before it.
LEMMA KnownGrows ==
    ASSUME minted \in Int, minted' \in Int, minted <= minted'
    PROVE  Known \subseteq Known'
BY DEF Known, FollowUp

\* finish_* with a state whose pending calls have not run, if the Run halts.
LEMMA FinishInv ==
    ASSUME TypeOK, SharedInv, NEW s \in Sessions, lock = s, lock' = lock,
           NEW state, NEW status, Finish(s, state, status),
           status = "waiting_for_approval" => Awaiting(UnmatchedToolCalls(state)),
           UNCHANGED <<row, ran, consent>>, minted' \in Int, minted <= minted'
    PROVE  SharedInv' /\ \A t \in Sessions : SessionInv(t)'
<1>1. pc' = [pc EXCEPT ![s] = "finish"] /\ pc'[s] = "finish"
  BY DEF Finish, Goto, TypeOK, ControlTypes
<1>2. minted \in Int /\ Known \subseteq Known'
  BY KnownGrows, MaxCallsAssumption DEF TypeOK
<1>3. ClaimInv'
  BY <1>1, ClaimStep DEF SharedInv
<1>4. SharedInv'
  BY <1>2, <1>3
  DEF SharedInv, ToolRunsOnce, ConsentBeforeRun, MintedInv, WaitingInv, Untouched,
      Awaiting, NeverRan, ModelCall
<1>5. SessionInv(s)'
  <2>1. st'[s] = state /\ outcome'[s] = status
    BY DEF Finish, TypeOK, ControlTypes
  <2>2. HaltInv(s)'
    BY <1>2, <2>1 DEF HaltInv, Awaiting, NeverRan
  <2>3. QED
    BY <1>1, <2>2 DEF SessionInv, RunningInv, PreparedInv, TurnInv, DecideInv, BatchInv
<1>6. QED
  BY <1>1, <1>4, <1>5, OthersInv DEF SharedInv

\* A step that moves neither a session's control nor the histories, and writes
\* the row at most with a status that does not wait.
LEMMA FrameInv ==
    ASSUME SharedInv, \A t \in Sessions : SessionInv(t),
           UNCHANGED <<lock, minted, pc, st, ask, batch, outcome, ran, consent>>,
           row' = row \/ row'.status # "waiting_for_approval"
    PROVE  SharedInv' /\ \A t \in Sessions : SessionInv(t)'
<1>1. SharedInv'
  BY DEF SharedInv, ToolRunsOnce, ConsentBeforeRun, ClaimInv, MintedInv, WaitingInv,
         Untouched, Awaiting, NeverRan, Known
<1>2. \A t \in Sessions : SessionInv(t)'
  BY DEF SessionInv, RunningInv, PreparedInv, TurnInv, DecideInv, BatchInv, HaltInv,
         Awaiting, NeverRan, Known, Untouched, Accounted
<1>3. QED
  BY <1>1, <1>2
\* A step by which the session takes the claim, or keeps it, and after which its
\* own part of the invariant holds.
LEMMA OwnStep ==
    ASSUME TypeOK, SharedInv, NEW s \in Sessions, lock \in {s, None}, lock' = s,
           NEW p, pc' = [pc EXCEPT ![s] = p], UNCHANGED <<minted, ran, consent>>,
           WaitingInv', SessionInv(s)'
    PROVE  SharedInv' /\ \A t \in Sessions : SessionInv(t)'
<1>1. ClaimInv'
  BY ClaimStep DEF SharedInv
<1>2. SharedInv'
  BY <1>1
  DEF SharedInv, ToolRunsOnce, ConsentBeforeRun, MintedInv, Untouched
<1>3. QED
  BY <1>2, OthersInv DEF SharedInv

\* A Tool batch starts only calls that have never run and that nobody refused.
LEMMA StartedInv ==
    ASSUME TypeOK, SharedInv, NEW s \in Sessions,
           NEW kind, NEW runs \in SUBSET Call, NEW denies,
           StartBatch(s, kind, runs, denies), NeverRan(runs), minted' = minted,
           consent' \in [Call -> {"none", "asked", "approved", "denied"}],
           \A c \in runs : consent'[c] \in {"none", "approved"},
           \A c \in Call : consent'[c] # consent[c] => c \in Known /\ ran[c] = 0
    PROVE  /\ ToolRunsOnce' /\ ConsentBeforeRun' /\ MintedInv'
           /\ \A c \in Call : ran'[c] = ran[c] + IF c \in runs THEN 1 ELSE 0
<1>1. /\ ran \in [Call -> Nat]
      /\ \A c \in Call : ran'[c] = ran[c] + IF c \in runs THEN 1 ELSE 0
  BY DEF StartBatch, TypeOK, HistoryTypes
<1>2. ToolRunsOnce'
  BY <1>1 DEF SharedInv, ToolRunsOnce, NeverRan
<1>3. ConsentBeforeRun'
  <2> SUFFICES ASSUME NEW c \in Call, ran'[c] > 0
               PROVE  consent'[c] \in {"none", "approved"}
    BY DEF ConsentBeforeRun
  <2>1. CASE c \in runs
    BY <2>1
  <2>2. CASE c \notin runs
    <3>1. ran[c] > 0 /\ consent'[c] = consent[c]
      BY <1>1, <2>2
    <3>2. QED
      BY <3>1 DEF SharedInv, ConsentBeforeRun
  <2>3. QED
    BY <2>1, <2>2
<1>4. MintedInv'
  <2> SUFFICES ASSUME NEW c \in ModelCall, c > minted
               PROVE  Untouched(c)' /\ Untouched(FollowUp(c))'
    BY DEF MintedInv
  <2>1. c \notin Known /\ FollowUp(c) \notin Known
    BY MaxCallsAssumption DEF Known, ModelCall, FollowUp, TypeOK
  <2>2. c \in Call /\ FollowUp(c) \in Call
    BY CallFacts
  <2>3. Untouched(c) /\ Untouched(FollowUp(c))
    BY DEF SharedInv, MintedInv
  <2>4. QED
    BY <1>1, <2>1, <2>2, <2>3 DEF Untouched, NeverRan
<1>5. QED
  BY <1>1, <1>2, <1>3, <1>4

\* Calls outside the batch that starts wait for the user once they are asked.
LEMMA AwaitingStep ==
    ASSUME NEW runs \in SUBSET Call, NEW calls \in SUBSET Call, minted' = minted,
           \A c \in Call : ran'[c] = ran[c] + IF c \in runs THEN 1 ELSE 0,
           ran \in [Call -> Nat], NeverRan(calls), calls \intersect runs = {},
           \A c \in calls : consent'[c] = "asked"
    PROVE  Awaiting(calls)'
BY DEF Awaiting, NeverRan, Known

LEMMA FoldedUnmatched ==
    ASSUME TypeOK, NEW s \in Sessions
    PROVE  UnmatchedToolCalls(Folded(s))
             = UnmatchedToolCalls(st[s]) \ Calls(batch[s].folded)
BY UnmatchedAfterResults DEF Folded, TypeOK, ControlTypes, Batch

LEMMA DeniedCalls ==
    ASSUME NEW calls
    PROVE  Calls(calls \X {"denied"}) = calls
<1>1. ASSUME NEW c \in calls PROVE c \in Calls(calls \X {"denied"})
  <2>1. <<c, "denied">> \in calls \X {"denied"} /\ <<c, "denied">>[1] = c
    OBVIOUS
  <2>2. QED
    BY <2>1 DEF Calls
<1>2. Calls(calls \X {"denied"}) \subseteq calls
  BY DEF Calls
<1>3. QED
  BY <1>1, <1>2

\* The policy asks the user about calls that exist and have never run.
LEMMA UnchangedRuns ==
    ASSUME TypeOK, SharedInv, UNCHANGED <<minted, ran>>,
           consent' \in [Call -> {"none", "asked", "approved", "denied"}],
           \A c \in Call : consent'[c] # consent[c] => ran'[c] = 0 /\ c \in Known
    PROVE  ToolRunsOnce' /\ ConsentBeforeRun' /\ MintedInv'
<1>1. ToolRunsOnce' /\ ConsentBeforeRun'
  BY DEF SharedInv, ToolRunsOnce, ConsentBeforeRun, TypeOK, HistoryTypes
<1>2. ASSUME NEW c \in ModelCall, c > minted
      PROVE  Untouched(c)' /\ Untouched(FollowUp(c))'
  <2>1. c \notin Known /\ FollowUp(c) \notin Known
    BY <1>2, MaxCallsAssumption DEF Known, ModelCall, FollowUp, TypeOK
  <2>2. c \in Call /\ FollowUp(c) \in Call
    BY CallFacts
  <2>3. Untouched(c) /\ Untouched(FollowUp(c))
    BY <1>2 DEF SharedInv, MintedInv
  <2>4. QED
    BY <2>1, <2>2, <2>3 DEF Untouched
<1>3. QED
  BY <1>1, <1>2 DEF MintedInv

LEMMA AnsweredCalls ==
    ASSUME NEW results, NEW c
    PROVE  Calls(results \union {<<c, "done">>}) = Calls(results) \union {c}
<1>1. <<c, "done">>[1] = c
  OBVIOUS
<1>2. QED
  BY <1>1 DEF Calls
-----------------------------------------------------------------------------
\* Every action preserves the inductive invariant.
LEMMA InvStep ==
    ASSUME IInv, [Next]_vars
    PROVE  SharedInv' /\ \A t \in Sessions : SessionInv(t)'
<1> USE DEF IInv
<1> DEFINE Goal == SharedInv' /\ \A t \in Sessions : SessionInv(t)'
<1>own. ASSUME NEW s \in Sessions
        PROVE  /\ pc[s] \notin {"idle", "aborted"} => lock = s
               /\ SessionInv(s) /\ st[s] \in State /\ batch[s] \in Batch
  BY DEF SharedInv, ClaimInv, TypeOK, ControlTypes
<1>start. ASSUME NEW s \in Sessions, StartNew(s) PROVE Goal
  <2>1. /\ pc' = [pc EXCEPT ![s] = "starting"] /\ lock = None /\ lock' = s
        /\ row'.status = "running" /\ UNCHANGED <<minted, ran, consent>>
    BY <1>start DEF StartNew, Goto, Save, Coalesce, history
  <2>2. WaitingInv' /\ SessionInv(s)'
    BY <2>1, QuietInv
    DEF WaitingInv, SessionInv, RunningInv, PreparedInv, TurnInv, DecideInv, BatchInv,
        HaltInv, TypeOK, ControlTypes
  <2>3. QED
    BY <2>1, <2>2, OwnStep
<1>started. ASSUME NEW s \in Sessions, RunStarted(s) PROVE Goal
  <2>1. /\ pc' = [pc EXCEPT ![s] = "top"] /\ pc'[s] = "top" /\ lock = s /\ lock' = s
        /\ row'.status = "running" /\ st'[s] = EmptyState
        /\ UNCHANGED <<minted, ran, consent>>
    BY <1>started, <1>own
    DEF RunStarted, At, Goto, Save, Coalesce, history, TypeOK, ControlTypes
  <2>2. UnmatchedToolCalls(EmptyState) = {}
    BY DEF UnmatchedToolCalls, EmptyState
  <2>3. WaitingInv' /\ SessionInv(s)'
    BY <2>1, <2>2
    DEF WaitingInv, SessionInv, RunningInv, PreparedInv, TurnInv, DecideInv, BatchInv,
        HaltInv
  <2>4. QED
    BY <2>1, <2>3, OwnStep
<1>claim. ASSUME NEW s \in Sessions, NEW state, NEW given,
                 Command(s), Claim(s, state, given), Awaiting(UnmatchedToolCalls(state))
          PROVE  Goal
  <2>1. /\ pc' = [pc EXCEPT ![s] = "resuming"] /\ pc'[s] = "resuming"
        /\ lock = None /\ lock' = s /\ row' = row /\ st'[s] = state
        /\ UNCHANGED <<minted, ran, consent>>
    BY <1>claim DEF Command, Claim, Goto, history, TypeOK, ControlTypes
  <2>2. WaitingInv' /\ SessionInv(s)'
    BY <1>claim, <2>1
    DEF SharedInv, WaitingInv, SessionInv, RunningInv, PreparedInv, TurnInv, DecideInv,
        BatchInv, HaltInv, Awaiting, NeverRan, Known
  <2>3. QED
    BY <2>1, <2>2, OwnStep
<1>continue. ASSUME NEW s \in Sessions, ContinueWith(s) PROVE Goal
  <2>1. Awaiting(UnmatchedToolCalls(ResumeState(row)))
    BY SealMatchesAll
    DEF ResumeState, SharedInv, WaitingInv, Awaiting, NeverRan, TypeOK, StoreTypes
  <2>2. QED
    BY <1>continue, <1>claim, <2>1 DEF ContinueWith
<1>respond. ASSUME NEW s \in Sessions, RespondApproval(s) PROVE Goal
  BY <1>respond, <1>claim DEF RespondApproval, SharedInv, WaitingInv
<1>responds. ASSUME NEW s \in Sessions, RespondApprovals(s) PROVE Goal
  BY <1>responds, <1>claim DEF RespondApprovals, SharedInv, WaitingInv
<1>refused. ASSUME NEW s \in Sessions, CommandRefused(s) PROVE Goal
  BY <1>refused, FrameInv DEF CommandRefused, Command, store, history
<1>prepare. ASSUME NEW s \in Sessions, PrepareResume(s) PROVE Goal
  <2>1. /\ pc[s] = "resuming"
        /\ pc' = [pc EXCEPT ![s] = "prepared"] /\ pc'[s] = "prepared"
        /\ lock = s /\ lock' = s /\ row'.status = "running" /\ st' = st
        /\ UNCHANGED <<minted, ran, consent>>
    BY <1>prepare, <1>own
    DEF PrepareResume, At, Goto, Save, Coalesce, history, TypeOK, ControlTypes
  <2>2. WaitingInv' /\ SessionInv(s)'
    BY <1>own, <2>1
    DEF WaitingInv, SessionInv, RunningInv, PreparedInv, TurnInv, DecideInv, BatchInv,
        HaltInv, Awaiting, NeverRan, Known
  <2>3. QED
    BY <2>1, <2>2, OwnStep
<1>conflict. ASSUME NEW s \in Sessions, PrepareResumeConflict(s) PROVE Goal
  BY <1>conflict, LeaveInv DEF PrepareResumeConflict, store, history
<1>top. ASSUME NEW s \in Sessions, lock = s, lock' = s,
               pc' = [pc EXCEPT ![s] = "top"], UnmatchedToolCalls(st'[s]) = {},
               row' = row, row.status # "waiting_for_approval",
               UNCHANGED <<minted, ran, consent>>
        PROVE  Goal
  <2>1. pc'[s] = "top"
    BY <1>top DEF TypeOK, ControlTypes
  <2>2. WaitingInv' /\ SessionInv(s)'
    BY <1>top, <2>1
    DEF WaitingInv, SessionInv, RunningInv, PreparedInv, TurnInv, DecideInv, BatchInv,
        HaltInv
  <2>3. QED
    BY <1>top, <2>2, OwnStep
<1>nothing. ASSUME NEW s \in Sessions, NothingPending(s) PROVE Goal
  BY <1>nothing, <1>own, <1>top
  DEF NothingPending, At, Goto, store, history, SessionInv, RunningInv
<1>finish. ASSUME NEW s \in Sessions, NEW state, NEW status,
                  pc[s] \notin {"idle", "aborted"},
                  Finish(s, state, status), OnlyControlMoves,
                  status = "waiting_for_approval" => Awaiting(UnmatchedToolCalls(state))
           PROVE  Goal
  <2>1. minted \in Int
    BY MaxCallsAssumption DEF TypeOK
  <2>2. QED
    BY <1>finish, <1>own, <2>1, FinishInv DEF OnlyControlMoves, store, history
<1>finishing. ASSUME NEW s \in Sessions,
                     \/ ApprovalCancelled(s) \/ ModelInterrupted(s) \/ NoToolCalls(s)
                     \/ CancelledAfterModel(s) \/ ModelFails(s)
              PROVE  Goal
  <2>1. PICK status : /\ Finish(s, st[s], status) /\ OnlyControlMoves
                      /\ status # "waiting_for_approval"
                      /\ pc[s] \notin {"idle", "aborted"}
    BY <1>finishing
    DEF ApprovalCancelled, ModelInterrupted, NoToolCalls, CancelledAfterModel,
        ModelFails, At
  <2>2. QED
    BY <2>1, <1>finish
<1>still. ASSUME NEW s \in Sessions, StillPending(s) PROVE Goal
  <2>1. Awaiting(UnmatchedToolCalls(st[s]))
    BY <1>still, <1>own DEF StillPending, At, SessionInv, PreparedInv
  <2>2. QED
    BY <1>still, <1>finish, <2>1 DEF StillPending, At
<1>turn. ASSUME NEW s \in Sessions, TurnStart(s) PROVE Goal
  <2>1. CASE Finish(s, st[s], "paused_limit") \/ Finish(s, st[s], "cancelled")
    BY <1>turn, <1>finish, <2>1 DEF TurnStart, At
  <2>2. CASE /\ pc' = [pc EXCEPT ![s] = "model"] /\ st' = st
             /\ UNCHANGED <<inLoop, verdicts, ask, batch, outcome>>
    <3>1. /\ pc[s] = "top" /\ pc'[s] = "model" /\ lock = s /\ lock' = s /\ row' = row
          /\ UNCHANGED <<minted, ran, consent>>
      BY <1>turn, <1>own, <2>2
      DEF TurnStart, At, OnlyControlMoves, store, history, TypeOK, ControlTypes
    <3>2. WaitingInv' /\ SessionInv(s)'
      BY <1>own, <2>2, <3>1
      DEF SharedInv, WaitingInv, SessionInv, RunningInv, PreparedInv, TurnInv, DecideInv,
          BatchInv, HaltInv, Awaiting, NeverRan, Known
    <3>3. QED
      BY <2>2, <3>1, <3>2, OwnStep
  <2>3. QED
    BY <1>turn, <2>1, <2>2 DEF TurnStart, Goto
<1>model. ASSUME NEW s \in Sessions, ModelResponds(s) PROVE Goal
  <2>1. PICK n \in minted .. MaxCalls :
           /\ minted' = n
           /\ st' = [st EXCEPT ![s] = AppendModelResponse(st[s], minted + 1 .. n)]
           /\ Save(AppendModelResponse(st[s], minted + 1 .. n), "keep")
           /\ ask' = [ask EXCEPT ![s] = minted + 1 .. n]
    BY <1>model DEF ModelResponds
  <2> DEFINE calls == minted + 1 .. n
  <2>2. /\ minted \in Nat /\ n \in Nat /\ minted <= n
        /\ calls \in SUBSET ModelCall /\ calls \in SUBSET Call
    BY <2>1, MaxCallsAssumption, CallFacts DEF TypeOK, ModelCall
  <2>3. /\ pc[s] = "model" /\ pc' = [pc EXCEPT ![s] = "decide"] /\ pc'[s] = "decide"
        /\ lock = s /\ lock' = s /\ UNCHANGED <<ran, consent>>
        /\ st'[s] = AppendModelResponse(st[s], calls) /\ ask'[s] = calls
        /\ row'.status = row.status
    BY <1>model, <1>own, <2>1
    DEF ModelResponds, At, Goto, history, Save, Coalesce, TypeOK, ControlTypes
  <2>4. ClaimInv' /\ \A t \in Sessions \ {s} : SessionInv(t)'
    BY <2>3, ClaimStep, OthersInv DEF SharedInv
  <2>5. WaitingInv'
    BY <1>own, <2>1, <2>3 DEF SessionInv, RunningInv, WaitingInv
  <2>6. SharedInv'
    BY <2>1, <2>2, <2>3, <2>4, <2>5
    DEF SharedInv, ToolRunsOnce, ConsentBeforeRun, MintedInv, Untouched, ModelCall
  <2>7. DecideInv(s)'
    <3>1. UnmatchedToolCalls(st'[s]) \subseteq calls
      BY <1>own, <2>2, <2>3, UnmatchedAfterCalls DEF SessionInv, TurnInv
    <3>2. ASSUME NEW c \in calls
          PROVE  c \in ModelCall /\ c <= n /\ Untouched(c)' /\ Untouched(FollowUp(c))'
      BY <2>2, <2>3 DEF SharedInv, MintedInv, Untouched
    <3> HIDE DEF calls
    <3>3. QED
      BY <2>1, <2>3, <3>1, <3>2 DEF DecideInv
  <2>8. SessionInv(s)'
    BY <2>3, <2>7 DEF SessionInv, RunningInv, PreparedInv, TurnInv, BatchInv, HaltInv
  <2>9. QED
    BY <2>4, <2>6, <2>8
<1>batch. ASSUME NEW s \in Sessions, lock = s, lock' = s, row' = row,
                 row.status # "waiting_for_approval",
                 ToolRunsOnce', ConsentBeforeRun', MintedInv',
                 pc' = [pc EXCEPT ![s] = "batch"], BatchInv(s)'
          PROVE  Goal
  <2>1. pc'[s] = "batch"
    BY <1>batch DEF TypeOK, ControlTypes
  <2>2. ClaimInv' /\ \A t \in Sessions \ {s} : SessionInv(t)'
    BY <1>batch, ClaimStep, OthersInv DEF SharedInv
  <2>3. SharedInv' /\ SessionInv(s)'
    BY <1>batch, <2>1, <2>2
    DEF SharedInv, WaitingInv, SessionInv, RunningInv, PreparedInv, TurnInv, DecideInv,
        HaltInv
  <2>4. QED
    BY <2>2, <2>3
<1>apply. ASSUME NEW s \in Sessions, ApplyVerdicts(s) PROVE Goal
  <2> DEFINE pending == UnmatchedToolCalls(st[s])
             decided == pending \intersect Judged(s)
             yes == decided \intersect Approved(s)
             no == decided \ Approved(s)
  <2>1. /\ pc[s] = "prepared" /\ lock = s /\ lock' = s /\ row' = row /\ st' = st
        /\ pc' = [pc EXCEPT ![s] = "batch"] /\ minted' = minted
        /\ StartBatch(s, "verdict", yes, no)
        /\ ask'[s] = pending \ decided
        /\ consent' = [c \in Call |->
               IF c \notin decided THEN consent[c]
               ELSE IF c \in verdicts[s].approve THEN "approved" ELSE "denied"]
    BY <1>apply, <1>own
    DEF ApplyVerdicts, StartBatch, At, Goto, store, TypeOK, ControlTypes
  <2>2. Awaiting(pending) /\ NeverRan(pending) /\ pending \in SUBSET Call
    BY <1>own, <2>1, UnmatchedType DEF SessionInv, PreparedInv, Awaiting
  <2>3. /\ yes \in SUBSET Call /\ yes \subseteq pending /\ decided \subseteq pending
        /\ no \union yes = decided
    BY <2>2
  <2> HIDE DEF yes, no, pending, decided
  <2>4. consent' \in [Call -> {"none", "asked", "approved", "denied"}]
    BY <2>1 DEF TypeOK, HistoryTypes
  <2>5. /\ \A c \in yes : consent'[c] \in {"none", "approved"}
        /\ \A c \in Call : consent'[c] # consent[c] => c \in Known /\ ran[c] = 0
    BY <2>1, <2>2, <2>3 DEF NeverRan, yes, Approved
  <2>6. /\ ToolRunsOnce' /\ ConsentBeforeRun' /\ MintedInv'
        /\ \A c \in Call : ran'[c] = ran[c] + IF c \in yes THEN 1 ELSE 0
    BY <2>1, <2>2, <2>3, <2>4, <2>5, StartedInv DEF NeverRan
  <2>7. batch'[s] = [kind |-> "verdict", running |-> yes, resolved |-> no \X {"denied"},
                     folded |-> {}, wants |-> {}, cut |-> FALSE]
    BY <2>1 DEF StartBatch, TypeOK, ControlTypes
  <2>8. Awaiting(ask[s])'
    <3>1. /\ ask'[s] \in SUBSET Call /\ ask'[s] \intersect yes = {} /\ NeverRan(ask'[s])
          /\ \A c \in ask'[s] : consent'[c] = "asked"
      BY <2>1, <2>2 DEF Awaiting, NeverRan, yes
    <3>2. QED
      BY <2>1, <2>3, <2>6, <3>1, AwaitingStep DEF TypeOK, HistoryTypes
  <2>9. no \subseteq Calls(batch'[s].resolved)
    <3>1. batch'[s].resolved = no \X {"denied"}
      BY <2>7
    <3>2. QED
      BY <3>1, DeniedCalls
  <2>10. pending \subseteq Accounted(s)'
    <3>1. ask'[s] = pending \ decided /\ batch'[s].running = yes
      BY <2>1, <2>7
    <3>2. QED
      BY <2>3, <2>9, <3>1 DEF Accounted
  <2>11. BatchInv(s)'
    BY <2>1, <2>7, <2>8, <2>10 DEF BatchInv, pending, TypeOK, ControlTypes
  <2>12. QED
    BY <1>batch, <1>own, <2>1, <2>6, <2>11 DEF SessionInv, RunningInv
<1>decide. ASSUME NEW s \in Sessions, Decide(s) PROVE Goal
  <2>1. PICK d \in [ask[s] -> Decision] :
           /\ Ask(Decided(d, "NEEDS_APPROVAL"))
           /\ \/ /\ StartBatch(s, "model", Decided(d, "ALLOW"), Decided(d, "DENY"))
                 /\ ask' = [ask EXCEPT ![s] = Decided(d, "NEEDS_APPROVAL")]
                 /\ UNCHANGED <<st, inLoop, verdicts, outcome>>
              \/ /\ Decided(d, "ALLOW") \union Decided(d, "DENY") = {}
                 /\ Finish(s, st[s], "waiting_for_approval")
                 /\ UNCHANGED ran
    BY <1>decide DEF Decide
  <2> DEFINE yes == Decided(d, "ALLOW")
             no == Decided(d, "DENY")
             waiting == Decided(d, "NEEDS_APPROVAL")
  <2>2. /\ pc[s] = "decide" /\ lock = s /\ lock' = s /\ row' = row
        /\ minted' = minted /\ row.status # "waiting_for_approval"
        /\ UnmatchedToolCalls(st[s]) \subseteq ask[s]
        /\ \A c \in ask[s] : /\ c \in ModelCall /\ c <= minted
                             /\ Untouched(c) /\ Untouched(FollowUp(c))
    BY <1>decide, <1>own DEF Decide, At, store, SessionInv, RunningInv, DecideInv
  <2>3. /\ ask[s] = yes \union no \union waiting /\ yes \intersect waiting = {}
        /\ ask[s] \in SUBSET Call
    BY <2>1 DEF Decided, Decision, TypeOK, ControlTypes
  <2>4. ask[s] \subseteq Known /\ NeverRan(ask[s])
    BY <2>2 DEF Known, NeverRan, ModelCall, Untouched
  <2> HIDE DEF yes, no, waiting
  <2>5. consent' = [c \in Call |-> IF c \in waiting THEN "asked" ELSE consent[c]]
    BY <2>1 DEF Ask, waiting
  <2>6. consent' \in [Call -> {"none", "asked", "approved", "denied"}]
    BY <2>5 DEF TypeOK, HistoryTypes
  <2>7. \A c \in Call : consent'[c] # consent[c] => c \in Known /\ ran[c] = 0
    BY <2>3, <2>4, <2>5 DEF NeverRan
  <2>8. CASE /\ StartBatch(s, "model", yes, no)
             /\ ask' = [ask EXCEPT ![s] = waiting]
             /\ UNCHANGED <<st, inLoop, verdicts, outcome>>
    <3>1. NeverRan(yes) /\ yes \in SUBSET Call
      BY <2>3, <2>4 DEF NeverRan
    <3>2. \A c \in yes : consent'[c] \in {"none", "approved"}
      BY <2>2, <2>3, <2>5 DEF Untouched
    <3>3. /\ ToolRunsOnce' /\ ConsentBeforeRun' /\ MintedInv'
          /\ \A c \in Call : ran'[c] = ran[c] + IF c \in yes THEN 1 ELSE 0
      BY <2>2, <2>6, <2>7, <2>8, <3>1, <3>2, StartedInv
    <3>4. /\ batch'[s] = [kind |-> "model", running |-> yes, resolved |-> no \X {"denied"},
                          folded |-> {}, wants |-> {}, cut |-> FALSE]
          /\ ask'[s] = waiting /\ pc'[s] = "batch" /\ pc' = [pc EXCEPT ![s] = "batch"]
      BY <2>8 DEF StartBatch, Goto, TypeOK, ControlTypes
    <3>5. Awaiting(ask[s])'
      <4>1. /\ waiting \in SUBSET Call /\ waiting \intersect yes = {} /\ NeverRan(waiting)
            /\ \A c \in waiting : consent'[c] = "asked"
        BY <2>3, <2>4, <2>5 DEF NeverRan
      <4>2. QED
        BY <2>2, <3>1, <3>3, <3>4, <4>1, AwaitingStep DEF TypeOK, HistoryTypes
    <3>6. UnmatchedToolCalls(st'[s]) \subseteq Accounted(s)'
      <4>1. batch'[s].running = yes /\ batch'[s].resolved = no \X {"denied"} /\ st' = st
        BY <2>8, <3>4
      <4>2. Calls(batch'[s].resolved) = no
        BY <4>1, DeniedCalls
      <4>3. QED
        BY <2>2, <2>3, <3>4, <4>1, <4>2 DEF Accounted
    <3>7. ASSUME NEW c \in yes
          PROVE  c \in ModelCall /\ c <= minted' /\ Untouched(FollowUp(c))'
      <4>1. /\ c \in ModelCall /\ c <= minted' /\ Untouched(FollowUp(c))
            /\ FollowUp(c) \in Call /\ FollowUp(c) \notin ModelCall
        BY <2>2, <2>3, CallFacts
      <4>2. FollowUp(c) \notin yes /\ FollowUp(c) \notin waiting
        BY <2>2, <2>3, <4>1
      <4>3. QED
        BY <2>5, <3>3, <4>1, <4>2 DEF Untouched, TypeOK, HistoryTypes
    <3>8. BatchInv(s)'
      <4>1. /\ batch'[s].running = yes /\ batch'[s].wants = {}
            /\ ask'[s] \subseteq ModelCall
        BY <2>2, <2>3, <3>4
      <4>2. QED
        BY <3>4, <3>5, <3>6, <3>7, <4>1 DEF BatchInv
    <3>9. QED
      BY <1>batch, <2>2, <3>3, <3>4, <3>8
  <2>9. CASE yes \union no = {} /\ Finish(s, st[s], "waiting_for_approval") /\ UNCHANGED ran
    <3>1. pc' = [pc EXCEPT ![s] = "finish"] /\ pc'[s] = "finish"
      BY <2>9 DEF Finish, Goto, TypeOK, ControlTypes
    <3>2. \A c \in Call : consent'[c] # consent[c] => ran'[c] = 0 /\ c \in Known
      BY <2>7, <2>9
    <3>3. ToolRunsOnce' /\ ConsentBeforeRun' /\ MintedInv'
      BY <2>2, <2>9, <3>2, UnchangedRuns, <2>6
    <3>4. ClaimInv' /\ \A t \in Sessions \ {s} : SessionInv(t)'
      BY <2>2, <3>1, ClaimStep, OthersInv DEF SharedInv
    <3>5. st'[s] = st[s]
      BY <2>9 DEF Finish, TypeOK, ControlTypes
    <3>6. Awaiting(UnmatchedToolCalls(st[s]))'
      <4>1. /\ UnmatchedToolCalls(st'[s]) \subseteq waiting /\ NeverRan(waiting)'
            /\ \A c \in waiting : consent'[c] = "asked"
        BY <2>2, <2>3, <2>4, <2>5, <2>9, <3>5 DEF NeverRan, Known
      <4>2. QED
        BY <4>1 DEF Awaiting, NeverRan
    <3>7. SharedInv'
      BY <2>2, <3>3, <3>4 DEF SharedInv, WaitingInv
    <3>8. SessionInv(s)'
      BY <3>1, <3>6
      DEF SessionInv, RunningInv, PreparedInv, TurnInv, DecideInv, BatchInv, HaltInv
    <3>9. QED
      BY <3>4, <3>7, <3>8
  <2>10. QED
    BY <2>1, <2>8, <2>9 DEF yes, no, waiting
<1>progress. ASSUME NEW s \in Sessions, lock = s, lock' = s, row'.status = row.status,
                    row.status # "waiting_for_approval",
                    NEW p \in {"batch", "fold"}, pc' = [pc EXCEPT ![s] = p],
                    UNCHANGED <<minted, ran, consent>>, BatchInv(s)'
             PROVE  Goal
  <2>1. pc'[s] = p
    BY <1>progress DEF TypeOK, ControlTypes
  <2>2. WaitingInv' /\ SessionInv(s)'
    BY <1>progress, <2>1
    DEF WaitingInv, SessionInv, RunningInv, PreparedInv, TurnInv, DecideInv, HaltInv
  <2>3. QED
    BY <1>progress, <2>2, OwnStep
<1>inBatch. ASSUME NEW s \in Sessions, At(s, "batch") \/ At(s, "fold")
            PROVE  /\ lock = s /\ row.status # "waiting_for_approval"
                   /\ pc = [pc EXCEPT ![s] = pc[s]] /\ BatchInv(s)
  BY <1>inBatch, <1>own DEF At, SessionInv, RunningInv, TypeOK, ControlTypes
<1>returns. ASSUME NEW s \in Sessions, NEW c \in Call, ToolReturns(s, c) PROVE Goal
  <2>1. PICK wants \in {{}, {c}} :
           batch' = [batch EXCEPT ![s] = Answered(@, c, wants)]
    BY <1>returns DEF ToolReturns
  <2>2. /\ At(s, "batch") /\ c \in batch[s].running
        /\ UNCHANGED <<row, lock, minted, pc, st, ask, ran, consent>>
    BY <1>returns DEF ToolReturns, store
  <2>3. /\ batch'[s].running = batch[s].running \ {c}
        /\ batch'[s].resolved = batch[s].resolved \union {<<c, "done">>}
        /\ batch'[s].folded = batch[s].folded
        /\ batch'[s].wants \subseteq batch[s].wants \union {c}
        /\ batch'[s].cut = batch[s].cut /\ batch'[s].kind = batch[s].kind
    BY <1>own, <2>1 DEF Answered, Batch, TypeOK, ControlTypes
  <2>4. Accounted(s) \subseteq Accounted(s)'
    <3>1. Calls(batch'[s].resolved) = Calls(batch[s].resolved) \union {c}
      BY <2>3, AnsweredCalls
    <3>2. QED
      BY <2>2, <2>3, <3>1 DEF Accounted
  <2>5. BatchInv(s)'
    BY <1>inBatch, <2>2, <2>3, <2>4 DEF BatchInv, Awaiting, NeverRan, Known, Untouched, At
  <2>6. QED
    BY <1>inBatch, <1>progress, <2>2, <2>5 DEF At
<1>cut. ASSUME NEW s \in Sessions, NEW c \in Call, ToolCut(s, c) PROVE Goal
  <2>1. /\ At(s, "batch") /\ batch' = [batch EXCEPT ![s] = Stopped(@, c)]
        /\ UNCHANGED <<row, lock, minted, pc, st, ask, ran, consent>>
    BY <1>cut DEF ToolCut, store, history
  <2>2. /\ batch'[s].running = batch[s].running \ {c} /\ batch'[s].cut
        /\ batch'[s].wants = batch[s].wants /\ batch'[s].kind = batch[s].kind
    BY <1>own, <2>1 DEF Stopped, Batch, TypeOK, ControlTypes
  <2>3. BatchInv(s)'
    BY <1>inBatch, <2>1, <2>2 DEF BatchInv, Awaiting, NeverRan, Known, Untouched, At
  <2>4. QED
    BY <1>inBatch, <1>progress, <2>1, <2>3 DEF At
<1>gathered. ASSUME NEW s \in Sessions, Gathered(s) PROVE Goal
  <2>1. /\ At(s, "batch") /\ batch[s].running = {}
        /\ pc' = [pc EXCEPT ![s] = "fold"] /\ pc'[s] = "fold"
        /\ UNCHANGED <<row, lock, minted, st, ask, batch, ran, consent>>
    BY <1>gathered DEF Gathered, Goto, store, history, TypeOK, ControlTypes
  <2>2. BatchInv(s)'
    BY <1>inBatch, <2>1 DEF BatchInv, Awaiting, NeverRan, Known, Untouched, At, Accounted
  <2>3. QED
    BY <1>inBatch, <1>progress, <2>1, <2>2 DEF At
<1>fold. ASSUME NEW s \in Sessions, FoldResult(s) PROVE Goal
  <2>1. PICK r \in batch[s].resolved :
           /\ batch' = [batch EXCEPT ![s] = Appended(@, r)]
           /\ Save(AfterTool(s, r), "keep")
    BY <1>fold DEF FoldResult
  <2>2. /\ At(s, "fold") /\ row'.status = row.status
        /\ UNCHANGED <<lock, minted, pc, st, ask, ran, consent>>
    BY <1>fold, <2>1 DEF FoldResult, Save, Coalesce, history
  <2>3. /\ batch'[s].running = batch[s].running
        /\ batch'[s].resolved = batch[s].resolved \ {r}
        /\ batch'[s].folded = batch[s].folded \union {r}
        /\ batch'[s].wants = batch[s].wants
        /\ batch'[s].cut = batch[s].cut /\ batch'[s].kind = batch[s].kind
    BY <1>own, <2>1 DEF Appended, Batch, TypeOK, ControlTypes
  <2>4. Accounted(s) \subseteq Accounted(s)'
    BY <2>1, <2>2, <2>3 DEF Accounted, Calls
  <2>5. BatchInv(s)'
    BY <1>inBatch, <2>2, <2>3, <2>4 DEF BatchInv, Awaiting, NeverRan, Known, Untouched, At
  <2>6. QED
    BY <1>inBatch, <1>progress, <2>2, <2>5 DEF At
<1>batchCancelled. ASSUME NEW s \in Sessions, BatchCancelled(s) PROVE Goal
  BY <1>batchCancelled, <1>finish DEF BatchCancelled, At
<1>open. ASSUME NEW s \in Sessions, At(s, "fold"), batch[s].resolved = {}, ~batch[s].cut
         PROVE  UnmatchedToolCalls(Folded(s)) \subseteq ask[s]
  <2>1. /\ UnmatchedToolCalls(st[s]) \subseteq Accounted(s)
        /\ batch[s].running = {} /\ Calls(batch[s].resolved) = {}
    BY <1>open, <1>inBatch DEF BatchInv, At, Calls
  <2>2. QED
    BY <2>1, FoldedUnmatched DEF Accounted
<1>done. ASSUME NEW s \in Sessions, BatchDone(s) PROVE Goal
  <2>1. /\ At(s, "fold") /\ AfterBatch(s, Folded(s), ask[s])
        /\ UNCHANGED <<row, lock, minted, ran, consent>>
        /\ UnmatchedToolCalls(Folded(s)) \subseteq ask[s] /\ Awaiting(ask[s])
    BY <1>done, <1>open, <1>inBatch DEF BatchDone, store, BatchInv, At
  <2>2. CASE ask[s] # {}
    <3>1. Finish(s, Folded(s), "waiting_for_approval")
      BY <2>1, <2>2 DEF AfterBatch
    <3>2. Awaiting(UnmatchedToolCalls(Folded(s))) /\ minted \in Int
      BY <2>1, MaxCallsAssumption DEF Awaiting, NeverRan, TypeOK
    <3>3. QED
      BY <1>inBatch, <2>1, <3>1, <3>2, FinishInv
  <2>3. CASE ask[s] = {}
    <3>1. pc' = [pc EXCEPT ![s] = "top"] /\ st'[s] = Folded(s)
      BY <2>1, <2>3 DEF AfterBatch, Goto, TypeOK, ControlTypes
    <3>2. QED
      BY <1>inBatch, <1>top, <2>1, <2>3, <3>1
  <2>4. QED
    BY <2>2, <2>3
<1>synthesize. ASSUME NEW s \in Sessions, Synthesize(s) PROVE Goal
  <2> DEFINE calls == {FollowUp(c) : c \in FollowUpSources(s)}
             grown == AppendSyntheticToolCalls(Folded(s), calls)
  <2>1. PICK d \in [calls -> Decision] :
           /\ Ask(Decided(d, "NEEDS_APPROVAL"))
           /\ \/ /\ StartBatch(s, "synth", Decided(d, "ALLOW"), Decided(d, "DENY"))
                 /\ ask' = [ask EXCEPT ![s] = @ \union Decided(d, "NEEDS_APPROVAL")]
                 /\ st' = [st EXCEPT ![s] = grown]
                 /\ UNCHANGED <<inLoop, verdicts, outcome>>
              \/ /\ Decided(d, "ALLOW") \union Decided(d, "DENY") = {}
                 /\ AfterBatch(s, grown, ask[s] \union Decided(d, "NEEDS_APPROVAL"))
                 /\ UNCHANGED ran
    BY <1>synthesize DEF Synthesize
  <2> DEFINE yes == Decided(d, "ALLOW")
             no == Decided(d, "DENY")
             waiting == Decided(d, "NEEDS_APPROVAL")
  <2>2. /\ At(s, "fold") /\ batch[s].resolved = {} /\ ~batch[s].cut /\ calls # {}
        /\ UNCHANGED <<row, lock, minted>> /\ BatchInv(s) /\ lock = s
        /\ row.status # "waiting_for_approval"
    BY <1>synthesize, <1>inBatch DEF Synthesize, store
  <2>3. /\ batch[s].kind = "model" /\ FollowUpSources(s) = batch[s].wants
        /\ Awaiting(ask[s]) /\ ask[s] \subseteq ModelCall
        /\ \A c \in FollowUpSources(s) :
              c \in ModelCall /\ c <= minted /\ Untouched(FollowUp(c))
    BY <2>2 DEF FollowUpSources, BatchInv, At
  <2>4. /\ calls \in SUBSET Call /\ calls \subseteq Known
        /\ \A c \in calls : Untouched(c) /\ c \notin ModelCall
    BY <2>3, CallFacts DEF Known, ModelCall
  <2>5. /\ calls = yes \union no \union waiting /\ yes \intersect waiting = {}
        /\ ask[s] \intersect calls = {} /\ ask[s] \in SUBSET Call
    BY <2>1, <2>3, <2>4 DEF Decided, Decision, TypeOK, ControlTypes
  <2>6. UnmatchedToolCalls(grown) \subseteq ask[s] \union calls
    <3>1. Folded(s) \in State
      BY FoldedType DEF TypeOK
    <3>2. UnmatchedToolCalls(Folded(s)) \subseteq ask[s]
      BY <2>2, <1>open
    <3>3. QED
      BY <2>4, <3>1, <3>2, UnmatchedAfterCalls
  <2> HIDE DEF yes, no, waiting, calls, grown
  <2>7. consent' = [c \in Call |-> IF c \in waiting THEN "asked" ELSE consent[c]]
    BY <2>1 DEF Ask, waiting
  <2>8. /\ consent' \in [Call -> {"none", "asked", "approved", "denied"}]
        /\ \A c \in Call : consent'[c] # consent[c] => c \in Known /\ ran[c] = 0
    BY <2>4, <2>5, <2>7 DEF TypeOK, HistoryTypes, Untouched
  <2>9. /\ NeverRan(ask[s] \union calls)
        /\ \A c \in ask[s] \union waiting : consent'[c] = "asked"
    BY <2>3, <2>4, <2>5, <2>7 DEF Awaiting, NeverRan, Untouched
  <2>10. CASE /\ StartBatch(s, "synth", yes, no)
              /\ ask' = [ask EXCEPT ![s] = @ \union waiting]
              /\ st' = [st EXCEPT ![s] = grown]
              /\ UNCHANGED <<inLoop, verdicts, outcome>>
    <3>1. NeverRan(yes) /\ yes \in SUBSET Call
      BY <2>4, <2>5, <2>9 DEF NeverRan
    <3>2. \A c \in yes : consent'[c] \in {"none", "approved"}
      BY <2>4, <2>5, <2>7 DEF Untouched
    <3>3. /\ ToolRunsOnce' /\ ConsentBeforeRun' /\ MintedInv'
          /\ \A c \in Call : ran'[c] = ran[c] + IF c \in yes THEN 1 ELSE 0
      BY <2>2, <2>8, <2>10, <3>1, <3>2, StartedInv
    <3>4. /\ batch'[s] = [kind |-> "synth", running |-> yes, resolved |-> no \X {"denied"},
                          folded |-> {}, wants |-> {}, cut |-> FALSE]
          /\ ask'[s] = ask[s] \union waiting /\ st'[s] = grown
          /\ pc'[s] = "batch" /\ pc' = [pc EXCEPT ![s] = "batch"]
      BY <2>10 DEF StartBatch, Goto, TypeOK, ControlTypes
    <3>5. Awaiting(ask[s])'
      <4>1. /\ ask'[s] \in SUBSET Call /\ ask'[s] \intersect yes = {}
            /\ NeverRan(ask'[s]) /\ \A c \in ask'[s] : consent'[c] = "asked"
        BY <2>4, <2>5, <2>9, <3>4 DEF NeverRan
      <4>2. QED
        BY <2>2, <3>1, <3>3, <4>1, AwaitingStep DEF TypeOK, HistoryTypes
    <3>6. UnmatchedToolCalls(st'[s]) \subseteq Accounted(s)'
      <4>1. batch'[s].running = yes /\ batch'[s].resolved = no \X {"denied"}
        BY <3>4
      <4>2. Calls(batch'[s].resolved) = no
        BY <4>1, DeniedCalls
      <4>3. QED
        BY <2>5, <2>6, <3>4, <4>1, <4>2 DEF Accounted
    <3>7. BatchInv(s)'
      BY <3>4, <3>5, <3>6 DEF BatchInv
    <3>8. QED
      BY <1>batch, <2>2, <3>3, <3>4, <3>7
  <2>11. CASE yes \union no = {} /\ AfterBatch(s, grown, ask[s] \union waiting) /\ UNCHANGED ran
    <3>1. waiting = calls /\ ask[s] \union waiting # {}
      BY <2>2, <2>5, <2>11
    <3>2. Finish(s, grown, "waiting_for_approval")
      BY <2>11, <3>1 DEF AfterBatch
    <3>3. /\ pc' = [pc EXCEPT ![s] = "finish"] /\ pc'[s] = "finish" /\ st'[s] = grown
      BY <3>2 DEF Finish, Goto, TypeOK, ControlTypes
    <3>4. \A c \in Call : consent'[c] # consent[c] => ran'[c] = 0 /\ c \in Known
      BY <2>8, <2>11
    <3>5. ToolRunsOnce' /\ ConsentBeforeRun' /\ MintedInv'
      BY <2>2, <2>8, <2>11, <3>4, UnchangedRuns
    <3>6. ClaimInv' /\ \A t \in Sessions \ {s} : SessionInv(t)'
      BY <2>2, <3>3, ClaimStep, OthersInv DEF SharedInv
    <3>7. Awaiting(UnmatchedToolCalls(st[s]))'
      <4>1. /\ UnmatchedToolCalls(st'[s]) \subseteq ask[s] \union waiting
            /\ ask[s] \union waiting \subseteq Known'
            /\ \A c \in ask[s] \union waiting : ran'[c] = 0
        BY <2>2, <2>6, <2>9, <2>11, <3>1, <3>3 DEF NeverRan, Known
      <4>2. QED
        BY <2>9, <4>1 DEF Awaiting, NeverRan
    <3>8. SharedInv'
      BY <2>2, <3>5, <3>6 DEF SharedInv, WaitingInv
    <3>9. SessionInv(s)'
      BY <3>3, <3>7
      DEF SessionInv, RunningInv, PreparedInv, TurnInv, DecideInv, BatchInv, HaltInv
    <3>10. QED
      BY <3>6, <3>8, <3>9
  <2>12. QED
    BY <2>1, <2>10, <2>11 DEF yes, no, waiting
<1>terminal. ASSUME NEW s \in Sessions, Terminal(s) PROVE Goal
  <2>1. /\ pc[s] = "finish" /\ lock = s /\ lock' = s
        /\ pc' = [pc EXCEPT ![s] = "ending"] /\ pc'[s] = "ending"
        /\ row'.st = st[s] /\ row'.status \in {outcome[s], row.status}
        /\ outcome[s] \in Status
        /\ UNCHANGED <<minted, ran, consent>>
    BY <1>terminal, <1>own
    DEF Terminal, At, Save, Coalesce, Goto, history, TypeOK, ControlTypes
  <2>2. row'.status = outcome[s]
    BY <1>terminal, <2>1 DEF Terminal, Save, Coalesce, Status
  <2>3. WaitingInv' /\ SessionInv(s)'
    BY <1>own, <2>1, <2>2
    DEF WaitingInv, SessionInv, RunningInv, PreparedInv, TurnInv, DecideInv, BatchInv,
        HaltInv, Awaiting, NeverRan, Known
  <2>4. QED
    BY <2>1, <2>3, OwnStep
<1>return. ASSUME NEW s \in Sessions, Return(s) PROVE Goal
  BY <1>return, LeaveInv DEF Return, store, history
<1>interrupt. ASSUME NEW s \in Sessions, InterruptLoop(s) PROVE Goal
  <2>1. /\ Finish(s, st[s], "cancelled") /\ pc[s] \notin {"idle", "aborted"}
        /\ UNCHANGED <<row, lock, minted, ran, consent>> /\ minted \in Int
    BY <1>interrupt, MaxCallsAssumption, ConstantsAssumption
    DEF InterruptLoop, Interrupt, Suspended, store, history, TypeOK
  <2>2. QED
    BY <1>own, <2>1, FinishInv
<1>abandon. ASSUME NEW s \in Sessions, InterruptPreparation(s) PROVE Goal
  BY <1>abandon, LeaveInv DEF InterruptPreparation, store, history
<1>aborted. ASSUME NEW s \in Sessions, ShutdownAfterAbort(s) PROVE Goal
  <2>1. /\ pc' = [pc EXCEPT ![s] = "idle"] /\ pc'[s] = "idle"
        /\ UNCHANGED <<row, lock, minted, st, ask, batch, outcome, ran, consent>>
    BY <1>aborted
    DEF ShutdownAfterAbort, Goto, store, history, TypeOK, ControlTypes
  <2>2. SharedInv'
    BY <2>1
    DEF SharedInv, ToolRunsOnce, ConsentBeforeRun, ClaimInv, MintedInv, WaitingInv,
        Untouched, Awaiting, NeverRan, Known, TypeOK, ControlTypes
  <2>3. ASSUME NEW t \in Sessions PROVE SessionInv(t)'
    <3>1. pc'[t] = "idle" \/ pc'[t] = pc[t]
      BY <2>1 DEF TypeOK, ControlTypes
    <3>2. QED
      BY <1>own, <2>1, <3>1
      DEF SessionInv, RunningInv, PreparedInv, TurnInv, DecideInv, BatchInv, HaltInv,
          Awaiting, NeverRan, Known, Untouched, Accounted
  <2>4. QED
    BY <2>2, <2>3
<1>sealWrite. ASSUME NEW s \in Sessions, SealWrite(s) PROVE Goal
  <2>1. row'.status = "cancelled"
    BY <1>sealWrite DEF SealWrite, Save, Coalesce
  <2>2. QED
    BY <1>sealWrite, <2>1, FrameInv DEF SealWrite, control, history
<1>passive. ASSUME NEW s \in Sessions, Cancel(s) \/ Shutdown(s) \/ Restart(s) PROVE Goal
  BY <1>passive, FrameInv DEF Cancel, Shutdown, Restart, store, control, history
<1>crash. ASSUME NEW s \in Sessions, Crash(s) PROVE Goal
  BY <1>crash, LeaveInv DEF Crash, store, history
<1>saveFails. ASSUME NEW s \in Sessions, SaveFailsOutside(s) PROVE Goal
  BY <1>saveFails, LeaveInv DEF SaveFailsOutside, Propagate, store, history
<1>failed. ASSUME NEW s \in Sessions, FoldSaveFails(s) \/ TerminalSaveFails(s) PROVE Goal
  <2>1. /\ Finish(s, st[s], "failed") /\ pc[s] \notin {"idle", "aborted"}
        /\ UNCHANGED <<row, lock, minted, ran, consent>> /\ minted \in Int
    BY <1>failed, MaxCallsAssumption
    DEF FoldSaveFails, TerminalSaveFails, At, store, history, TypeOK
  <2>2. QED
    BY <1>own, <2>1, FinishInv
<1>modelFails. ASSUME NEW s \in Sessions, ModelSaveFails(s) PROVE Goal
  <2>1. PICK n \in minted .. MaxCalls :
           /\ minted' = n
           /\ Finish(s, AppendModelResponse(st[s], minted + 1 .. n), "failed")
    BY <1>modelFails DEF ModelSaveFails
  <2>2. /\ pc[s] = "model" /\ UNCHANGED <<row, lock, ran, consent>>
        /\ minted \in Int /\ minted' \in Int /\ minted <= minted'
    BY <1>modelFails, <2>1, MaxCallsAssumption
    DEF ModelSaveFails, At, store, history, TypeOK
  <2>3. QED
    BY <1>own, <2>1, <2>2, FinishInv
<1>stutter. ASSUME UNCHANGED vars PROVE Goal
  BY <1>stutter, FrameInv DEF vars, store, control, history
<1>qed. QED
  <2>1. ASSUME NEW s \in Sessions, Drive(s) PROVE Goal
    BY <2>1, <1>started, <1>prepare, <1>conflict, <1>nothing, <1>apply, <1>still, <1>turn,
       <1>decide, <1>cut, <1>gathered, <1>fold, <1>batchCancelled, <1>done,
       <1>synthesize, <1>terminal, <1>return, <1>aborted, <1>sealWrite, <1>finishing
    DEF Drive
  <2>2. ASSUME NEW s \in Sessions, Provider(s) \/ Tool(s) PROVE Goal
    BY <2>2, <1>model, <1>finishing, <1>returns DEF Provider, Tool
  <2>3. ASSUME NEW s \in Sessions, User(s) PROVE Goal
    BY <2>3, <1>start, <1>continue, <1>respond, <1>responds, <1>refused, <1>passive,
       <1>interrupt, <1>abandon DEF User
  <2>4. ASSUME NEW s \in Sessions, Fault(s) PROVE Goal
    BY <2>4, <1>crash, <1>saveFails, <1>failed, <1>modelFails DEF Fault
  <2>5. QED
    BY <1>stutter, <2>1, <2>2, <2>3, <2>4 DEF Next

-----------------------------------------------------------------------------
LEMMA InvInit == Init => IInv
<1> SUFFICES ASSUME Init PROVE IInv
  OBVIOUS
<1>1. TypeOK
  <2>1. StoreTypes /\ ControlTypes
    BY EmptyStateType, NoneTypes
    DEF Init, StoreTypes, ControlTypes, Status, PC
  <2>2. ForegroundTypes /\ HistoryTypes
    BY DEF Init, ForegroundTypes, HistoryTypes
  <2>3. minted \in 0 .. MaxCalls
    BY MaxCallsAssumption DEF Init
  <2>4. sealing \in [Sessions -> State \union {NoSeal}]
    BY DEF Init
  <2>5. lock \in Sessions \union {None} /\ disturbed \in BOOLEAN
    BY DEF Init
  <2>6. QED
    BY <2>1, <2>2, <2>3, <2>4, <2>5 DEF TypeOK
<1>2. SharedInv
  BY CallFacts
  DEF Init, SharedInv, ToolRunsOnce, ConsentBeforeRun, ClaimInv, MintedInv, WaitingInv,
      Untouched
<1>3. \A s \in Sessions : SessionInv(s)
  BY QuietInv DEF Init
<1>4. QED
  BY <1>1, <1>2, <1>3 DEF IInv

\* The inductive invariant, whatever the sessions, calls, bounds and disturbances.
THEOREM Invariance == Spec => []IInv
<1>1. IInv /\ [Next]_vars => IInv'
  <2> SUFFICES ASSUME IInv, [Next]_vars PROVE IInv'
    OBVIOUS
  <2>1. TypeOK'
    BY TypeStep DEF IInv, SessionInv
  <2>2. QED
    BY <2>1, InvStep DEF IInv
<1>2. QED
  BY <1>1, InvInit, PTL DEF Spec

\* Every variable keeps its type: the row's status in particular, through the
\* saves that keep the stored one (save_state's COALESCE).
THEOREM TypeCorrect == Spec => []TypeOK
<1>1. IInv => TypeOK
  BY DEF IInv
<1>2. QED
  BY <1>1, Invariance, PTL

\* No Tool call is started twice, across resumes, repairs, repeated approvals,
\* crashes and failed saves (AgentLoop.advance, AgentHarness._apply_approvals).
THEOREM RunsOnce == Spec => []ToolRunsOnce
<1>1. IInv => ToolRunsOnce
  BY DEF IInv, SharedInv
<1>2. QED
  BY <1>1, Invariance, PTL

\* A Tool that the policy reserved for the user runs only when approved
\* (ToolStepExecutor.decide and execute_verdict).
THEOREM RunsWithConsent == Spec => []ConsentBeforeRun
<1>1. IInv => ConsentBeforeRun
  BY DEF IInv, SharedInv
<1>2. QED
  BY <1>1, Invariance, PTL

\* The Provider never sees a Tool call without its result (seal on resume, and
\* the accounting of a turn's batches in AgentLoop.advance).
THEOREM NoDanglingCall == Spec => []NoDanglingCallAtModel
<1>1. ASSUME NEW state PROVE Open(state) = UnmatchedToolCalls(state)
  BY DEF Open, UnmatchedToolCalls, Resolved
<1>2. IInv => NoDanglingCallAtModel
  BY <1>1 DEF IInv, SessionInv, TurnInv, NoDanglingCallAtModel
<1>3. QED
  BY <1>2, Invariance, PTL

-----------------------------------------------------------------------------
(* AgentHarness implements ToolConsent.  A response of the model issues      *)
(* calls; the policy's decisions, in a turn and for its follow-ups, judge    *)
(* them; the user's verdicts answer; and every other step leaves the calls,  *)
(* their Tools and their consent alone.                                      *)


\* The Provider's new calls, with the follow-ups they may have.
LEMMA Issues ==
    ASSUME TypeOK, NEW n \in minted .. MaxCalls, minted' = n, UNCHANGED <<ran, consent>>
    PROVE  Consent!Issue
<1> DEFINE calls == Known' \ Known
<1>1. minted \in Nat /\ n \in Nat /\ minted <= n /\ n <= MaxCalls
  BY MaxCallsAssumption DEF TypeOK
<1>2. \A c \in 1 .. n : c \in Call /\ FollowUp(c) \in Call
  BY <1>1, MaxCallsAssumption, CallFacts DEF ModelCall
<1>3. Known \subseteq Known' /\ Known' \subseteq Call
  BY <1>1, <1>2, KnownGrows DEF Known
<1>4. calls \in SUBSET (Call \ Known) /\ Known' = Known \union calls
  BY <1>3
<1>5. QED
  BY <1>4 DEF Consent!Issue

\* The policy's decisions start what they allow.
LEMMA Judges ==
    ASSUME TypeOK, NEW allowed \in SUBSET Known, NEW asked \in SUBSET Known,
           allowed \intersect asked = {}, \A c \in allowed \union asked : Untouched(c),
           consent' = [c \in Call |-> IF c \in asked THEN "asked" ELSE consent[c]],
           ran' = [c \in Call |-> ran[c] + IF c \in allowed THEN 1 ELSE 0],
           minted' = minted
    PROVE  Consent!Judge
BY DEF Consent!Judge, Consent!Started, Known, Untouched

\* Nothing is started: the same as starting the empty set.
LEMMA NoneStarted ==
    ASSUME TypeOK, UNCHANGED ran
    PROVE  ran' = [c \in Call |-> ran[c] + IF c \in {} THEN 1 ELSE 0]
BY DEF TypeOK, HistoryTypes

\* The decisions split the calls that the policy is shown.
LEMMA Splits ==
    ASSUME NEW calls, NEW d \in [calls -> Decision]
    PROVE  /\ Decided(d, "ALLOW") \subseteq calls
           /\ Decided(d, "NEEDS_APPROVAL") \subseteq calls
           /\ Decided(d, "ALLOW") \intersect Decided(d, "NEEDS_APPROVAL") = {}
BY DEF Decided

LEMMA DecideJudges ==
    ASSUME IInv, NEW s \in Sessions, Decide(s)
    PROVE  Consent!Judge
<1>1. PICK d \in [ask[s] -> Decision] :
         /\ Ask(Decided(d, "NEEDS_APPROVAL"))
         /\ \/ StartBatch(s, "model", Decided(d, "ALLOW"), Decided(d, "DENY"))
            \/ UNCHANGED ran
  BY DEF Decide
<1>2. /\ minted' = minted /\ TypeOK
      /\ \A c \in ask[s] : c \in Known /\ Untouched(c)
  BY DEF Decide, At, IInv, SessionInv, DecideInv, Known, ModelCall
<1> DEFINE yes == Decided(d, "ALLOW")
           waiting == Decided(d, "NEEDS_APPROVAL")
<1>3. yes \subseteq ask[s] /\ waiting \subseteq ask[s] /\ yes \intersect waiting = {}
  BY Splits
<1>4. consent' = [c \in Call |-> IF c \in waiting THEN "asked" ELSE consent[c]]
  BY <1>1 DEF Ask
<1> HIDE DEF yes, waiting
<1>5. CASE StartBatch(s, "model", yes, Decided(d, "DENY"))
  <2>1. ran' = [c \in Call |-> ran[c] + IF c \in yes THEN 1 ELSE 0]
    BY <1>5 DEF StartBatch
  <2>2. QED
    BY <1>2, <1>3, <1>4, <2>1, Judges
<1>6. CASE UNCHANGED ran
  <2>1. ran' = [c \in Call |-> ran[c] + IF c \in {} THEN 1 ELSE 0]
    BY <1>2, <1>6, NoneStarted
  <2>2. \A c \in {} \union waiting : Untouched(c)
    BY <1>2, <1>3
  <2>3. {} \in SUBSET Known /\ waiting \in SUBSET Known /\ {} \intersect waiting = {}
    BY <1>2, <1>3
  <2>4. QED
    BY <1>2, <1>4, <2>1, <2>2, <2>3, Judges
<1>7. QED
  BY <1>1, <1>5, <1>6 DEF yes

LEMMA SynthesizeJudges ==
    ASSUME IInv, NEW s \in Sessions, Synthesize(s)
    PROVE  Consent!Judge
<1> DEFINE calls == {FollowUp(c) : c \in FollowUpSources(s)}
<1>1. PICK d \in [calls -> Decision] :
         /\ Ask(Decided(d, "NEEDS_APPROVAL"))
         /\ \/ StartBatch(s, "synth", Decided(d, "ALLOW"), Decided(d, "DENY"))
            \/ UNCHANGED ran
  BY DEF Synthesize
<1>2. minted' = minted /\ TypeOK /\ At(s, "fold") /\ calls # {} /\ BatchInv(s)
  BY DEF Synthesize, IInv, SessionInv
<1>3. \A c \in FollowUpSources(s) : FollowUp(c) \in Known /\ Untouched(FollowUp(c))
  BY <1>2 DEF FollowUpSources, BatchInv, At, Known, ModelCall
<1>4. \A c \in calls : c \in Known /\ Untouched(c)
  BY <1>3
<1> DEFINE yes == Decided(d, "ALLOW")
           waiting == Decided(d, "NEEDS_APPROVAL")
<1> HIDE DEF calls
<1>5. yes \subseteq calls /\ waiting \subseteq calls /\ yes \intersect waiting = {}
  BY Splits
<1>6. consent' = [c \in Call |-> IF c \in waiting THEN "asked" ELSE consent[c]]
  BY <1>1 DEF Ask
<1> HIDE DEF yes, waiting
<1>7. CASE StartBatch(s, "synth", yes, Decided(d, "DENY"))
  <2>1. ran' = [c \in Call |-> ran[c] + IF c \in yes THEN 1 ELSE 0]
    BY <1>7 DEF StartBatch
  <2>2. QED
    BY <1>2, <1>4, <1>5, <1>6, <2>1, Judges
<1>8. CASE UNCHANGED ran
  <2>1. ran' = [c \in Call |-> ran[c] + IF c \in {} THEN 1 ELSE 0]
    BY <1>2, <1>8, NoneStarted
  <2>2. \A c \in {} \union waiting : Untouched(c)
    BY <1>4, <1>5
  <2>3. {} \in SUBSET Known /\ waiting \in SUBSET Known /\ {} \intersect waiting = {}
    BY <1>4, <1>5
  <2>4. QED
    BY <1>2, <1>6, <2>1, <2>2, <2>3, Judges
<1>9. QED
  BY <1>1, <1>7, <1>8 DEF yes

LEMMA ApplyAnswers ==
    ASSUME IInv, NEW s \in Sessions, ApplyVerdicts(s)
    PROVE  Consent!Answer
<1> DEFINE pending == UnmatchedToolCalls(st[s])
           decided == pending \intersect Judged(s)
           yes == decided \intersect Approved(s)
           no == decided \ Approved(s)
<1>1. /\ At(s, "prepared") /\ StartBatch(s, "verdict", yes, no)
      /\ consent' = [c \in Call |->
             IF c \notin decided THEN consent[c]
             ELSE IF c \in verdicts[s].approve THEN "approved" ELSE "denied"]
      /\ minted' = minted
  BY DEF ApplyVerdicts
<1>2. Awaiting(pending)
  BY <1>1 DEF At, IInv, SessionInv, PreparedInv
<1>3. /\ yes \in SUBSET Known /\ no \in SUBSET Known /\ yes \intersect no = {}
      /\ \A c \in yes \union no : consent[c] = "asked" /\ ran[c] = 0
  BY <1>2 DEF Awaiting, NeverRan
<1>4. consent' = [c \in Call |-> IF c \in yes THEN "approved"
                                 ELSE IF c \in no THEN "denied" ELSE consent[c]]
  BY <1>1 DEF Approved
<1>5. ran' = [c \in Call |-> ran[c] + IF c \in yes THEN 1 ELSE 0]
  BY <1>1 DEF StartBatch
<1>6. Known' = Known
  BY <1>1 DEF Known
<1> HIDE DEF yes, no, pending, decided
<1>7. QED
  BY <1>3, <1>4, <1>5, <1>6 DEF Consent!Answer, Consent!Started

\* Every step is one of ToolConsent's, or none.
LEMMA StepImplements ==
    ASSUME IInv, [Next]_vars
    PROVE  [Consent!Next]_(Consent!vars)
<1> DEFINE Still == UNCHANGED <<minted, ran, consent>>
<1>still. ASSUME Still PROVE UNCHANGED Consent!vars
  BY <1>still DEF Consent!vars, Known
<1>drive. ASSUME NEW s \in Sessions, Drive(s) PROVE Still \/ Consent!Next
  <2>1. CASE ApplyVerdicts(s) \/ Decide(s) \/ Synthesize(s)
    BY <2>1, ApplyAnswers, DecideJudges, SynthesizeJudges DEF Consent!Next
  <2>2. CASE \/ RunStarted(s) \/ PrepareResume(s) \/ NothingPending(s)
             \/ (\E c \in Call : ToolCut(s, c)) \/ Gathered(s) \/ FoldResult(s)
             \/ Terminal(s) \/ ShutdownAfterAbort(s)
    BY <2>2
    DEF RunStarted, PrepareResume, NothingPending, ToolCut, Gathered, FoldResult,
        Terminal, ShutdownAfterAbort, history
  <2>3. CASE \/ ApprovalCancelled(s) \/ StillPending(s) \/ TurnStart(s)
             \/ ModelInterrupted(s) \/ NoToolCalls(s) \/ CancelledAfterModel(s)
             \/ BatchCancelled(s)
    BY <2>3
    DEF ApprovalCancelled, StillPending, TurnStart, ModelInterrupted, NoToolCalls,
        CancelledAfterModel, BatchCancelled, OnlyControlMoves, history
  <2>4. CASE PrepareResumeConflict(s) \/ Return(s) \/ SealWrite(s) \/ BatchDone(s)
    BY <2>4 DEF PrepareResumeConflict, Return, SealWrite, BatchDone, history
  <2>5. QED
    BY <1>drive, <2>1, <2>2, <2>3, <2>4 DEF Drive
<1>provider. ASSUME NEW s \in Sessions, Provider(s) \/ Tool(s) \/ ModelSaveFails(s)
             PROVE  Still \/ Consent!Next
  <2>1. CASE ModelResponds(s) \/ ModelSaveFails(s)
    <3>1. (\E n \in minted .. MaxCalls : minted' = n) /\ UNCHANGED <<ran, consent>>
      BY <2>1 DEF ModelResponds, ModelSaveFails, history
    <3>2. QED
      BY <3>1, Issues DEF IInv, Consent!Next
  <2>2. CASE ModelFails(s) \/ Tool(s)
    BY <2>2 DEF ModelFails, Tool, ToolReturns, OnlyControlMoves, history
  <2>3. QED
    BY <1>provider, <2>1, <2>2 DEF Provider
<1>user. ASSUME NEW s \in Sessions, User(s) PROVE Still
  BY <1>user
  DEF User, StartNew, ContinueWith, RespondApproval, RespondApprovals, CommandRefused,
      Command, Cancel, Shutdown, Restart, InterruptLoop, InterruptPreparation, history
<1>fault. ASSUME NEW s \in Sessions,
                 Crash(s) \/ SaveFailsOutside(s) \/ FoldSaveFails(s) \/ TerminalSaveFails(s)
          PROVE  Still
  BY <1>fault
  DEF Crash, SaveFailsOutside, Propagate, FoldSaveFails, TerminalSaveFails, history
<1>stutter. ASSUME UNCHANGED vars PROVE Still
  BY <1>stutter DEF vars, history
<1>qed. QED
  BY <1>still, <1>drive, <1>provider, <1>user, <1>fault, <1>stutter DEF Next, Fault

\* However its sessions interleave, crash, cancel and resume, AgentHarness treats
\* the calls of a Run as ToolConsent says: the policy judges a call once, the
\* user's verdict (AgentHarness._apply_approvals) is taken once and only on a call
\* that was asked about, and nothing else ever starts a Tool.
THEOREM Implements == Spec => ImplementsToolConsent
<1>1. Init => Consent!Init
  <2>1. ASSUME minted = 0 PROVE Known = {}
    BY <2>1 DEF Known
  <2>2. QED
    BY <2>1 DEF Init, Consent!Init
<1>2. IInv /\ [Next]_vars => [Consent!Next]_(Consent!vars)
  BY StepImplements
<1>3. QED
  BY <1>1, <1>2, Invariance, PTL DEF Spec, ImplementsToolConsent, Consent!Spec
=============================================================================
