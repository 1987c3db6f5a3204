---------------------- MODULE AgentHarnessStatusProofs ----------------------
(***************************************************************************)
(* Proofs that the status, the transcript and the repair of a Run agree,   *)
(* for every number of sessions, calls and turns, every call limit, and    *)
(* every choice of suspend points and disturbances.                        *)
(*                                                                         *)
(* Then, on top of them, that a turn starts from what is on disk, and that *)
(* the results of Tools and the follow-ups they ask for are kept, under    *)
(* the assumptions that each theorem names on who else may write the row.  *)
(***************************************************************************)
EXTENDS AgentHarnessDurableInv, AgentHarnessProofs

-----------------------------------------------------------------------------
(* Lemmas about the operations of RunState. *)

LEMMA ResultsSound ==
    ASSUME NEW state \in State, NEW results \in SUBSET (Call \X Outcome),
           WellFormed(state), \A q, r \in results : q[1] = r[1] => q = r,
           Calls(results) \subseteq UnmatchedToolCalls(state)
    PROVE  /\ WellFormed(AppendToolResults(state, results))
           /\ AppendToolResults(state, results).issued = state.issued
<1> DEFINE grown == AppendToolResults(state, results)
<1>1. /\ grown.issued = state.issued
      /\ grown.results = state.results \union results
  BY DEF AppendToolResults, State
<1>2. Resolved(grown) \subseteq grown.issued
  BY <1>1 DEF WellFormed, Resolved, Calls, UnmatchedToolCalls
<1>3. ASSUME NEW q \in grown.results, NEW r \in grown.results, q[1] = r[1]
      PROVE  q = r
  <2>1. \A x \in state.results, y \in results : x[1] # y[1]
    BY DEF Calls, UnmatchedToolCalls, Resolved
  <2>2. QED
    BY <1>1, <1>3, <2>1 DEF WellFormed
<1>4. QED
  BY <1>1, <1>2, <1>3 DEF WellFormed

LEMMA SealSound ==
    ASSUME NEW state \in State, WellFormed(state)
    PROVE  /\ WellFormed(Seal(state))
           /\ Seal(state).issued = state.issued
<1> DEFINE open == UnmatchedToolCalls(state)
           repair == open \X {"interrupted"}
<1>1. repair \in SUBSET (Call \X Outcome)
  BY DEF State, UnmatchedToolCalls, Outcome
<1>2. Calls(repair) \subseteq open
  BY DEF Calls
<1>3. \A q, r \in repair : q[1] = r[1] => q = r
  OBVIOUS
<1>4. QED
  BY <1>1, <1>2, <1>3, ResultsSound DEF Seal

\* A transcript without an open call is left as it is.
LEMMA SealNothing ==
    ASSUME NEW state \in State, UnmatchedToolCalls(state) = {}
    PROVE  Seal(state).results = state.results
BY DEF Seal, AppendToolResults, State

LEMMA CallsSound ==
    ASSUME NEW state \in State, NEW calls \in SUBSET Call, WellFormed(state)
    PROVE  /\ WellFormed(AppendModelResponse(state, calls))
           /\ WellFormed(AppendSyntheticToolCalls(state, calls))
           /\ AppendModelResponse(state, calls).issued = state.issued \union calls
           /\ AppendSyntheticToolCalls(state, calls).issued = state.issued \union calls
           /\ AppendModelResponse(state, calls).results = state.results
           /\ AppendSyntheticToolCalls(state, calls).results = state.results
BY DEF WellFormed, Resolved, State, AppendModelResponse, AppendSyntheticToolCalls

\* Calls that are new to a transcript are open in it afterwards.
LEMMA NewCallsOpen ==
    ASSUME NEW state \in State, NEW calls \in SUBSET Call, WellFormed(state),
           calls \intersect state.issued = {}
    PROVE  /\ UnmatchedToolCalls(AppendModelResponse(state, calls))
                = UnmatchedToolCalls(state) \union calls
           /\ UnmatchedToolCalls(AppendSyntheticToolCalls(state, calls))
                = UnmatchedToolCalls(state) \union calls
BY CallsSound DEF UnmatchedToolCalls, WellFormed, Resolved

LEMMA EmptySound == Sound(EmptyState) /\ UnmatchedToolCalls(EmptyState) = {}
BY DEF Sound, WellFormed, Resolved, EmptyState, UnmatchedToolCalls

-----------------------------------------------------------------------------
(* A step of a session leaves the control of the others alone. *)

LocalTo(s) ==
    \A t \in Sessions \ {s} :
        /\ pc'[t] = pc[t] /\ st'[t] = st[t] /\ ask'[t] = ask[t]
        /\ batch'[t] = batch[t] /\ outcome'[t] = outcome[t]
        /\ token'[t] = token[t] /\ down'[t] = down[t] /\ sealing'[t] = sealing[t]

LEMMA FinishLocal ==
    ASSUME TypeOK, NEW s \in Sessions, NEW state, NEW status, Finish(s, state, status)
    PROVE  \A t \in Sessions \ {s} :
              /\ pc'[t] = pc[t] /\ st'[t] = st[t] /\ ask'[t] = ask[t]
              /\ batch'[t] = batch[t] /\ outcome'[t] = outcome[t]
BY DEF Finish, Goto, TypeOK, ControlTypes

LEMMA LeaveLocal ==
    ASSUME TypeOK, NEW s \in Sessions, NEW p, Leave(s, p)
    PROVE  \A t \in Sessions \ {s} :
              /\ pc'[t] = pc[t] /\ st'[t] = st[t] /\ ask'[t] = ask[t]
              /\ batch'[t] = batch[t] /\ outcome'[t] = outcome[t]
              /\ token'[t] = token[t]
BY DEF Leave, Goto, TypeOK, ControlTypes, ForegroundTypes

LEMMA StepLocal ==
    ASSUME TypeOK, NEW s \in Sessions,
           Drive(s) \/ Provider(s) \/ Tool(s) \/ User(s) \/ Fault(s)
    PROVE  LocalTo(s)
<1> USE DEF LocalTo
<1>1. ASSUME NEW state, NEW status, Finish(s, state, status),
             UNCHANGED <<down, sealing>>, token' \in {token, [token EXCEPT ![s] = TRUE]}
      PROVE  LocalTo(s)
  BY <1>1, FinishLocal DEF TypeOK, ForegroundTypes
<1>2. ASSUME NEW p, Leave(s, p), down' \in {down, [down EXCEPT ![s] = FALSE]},
             sealing' \in {sealing, [sealing EXCEPT ![s] = NoSeal]}
      PROVE  LocalTo(s)
  BY <1>2, LeaveLocal DEF TypeOK, ForegroundTypes
<1>3. ASSUME NEW state, NEW waiting, AfterBatch(s, state, waiting),
             UNCHANGED <<down, sealing, token>>
      PROVE  LocalTo(s)
  <2>1. CASE waiting # {}
    BY <1>1, <1>3, <2>1 DEF AfterBatch
  <2>2. CASE waiting = {}
    BY <1>3, <2>2 DEF AfterBatch, Goto, TypeOK, ControlTypes
  <2>3. QED
    BY <2>1, <2>2
<1>finish. ASSUME \/ ApprovalCancelled(s) \/ StillPending(s) \/ ModelInterrupted(s)
                  \/ NoToolCalls(s) \/ CancelledAfterModel(s) \/ ModelFails(s)
                  \/ BatchCancelled(s) \/ InterruptLoop(s) \/ FoldSaveFails(s)
                  \/ ModelSaveFails(s) \/ TerminalSaveFails(s)
           PROVE  LocalTo(s)
  <2>1. PICK state, status : Finish(s, state, status)
    BY <1>finish
    DEF ApprovalCancelled, StillPending, ModelInterrupted, NoToolCalls,
        CancelledAfterModel, ModelFails, BatchCancelled, InterruptLoop, FoldSaveFails,
        ModelSaveFails, TerminalSaveFails
  <2>2. UNCHANGED <<down, sealing>> /\ token' \in {token, [token EXCEPT ![s] = TRUE]}
    BY <1>finish
    DEF ApprovalCancelled, StillPending, ModelInterrupted, NoToolCalls,
        CancelledAfterModel, ModelFails, BatchCancelled, InterruptLoop, FoldSaveFails,
        ModelSaveFails, TerminalSaveFails, OnlyControlMoves, foreground
  <2>3. QED
    BY <1>1, <2>1, <2>2
<1>leave. ASSUME \/ PrepareResumeConflict(s) \/ Return(s) \/ InterruptPreparation(s)
                 \/ Crash(s) \/ SaveFailsOutside(s)
          PROVE  LocalTo(s)
  <2>1. PICK p : Leave(s, p)
    BY <1>leave
    DEF PrepareResumeConflict, Return, InterruptPreparation, Crash, SaveFailsOutside,
        Propagate
  <2>2. /\ down' \in {down, [down EXCEPT ![s] = FALSE]}
        /\ sealing' \in {sealing, [sealing EXCEPT ![s] = NoSeal]}
    BY <1>leave
    DEF PrepareResumeConflict, Return, InterruptPreparation, Crash, SaveFailsOutside,
        Propagate
  <2>3. QED
    BY <1>2, <2>1, <2>2
<1>batches. ASSUME ApplyVerdicts(s) \/ Decide(s) \/ BatchDone(s) \/ Synthesize(s)
            PROVE  LocalTo(s)
  <2>1. UNCHANGED <<down, sealing, token>>
    BY <1>batches DEF ApplyVerdicts, Decide, BatchDone, Synthesize, foreground
  <2>2. \/ \E state, waiting : AfterBatch(s, state, waiting)
        \/ \E state, status : Finish(s, state, status)
        \/ /\ \E kind, runs, denies : StartBatch(s, kind, runs, denies)
           /\ \E a : ask' = [ask EXCEPT ![s] = a]
           /\ st' = st \/ \E state : st' = [st EXCEPT ![s] = state]
           /\ UNCHANGED outcome
    BY <1>batches DEF ApplyVerdicts, Decide, BatchDone, Synthesize
  <2>3. CASE \E state, waiting : AfterBatch(s, state, waiting)
    BY <1>3, <2>1, <2>3
  <2>4. CASE \E state, status : Finish(s, state, status)
    BY <1>1, <2>1, <2>4
  <2>5. CASE /\ \E kind, runs, denies : StartBatch(s, kind, runs, denies)
             /\ \E a : ask' = [ask EXCEPT ![s] = a]
             /\ st' = st \/ \E state : st' = [st EXCEPT ![s] = state]
             /\ UNCHANGED outcome
    BY <2>1, <2>5 DEF StartBatch, Goto, TypeOK, ControlTypes
  <2>6. QED
    BY <2>2, <2>3, <2>4, <2>5
<1>turn. ASSUME TurnStart(s) PROVE LocalTo(s)
  <2>1. CASE \E state, status : Finish(s, state, status)
    BY <1>1, <1>turn, <2>1 DEF TurnStart, OnlyControlMoves, foreground
  <2>2. CASE pc' = [pc EXCEPT ![s] = "model"] /\ UNCHANGED <<st, ask, batch, outcome>>
    BY <1>turn, <2>2 DEF TurnStart, OnlyControlMoves, foreground, TypeOK, ControlTypes
  <2>3. QED
    BY <1>turn, <2>1, <2>2 DEF TurnStart, Goto
<1>plain. ASSUME \/ StartNew(s) \/ RunStarted(s) \/ CommandRefused(s) \/ PrepareResume(s)
                 \/ NothingPending(s) \/ ModelResponds(s) \/ Gathered(s) \/ FoldResult(s)
                 \/ Terminal(s) \/ Cancel(s) \/ ShutdownAfterAbort(s) \/ SealWrite(s)
                 \/ Shutdown(s) \/ Restart(s)
          PROVE  LocalTo(s)
  BY <1>plain
  DEF StartNew, RunStarted, CommandRefused, Command, PrepareResume, NothingPending,
      ModelResponds, Gathered, FoldResult, Terminal, Cancel, ShutdownAfterAbort,
      SealWrite, SealRead, Shutdown, Restart, Goto, TypeOK, ControlTypes,
      ForegroundTypes, control, foreground
<1>commands. ASSUME ContinueWith(s) \/ RespondApproval(s) \/ RespondApprovals(s)
             PROVE  LocalTo(s)
  <2>1. Command(s) /\ \E state, given : Claim(s, state, given)
    BY <1>commands DEF ContinueWith, RespondApproval, RespondApprovals
  <2>2. QED
    BY <2>1 DEF Command, Claim, Goto, TypeOK, ControlTypes, ForegroundTypes
<1>tools. ASSUME NEW c, ToolReturns(s, c) \/ ToolCut(s, c) PROVE LocalTo(s)
  BY <1>tools DEF ToolReturns, ToolCut, TypeOK, ControlTypes, foreground
<1>qed. QED
  BY <1>finish, <1>leave, <1>batches, <1>turn, <1>plain, <1>commands, <1>tools
  DEF Drive, Provider, Tool, User, Fault

\* The Provider's ids are only ever used up.
LEMMA MintedStep ==
    ASSUME TypeOK, NEW s \in Sessions,
           Drive(s) \/ Provider(s) \/ Tool(s) \/ User(s) \/ Fault(s)
    PROVE  minted' \in Int /\ minted <= minted' /\ Known \subseteq Known'
<1>1. minted \in Int /\ MaxCalls \in Int
  BY MaxCallsAssumption DEF TypeOK
<1>2. minted' = minted \/ ModelResponds(s) \/ ModelSaveFails(s)
  <2>1. ASSUME Drive(s) \/ Tool(s) PROVE minted' = minted
    BY <2>1
    DEF Drive, Tool, RunStarted, PrepareResume, PrepareResumeConflict, NothingPending,
        ApprovalCancelled, ApplyVerdicts, StillPending, TurnStart, ModelInterrupted,
        NoToolCalls, CancelledAfterModel, Decide, ToolReturns, ToolCut, Gathered,
        FoldResult, BatchCancelled, BatchDone, Synthesize, Terminal, Return,
        ShutdownAfterAbort, SealWrite, OnlyControlMoves
  <2>2. ASSUME User(s) \/ Fault(s), ~ModelSaveFails(s) PROVE minted' = minted
    BY <2>2
    DEF User, Fault, StartNew, ContinueWith, RespondApproval, RespondApprovals,
        CommandRefused, Command, Cancel, Shutdown, Restart, InterruptLoop,
        InterruptPreparation, Crash, SaveFailsOutside, Propagate, FoldSaveFails,
        TerminalSaveFails
  <2>3. ASSUME ModelFails(s) PROVE minted' = minted
    BY <2>3 DEF ModelFails, OnlyControlMoves
  <2>4. QED
    BY <2>1, <2>2, <2>3 DEF Provider
<1>3. minted' \in Int /\ minted <= minted'
  BY <1>1, <1>2 DEF ModelResponds, ModelSaveFails
<1>4. QED
  BY <1>1, <1>3, KnownGrows

-----------------------------------------------------------------------------
(* What is answered: what the shared parts of the actions preserve. *)

\* The others hold what they held; if this step publishes an ended Run, they are quiet.
LEMMA OthersSound ==
    ASSUME IInv, AnswersInv, NEW s \in Sessions, LocalTo(s), Known \subseteq Known',
           row'.status \in Ended => row'.status = row.status \/ lock = s
    PROVE  \A t \in Sessions \ {s} : SessionSound(t)'
<1> SUFFICES ASSUME NEW t \in Sessions \ {s} PROVE SessionSound(t)'
  OBVIOUS
<1>1. /\ pc'[t] = pc[t] /\ st'[t] = st[t] /\ ask'[t] = ask[t] /\ batch'[t] = batch[t]
      /\ outcome'[t] = outcome[t] /\ sealing'[t] = sealing[t]
  BY DEF LocalTo
<1>2. SessionSound(t)
  BY DEF AnswersInv
<1>3. HeldSound(t)'
  BY <1>1, <1>2 DEF SessionSound, HeldSound, Sound
<1>4. DecideOpen(t)' /\ BatchOpen(t)' /\ NothingFolded(t)' /\ HaltOpen(t)'
  BY <1>1, <1>2
  DEF SessionSound, DecideOpen, BatchOpen, NothingFolded, HaltOpen, Pool, Unrepaired,
      Calls
<1>5. RunningOpen(t)'
  <2>1. CASE lock = s
    <3>1. pc[t] \in {"idle", "aborted"}
      BY <2>1, OthersQuiet DEF IInv, SharedInv
    <3>2. QED
      BY <1>1, <3>1 DEF RunningOpen
  <2>2. CASE lock # s
    BY <1>1, <1>2, <2>2 DEF SessionSound, RunningOpen
  <2>3. QED
    BY <2>1, <2>2
<1>6. QED
  BY <1>3, <1>4, <1>5 DEF SessionSound

LEMMA RowStays ==
    ASSUME RowSound, row' = row, Known \subseteq Known'
    PROVE  RowSound'
BY DEF RowSound, Sound

LEMMA SaveSound ==
    ASSUME NEW state, NEW status, Save(state, status), WellFormed(state),
           state.issued \subseteq Known',
           Coalesce(status) = "waiting_for_approval" => UnmatchedToolCalls(state) # {},
           Coalesce(status) \in Ended => UnmatchedToolCalls(state) = {}
    PROVE  RowSound'
<1>1. row'.status = Coalesce(status) /\ row'.st = state
  BY DEF Save
<1>2. QED
  BY <1>1 DEF RowSound, Sound

\* What may be kept of a seal_interrupt that is under way.
SealKept(s) ==
    /\ sealing[s] # NoSeal => Sound(sealing[s])
    /\ sealing'[s] \in {sealing[s], NoSeal}

LEMMA FinishSound ==
    ASSUME TypeOK, NEW s \in Sessions, NEW state, NEW status, Finish(s, state, status),
           WellFormed(state), state.issued \subseteq Known', Known \subseteq Known',
           status = "waiting_for_approval" => UnmatchedToolCalls(state) # {},
           status \in Ended => UnmatchedToolCalls(state) = {}, SealKept(s)
    PROVE  SessionSound(s)'
<1>1. /\ pc'[s] = "finish" /\ st'[s] = state /\ outcome'[s] = status
      /\ batch'[s] = NoBatch
  BY DEF Finish, Goto, TypeOK, ControlTypes
<1>2. HeldSound(s)'
  BY <1>1 DEF HeldSound, Sound, SealKept
<1>3. QED
  BY <1>1, <1>2
  DEF SessionSound, DecideOpen, BatchOpen, NothingFolded, HaltOpen, RunningOpen, NoBatch

LEMMA LeaveSound ==
    ASSUME TypeOK, NEW s \in Sessions, NEW p \in {"idle", "aborted"}, Leave(s, p),
           Known \subseteq Known', SealKept(s)
    PROVE  SessionSound(s)'
<1>1. pc'[s] = p /\ st'[s] = EmptyState /\ batch'[s] = NoBatch
  BY DEF Leave, Goto, TypeOK, ControlTypes
<1>2. HeldSound(s)'
  BY <1>1, EmptySound DEF HeldSound, Sound, SealKept, EmptyState
<1>3. QED
  BY <1>1, <1>2
  DEF SessionSound, DecideOpen, BatchOpen, NothingFolded, HaltOpen, RunningOpen, NoBatch

\* A batch starts with its calls open and in one place each.
LEMMA StartSound ==
    ASSUME TypeOK, NEW s \in Sessions, NEW kind, NEW runs \in SUBSET Call,
           NEW denies \in SUBSET Call, StartBatch(s, kind, runs, denies),
           runs \intersect denies = {}, ask'[s] \intersect (runs \union denies) = {},
           ask'[s] \union runs \union denies \subseteq UnmatchedToolCalls(st'[s]),
           kind = "model" => \A c \in runs : FollowUp(c) \notin st'[s].issued,
           WellFormed(st'[s]), st'[s].issued \subseteq Known', Known \subseteq Known',
           SealKept(s), row'.status \notin Ended
    PROVE  SessionSound(s)'
<1>1. /\ pc'[s] = "batch"
      /\ batch'[s] = [kind |-> kind, running |-> runs, resolved |-> denies \X {"denied"},
                      folded |-> {}, wants |-> {}, cut |-> FALSE]
  BY DEF StartBatch, Goto, TypeOK, ControlTypes
<1>2. HeldSound(s)'
  BY DEF HeldSound, Sound, SealKept
<1>3. Pool(s)' = denies \X {"denied"}
  BY <1>1 DEF Pool
<1>4. Calls(Pool(s)') = denies
  BY <1>3, DeniedCalls
<1>5. BatchOpen(s)'
  <2>1. /\ \A q, r \in Pool(s)' : q[1] = r[1] => q = r
        /\ Unrepaired(Pool(s)')
    BY <1>3 DEF Unrepaired
  <2>2. Calls(Pool(s))' = denies /\ Unrepaired(Pool(s))'
    BY <1>4, <2>1 DEF Calls, Unrepaired
  <2>3. QED
    BY <1>1, <2>1, <2>2 DEF BatchOpen
<1>6. QED
  BY <1>1, <1>2, <1>5
  DEF SessionSound, DecideOpen, NothingFolded, HaltOpen, RunningOpen

\* The end of a batch publishes a halt only for calls that are open.
LEMMA AfterBatchSound ==
    ASSUME TypeOK, NEW s \in Sessions, NEW state, NEW waiting,
           AfterBatch(s, state, waiting), waiting \subseteq UnmatchedToolCalls(state),
           WellFormed(state), state.issued \subseteq Known', Known \subseteq Known',
           SealKept(s), row'.status \notin Ended
    PROVE  SessionSound(s)'
<1>1. CASE waiting # {}
  BY <1>1, FinishSound DEF AfterBatch, Ended
<1>2. CASE waiting = {}
  <2>1. pc'[s] = "top" /\ st'[s] = state /\ batch'[s] = NoBatch
    BY <1>2 DEF AfterBatch, Goto, TypeOK, ControlTypes
  <2>2. HeldSound(s)'
    BY <2>1 DEF HeldSound, Sound, SealKept
  <2>3. QED
    BY <2>1, <2>2
    DEF SessionSound, DecideOpen, BatchOpen, NothingFolded, HaltOpen, RunningOpen, NoBatch
<1>3. QED
  BY <1>1, <1>2

\* The transcript with what the batch has appended so far.
LEMMA FoldedSound ==
    ASSUME TypeOK, NEW s \in Sessions, SessionSound(s), pc[s] \in {"batch", "fold"}
    PROVE  /\ Folded(s) \in State /\ Sound(Folded(s))
           /\ Folded(s).issued = st[s].issued
           /\ ask[s] \subseteq UnmatchedToolCalls(Folded(s))
<1>1. /\ st[s] \in State /\ batch[s].folded \in SUBSET (Call \X Outcome)
      /\ Folded(s) \in State
  BY FoldedType DEF TypeOK, ControlTypes, Batch
<1>2. /\ Calls(batch[s].folded) \subseteq Calls(Pool(s))
      /\ \A q, r \in batch[s].folded : q[1] = r[1] => q = r
  BY DEF SessionSound, BatchOpen, Pool, Calls
<1>3. Calls(batch[s].folded) \subseteq UnmatchedToolCalls(st[s])
  BY <1>2 DEF SessionSound, BatchOpen
<1>4. /\ WellFormed(Folded(s)) /\ Folded(s).issued = st[s].issued
  BY <1>1, <1>2, <1>3, ResultsSound DEF Folded, SessionSound, HeldSound, Sound
<1>5. ask[s] \subseteq UnmatchedToolCalls(Folded(s))
  BY <1>2, FoldedUnmatched DEF SessionSound, BatchOpen
<1>6. QED
  BY <1>1, <1>4, <1>5 DEF SessionSound, HeldSound, Sound

\* The calls of a response are new, and so are their follow-ups.
LEMMA MintedNew ==
    ASSUME TypeOK, NEW n \in minted .. MaxCalls, minted' = n
    PROVE  /\ minted + 1 .. n \in SUBSET Call
           /\ (minted + 1 .. n) \intersect Known = {}
           /\ minted + 1 .. n \subseteq Known'
           /\ \A c \in minted + 1 .. n :
                 FollowUp(c) \notin Known /\ FollowUp(c) \notin minted + 1 .. n
BY MaxCallsAssumption DEF TypeOK, Known, FollowUp, Call

\* What a seal_interrupt has read is the transcript of the row, or nothing new.
LEMMA SealReadSound ==
    ASSUME TypeOK, RowSound, NEW s \in Sessions, HeldSound(s), SealRead(s)
    PROVE  sealing'[s] # NoSeal => Sound(sealing'[s])
BY DEF SealRead, RowSound, HeldSound, TypeOK

\* The step leaves the session's control alone.
LEMMA FrameSound ==
    ASSUME NEW s \in Sessions, SessionSound(s), Known \subseteq Known',
           UNCHANGED <<pc, st, ask, batch, outcome>>,
           sealing'[s] # NoSeal => Sound(sealing'[s]),
           row'.status \in Ended => row'.status = row.status
    PROVE  SessionSound(s)'
<1>1. HeldSound(s)'
  BY DEF SessionSound, HeldSound, Sound
<1>2. DecideOpen(s)' /\ BatchOpen(s)' /\ NothingFolded(s)' /\ HaltOpen(s)'
  BY DEF SessionSound, DecideOpen, BatchOpen, NothingFolded, HaltOpen, Pool, Unrepaired,
         Calls
<1>3. QED
  BY <1>1, <1>2 DEF SessionSound, RunningOpen

\* The step takes the session to a point where it has no open call to look after.
LEMMA MoveSound ==
    ASSUME NEW s \in Sessions, Known \subseteq Known',
           pc'[s] \notin {"decide", "batch", "fold", "finish"},
           WellFormed(st'[s]), st'[s].issued \subseteq Known', batch'[s].folded = {},
           sealing'[s] # NoSeal => Sound(sealing'[s]),
           pc'[s] \in {"prepared", "top", "model"} => row'.status \notin Ended
    PROVE  SessionSound(s)'
<1>1. HeldSound(s)'
  BY DEF HeldSound, Sound
<1>2. QED
  BY <1>1 DEF SessionSound, DecideOpen, BatchOpen, NothingFolded, HaltOpen, RunningOpen

-----------------------------------------------------------------------------
\* A step keeps the row and its own session sound, and publishes the end of a Run only
\* under the claim.
LEMMA AnswersOwn ==
    ASSUME IInv, TypeOK', AnswersInv, NEW s \in Sessions, Known \subseteq Known',
           Drive(s) \/ Provider(s) \/ Tool(s) \/ User(s) \/ Fault(s)
    PROVE  /\ RowSound' /\ SessionSound(s)'
           /\ row'.status \in Ended => row'.status = row.status \/ lock = s
<1> DEFINE Goal == /\ RowSound' /\ SessionSound(s)'
                   /\ row'.status \in Ended => row'.status = row.status \/ lock = s
<1>own. /\ TypeOK /\ RowSound /\ SessionSound(s) /\ SessionInv(s) /\ HeldSound(s)
        /\ WellFormed(st[s]) /\ st[s].issued \subseteq Known
        /\ WellFormed(row.st) /\ row.st.issued \subseteq Known
        /\ st[s] \in State /\ batch[s] \in Batch /\ row.st \in State
        /\ UnmatchedToolCalls(st[s]) \subseteq Call
  <2>1. st[s] \in State /\ batch[s] \in Batch /\ row.st \in State
    BY DEF IInv, TypeOK, StoreTypes, ControlTypes
  <2>2. QED
    BY <2>1, UnmatchedType DEF AnswersInv, RowSound, SessionSound, HeldSound, Sound, IInv
<1>kept. ASSUME sealing' = sealing PROVE SealKept(s)
  BY <1>own, <1>kept DEF SealKept, HeldSound
<1>row. ASSUME row' = row PROVE RowSound' /\ (SessionSound(s)' => Goal)
  BY <1>own, <1>row, RowStays
<1>finish. ASSUME NEW state, NEW status, Finish(s, state, status), row' = row,
                  WellFormed(state), state.issued \subseteq Known', sealing' = sealing,
                  status = "waiting_for_approval" => UnmatchedToolCalls(state) # {},
                  status \in Ended => UnmatchedToolCalls(state) = {}
           PROVE  Goal
  BY <1>own, <1>kept, <1>row, <1>finish, FinishSound
<1>finishing. ASSUME NEW status \in {"cancelled", "failed"}, Finish(s, st[s], status),
                     row' = row, sealing' = sealing
              PROVE  Goal
  BY <1>own, <1>finish, <1>finishing DEF Ended
<1>leave. ASSUME NEW p \in {"idle", "aborted"}, Leave(s, p), row' = row,
                 sealing' \in {sealing, [sealing EXCEPT ![s] = NoSeal]}
          PROVE  Goal
  <2>1. SealKept(s)
    BY <1>own, <1>leave DEF SealKept, HeldSound, TypeOK
  <2>2. QED
    BY <1>own, <1>row, <1>leave, <2>1, LeaveSound
<1>save. ASSUME NEW state, Save(state, "keep"), WellFormed(state),
                state.issued \subseteq Known', RunningInv(s), RunningOpen(s),
                pc[s] \in {"model", "fold"}
         PROVE  RowSound' /\ row'.status = row.status /\ row'.status \notin Ended
  <2>1. Coalesce("keep") = row.status /\ row'.status = row.status
    BY <1>save DEF Save, Coalesce
  <2>2. row.status # "waiting_for_approval" /\ row.status \notin Ended
    BY <1>save DEF RunningInv, RunningOpen
  <2>3. QED
    BY <1>save, <2>1, <2>2, SaveSound
<1>inTurn. ASSUME pc[s] \in {"prepared", "top", "model", "decide", "batch", "fold"}
           PROVE  row.status \notin Ended /\ RunningInv(s) /\ RunningOpen(s)
  BY <1>own, <1>inTurn DEF SessionSound, SessionInv, RunningOpen
<1>unfolded. ASSUME pc[s] \notin {"batch", "fold"} PROVE batch[s].folded = {}
  BY <1>own, <1>unfolded DEF SessionSound, NothingFolded
<1>start. ASSUME StartNew(s) PROVE Goal
  <2>1. /\ Save(EmptyState, "running") /\ pc'[s] = "starting" /\ pc[s] = "idle"
        /\ UNCHANGED <<st, batch, sealing>>
    BY <1>own, <1>start DEF StartNew, Goto, At, TypeOK, ControlTypes
  <2>2. RowSound' /\ row'.status = "running"
    BY <2>1, EmptySound, SaveSound DEF Coalesce, Ended, Sound, EmptyState, Save
  <2>3. SessionSound(s)'
    BY <1>own, <1>unfolded, <2>1, MoveSound DEF HeldSound
  <2>4. QED
    BY <2>2, <2>3 DEF Ended
<1>started. ASSUME RunStarted(s) PROVE Goal
  <2>1. /\ Save(EmptyState, "running") /\ pc'[s] = "top" /\ pc[s] = "starting"
        /\ st'[s] = EmptyState /\ UNCHANGED <<batch, sealing>>
    BY <1>own, <1>started DEF RunStarted, Goto, At, TypeOK, ControlTypes
  <2>2. RowSound' /\ row'.status = "running"
    BY <2>1, EmptySound, SaveSound DEF Coalesce, Ended, Sound, EmptyState, Save
  <2>3. SessionSound(s)'
    BY <1>own, <1>unfolded, <2>1, <2>2, EmptySound, MoveSound
    DEF HeldSound, Ended, Sound, EmptyState
  <2>4. QED
    BY <2>2, <2>3 DEF Ended
<1>command. ASSUME ContinueWith(s) \/ RespondApproval(s) \/ RespondApprovals(s)
            PROVE  Goal
  <2>1. PICK state, given : Claim(s, state, given) /\ state \in {row.st, Seal(row.st)}
    BY <1>command DEF ContinueWith, RespondApproval, RespondApprovals, ResumeState
  <2>2. Command(s)
    BY <1>command DEF ContinueWith, RespondApproval, RespondApprovals
  <2>3. /\ pc[s] = "idle" /\ pc'[s] = "resuming" /\ st'[s] = state
        /\ UNCHANGED <<row, batch, sealing>>
    BY <1>own, <2>1, <2>2 DEF Command, Claim, Goto, At, TypeOK, ControlTypes
  <2>4. WellFormed(state) /\ state.issued \subseteq Known'
    BY <1>own, <2>1, SealSound
  <2>5. SessionSound(s)'
    BY <1>own, <1>unfolded, <2>3, <2>4, MoveSound DEF HeldSound
  <2>6. QED
    BY <1>row, <2>3, <2>5
<1>refused. ASSUME CommandRefused(s) \/ Cancel(s) \/ Restart(s) PROVE Goal
  <2>1. UNCHANGED <<row, pc, st, ask, batch, outcome, sealing>>
    BY <1>refused DEF CommandRefused, Command, Cancel, Restart, store, control
  <2>2. QED
    BY <1>own, <1>row, <2>1, FrameSound DEF HeldSound
<1>prepare. ASSUME PrepareResume(s) PROVE Goal
  <2>1. /\ Save(st[s], "running") /\ pc[s] = "resuming" /\ pc'[s] = "prepared"
        /\ UNCHANGED <<st, batch, sealing>>
    BY <1>own, <1>prepare DEF PrepareResume, Goto, At, TypeOK, ControlTypes
  <2>2. row'.status = "running" /\ RowSound'
    BY <1>own, <2>1, SaveSound DEF Coalesce, Ended, Save
  <2>3. SessionSound(s)'
    BY <1>own, <1>unfolded, <2>1, <2>2, MoveSound DEF HeldSound, Ended
  <2>4. QED
    BY <2>2, <2>3 DEF Ended
<1>nothing. ASSUME NothingPending(s) PROVE Goal
  <2>1. /\ pc[s] = "prepared" /\ pc'[s] = "top" /\ UNCHANGED <<row, st, batch, sealing>>
    BY <1>own, <1>nothing DEF NothingPending, Goto, At, store, TypeOK, ControlTypes
  <2>2. SessionSound(s)'
    BY <1>own, <1>inTurn, <1>unfolded, <2>1, MoveSound DEF HeldSound
  <2>3. QED
    BY <1>row, <2>1, <2>2
<1>apply. ASSUME ApplyVerdicts(s) PROVE Goal
  <2> DEFINE pending == UnmatchedToolCalls(st[s])
             decided == pending \intersect Judged(s)
  <2>1. /\ StartBatch(s, "verdict", decided \intersect Approved(s), decided \ Approved(s))
        /\ pc[s] = "prepared" /\ ask'[s] = pending \ decided
        /\ UNCHANGED <<row, st, sealing>>
    BY <1>own, <1>apply DEF ApplyVerdicts, At, store, TypeOK, ControlTypes
  <2>2. SessionSound(s)'
    BY <1>own, <1>inTurn, <1>kept, <2>1, StartSound
  <2>3. QED
    BY <1>row, <2>1, <2>2
<1>still. ASSUME StillPending(s) PROVE Goal
  BY <1>own, <1>finish, <1>still DEF StillPending, OnlyControlMoves, store, Ended
<1>turn. ASSUME TurnStart(s) PROVE Goal
  <2>1. pc[s] = "top" /\ UNCHANGED <<row, sealing>>
    BY <1>turn DEF TurnStart, At, OnlyControlMoves, store
  <2>2. CASE Finish(s, st[s], "paused_limit")
    BY <1>own, <1>finish, <2>1, <2>2 DEF SessionInv, TurnInv
  <2>3. CASE Finish(s, st[s], "cancelled")
    BY <1>finishing, <2>1, <2>3
  <2>4. CASE Goto(s, "model") /\ UNCHANGED <<st, batch>>
    <3>1. pc'[s] = "model"
      BY <1>own, <2>4 DEF Goto, TypeOK, ControlTypes
    <3>2. SessionSound(s)'
      BY <1>own, <1>inTurn, <1>unfolded, <2>1, <2>4, <3>1, MoveSound DEF HeldSound
    <3>3. QED
      BY <1>row, <2>1, <3>2
  <2>5. QED
    BY <1>turn, <2>2, <2>3, <2>4 DEF TurnStart
<1>model. ASSUME ModelResponds(s) PROVE Goal
  <2> DEFINE calls == minted + 1 .. minted'
             grown == AppendModelResponse(st[s], calls)
  <2>1. /\ pc[s] = "model" /\ minted' \in minted .. MaxCalls
        /\ st'[s] = grown /\ ask'[s] = calls /\ Save(grown, "keep")
        /\ pc'[s] = "decide" /\ UNCHANGED <<batch, sealing>>
    BY <1>own, <1>model DEF ModelResponds, At, Goto, TypeOK, ControlTypes
  <2>2. /\ calls \in SUBSET Call /\ calls \intersect Known = {} /\ calls \subseteq Known'
        /\ \A c \in calls : FollowUp(c) \notin Known /\ FollowUp(c) \notin calls
    BY <1>own, <2>1, MintedNew
  <2> HIDE DEF calls
  <2>3. WellFormed(grown) /\ grown.issued = st[s].issued \union calls
    BY <1>own, <2>2, CallsSound
  <2>4. calls \subseteq UnmatchedToolCalls(grown)
    BY <1>own, <2>2, NewCallsOpen
  <2> HIDE DEF grown
  <2>5. RowSound' /\ row'.status = row.status /\ row'.status \notin Ended
    BY <1>own, <1>inTurn, <1>save, <2>1, <2>2, <2>3
  <2>6. HeldSound(s)'
    BY <1>own, <2>1, <2>2, <2>3 DEF HeldSound, Sound
  <2>7. DecideOpen(s)'
    BY <1>own, <2>1, <2>2, <2>3, <2>4 DEF DecideOpen
  <2>8. SessionSound(s)'
    BY <1>unfolded, <2>1, <2>5, <2>6, <2>7
    DEF SessionSound, BatchOpen, NothingFolded, HaltOpen, RunningOpen
  <2>9. QED
    BY <2>5, <2>8
<1>noCalls. ASSUME NoToolCalls(s) PROVE Goal
  <2>1. /\ pc[s] = "decide" /\ Finish(s, st[s], "completed") /\ ask[s] = {}
        /\ UNCHANGED <<row, sealing>>
    BY <1>noCalls DEF NoToolCalls, At, OnlyControlMoves, store
  <2>2. UnmatchedToolCalls(st[s]) = {}
    BY <1>own, <2>1 DEF SessionInv, DecideInv
  <2>3. QED
    BY <1>own, <1>finish, <2>1, <2>2
<1>stops. ASSUME \/ ApprovalCancelled(s) \/ ModelInterrupted(s) \/ ModelFails(s)
                 \/ CancelledAfterModel(s) \/ InterruptLoop(s) \/ FoldSaveFails(s)
                 \/ TerminalSaveFails(s)
          PROVE  Goal
  <2>1. /\ Finish(s, st[s], "cancelled") \/ Finish(s, st[s], "failed")
        /\ UNCHANGED <<row, sealing>>
    BY <1>stops
    DEF ApprovalCancelled, ModelInterrupted, ModelFails, CancelledAfterModel,
        InterruptLoop, FoldSaveFails, TerminalSaveFails, OnlyControlMoves, store
  <2>2. QED
    BY <1>finishing, <2>1
<1>decide. ASSUME Decide(s) PROVE Goal
  <2>1. PICK d \in [ask[s] -> Decision] :
           \/ /\ StartBatch(s, "model", Decided(d, "ALLOW"), Decided(d, "DENY"))
              /\ ask' = [ask EXCEPT ![s] = Decided(d, "NEEDS_APPROVAL")]
              /\ st' = st
           \/ Finish(s, st[s], "waiting_for_approval")
    BY <1>decide DEF Decide
  <2> DEFINE yes == Decided(d, "ALLOW")
             no == Decided(d, "DENY")
             waiting == Decided(d, "NEEDS_APPROVAL")
  <2>2. pc[s] = "decide" /\ ask[s] # {} /\ UNCHANGED <<row, sealing>>
    BY <1>decide DEF Decide, At, store
  <2>3. /\ ask[s] \subseteq UnmatchedToolCalls(st[s])
        /\ \A c \in ask[s] : FollowUp(c) \notin st[s].issued
    BY <1>own, <2>2 DEF SessionSound, DecideOpen
  <2>4. /\ yes \union no \union waiting \subseteq ask[s]
        /\ yes \intersect no = {} /\ waiting \intersect (yes \union no) = {}
    BY DEF Decided
  <2>5. yes \in SUBSET Call /\ no \in SUBSET Call
    BY <1>own, <2>3, <2>4
  <2> HIDE DEF yes, no, waiting
  <2>6. CASE StartBatch(s, "model", yes, no) /\ ask' = [ask EXCEPT ![s] = waiting]
             /\ st' = st
    <3>1. ask'[s] = waiting
      BY <1>own, <2>6 DEF TypeOK, ControlTypes
    <3>2. SessionSound(s)'
      BY <1>own, <1>inTurn, <1>kept, <2>2, <2>3, <2>4, <2>5, <2>6, <3>1, StartSound
    <3>3. QED
      BY <1>row, <2>2, <3>2
  <2>7. CASE Finish(s, st[s], "waiting_for_approval")
    BY <1>own, <1>finish, <2>2, <2>3, <2>7 DEF Ended
  <2>8. QED
    BY <2>1, <2>6, <2>7 DEF yes, no, waiting
<1>modelFails. ASSUME ModelSaveFails(s) PROVE Goal
  <2> DEFINE calls == minted + 1 .. minted'
             grown == AppendModelResponse(st[s], calls)
  <2>1. /\ minted' \in minted .. MaxCalls /\ Finish(s, grown, "failed")
        /\ UNCHANGED <<row, sealing>>
    BY <1>modelFails DEF ModelSaveFails, store
  <2>2. calls \in SUBSET Call /\ calls \subseteq Known'
    BY <1>own, <2>1, MintedNew
  <2> HIDE DEF calls
  <2>3. WellFormed(grown) /\ grown.issued = st[s].issued \union calls
    BY <1>own, <2>2, CallsSound
  <2> HIDE DEF grown
  <2>4. QED
    BY <1>own, <1>finish, <2>1, <2>2, <2>3 DEF Ended
<1>batchStep. ASSUME pc[s] \in {"batch", "fold"}, pc'[s] \in {"batch", "fold"},
                     UNCHANGED <<st, ask, sealing>>, row'.status = row.status,
                     BatchOpen(s)'
              PROVE  SessionSound(s)'
  <2>1. HeldSound(s)'
    BY <1>own, <1>batchStep DEF HeldSound, Sound
  <2>2. QED
    BY <1>inTurn, <1>batchStep, <2>1
    DEF SessionSound, DecideOpen, NothingFolded, HaltOpen, RunningOpen
<1>inBatch. ASSUME pc[s] \in {"batch", "fold"} PROVE BatchOpen(s)
  BY <1>own, <1>inBatch DEF SessionSound
<1>returns. ASSUME NEW c \in Call, ToolReturns(s, c) PROVE Goal
  <2>1. PICK wants \in {{}, {c}} : batch' = [batch EXCEPT ![s] = Answered(@, c, wants)]
    BY <1>returns DEF ToolReturns
  <2>2. /\ pc[s] = "batch" /\ c \in batch[s].running
        /\ UNCHANGED <<row, pc, st, ask, sealing>>
    BY <1>returns DEF ToolReturns, At, store
  <2>3. /\ batch'[s].running = batch[s].running \ {c}
        /\ batch'[s].resolved = batch[s].resolved \union {<<c, "done">>}
        /\ batch'[s].folded = batch[s].folded /\ batch'[s].kind = batch[s].kind
        /\ batch'[s].wants \subseteq batch[s].wants \union {c}
    BY <1>own, <2>1 DEF Answered, Batch, TypeOK, ControlTypes
  <2>4. Pool(s)' = Pool(s) \union {<<c, "done">>}
    BY <2>3 DEF Pool
  <2>5. Calls(Pool(s)') = Calls(Pool(s)) \union {c}
    BY <2>4, AnsweredCalls
  <2>6. Calls(Pool(s))' = Calls(Pool(s)) \union {c}
    BY <2>5 DEF Calls
  <2>7. \A q \in Pool(s) : q[1] # c
    BY <1>inBatch, <2>2 DEF BatchOpen, Calls
  <2>8. /\ \A q, r \in Pool(s)' : q[1] = r[1] => q = r
        /\ Unrepaired(Pool(s))'
    BY <1>inBatch, <2>2, <2>4, <2>7 DEF BatchOpen, Unrepaired
  <2>9. BatchOpen(s)'
    BY <1>inBatch, <2>2, <2>3, <2>6, <2>8 DEF BatchOpen
  <2>10. QED
    BY <1>batchStep, <1>row, <2>2, <2>9
<1>cut. ASSUME NEW c \in Call, ToolCut(s, c) PROVE Goal
  <2>1. /\ batch' = [batch EXCEPT ![s] = Stopped(@, c)]
        /\ pc[s] = "batch" /\ UNCHANGED <<row, pc, st, ask, sealing>>
    BY <1>cut DEF ToolCut, At, store
  <2>2. /\ batch'[s].running = batch[s].running \ {c}
        /\ batch'[s].resolved = batch[s].resolved /\ batch'[s].kind = batch[s].kind
        /\ batch'[s].folded = batch[s].folded /\ batch'[s].wants = batch[s].wants
    BY <1>own, <2>1 DEF Stopped, Batch, TypeOK, ControlTypes
  <2>3. BatchOpen(s)'
    BY <1>inBatch, <2>1, <2>2 DEF BatchOpen, Pool, Unrepaired, Calls
  <2>4. QED
    BY <1>batchStep, <1>row, <2>1, <2>3
<1>gathered. ASSUME Gathered(s) PROVE Goal
  <2>1. pc[s] = "batch" /\ pc'[s] = "fold" /\ UNCHANGED <<row, st, ask, batch, sealing>>
    BY <1>own, <1>gathered DEF Gathered, At, Goto, store, TypeOK, ControlTypes
  <2>2. BatchOpen(s)'
    BY <1>inBatch, <2>1 DEF BatchOpen, Pool, Unrepaired, Calls
  <2>3. QED
    BY <1>batchStep, <1>row, <2>1, <2>2
<1>fold. ASSUME FoldResult(s) PROVE Goal
  <2>1. PICK r \in batch[s].resolved :
           /\ batch' = [batch EXCEPT ![s] = Appended(@, r)]
           /\ Save(AfterTool(s, r), "keep")
    BY <1>fold DEF FoldResult
  <2>2. pc[s] = "fold" /\ UNCHANGED <<pc, st, ask, sealing>>
    BY <1>fold DEF FoldResult, At
  <2>3. /\ batch'[s].running = batch[s].running /\ batch'[s].kind = batch[s].kind
        /\ batch'[s].resolved = batch[s].resolved \ {r}
        /\ batch'[s].folded = batch[s].folded \union {r}
        /\ batch'[s].wants = batch[s].wants
    BY <1>own, <2>1 DEF Appended, Batch, TypeOK, ControlTypes
  <2>4. Pool(s)' = Pool(s)
    BY <2>1, <2>3 DEF Pool
  <2>5. BatchOpen(s)'
    BY <1>inBatch, <2>2, <2>3, <2>4 DEF BatchOpen, Unrepaired, Calls
  <2> DEFINE results == batch[s].folded \union {r}
  <2>6. results \in SUBSET (Call \X Outcome) /\ results \subseteq Pool(s)
    BY <1>own, <2>1 DEF Batch, Pool
  <2>7. /\ \A p, q \in results : p[1] = q[1] => p = q
        /\ Calls(results) \subseteq UnmatchedToolCalls(st[s])
    BY <1>inBatch, <2>2, <2>6 DEF BatchOpen, Calls
  <2>8. AfterTool(s, r) = AppendToolResults(st[s], results)
    BY <1>own DEF AfterTool, Folded, AppendToolResults, State
  <2>9. WellFormed(AfterTool(s, r)) /\ AfterTool(s, r).issued = st[s].issued
    BY <1>own, <2>6, <2>7, <2>8, ResultsSound, ZenonT(60)
  <2>10. RowSound' /\ row'.status = row.status
    BY <1>own, <1>inTurn, <1>save, <2>1, <2>2, <2>9
  <2>11. QED
    BY <1>batchStep, <2>2, <2>5, <2>10
<1>batchCancelled. ASSUME BatchCancelled(s) PROVE Goal
  <2>1. /\ pc[s] = "fold" /\ Finish(s, Folded(s), "cancelled")
        /\ UNCHANGED <<row, sealing>>
    BY <1>batchCancelled DEF BatchCancelled, At, OnlyControlMoves, store
  <2>2. QED
    BY <1>own, <1>finish, <2>1, FoldedSound DEF Sound, Ended
<1>done. ASSUME BatchDone(s) PROVE Goal
  <2>1. /\ pc[s] = "fold" /\ AfterBatch(s, Folded(s), ask[s]) /\ UNCHANGED <<row, sealing>>
    BY <1>done DEF BatchDone, At, store
  <2>2. /\ WellFormed(Folded(s)) /\ Folded(s).issued \subseteq Known'
        /\ ask[s] \subseteq UnmatchedToolCalls(Folded(s))
    BY <1>own, <2>1, FoldedSound DEF Sound
  <2>3. SessionSound(s)'
    BY <1>own, <1>inTurn, <1>kept, <2>1, <2>2, AfterBatchSound
  <2>4. QED
    BY <1>row, <2>1, <2>3
<1>synthesize. ASSUME Synthesize(s) PROVE Goal
  <2> DEFINE calls == {FollowUp(c) : c \in FollowUpSources(s)}
             grown == AppendSyntheticToolCalls(Folded(s), calls)
  <2>1. PICK d \in [calls -> Decision] :
           \/ /\ StartBatch(s, "synth", Decided(d, "ALLOW"), Decided(d, "DENY"))
              /\ ask' = [ask EXCEPT ![s] = @ \union Decided(d, "NEEDS_APPROVAL")]
              /\ st' = [st EXCEPT ![s] = grown]
           \/ AfterBatch(s, grown, ask[s] \union Decided(d, "NEEDS_APPROVAL"))
    BY <1>synthesize DEF Synthesize
  <2> DEFINE yes == Decided(d, "ALLOW")
             no == Decided(d, "DENY")
             waiting == Decided(d, "NEEDS_APPROVAL")
  <2>2. pc[s] = "fold" /\ calls # {} /\ UNCHANGED <<row, sealing>>
    BY <1>synthesize DEF Synthesize, At, store
  <2>3. /\ Folded(s) \in State /\ WellFormed(Folded(s))
        /\ Folded(s).issued = st[s].issued /\ Folded(s).issued \subseteq Known
        /\ ask[s] \subseteq UnmatchedToolCalls(Folded(s))
    BY <1>own, <2>2, FoldedSound DEF Sound
  <2>4. /\ \A c \in FollowUpSources(s) :
              c \in ModelCall /\ c <= minted /\ FollowUp(c) \notin st[s].issued
    BY <1>own, <1>inBatch, <2>2 DEF FollowUpSources, BatchOpen, SessionInv, BatchInv
  <2>5. calls \in SUBSET Call /\ calls \subseteq Known /\ calls \intersect st[s].issued = {}
    BY <2>4, CallFacts DEF Known, ModelCall
  <2>6. /\ yes \union no \union waiting \subseteq calls
        /\ yes \intersect no = {} /\ waiting \intersect (yes \union no) = {}
    BY DEF Decided
  <2> HIDE DEF yes, no, waiting, calls
  <2>7. /\ WellFormed(grown) /\ grown.issued = st[s].issued \union calls
        /\ UnmatchedToolCalls(grown) = UnmatchedToolCalls(Folded(s)) \union calls
    BY <2>3, <2>5, CallsSound, NewCallsOpen
  <2> HIDE DEF grown
  <2>8. ask[s] \intersect calls = {}
    BY <2>3, <2>5 DEF UnmatchedToolCalls
  <2>9. row.status \notin Ended /\ grown.issued \subseteq Known'
    BY <1>own, <1>inTurn, <2>2, <2>3, <2>5, <2>7
  <2>10. CASE /\ StartBatch(s, "synth", yes, no)
              /\ ask' = [ask EXCEPT ![s] = @ \union waiting]
              /\ st' = [st EXCEPT ![s] = grown]
    <3>1. ask'[s] = ask[s] \union waiting /\ st'[s] = grown
      BY <1>own, <2>10 DEF TypeOK, ControlTypes
    <3>2. /\ yes \in SUBSET Call /\ no \in SUBSET Call
          /\ ask'[s] \intersect (yes \union no) = {}
          /\ ask'[s] \union yes \union no \subseteq UnmatchedToolCalls(st'[s])
      BY <2>3, <2>5, <2>6, <2>7, <2>8, <3>1
    <3>3. SessionSound(s)'
      BY <1>own, <1>kept, <2>2, <2>6, <2>7, <2>9, <2>10, <3>1, <3>2, StartSound
    <3>4. QED
      BY <1>row, <2>2, <3>3
  <2>11. CASE AfterBatch(s, grown, ask[s] \union waiting)
    <3>1. ask[s] \union waiting \subseteq UnmatchedToolCalls(grown)
      BY <2>3, <2>6, <2>7
    <3>2. SessionSound(s)'
      BY <1>own, <1>kept, <2>2, <2>7, <2>9, <2>11, <3>1, AfterBatchSound
    <3>3. QED
      BY <1>row, <2>2, <3>2
  <2>12. QED
    BY <2>1, <2>10, <2>11 DEF yes, no, waiting
<1>terminal. ASSUME Terminal(s) PROVE Goal
  <2>1. /\ pc[s] = "finish" /\ pc'[s] = "ending" /\ Save(st[s], outcome[s])
        /\ UNCHANGED <<st, batch, sealing>> /\ outcome[s] \in Status
    BY <1>own, <1>terminal DEF Terminal, At, Goto, TypeOK, ControlTypes
  <2>2. /\ outcome[s] = "waiting_for_approval" => UnmatchedToolCalls(st[s]) # {}
        /\ outcome[s] \in Ended => UnmatchedToolCalls(st[s]) = {}
    BY <1>own, <2>1 DEF SessionSound, HaltOpen
  <2>3. Coalesce(outcome[s]) = outcome[s]
    BY <2>1 DEF Coalesce, Status
  <2>4. RowSound'
    BY <1>own, <2>1, <2>2, <2>3, SaveSound
  <2>5. SessionSound(s)'
    BY <1>own, <1>unfolded, <2>1, MoveSound DEF HeldSound
  <2>6. lock = s
    BY <2>1 DEF IInv, SharedInv, ClaimInv
  <2>7. QED
    BY <2>4, <2>5, <2>6
<1>leaves. ASSUME \/ PrepareResumeConflict(s) \/ Return(s) \/ InterruptPreparation(s)
                  \/ Crash(s) \/ SaveFailsOutside(s)
           PROVE  Goal
  <2>1. /\ \E p \in {"idle", "aborted"} : Leave(s, p)
        /\ row' = row /\ sealing' \in {sealing, [sealing EXCEPT ![s] = NoSeal]}
    BY <1>leaves
    DEF PrepareResumeConflict, Return, InterruptPreparation, Crash, SaveFailsOutside,
        Propagate, store
  <2>2. QED
    BY <1>leave, <2>1
<1>aborted. ASSUME ShutdownAfterAbort(s) PROVE Goal
  <2>1. /\ pc[s] = "aborted" /\ pc'[s] = "idle" /\ SealRead(s)
        /\ UNCHANGED <<row, st, batch>>
    BY <1>own, <1>aborted DEF ShutdownAfterAbort, At, Goto, store, TypeOK, ControlTypes
  <2>2. SessionSound(s)'
    BY <1>own, <1>unfolded, <2>1, SealReadSound, MoveSound
  <2>3. QED
    BY <1>row, <2>1, <2>2
<1>shutdown. ASSUME Shutdown(s) PROVE Goal
  <2>1. SealRead(s) /\ UNCHANGED <<row, pc, st, ask, batch, outcome>>
    BY <1>shutdown DEF Shutdown, store, control
  <2>2. SessionSound(s)'
    BY <1>own, <2>1, SealReadSound, FrameSound
  <2>3. QED
    BY <1>row, <2>1, <2>2
<1>sealWrite. ASSUME SealWrite(s) PROVE Goal
  <2>1. /\ sealing[s] # NoSeal /\ sealing[s] \in State /\ Sound(sealing[s])
        /\ Save(Seal(sealing[s]), "cancelled") /\ sealing'[s] = NoSeal
        /\ UNCHANGED <<pc, st, ask, batch, outcome>>
    BY <1>own, <1>sealWrite DEF SealWrite, HeldSound, control, TypeOK
  <2>2. WellFormed(Seal(sealing[s])) /\ Seal(sealing[s]).issued \subseteq Known'
    BY <2>1, SealSound DEF Sound
  <2>3. RowSound' /\ row'.status = "cancelled"
    BY <2>1, <2>2, SaveSound DEF Save, Coalesce, Ended
  <2>4. SessionSound(s)'
    BY <1>own, <2>1, <2>3, FrameSound DEF Ended
  <2>5. QED
    BY <2>3, <2>4 DEF Ended
<1>qed. QED
  <2>1. ASSUME Drive(s) PROVE Goal
    BY <2>1, <1>started, <1>prepare, <1>nothing, <1>apply, <1>still, <1>turn, <1>noCalls,
       <1>stops, <1>decide, <1>cut, <1>gathered, <1>fold, <1>batchCancelled, <1>done,
       <1>synthesize, <1>terminal, <1>leaves, <1>aborted, <1>sealWrite
    DEF Drive
  <2>2. ASSUME Provider(s) \/ Tool(s) PROVE Goal
    BY <2>2, <1>model, <1>stops, <1>returns DEF Provider, Tool
  <2>3. ASSUME User(s) PROVE Goal
    BY <2>3, <1>start, <1>command, <1>refused, <1>shutdown, <1>stops, <1>leaves DEF User
  <2>4. ASSUME Fault(s) PROVE Goal
    BY <2>4, <1>leaves, <1>stops, <1>modelFails DEF Fault
  <2>5. QED
    BY <2>1, <2>2, <2>3, <2>4

-----------------------------------------------------------------------------
(* What is repaired: a Run that nothing has disturbed needs no repair. *)

\* The steps that leave a Run undisturbed.
LEMMA CalmStep ==
    ASSUME NEW s \in Sessions, ~disturbed',
           Drive(s) \/ Provider(s) \/ Tool(s) \/ User(s) \/ Fault(s)
    PROVE  /\ ~disturbed
           /\ \/ Drive(s) \/ Provider(s) \/ Tool(s)
              \/ StartNew(s) \/ ContinueWith(s) \/ RespondApproval(s)
              \/ RespondApprovals(s) \/ CommandRefused(s) \/ Restart(s)
<1>1. ASSUME Drive(s) \/ Tool(s) PROVE disturbed' = disturbed
  BY <1>1
  DEF Drive, Tool, RunStarted, PrepareResume, PrepareResumeConflict, NothingPending,
      ApprovalCancelled, ApplyVerdicts, StillPending, TurnStart, ModelInterrupted,
      NoToolCalls, CancelledAfterModel, Decide, ToolReturns, ToolCut, Gathered,
      FoldResult, BatchCancelled, BatchDone, Synthesize, Terminal, Return,
      ShutdownAfterAbort, SealWrite, OnlyControlMoves
<1>2. ASSUME Provider(s) PROVE disturbed' = disturbed
  BY <1>2 DEF Provider, ModelResponds, ModelFails, OnlyControlMoves
<1>3. ASSUME StartNew(s) \/ ContinueWith(s) \/ RespondApproval(s) \/ RespondApprovals(s)
             \/ CommandRefused(s) \/ Restart(s)
      PROVE  disturbed' = disturbed
  BY <1>3 DEF StartNew, ContinueWith, RespondApproval, RespondApprovals, CommandRefused,
              Command, Restart
<1>4. ~Fault(s)
  BY DEF Fault, Crash, SaveFailsOutside, FoldSaveFails, ModelSaveFails,
         TerminalSaveFails, Disturb
<1>5. ~(Cancel(s) \/ Shutdown(s) \/ InterruptLoop(s) \/ InterruptPreparation(s))
  BY DEF Cancel, Shutdown, InterruptLoop, InterruptPreparation, Disturb
<1>6. QED
  BY <1>1, <1>2, <1>3, <1>4, <1>5 DEF User

\* The row changes under the claim only, so that the others see the row they saw.
LEMMA OthersUndisturbed ==
    ASSUME IInv, \A t \in Sessions : SessionUndisturbed(t), NEW s \in Sessions,
           LocalTo(s), row' = row \/ lock \in {s, None}
    PROVE  \A t \in Sessions \ {s} : SessionUndisturbed(t)'
<1> SUFFICES ASSUME NEW t \in Sessions \ {s} PROVE SessionUndisturbed(t)'
  OBVIOUS
<1>1. /\ pc'[t] = pc[t] /\ st'[t] = st[t] /\ batch'[t] = batch[t]
      /\ outcome'[t] = outcome[t] /\ token'[t] = token[t] /\ down'[t] = down[t]
      /\ sealing'[t] = sealing[t]
  BY DEF LocalTo
<1>2. SessionUndisturbed(t)
  OBVIOUS
<1>3. pc'[t] \in {"resuming", "ending"} => RowSettled'
  <2>1. CASE row' = row
    BY <1>1, <1>2, <2>1 DEF SessionUndisturbed, RowSettled
  <2>2. CASE lock \in {s, None}
    BY <1>1, <2>2, OthersQuiet DEF IInv, SharedInv
  <2>3. QED
    BY <2>1, <2>2
<1>4. QED
  BY <1>1, <1>2, <1>3 DEF SessionUndisturbed, Unrepaired

\* The results of a batch are the Tools' own or refusals.
LEMMA FoldedUnrepaired ==
    ASSUME TypeOK, NEW s \in Sessions, SessionSound(s), SessionUndisturbed(s),
           pc[s] \in {"batch", "fold"}
    PROVE  /\ Unrepaired(Folded(s).results)
           /\ \A r \in batch[s].resolved : Unrepaired(AfterTool(s, r).results)
<1>1. st[s] \in State /\ batch[s].folded \in SUBSET (Call \X Outcome)
  BY DEF TypeOK, ControlTypes, Batch
<1>2. Unrepaired(Pool(s)) /\ Unrepaired(st[s].results)
  BY DEF SessionSound, BatchOpen, SessionUndisturbed
<1>3. Folded(s).results = st[s].results \union batch[s].folded
  BY <1>1 DEF Folded, AppendToolResults, State
<1>4. Folded(s) \in State
  BY FoldedType DEF TypeOK
<1>5. \A r \in batch[s].resolved :
         AfterTool(s, r).results = Folded(s).results \union {r}
  BY <1>4 DEF AfterTool, AppendToolResults, State
<1>6. QED
  BY <1>2, <1>3, <1>5 DEF Unrepaired, Pool

LEMMA UndisturbedStep ==
    ASSUME IInv, TypeOK', AnswersInv, UndisturbedInv, NEW s \in Sessions, LocalTo(s),
           Drive(s) \/ Provider(s) \/ Tool(s) \/ User(s) \/ Fault(s)
    PROVE  UndisturbedInv'
<1> SUFFICES ASSUME ~disturbed'
             PROVE  /\ Unrepaired(row'.st.results)
                    /\ lock' = None => RowSettled'
                    /\ \A t \in Sessions : SessionUndisturbed(t)'
  BY DEF UndisturbedInv, Unrepaired
<1> DEFINE Goal == /\ Unrepaired(row'.st.results)
                   /\ lock' = None => RowSettled'
                   /\ \A t \in Sessions : SessionUndisturbed(t)'
           Steady == lock' = lock /\ UNCHANGED <<token, down, sealing>>
<1>calm. /\ Unrepaired(row.st.results)
         /\ lock = None => RowSettled
         /\ \A t \in Sessions : SessionUndisturbed(t)
  BY CalmStep DEF UndisturbedInv
<1>own. /\ TypeOK /\ RowSound /\ SessionSound(s) /\ SessionInv(s)
        /\ SessionUndisturbed(s) /\ ~token[s] /\ ~down[s] /\ sealing[s] = NoSeal
        /\ pc[s] # "aborted" /\ ~batch[s].cut /\ Unrepaired(st[s].results)
        /\ st[s] \in State /\ batch[s] \in Batch /\ row.st \in State
  BY <1>calm
  DEF IInv, TypeOK, StoreTypes, ControlTypes, AnswersInv, SessionUndisturbed
<1>held. pc[s] \notin {"idle", "aborted"} => lock = s /\ lock # None
  BY ConstantsAssumption DEF IInv, SharedInv, ClaimInv
<1>whole. ASSUME row' = row \/ lock \in {s, None}, Unrepaired(row'.st.results),
                 lock' = None => RowSettled', SessionUndisturbed(s)'
          PROVE  Goal
  BY <1>calm, <1>whole, OthersUndisturbed
<1>same. ASSUME row' = row, lock' = lock, SessionUndisturbed(s)' PROVE Goal
  BY <1>calm, <1>same, <1>whole DEF RowSettled
<1>finish. ASSUME NEW state, NEW status, Finish(s, state, status), row' = row, Steady,
                  Unrepaired(state.results),
                  status = "waiting_for_approval" \/ UnmatchedToolCalls(state) = {}
           PROVE  Goal
  <2>1. /\ pc'[s] = "finish" /\ st'[s] = state /\ outcome'[s] = status
        /\ ~batch'[s].cut
    BY <1>own, <1>finish DEF Finish, Goto, TypeOK, ControlTypes, NoBatch
  <2>2. SessionUndisturbed(s)'
    BY <1>own, <1>finish, <2>1 DEF SessionUndisturbed, Unrepaired
  <2>3. QED
    BY <1>same, <1>finish, <2>2
<1>move. ASSUME NEW p \in {"starting", "top", "prepared", "model", "decide", "batch", "fold"},
                pc'[s] = p, UNCHANGED <<token, down, sealing>>,
                Unrepaired(st'[s].results), ~batch'[s].cut
         PROVE  SessionUndisturbed(s)'
  BY <1>own, <1>move DEF SessionUndisturbed, Unrepaired
<1>leave. ASSUME Leave(s, "idle"), pc[s] \in {"resuming", "ending"},
                 UNCHANGED <<row, down, sealing>>
          PROVE  Goal
  <2>1. /\ pc'[s] = "idle" /\ st'[s] = EmptyState /\ ~batch'[s].cut /\ ~token'[s]
    BY <1>own, <1>leave
    DEF Leave, Goto, TypeOK, ControlTypes, ForegroundTypes, NoBatch
  <2>2. SessionUndisturbed(s)'
    BY <1>own, <1>leave, <2>1 DEF SessionUndisturbed, Unrepaired, EmptyState
  <2>3. RowSettled'
    BY <1>own, <1>leave DEF SessionUndisturbed, RowSettled
  <2>4. QED
    BY <1>calm, <1>whole, <1>leave, <2>2, <2>3
<1>afterBatch. ASSUME NEW state, NEW waiting, AfterBatch(s, state, waiting), row' = row,
                      Steady, Unrepaired(state.results)
               PROVE  Goal
  <2>1. CASE waiting # {}
    BY <1>finish, <1>afterBatch, <2>1 DEF AfterBatch
  <2>2. CASE waiting = {}
    <3>1. pc'[s] = "top" /\ st'[s] = state /\ ~batch'[s].cut
      BY <1>own, <1>afterBatch, <2>2 DEF AfterBatch, Goto, TypeOK, ControlTypes, NoBatch
    <3>2. QED
      BY <1>same, <1>move, <1>afterBatch, <3>1
  <2>3. QED
    BY <2>1, <2>2
<1>startBatch. ASSUME NEW kind, NEW runs, NEW denies, StartBatch(s, kind, runs, denies),
                      row' = row, Steady, Unrepaired(st'[s].results)
               PROVE  Goal
  <2>1. pc'[s] = "batch" /\ ~batch'[s].cut
    BY <1>own, <1>startBatch DEF StartBatch, Goto, TypeOK, ControlTypes
  <2>2. QED
    BY <1>same, <1>move, <1>startBatch, <2>1
<1>start. ASSUME StartNew(s) \/ RunStarted(s) PROVE Goal
  <2>1. /\ Save(EmptyState, "running") /\ pc'[s] \in {"starting", "top"}
        /\ st'[s] \in {st[s], EmptyState} /\ ~token'[s] /\ lock \in {s, None}
        /\ lock' = s /\ UNCHANGED <<batch, down, sealing>>
    BY <1>own, <1>held, <1>start
    DEF StartNew, RunStarted, Goto, At, foreground, TypeOK, ControlTypes, ForegroundTypes
  <2>2. Unrepaired(row'.st.results) /\ Unrepaired(st'[s].results)
    BY <1>own, <2>1 DEF Save, Unrepaired, EmptyState
  <2>3. SessionUndisturbed(s)'
    BY <1>own, <2>1, <2>2 DEF SessionUndisturbed, Unrepaired
  <2>4. QED
    BY <1>whole, <2>1, <2>2, <2>3, ConstantsAssumption
<1>command. ASSUME ContinueWith(s) \/ RespondApproval(s) \/ RespondApprovals(s)
            PROVE  Goal
  <2>1. PICK state, given :
           Claim(s, state, given) /\ state \in {row.st, ResumeState(row)}
    BY <1>command DEF ContinueWith, RespondApproval, RespondApprovals
  <2>2. Command(s)
    BY <1>command DEF ContinueWith, RespondApproval, RespondApprovals
  <2>3. /\ pc'[s] = "resuming" /\ st'[s] = state /\ ~token'[s] /\ lock = None
        /\ lock' = s /\ UNCHANGED <<row, batch, down, sealing>>
    BY <1>own, <2>1, <2>2
    DEF Command, Claim, Goto, TypeOK, ControlTypes, ForegroundTypes
  <2>4. RowSettled /\ RowSettled'
    BY <1>calm, <2>3 DEF RowSettled
  <2>5. Unrepaired(state.results)
    BY <1>calm, <1>own, <2>1, <2>4, SealNothing DEF ResumeState, RowSettled
  <2>6. SessionUndisturbed(s)'
    BY <1>own, <2>3, <2>4, <2>5 DEF SessionUndisturbed, Unrepaired
  <2>7. QED
    BY <1>calm, <1>whole, <2>3, <2>4, <2>6
<1>refused. ASSUME CommandRefused(s) PROVE Goal
  <2>1. /\ UNCHANGED <<row, lock, pc, st, batch, outcome, down, sealing>> /\ ~token'[s]
    BY <1>own, <1>refused DEF CommandRefused, Command, store, TypeOK, ForegroundTypes
  <2>2. SessionUndisturbed(s)'
    BY <1>own, <2>1 DEF SessionUndisturbed, Unrepaired, RowSettled
  <2>3. QED
    BY <1>same, <2>1, <2>2
<1>prepare. ASSUME PrepareResume(s) PROVE Goal
  <2>1. /\ Save(st[s], "running") /\ pc[s] = "resuming" /\ pc'[s] = "prepared"
        /\ UNCHANGED <<lock, st, batch, token, down, sealing>>
    BY <1>own, <1>prepare DEF PrepareResume, Goto, At, foreground, TypeOK, ControlTypes
  <2>2. SessionUndisturbed(s)' /\ Unrepaired(row'.st.results)
    BY <1>own, <1>move, <2>1 DEF Save
  <2>3. QED
    BY <1>held, <1>whole, <2>1, <2>2
<1>conflict. ASSUME PrepareResumeConflict(s) \/ Return(s) PROVE Goal
  BY <1>leave, <1>conflict DEF PrepareResumeConflict, Return, At, store
<1>nothing. ASSUME NothingPending(s) PROVE Goal
  <2>1. /\ pc'[s] = "top"
        /\ UNCHANGED <<row, lock, st, batch, token, down, sealing>>
    BY <1>own, <1>nothing DEF NothingPending, Goto, store, foreground, TypeOK, ControlTypes
  <2>2. QED
    BY <1>own, <1>same, <1>move, <2>1
<1>apply. ASSUME ApplyVerdicts(s) PROVE Goal
  <2>1. /\ \E kind, runs, denies : StartBatch(s, kind, runs, denies)
        /\ row' = row /\ Steady /\ st' = st
    BY <1>apply DEF ApplyVerdicts, store, foreground
  <2>2. QED
    BY <1>own, <1>startBatch, <2>1
<1>still. ASSUME StillPending(s) PROVE Goal
  BY <1>own, <1>finish, <1>still DEF StillPending, OnlyControlMoves, store, foreground
<1>turn. ASSUME TurnStart(s) PROVE Goal
  <2>1. /\ pc[s] = "top" /\ UnmatchedToolCalls(st[s]) = {} /\ row' = row /\ Steady
    BY <1>own, <1>turn
    DEF TurnStart, At, OnlyControlMoves, store, foreground, SessionInv, TurnInv
  <2>2. CASE \E status : Finish(s, st[s], status)
    BY <1>own, <1>finish, <2>1, <2>2
  <2>3. CASE Goto(s, "model") /\ UNCHANGED <<st, batch>>
    <3>1. pc'[s] = "model"
      BY <1>own, <2>3 DEF Goto, TypeOK, ControlTypes
    <3>2. QED
      BY <1>own, <1>same, <1>move, <2>1, <2>3, <3>1
  <2>4. QED
    BY <1>turn, <2>2, <2>3 DEF TurnStart
<1>model. ASSUME ModelResponds(s) PROVE Goal
  <2>1. PICK n \in minted .. MaxCalls :
           LET grown == AppendModelResponse(st[s], minted + 1 .. n)
           IN st' = [st EXCEPT ![s] = grown] /\ Save(grown, "keep") /\ minted' = n
    BY <1>model DEF ModelResponds
  <2>2. /\ pc[s] = "model" /\ pc'[s] = "decide"
        /\ UNCHANGED <<lock, batch, token, down, sealing>>
    BY <1>own, <1>model DEF ModelResponds, At, Goto, foreground, TypeOK, ControlTypes
  <2>3. AppendModelResponse(st[s], minted + 1 .. n).results = st[s].results
    BY <1>own DEF AppendModelResponse, State
  <2>4. st'[s].results = st[s].results /\ row'.st.results = st[s].results
    BY <1>own, <2>1, <2>3 DEF Save, TypeOK, ControlTypes
  <2>5. QED
    BY <1>own, <1>held, <1>whole, <1>move, <2>2, <2>4
<1>modelFails. ASSUME ModelFails(s) PROVE Goal
  <2>1. /\ Finish(s, st[s], "failed") /\ UnmatchedToolCalls(st[s]) = {}
        /\ row' = row /\ Steady
    BY <1>own, <1>modelFails
    DEF ModelFails, At, OnlyControlMoves, store, foreground, SessionInv, TurnInv
  <2>2. QED
    BY <1>own, <1>finish, <2>1
<1>noCalls. ASSUME NoToolCalls(s) PROVE Goal
  <2>1. /\ Finish(s, st[s], "completed") /\ UnmatchedToolCalls(st[s]) = {}
        /\ row' = row /\ Steady
    BY <1>own, <1>noCalls
    DEF NoToolCalls, At, OnlyControlMoves, store, foreground, SessionInv, DecideInv
  <2>2. QED
    BY <1>own, <1>finish, <2>1
<1>decide. ASSUME Decide(s) PROVE Goal
  <2>1. /\ row' = row /\ Steady
        /\ \/ (\E kind, runs, denies : StartBatch(s, kind, runs, denies)) /\ st' = st
           \/ Finish(s, st[s], "waiting_for_approval")
    BY <1>decide DEF Decide, store, foreground
  <2>2. QED
    BY <1>own, <1>finish, <1>startBatch, <2>1
<1>returns. ASSUME NEW c \in Call, ToolReturns(s, c) PROVE Goal
  <2>1. /\ pc'[s] = "batch" /\ ~batch'[s].cut
        /\ UNCHANGED <<row, lock, st, token, down, sealing>>
    BY <1>own, <1>returns
    DEF ToolReturns, Answered, At, Batch, store, foreground, TypeOK, ControlTypes
  <2>2. QED
    BY <1>own, <1>same, <1>move, <2>1
<1>gathered. ASSUME Gathered(s) PROVE Goal
  <2>1. /\ pc'[s] = "fold" /\ UNCHANGED <<row, lock, st, batch, token, down, sealing>>
    BY <1>own, <1>gathered DEF Gathered, Goto, store, foreground, TypeOK, ControlTypes
  <2>2. QED
    BY <1>own, <1>same, <1>move, <2>1
<1>fold. ASSUME FoldResult(s) PROVE Goal
  <2>1. PICK r \in batch[s].resolved :
           /\ batch' = [batch EXCEPT ![s] = Appended(@, r)]
           /\ Save(AfterTool(s, r), "keep")
    BY <1>fold DEF FoldResult
  <2>2. pc[s] = "fold" /\ UNCHANGED <<lock, pc, st, token, down, sealing>>
    BY <1>fold DEF FoldResult, At, foreground
  <2>3. ~batch'[s].cut
    BY <1>own, <2>1 DEF Appended, Batch, TypeOK, ControlTypes
  <2>4. Unrepaired(row'.st.results)
    BY <1>own, <2>1, <2>2, FoldedUnrepaired DEF Save
  <2>5. QED
    BY <1>own, <1>held, <1>whole, <1>move, <2>2, <2>3, <2>4
<1>done. ASSUME BatchDone(s) PROVE Goal
  <2>1. /\ pc[s] = "fold" /\ AfterBatch(s, Folded(s), ask[s]) /\ row' = row /\ Steady
    BY <1>done DEF BatchDone, At, store, foreground
  <2>2. QED
    BY <1>own, <1>afterBatch, <2>1, FoldedUnrepaired
<1>synthesize. ASSUME Synthesize(s) PROVE Goal
  <2> DEFINE grown == AppendSyntheticToolCalls(
                          Folded(s), {FollowUp(c) : c \in FollowUpSources(s)})
  <2>1. /\ pc[s] = "fold" /\ row' = row /\ Steady
        /\ \/ /\ \E kind, runs, denies : StartBatch(s, kind, runs, denies)
              /\ st' = [st EXCEPT ![s] = grown]
           \/ \E waiting : AfterBatch(s, grown, waiting)
    BY <1>synthesize DEF Synthesize, At, store, foreground
  <2>2. Folded(s) \in State /\ grown.results = Folded(s).results
    BY <1>own, FoldedType DEF AppendSyntheticToolCalls, State, TypeOK
  <2>3. Unrepaired(grown.results)
    BY <1>own, <2>1, <2>2, FoldedUnrepaired
  <2> HIDE DEF grown
  <2>4. ASSUME st' = [st EXCEPT ![s] = grown] PROVE st'[s] = grown
    BY <1>own, <2>4 DEF TypeOK, ControlTypes
  <2>5. QED
    BY <1>afterBatch, <1>startBatch, <2>1, <2>3, <2>4
<1>terminal. ASSUME Terminal(s) PROVE Goal
  <2>1. /\ pc[s] = "finish" /\ pc'[s] = "ending" /\ Save(st[s], outcome[s])
        /\ outcome[s] \in Status /\ UNCHANGED <<lock, st, batch, token, down, sealing>>
    BY <1>own, <1>terminal DEF Terminal, At, Goto, foreground, TypeOK, ControlTypes
  <2>2. row'.st = st[s] /\ row'.status = outcome[s]
    BY <2>1 DEF Save, Coalesce, Status
  <2>3. RowSettled'
    BY <1>own, <2>1, <2>2 DEF SessionUndisturbed, RowSettled
  <2>4. SessionUndisturbed(s)'
    BY <1>own, <2>1, <2>3 DEF SessionUndisturbed, Unrepaired
  <2>5. QED
    BY <1>own, <1>held, <1>whole, <2>1, <2>2, <2>3, <2>4
<1>never. /\ ~ApprovalCancelled(s) /\ ~ModelInterrupted(s) /\ ~CancelledAfterModel(s)
          /\ ~BatchCancelled(s) /\ ~ShutdownAfterAbort(s) /\ ~SealWrite(s) /\ ~Restart(s)
          /\ \A c \in Call : ~ToolCut(s, c)
  BY <1>own
  DEF ApprovalCancelled, ModelInterrupted, CancelledAfterModel, BatchCancelled,
      ShutdownAfterAbort, SealWrite, Restart, ToolCut, At
<1>qed. QED
  <2>1. ASSUME Drive(s) PROVE Goal
    BY <2>1, <1>start, <1>prepare, <1>conflict, <1>nothing, <1>apply, <1>still, <1>turn,
       <1>noCalls, <1>decide, <1>gathered, <1>fold, <1>done, <1>synthesize, <1>terminal,
       <1>never
    DEF Drive
  <2>2. ASSUME Provider(s) \/ Tool(s) PROVE Goal
    BY <2>2, <1>model, <1>modelFails, <1>returns DEF Provider, Tool
  <2>3. QED
    BY <2>1, <2>2, <1>start, <1>command, <1>refused, <1>never, CalmStep

-----------------------------------------------------------------------------
LEMMA TranscriptInit == Init => TranscriptInv
<1> SUFFICES ASSUME Init PROVE TranscriptInv
  OBVIOUS
<1>1. RowSound
  BY EmptySound DEF Init, RowSound, Ended
<1>2. \A s \in Sessions : SessionSound(s)
  BY EmptySound
  DEF Init, SessionSound, HeldSound, DecideOpen, BatchOpen, NothingFolded, HaltOpen,
      RunningOpen, NoBatch
<1>3. UndisturbedInv
  BY EmptySound
  DEF Init, UndisturbedInv, SessionUndisturbed, RowSettled, Unrepaired, EmptyState, NoBatch
<1>4. QED
  BY <1>1, <1>2, <1>3 DEF TranscriptInv, AnswersInv

LEMMA TranscriptStutter ==
    ASSUME TranscriptInv, UNCHANGED vars
    PROVE  TranscriptInv'
<1> USE DEF vars, store, control, foreground, history
<1>1. RowSound'
  BY RowStays DEF TranscriptInv, AnswersInv, Known
<1>2. \A s \in Sessions : SessionSound(s)'
  BY FrameSound DEF TranscriptInv, AnswersInv, SessionSound, HeldSound, Known
<1>3. UndisturbedInv'
  BY DEF TranscriptInv, UndisturbedInv, SessionUndisturbed, RowSettled, Unrepaired
<1>4. QED
  BY <1>1, <1>2, <1>3 DEF TranscriptInv, AnswersInv

LEMMA TranscriptStep ==
    ASSUME IInv, TypeOK', TranscriptInv, [Next]_vars
    PROVE  TranscriptInv'
<1>1. CASE UNCHANGED vars
  BY <1>1, TranscriptStutter
<1>2. ASSUME NEW s \in Sessions,
             Drive(s) \/ Provider(s) \/ Tool(s) \/ User(s) \/ Fault(s)
      PROVE  TranscriptInv'
  <2>1. LocalTo(s) /\ Known \subseteq Known'
    BY <1>2, StepLocal, MintedStep DEF IInv
  <2>2. AnswersInv /\ UndisturbedInv
    BY DEF TranscriptInv
  <2>3. /\ RowSound' /\ SessionSound(s)'
        /\ row'.status \in Ended => row'.status = row.status \/ lock = s
    BY <1>2, <2>1, <2>2, AnswersOwn
  <2>4. \A t \in Sessions \ {s} : SessionSound(t)'
    BY <2>1, <2>2, <2>3, OthersSound
  <2>5. UndisturbedInv'
    BY <1>2, <2>1, <2>2, UndisturbedStep
  <2>6. QED
    BY <2>3, <2>4, <2>5 DEF TranscriptInv, AnswersInv
<1>3. QED
  BY <1>1, <1>2 DEF Next

\* What is answered and what is repaired, whatever the sessions do.
THEOREM TranscriptInvariance == Spec => []TranscriptInv
<1>1. IInv /\ IInv' /\ TranscriptInv /\ [Next]_vars => TranscriptInv'
  BY TranscriptStep DEF IInv
<1>2. QED
  BY <1>1, Invariance, TranscriptInit, PTL DEF Spec

\* The status published with a transcript is true of it: a Run waits only with a call
\* to approve, none of which has run, and it completes or reaches its limit with no
\* call left open (AgentLoop's finish_* methods, CheckpointHandler's saves and the
\* COALESCE of save_state).
THEOREM StatusAgrees == Spec => []StatusMatchesTranscript
<1>1. ASSUME NEW state PROVE Open(state) = UnmatchedToolCalls(state)
  BY DEF Open, UnmatchedToolCalls, Resolved
<1>2. ASSUME IInv, TranscriptInv PROVE StatusMatchesTranscript
  <2>1. RowSound /\ WaitingInv
    BY <1>2 DEF IInv, SharedInv, TranscriptInv, AnswersInv
  <2>2. QED
    BY <1>1, <2>1
    DEF StatusMatchesTranscript, RowSound, Ended, WaitingInv, Awaiting, NeverRan
<1>3. QED
  BY <1>2, Invariance, TranscriptInvariance, PTL

\* No transcript, stored, in memory or half folded, answers a call twice or a call that
\* nobody issued, and the repair leaves an undisturbed Run alone (seal,
\* append_tool_result, AgentHarness._prepare_resume).
THEOREM RepairsExactly == Spec => []RepairExact
<1>1. ASSUME IInv, TranscriptInv PROVE RepairExact
  <2>1. /\ TypeOK /\ RowSound /\ \A s \in Sessions : SessionSound(s)
        /\ ~disturbed => Unrepaired(row.st.results)
    BY <1>1 DEF IInv, TranscriptInv, AnswersInv, UndisturbedInv
  <2>2. ASSUME NEW s \in Sessions PROVE WellFormed(st[s]) /\ WellFormed(Folded(s))
    <3>1. WellFormed(st[s]) /\ st[s] \in State
      BY <2>1 DEF SessionSound, HeldSound, Sound, TypeOK, ControlTypes
    <3>2. CASE pc[s] \in {"batch", "fold"}
      BY <2>1, <3>1, <3>2, FoldedSound DEF Sound
    <3>3. CASE pc[s] \notin {"batch", "fold"}
      <4>1. batch[s].folded = {}
        BY <2>1, <3>3 DEF SessionSound, NothingFolded
      <4>2. Folded(s).results = st[s].results /\ Folded(s).issued = st[s].issued
        BY <3>1, <4>1 DEF Folded, AppendToolResults, State
      <4>3. QED
        BY <3>1, <4>2 DEF WellFormed, Resolved
    <3>4. QED
      BY <3>2, <3>3
  <2>3. QED
    BY <2>1, <2>2 DEF RepairExact, RowSound, Sound, Unrepaired
<1>2. QED
  BY <1>1, Invariance, TranscriptInvariance, PTL

-----------------------------------------------------------------------------
(* What prepare_resume overwrites. *)

\* A session comes to the compare-and-set by a command only, passes it by
\* prepare_resume only, and any write of the row ends what get_run has read.
LEMMA ResumingStep ==
    ASSUME TypeOK, NEW s \in Sessions,
           Drive(s) \/ Provider(s) \/ Tool(s) \/ User(s) \/ Fault(s)
    PROVE  /\ \/ fresh' = {}
              \/ row' = row /\ fresh' = fresh /\ (pc'[s] = "resuming" =>
                                                     pc[s] = "resuming" /\ st'[s] = st[s])
              \/ row' = row /\ st'[s] \in {row.st, Seal(row.st)}
                 /\ fresh' = fresh \union {s}
           /\ pc[s] = "resuming" /\ pc'[s] = "prepared" =>
                 s \in fresh /\ row'.st = st[s]
<1> DEFINE Goal ==
              /\ \/ fresh' = {}
                 \/ row' = row /\ fresh' = fresh /\ (pc'[s] = "resuming" =>
                                                        pc[s] = "resuming" /\ st'[s] = st[s])
                 \/ row' = row /\ st'[s] \in {row.st, Seal(row.st)}
                    /\ fresh' = fresh \union {s}
              /\ pc[s] = "resuming" /\ pc'[s] = "prepared" =>
                    s \in fresh /\ row'.st = st[s]
<1>goto. ASSUME NEW p, Goto(s, p) PROVE pc'[s] = p
  BY <1>goto DEF Goto, TypeOK, ControlTypes
<1>saves. ASSUME \/ StartNew(s) \/ RunStarted(s) \/ ModelResponds(s) \/ FoldResult(s)
                 \/ Terminal(s) \/ SealWrite(s)
          PROVE  Goal
  <2>1. fresh' = {}
    BY <1>saves
    DEF StartNew, RunStarted, ModelResponds, FoldResult, Terminal, SealWrite, Save
  <2>2. pc'[s] # "prepared" \/ pc[s] # "resuming"
    BY <1>saves, <1>goto
    DEF StartNew, RunStarted, ModelResponds, FoldResult, Terminal, SealWrite, At, control
  <2>3. QED
    BY <2>1, <2>2
<1>prepare. ASSUME PrepareResume(s) PROVE Goal
  BY <1>prepare DEF PrepareResume, Unchanged, Save
<1>command. ASSUME ContinueWith(s) \/ RespondApproval(s) \/ RespondApprovals(s)
            PROVE  Goal
  <2>1. PICK state, given : Claim(s, state, given) /\ state \in {row.st, Seal(row.st)}
    BY <1>command DEF ContinueWith, RespondApproval, RespondApprovals, ResumeState
  <2>2. /\ row' = row /\ fresh' = fresh \union {s} /\ st'[s] = state
        /\ pc'[s] = "resuming"
    BY <1>goto, <2>1 DEF Claim, TypeOK, ControlTypes
  <2>3. QED
    BY <2>1, <2>2
<1>elsewhere. ASSUME UNCHANGED store, pc'[s] \notin {"resuming", "prepared"} PROVE Goal
  BY <1>elsewhere DEF store
<1>still. ASSUME UNCHANGED <<store, pc, st>> PROVE Goal
  BY <1>still DEF store
<1>finish. ASSUME \E state, status : Finish(s, state, status), UNCHANGED store PROVE Goal
  BY <1>finish, <1>goto, <1>elsewhere DEF Finish
<1>drive. ASSUME Drive(s) PROVE Goal
  <2>1. ASSUME PrepareResumeConflict(s) \/ Return(s) \/ NothingPending(s) \/ Gathered(s)
               \/ ShutdownAfterAbort(s)
        PROVE  Goal
    BY <1>goto, <1>elsewhere, <2>1
    DEF PrepareResumeConflict, Return, NothingPending, Gathered, ShutdownAfterAbort, Leave
  <2>2. ASSUME ApprovalCancelled(s) \/ StillPending(s) \/ ModelInterrupted(s)
               \/ NoToolCalls(s) \/ CancelledAfterModel(s) \/ BatchCancelled(s)
        PROVE  Goal
    BY <1>finish, <2>2
    DEF ApprovalCancelled, StillPending, ModelInterrupted, NoToolCalls,
        CancelledAfterModel, BatchCancelled, OnlyControlMoves, store
  <2>3. ASSUME TurnStart(s) PROVE Goal
    BY <1>finish, <1>goto, <1>elsewhere, <2>3 DEF TurnStart, OnlyControlMoves, store
  <2>4. ASSUME ApplyVerdicts(s) \/ Decide(s) \/ BatchDone(s) \/ Synthesize(s) PROVE Goal
    <3>1. /\ UNCHANGED store
          /\ \/ \E kind, runs, denies : StartBatch(s, kind, runs, denies)
             \/ \E state, waiting : AfterBatch(s, state, waiting)
             \/ \E state, status : Finish(s, state, status)
      BY <2>4 DEF ApplyVerdicts, Decide, BatchDone, Synthesize, store
    <3>2. QED
      BY <1>finish, <1>goto, <1>elsewhere, <3>1 DEF StartBatch, AfterBatch
  <2>5. ASSUME NEW c \in Call, ToolCut(s, c) PROVE Goal
    BY <1>still, <2>5 DEF ToolCut, store
  <2>6. QED
    BY <1>drive, <1>saves, <1>prepare, <2>1, <2>2, <2>3, <2>4, <2>5 DEF Drive
<1>rest. ASSUME Provider(s) \/ Tool(s) \/ User(s) \/ Fault(s) PROVE Goal
  <2>1. ASSUME ModelFails(s) \/ InterruptLoop(s) \/ FoldSaveFails(s) \/ ModelSaveFails(s)
               \/ TerminalSaveFails(s)
        PROVE  Goal
    BY <1>finish, <2>1
    DEF ModelFails, InterruptLoop, FoldSaveFails, ModelSaveFails, TerminalSaveFails,
        OnlyControlMoves, store
  <2>2. ASSUME InterruptPreparation(s) \/ Crash(s) \/ SaveFailsOutside(s) PROVE Goal
    BY <1>goto, <1>elsewhere, <2>2
    DEF InterruptPreparation, Crash, SaveFailsOutside, Propagate, Leave, store
  <2>3. ASSUME CommandRefused(s) \/ Cancel(s) \/ Shutdown(s) \/ Restart(s) PROVE Goal
    BY <1>still, <2>3 DEF CommandRefused, Cancel, Shutdown, Restart, store, control
  <2>4. ASSUME NEW c \in Call, ToolReturns(s, c) PROVE Goal
    BY <1>still, <2>4 DEF ToolReturns, store
  <2>5. QED
    BY <1>rest, <1>saves, <1>command, <2>1, <2>2, <2>3, <2>4
    DEF Provider, Tool, User, Fault
<1>qed. QED
  BY <1>drive, <1>rest

LEMMA FreshStep ==
    ASSUME TypeOK, FreshInv, [Next]_vars
    PROVE  /\ FreshInv'
           /\ \A s \in Sessions : pc[s] = "resuming" /\ pc'[s] = "prepared" =>
                 /\ row.st.issued \subseteq row'.st.issued
                 /\ row.st.results \subseteq row'.st.results
<1>1. CASE UNCHANGED vars
  BY <1>1 DEF vars, store, control, FreshInv
<1>2. ASSUME NEW s \in Sessions,
             Drive(s) \/ Provider(s) \/ Tool(s) \/ User(s) \/ Fault(s)
      PROVE  /\ FreshInv'
             /\ \A t \in Sessions : pc[t] = "resuming" /\ pc'[t] = "prepared" =>
                   /\ row.st.issued \subseteq row'.st.issued
                   /\ row.st.results \subseteq row'.st.results
  <2>1. \A t \in Sessions \ {s} : pc'[t] = pc[t] /\ st'[t] = st[t]
    BY <1>2, StepLocal DEF LocalTo
  <2>2. /\ row.st.issued \subseteq Seal(row.st).issued
        /\ row.st.results \subseteq Seal(row.st).results
    BY DEF Seal, AppendToolResults, State, TypeOK, StoreTypes
  <2>3. FreshInv'
    BY <1>2, <2>1, <2>2, ResumingStep DEF FreshInv
  <2>4. QED
    BY <1>2, <2>1, <2>3, ResumingStep DEF FreshInv
<1>3. QED
  BY <1>1, <1>2 DEF Next

\* The whole invariant, whatever the sessions, calls, bounds and disturbances: every
\* step of AgentHarness, AgentLoop, ForegroundRun and the store preserves it.
THEOREM WholeInvariance == Spec => []WholeInv
<1>1. Init => FreshInv
  BY DEF Init, FreshInv
<1>2. IInv /\ FreshInv /\ [Next]_vars => FreshInv'
  BY FreshStep DEF IInv
<1>3. IInv /\ TranscriptInv /\ FreshInv => WholeInv
  BY DEF WholeInv
<1>4. QED
  BY <1>1, <1>2, <1>3, Invariance, TranscriptInvariance, PTL DEF Spec

\* The compare-and-set of prepare_resume: the snapshot that it stores contains the one
\* that it replaces, whatever the other sessions wrote in between.
THEOREM ResumeKeeps == Spec => ResumeKeepsRow
<1> DEFINE Keeps ==
       \A s \in Sessions : pc[s] = "resuming" /\ pc'[s] = "prepared" =>
           /\ row.st.issued \subseteq row'.st.issued
           /\ row.st.results \subseteq row'.st.results
<1>1. WholeInv /\ [Next]_vars => [Keeps]_vars
  BY FreshStep DEF WholeInv, IInv
<1>2. ResumeKeepsRow <=> [][Keeps]_vars
  BY PTL DEF ResumeKeepsRow
<1>3. QED
  BY <1>1, <1>2, WholeInvariance, PTL DEF Spec
-----------------------------------------------------------------------------
(* Lemmas about the transcript. *)

LEMMA SealIdentity ==
    ASSUME NEW state \in State, UnmatchedToolCalls(state) = {}
    PROVE  Seal(state) = state
BY DEF Seal, AppendToolResults, State

\* What after_tool saves is what the loop then holds.
LEMMA FoldedNext ==
    ASSUME TypeOK, NEW s \in Sessions, NEW r \in batch[s].resolved,
           batch' = [batch EXCEPT ![s] = Appended(@, r)], st'[s] = st[s]
    PROVE  /\ Folded(s)' = AfterTool(s, r)
           /\ batch'[s].folded = batch[s].folded \union {r}
           /\ batch'[s].resolved = batch[s].resolved \ {r}
           /\ batch'[s].running = batch[s].running
           /\ batch'[s].wants = batch[s].wants
           /\ batch'[s].kind = batch[s].kind
<1>1. batch[s] \in Batch /\ batch \in [Sessions -> Batch] /\ st[s] \in State
  BY DEF TypeOK, ControlTypes
<1>2. batch'[s] = Appended(batch[s], r)
  BY <1>1
<1>3. /\ batch'[s].folded = batch[s].folded \union {r}
      /\ batch'[s].resolved = batch[s].resolved \ {r}
      /\ batch'[s].running = batch[s].running
      /\ batch'[s].wants = batch[s].wants
      /\ batch'[s].kind = batch[s].kind
  BY <1>1, <1>2 DEF Appended, Batch
<1>4. Folded(s)' = AppendToolResults(st[s], batch[s].folded \union {r})
  BY <1>3 DEF Folded
<1>5. Folded(s)' = AfterTool(s, r)
  BY <1>1, <1>4 DEF AfterTool, Folded, AppendToolResults, State
<1>6. QED
  BY <1>3, <1>5

-----------------------------------------------------------------------------
(* Who writes the row. *)

\* The session that claims the Run does; so does one that starts it, and one that seals.
LEMMA WriterStep ==
    ASSUME IInv, NEW s \in Sessions,
           Drive(s) \/ Provider(s) \/ Tool(s) \/ User(s) \/ Fault(s)
    PROVE  \/ row' = row
           \/ lock = s /\ pc[s] \notin {"idle", "aborted"}
           \/ StartNew(s)
           \/ SealWrite(s)
<1>1. ASSUME \/ RunStarted(s) \/ PrepareResume(s) \/ ModelResponds(s) \/ FoldResult(s)
             \/ Terminal(s)
      PROVE  lock = s /\ pc[s] \notin {"idle", "aborted"}
  <2>1. pc[s] \in {"starting", "resuming", "model", "fold", "finish"}
    BY <1>1 DEF RunStarted, PrepareResume, ModelResponds, FoldResult, Terminal, At
  <2>2. QED
    BY <2>1 DEF IInv, SharedInv, ClaimInv
<1>2. ASSUME Drive(s), ~SealWrite(s), row' # row
      PROVE  RunStarted(s) \/ PrepareResume(s) \/ FoldResult(s) \/ Terminal(s)
  BY <1>2
  DEF Drive, PrepareResumeConflict, NothingPending,
      ApprovalCancelled, ApplyVerdicts, StillPending, TurnStart, ModelInterrupted,
      NoToolCalls, CancelledAfterModel, Decide, ToolCut, Gathered,
      BatchCancelled, BatchDone, Synthesize, Return,
      ShutdownAfterAbort, OnlyControlMoves, store
<1>3. ASSUME Provider(s) \/ Tool(s), row' # row PROVE ModelResponds(s)
  BY <1>3 DEF Provider, Tool, ModelFails, ToolReturns, OnlyControlMoves, store
<1>4. ASSUME User(s) \/ Fault(s), row' # row PROVE StartNew(s)
  BY <1>4
  DEF User, Fault, ContinueWith, RespondApproval, RespondApprovals, Claim,
      CommandRefused, Command, Cancel, Shutdown, Restart, InterruptLoop,
      InterruptPreparation, Crash, SaveFailsOutside, Propagate, FoldSaveFails,
      ModelSaveFails, TerminalSaveFails, store
<1>5. QED
  BY <1>1, <1>2, <1>3, <1>4

\* A session that holds the Run sees the row that it saw.
LEMMA OthersRow ==
    ASSUME IInv, NEW s \in Sessions, NEW t \in Sessions \ {s},
           pc[t] \notin {"idle", "aborted"}, sealing[s] = NoSeal,
           Drive(s) \/ Provider(s) \/ Tool(s) \/ User(s) \/ Fault(s)
    PROVE  row' = row
<1>1. lock = t /\ lock # None
  BY ConstantsAssumption DEF IInv, SharedInv, ClaimInv
<1>2. ~StartNew(s) /\ ~SealWrite(s) /\ lock # s
  BY <1>1 DEF StartNew, SealWrite
<1>3. QED
  BY <1>2, WriterStep

-----------------------------------------------------------------------------
(* What is on disk when the model is called. *)

LEMMA OthersDurable ==
    ASSUME IInv, DurableInv, NEW s \in Sessions, LocalTo(s),
           Drive(s) \/ Provider(s) \/ Tool(s) \/ User(s) \/ Fault(s)
    PROVE  \A t \in Sessions \ {s} : SealInv(t)' /\ OnDisk(t)'
<1> SUFFICES ASSUME NEW t \in Sessions \ {s} PROVE SealInv(t)' /\ OnDisk(t)'
  OBVIOUS
<1>1. /\ pc'[t] = pc[t] /\ st'[t] = st[t] /\ batch'[t] = batch[t]
      /\ token'[t] = token[t] /\ down'[t] = down[t] /\ sealing'[t] = sealing[t]
  BY DEF LocalTo
<1>2. ~Alone /\ SealInv(s) /\ SealInv(t) /\ OnDisk(t)
  BY DEF Alone, DurableInv
<1>3. SealInv(t)'
  BY <1>1, <1>2 DEF SealInv, Alone
<1>4. OnDisk(t)'
  <2>1. CASE pc[t] \in {"idle", "aborted"}
    BY <1>1, <2>1 DEF OnDisk
  <2>2. CASE pc[t] \notin {"idle", "aborted"}
    <3>1. row' = row
      BY <1>2, <2>2, OthersRow DEF SealInv
    <3>2. QED
      BY <1>1, <1>2, <3>1 DEF OnDisk, Folded
  <2>3. QED
    BY <2>1, <2>2
<1>5. QED
  BY <1>3, <1>4

\* A batch with a call that the policy or the user decided has something to resolve.
LEMMA BatchBegins ==
    ASSUME TypeOK, NEW s \in Sessions, NEW kind, NEW runs, NEW denies,
           StartBatch(s, kind, runs, denies)
    PROVE  /\ pc'[s] = "batch"
           /\ batch'[s].kind = kind /\ batch'[s].running = runs /\ batch'[s].wants = {}
           /\ batch'[s].folded = {} /\ batch'[s].resolved = denies \X {"denied"}
           /\ runs \union denies # {} =>
                 batch'[s].running # {} \/ batch'[s].resolved # {}
<1>1. pc'[s] = "batch"
  BY DEF StartBatch, Goto, TypeOK, ControlTypes
<1>2. batch'[s] = [kind |-> kind, running |-> runs, resolved |-> denies \X {"denied"},
                   folded |-> {}, wants |-> {}, cut |-> FALSE]
  BY DEF StartBatch, TypeOK, ControlTypes
<1>3. ASSUME NEW c \in denies PROVE <<c, "denied">> \in batch'[s].resolved
  BY <1>2
<1>4. /\ batch'[s].kind = kind /\ batch'[s].running = runs /\ batch'[s].wants = {}
      /\ batch'[s].folded = {} /\ batch'[s].resolved = denies \X {"denied"}
  BY <1>2
<1>5. runs \union denies # {} => batch'[s].running # {} \/ batch'[s].resolved # {}
  BY <1>3, <1>4
<1>6. QED
  BY <1>1, <1>4, <1>5

\* Every call of the domain has a decision.
LEMMA DecisionsSplit ==
    ASSUME NEW calls, NEW d \in [calls -> Decision]
    PROVE  Decided(d, "ALLOW") \union Decided(d, "DENY")
             \union Decided(d, "NEEDS_APPROVAL") = calls
BY DEF Decided, Decision

LEMMA DurableOwn ==
    ASSUME OneWriter, IInv, DurableInv, NEW s \in Sessions,
           Drive(s) \/ Provider(s) \/ Tool(s) \/ User(s) \/ Fault(s)
    PROVE  SealInv(s)' /\ OnDisk(s)'
<1> DEFINE Goal == SealInv(s)' /\ OnDisk(s)'
<1>own. /\ TypeOK /\ SessionInv(s) /\ SealInv(s) /\ OnDisk(s)
        /\ st[s] \in State /\ batch[s] \in Batch /\ row.st \in State
        /\ pc[s] \in PC /\ token[s] \in BOOLEAN /\ down[s] \in BOOLEAN
  BY DEF IInv, DurableInv, TypeOK, StoreTypes, ControlTypes, ForegroundTypes
\* The steps that neither begin nor end a seal.
<1>calm. ASSUME sealing' = sealing, down' = down, pc'[s] # "aborted",
                row' = row \/ sealing[s] = NoSeal,
                pc'[s] = "idle" \/ sealing[s] = NoSeal \/ token'[s]
         PROVE  SealInv(s)'
  BY <1>own, <1>calm DEF SealInv, Alone
<1>off. ASSUME SealInv(s)',
               pc'[s] \notin {"prepared", "top", "model", "decide", "batch", "fold"}
        PROVE  Goal
  BY <1>off DEF OnDisk
<1>finish. ASSUME NEW state, NEW status, Finish(s, state, status), sealing[s] = NoSeal,
                  UNCHANGED <<row, down, sealing>>
           PROVE  Goal
  <2>1. pc'[s] = "finish"
    BY <1>own, <1>finish DEF Finish, Goto, TypeOK, ControlTypes
  <2>2. QED
    BY <1>calm, <1>off, <1>finish, <2>1
<1>leave. ASSUME Leave(s, "idle"), UNCHANGED <<row, down, sealing>> PROVE Goal
  <2>1. pc'[s] = "idle"
    BY <1>own, <1>leave DEF Leave, Goto, TypeOK, ControlTypes
  <2>2. QED
    BY <1>calm, <1>off, <1>leave, <2>1
<1>stored. ASSUME sealing[s] = NoSeal, UNCHANGED <<down, sealing>>,
                  pc'[s] \in {"prepared", "top", "decide"} \/ (pc'[s] = "model" /\ ~token'[s]),
                  ~token'[s] => st'[s] = row'.st
           PROVE  Goal
  BY <1>calm, <1>stored DEF OnDisk
<1>batch. ASSUME NEW kind, NEW runs, NEW denies, StartBatch(s, kind, runs, denies),
                 runs \union denies # {}, sealing[s] = NoSeal,
                 UNCHANGED <<row, down, sealing>>
          PROVE  Goal
  <2>1. /\ pc'[s] = "batch" /\ batch'[s].folded = {}
        /\ batch'[s].running # {} \/ batch'[s].resolved # {}
    BY <1>own, <1>batch, BatchBegins
  <2>2. QED
    BY <1>calm, <1>batch, <2>1 DEF OnDisk
<1>ends. ASSUME \/ ApprovalCancelled(s) \/ StillPending(s) \/ ModelInterrupted(s)
                \/ NoToolCalls(s) \/ CancelledAfterModel(s) \/ ModelFails(s)
                \/ BatchCancelled(s) \/ InterruptLoop(s) \/ FoldSaveFails(s)
                \/ ModelSaveFails(s) \/ TerminalSaveFails(s)
         PROVE  Goal
  <2>1. PICK state, status : Finish(s, state, status)
    BY <1>ends
    DEF ApprovalCancelled, StillPending, ModelInterrupted, NoToolCalls,
        CancelledAfterModel, ModelFails, BatchCancelled, InterruptLoop, FoldSaveFails,
        ModelSaveFails, TerminalSaveFails
  <2>2. sealing[s] = NoSeal /\ UNCHANGED <<row, down, sealing>>
    BY <1>ends
    DEF ApprovalCancelled, StillPending, ModelInterrupted, NoToolCalls,
        CancelledAfterModel, ModelFails, BatchCancelled, InterruptLoop, FoldSaveFails,
        ModelSaveFails, TerminalSaveFails, OnlyControlMoves, foreground, store, At,
        Interrupt, Suspended
  <2>3. QED
    BY <1>finish, <2>1, <2>2
<1>leaves. ASSUME PrepareResumeConflict(s) \/ Return(s) \/ SaveFailsOutside(s) PROVE Goal
  BY <1>leave, <1>leaves
  DEF PrepareResumeConflict, Return, SaveFailsOutside, Propagate, store
<1>abort. ASSUME InterruptPreparation(s) PROVE Goal
  <2>1. Alone
    BY <1>own, <1>abort DEF InterruptPreparation, Interrupt, SealInv, OneWriter
  <2>2. pc'[s] = "aborted" /\ sealing'[s] = NoSeal
    BY <1>own, <1>abort
    DEF InterruptPreparation, Interrupt, Suspended, Leave, Goto, TypeOK, ControlTypes
  <2>3. SealInv(s)'
    BY <2>1, <2>2 DEF SealInv, Alone
  <2>4. QED
    BY <1>off, <2>2, <2>3
<1>crash. ASSUME Crash(s) PROVE Goal
  <2>1. pc'[s] = "idle" /\ sealing'[s] = NoSeal /\ ~down'[s]
    BY <1>own, <1>crash DEF Crash, Leave, Goto, TypeOK, ControlTypes, ForegroundTypes
  <2>2. QED
    BY <1>off, <2>1 DEF SealInv
<1>start. ASSUME StartNew(s) PROVE Goal
  <2>1. /\ pc'[s] = "starting" /\ sealing[s] = NoSeal /\ UNCHANGED <<down, sealing>>
    BY <1>own, <1>start DEF StartNew, At, Goto, TypeOK, ControlTypes
  <2>2. QED
    BY <1>calm, <1>off, <2>1
<1>started. ASSUME RunStarted(s) PROVE Goal
  <2>1. /\ pc'[s] = "top" /\ st'[s] = EmptyState /\ row'.st = EmptyState
        /\ sealing[s] = NoSeal /\ UNCHANGED <<down, sealing>>
    BY <1>own, <1>started
    DEF RunStarted, At, Goto, Save, foreground, TypeOK, ControlTypes
  <2>2. QED
    BY <1>stored, <2>1
<1>command. ASSUME \/ ContinueWith(s) \/ RespondApproval(s) \/ RespondApprovals(s)
                   \/ CommandRefused(s)
            PROVE  Goal
  <2>1. /\ Command(s)
        /\ (\E state, given : Claim(s, state, given)) \/ UNCHANGED <<row, pc>>
    BY <1>command
    DEF ContinueWith, RespondApproval, RespondApprovals, CommandRefused, store
  <2>2. /\ pc'[s] \in {"idle", "resuming"} /\ sealing[s] = NoSeal
        /\ UNCHANGED <<down, sealing>>
    BY <1>own, <2>1 DEF Command, Claim, At, Goto, TypeOK, ControlTypes
  <2>3. QED
    BY <1>calm, <1>off, <2>2
<1>prepare. ASSUME PrepareResume(s) PROVE Goal
  <2>1. /\ pc'[s] = "prepared" /\ st' = st /\ row'.st = st[s]
        /\ sealing[s] = NoSeal /\ UNCHANGED <<down, sealing>>
    BY <1>own, <1>prepare
    DEF PrepareResume, At, Goto, Save, foreground, TypeOK, ControlTypes
  <2>2. QED
    BY <1>stored, <2>1
<1>nothing. ASSUME NothingPending(s) PROVE Goal
  <2>1. /\ pc[s] = "prepared" /\ pc'[s] = "top" /\ UNCHANGED <<row, st, token>>
        /\ sealing[s] = NoSeal /\ UNCHANGED <<down, sealing>>
    BY <1>own, <1>nothing
    DEF NothingPending, At, Goto, foreground, store, TypeOK, ControlTypes
  <2>2. QED
    BY <1>own, <1>stored, <2>1 DEF OnDisk
<1>apply. ASSUME ApplyVerdicts(s) PROVE Goal
  <2> DEFINE decided == UnmatchedToolCalls(st[s]) \intersect Judged(s)
  <2>1. /\ StartBatch(s, "verdict", decided \intersect Approved(s), decided \ Approved(s))
        /\ decided # {}
        /\ sealing[s] = NoSeal /\ UNCHANGED <<row, down, sealing>>
    BY <1>apply DEF ApplyVerdicts, At, store, foreground
  <2>2. QED
    BY <1>batch, <2>1
<1>turn. ASSUME TurnStart(s) PROVE Goal
  <2>1. /\ pc[s] = "top" /\ sealing[s] = NoSeal /\ UNCHANGED <<row, token, down, sealing>>
    BY <1>turn DEF TurnStart, At, OnlyControlMoves, store, foreground
  <2>2. CASE \E status : Finish(s, st[s], status)
    BY <1>finish, <2>1, <2>2
  <2>3. CASE Goto(s, "model") /\ st' = st /\ ~token[s]
    <3>1. pc'[s] = "model"
      BY <1>own, <2>3 DEF Goto, TypeOK, ControlTypes
    <3>2. QED
      BY <1>own, <1>stored, <2>1, <2>3, <3>1 DEF OnDisk
  <2>4. QED
    BY <1>turn, <2>2, <2>3 DEF TurnStart
<1>model. ASSUME ModelResponds(s) PROVE Goal
  <2>1. PICK n \in minted .. MaxCalls :
           LET grown == AppendModelResponse(st[s], minted + 1 .. n)
           IN st' = [st EXCEPT ![s] = grown] /\ Save(grown, "keep")
    BY <1>model DEF ModelResponds
  <2>2. st'[s] = row'.st
    BY <1>own, <2>1 DEF Save, TypeOK, ControlTypes
  <2>3. /\ pc'[s] = "decide" /\ sealing[s] = NoSeal /\ UNCHANGED <<down, sealing>>
    BY <1>own, <1>model DEF ModelResponds, At, Goto, foreground, TypeOK, ControlTypes
  <2>4. QED
    BY <1>stored, <2>2, <2>3
<1>decide. ASSUME Decide(s) PROVE Goal
  <2>1. /\ sealing[s] = NoSeal /\ UNCHANGED <<row, down, sealing>>
        /\ \/ \E kind, runs, denies : StartBatch(s, kind, runs, denies)
                                      /\ runs \union denies # {}
           \/ Finish(s, st[s], "waiting_for_approval")
    BY <1>decide DEF Decide, At, store, foreground
  <2>2. QED
    BY <1>finish, <1>batch, <2>1
<1>returns. ASSUME NEW c \in Call, ToolReturns(s, c) PROVE Goal
  <2>1. /\ UNCHANGED <<row, pc, st, token, down, sealing>>
        /\ sealing[s] = NoSeal /\ pc[s] = "batch"
    BY <1>returns DEF ToolReturns, At, store, foreground
  <2>2. /\ batch'[s].folded = batch[s].folded
        /\ <<c, "done">> \in batch'[s].resolved
    BY <1>own, <1>returns DEF ToolReturns, Answered, Batch, TypeOK, ControlTypes
  <2>3. Folded(s)' = Folded(s)
    BY <2>1, <2>2 DEF Folded
  <2>4. QED
    BY <1>own, <1>calm, <2>1, <2>2, <2>3 DEF OnDisk
<1>cut. ASSUME NEW c \in Call, ToolCut(s, c) PROVE Goal
  <2>1. /\ UNCHANGED <<row, pc, st, token, down, sealing>> /\ token[s]
        /\ sealing[s] = NoSeal /\ pc[s] = "batch"
    BY <1>cut DEF ToolCut, At, store, foreground
  <2>2. QED
    BY <1>calm, <2>1 DEF OnDisk
<1>gathered. ASSUME Gathered(s) PROVE Goal
  <2>1. /\ UNCHANGED <<row, st, batch, token, down, sealing>>
        /\ sealing[s] = NoSeal /\ pc[s] = "batch" /\ pc'[s] = "fold"
    BY <1>own, <1>gathered DEF Gathered, At, Goto, store, foreground, TypeOK, ControlTypes
  <2>2. QED
    BY <1>own, <1>calm, <2>1 DEF OnDisk, Folded
<1>fold. ASSUME FoldResult(s) PROVE Goal
  <2>1. PICK r \in batch[s].resolved :
           /\ batch' = [batch EXCEPT ![s] = Appended(@, r)]
           /\ Save(AfterTool(s, r), "keep")
    BY <1>fold DEF FoldResult
  <2>2. /\ UNCHANGED <<pc, st, token, down, sealing>>
        /\ sealing[s] = NoSeal /\ pc[s] = "fold"
    BY <1>fold DEF FoldResult, At, foreground
  <2>3. Folded(s)' = row'.st
    BY <1>own, <2>1, <2>2, FoldedNext DEF Save
  <2>4. QED
    BY <1>calm, <2>2, <2>3 DEF OnDisk
<1>done. ASSUME BatchDone(s) PROVE Goal
  <2>1. /\ AfterBatch(s, Folded(s), ask[s]) /\ pc[s] = "fold" /\ batch[s].resolved = {}
        /\ sealing[s] = NoSeal /\ UNCHANGED <<row, token, down, sealing>>
    BY <1>done DEF BatchDone, At, store, foreground
  <2>2. CASE ask[s] # {}
    BY <1>finish, <2>1, <2>2 DEF AfterBatch
  <2>3. CASE ask[s] = {}
    <3>1. pc'[s] = "top" /\ st'[s] = Folded(s)
      BY <1>own, <2>1, <2>3 DEF AfterBatch, Goto, TypeOK, ControlTypes
    <3>2. ~token[s] => Folded(s) = row.st
      BY <1>own, <2>1 DEF OnDisk, SessionInv, BatchInv
    <3>3. QED
      BY <1>stored, <2>1, <3>1, <3>2
  <2>4. QED
    BY <2>2, <2>3
<1>synthesize. ASSUME Synthesize(s) PROVE Goal
  <2> DEFINE calls == {FollowUp(c) : c \in FollowUpSources(s)}
             grown == AppendSyntheticToolCalls(Folded(s), calls)
  <2>1. /\ calls # {} /\ sealing[s] = NoSeal /\ UNCHANGED <<row, down, sealing>>
    BY <1>synthesize DEF Synthesize, At, store, foreground
  <2>2. PICK d \in [calls -> Decision] :
           \/ /\ Decided(d, "ALLOW") \union Decided(d, "DENY") # {}
              /\ StartBatch(s, "synth", Decided(d, "ALLOW"), Decided(d, "DENY"))
           \/ /\ Decided(d, "ALLOW") \union Decided(d, "DENY") = {}
              /\ AfterBatch(s, grown, ask[s] \union Decided(d, "NEEDS_APPROVAL"))
    BY <1>synthesize DEF Synthesize
  <2>3. CASE Decided(d, "ALLOW") \union Decided(d, "DENY") # {}
    BY <1>batch, <2>1, <2>2, <2>3
  <2>4. CASE Decided(d, "ALLOW") \union Decided(d, "DENY") = {}
    <3>1. ask[s] \union Decided(d, "NEEDS_APPROVAL") # {}
      BY <2>1, <2>4, DecisionsSplit
    <3>2. Finish(s, grown, "waiting_for_approval")
      BY <2>2, <2>4, <3>1 DEF AfterBatch
    <3>3. QED
      BY <1>finish, <2>1, <3>2
  <2>5. QED
    BY <2>3, <2>4
<1>terminal. ASSUME Terminal(s) PROVE Goal
  <2>1. pc'[s] = "ending" /\ sealing[s] = NoSeal /\ UNCHANGED <<down, sealing>>
    BY <1>own, <1>terminal DEF Terminal, At, Goto, foreground, TypeOK, ControlTypes
  <2>2. QED
    BY <1>calm, <1>off, <2>1
<1>cancel. ASSUME Cancel(s) PROVE Goal
  <2>1. /\ UNCHANGED <<row, pc, st, down, sealing>> /\ sealing[s] = NoSeal /\ token'[s]
        /\ pc[s] \in SuspendPoints
    BY <1>own, <1>cancel
    DEF Cancel, Suspended, store, control, TypeOK, ForegroundTypes
  <2>2. pc'[s] # "aborted"
    BY <2>1, ConstantsAssumption
  <2>3. QED
    BY <1>own, <1>calm, <2>1, <2>2 DEF OnDisk
<1>shutdown. ASSUME Shutdown(s) PROVE Goal
  <2>1. /\ UNCHANGED <<row, pc, st>> /\ sealing'[s] \in {sealing[s], row.st}
        /\ sealing[s] = NoSeal /\ token'[s] = (pc[s] # "idle")
    BY <1>own, <1>shutdown
    DEF Shutdown, SealRead, Suspended, At, store, control, TypeOK, ForegroundTypes
  <2>2. Alone
    BY <1>shutdown DEF Shutdown, OneWriter
  <2>3. SealInv(s)'
    BY <2>1, <2>2 DEF SealInv, Alone
  <2>4. QED
    BY <1>own, <2>1, <2>3 DEF OnDisk
<1>aborted. ASSUME ShutdownAfterAbort(s) PROVE Goal
  <2>1. /\ pc[s] = "aborted" /\ pc'[s] = "idle" /\ row' = row
        /\ sealing'[s] \in {NoSeal, row.st}
    BY <1>own, <1>aborted
    DEF ShutdownAfterAbort, SealRead, At, Goto, store, TypeOK, ControlTypes
  <2>2. SealInv(s)'
    BY <1>own, <2>1 DEF SealInv, Alone
  <2>3. QED
    BY <1>off, <2>1, <2>2
<1>seal. ASSUME SealWrite(s) PROVE Goal
  <2>1. /\ UNCHANGED <<pc, st, batch, token, down>> /\ sealing'[s] = NoSeal
        /\ row'.st = Seal(row.st)
        /\ pc[s] = "idle" \/ token[s]
    BY <1>own, <1>seal
    DEF SealWrite, Save, SealInv, control, foreground, TypeOK
  <2>2. SealInv(s)'
    BY <1>own, <2>1 DEF SealInv, Alone
  <2>3. ASSUME pc[s] = "model" PROVE st[s] = row'.st
    <3>1. st[s] = row.st /\ UnmatchedToolCalls(st[s]) = {}
      BY <1>own, <2>3 DEF OnDisk, SessionInv, TurnInv
    <3>2. Seal(row.st) = row.st
      BY <1>own, <3>1, SealIdentity
    <3>3. QED
      BY <2>1, <3>1, <3>2
  <2>4. QED
    BY <2>1, <2>2, <2>3 DEF OnDisk
<1>restart. ASSUME Restart(s) PROVE Goal
  <2>1. pc'[s] = "idle" /\ sealing'[s] = NoSeal /\ ~down'[s]
    BY <1>own, <1>restart DEF Restart, At, control, TypeOK, ForegroundTypes
  <2>2. QED
    BY <1>off, <2>1 DEF SealInv
<1>qed. QED
  <2>1. ASSUME Drive(s) PROVE Goal
    BY <2>1, <1>started, <1>prepare, <1>leaves, <1>nothing, <1>ends, <1>apply, <1>turn,
       <1>decide, <1>cut, <1>gathered, <1>fold, <1>done, <1>synthesize, <1>terminal,
       <1>aborted, <1>seal
    DEF Drive
  <2>2. ASSUME Provider(s) \/ Tool(s) PROVE Goal
    BY <2>2, <1>model, <1>ends, <1>returns DEF Provider, Tool
  <2>3. ASSUME User(s) \/ Fault(s) PROVE Goal
    BY <2>3, <1>start, <1>command, <1>cancel, <1>shutdown, <1>restart, <1>ends,
       <1>abort, <1>crash, <1>leaves
    DEF User, Fault
  <2>4. QED
    BY <2>1, <2>2, <2>3

LEMMA DurableStep ==
    ASSUME OneWriter, IInv, DurableInv, [Next]_vars
    PROVE  DurableInv'
<1>1. CASE UNCHANGED vars
  BY <1>1 DEF vars, store, control, foreground, DurableInv, SealInv, OnDisk, Folded, Alone
<1>2. ASSUME NEW s \in Sessions,
             Drive(s) \/ Provider(s) \/ Tool(s) \/ User(s) \/ Fault(s)
      PROVE  DurableInv'
  <2>1. LocalTo(s)
    BY <1>2, StepLocal DEF IInv
  <2>2. QED
    BY <1>2, <2>1, DurableOwn, OthersDurable DEF DurableInv
<1>3. QED
  BY <1>1, <1>2 DEF Next

LEMMA DurableInit == Init => DurableInv
BY DEF Init, DurableInv, SealInv, OnDisk

\* When the model is called, the transcript it is given is the one on disk, for any
\* number of calls, turns and crashes: AgentLoop.advance emits after_model and after_tool
\* before it goes on, and the CheckpointHandler has saved when they return.  Other sessions
\* may open the Run as long as none of them seals it (OneWriter).
THEOREM TurnsDurable ==
    ASSUME OneWriter
    PROVE  Spec => []TurnStartsDurable
<1>1. IInv /\ DurableInv /\ [Next]_vars => DurableInv'
  BY DurableStep
<1>2. DurableInv => TurnStartsDurable
  BY DEF DurableInv, OnDisk, TurnStartsDurable
<1>3. QED
  BY <1>1, <1>2, DurableInit, Invariance, PTL DEF Spec

-----------------------------------------------------------------------------
(* What becomes of a follow-up. *)

\* What the policy or the user said of a call is not forgotten, and a batch that is
\* complete adds the calls that asked for a follow-up.
LEMMA WantedStep ==
    ASSUME TypeOK, NEW s \in Sessions,
           Drive(s) \/ Provider(s) \/ Tool(s) \/ User(s) \/ Fault(s)
    PROVE  /\ \A c \in Call : consent'[c] = "none" => consent[c] = "none"
           /\ \/ wanted' = wanted
              \/ pc[s] = "fold" /\ wanted' = wanted \union batch[s].wants
<1>1. ASSUME ApplyVerdicts(s) \/ Decide(s) \/ Synthesize(s)
      PROVE  \A c \in Call : consent'[c] = "none" => consent[c] = "none"
  BY <1>1 DEF ApplyVerdicts, Decide, Synthesize, Ask
<1>2. ASSUME Drive(s), ~(ApplyVerdicts(s) \/ Decide(s) \/ Synthesize(s))
      PROVE  consent' = consent
  BY <1>2
  DEF Drive, RunStarted, PrepareResume, PrepareResumeConflict, NothingPending,
      ApprovalCancelled, StillPending, TurnStart, ModelInterrupted,
      NoToolCalls, CancelledAfterModel, ToolCut, Gathered,
      FoldResult, BatchCancelled, BatchDone, Terminal, Return,
      ShutdownAfterAbort, SealWrite, OnlyControlMoves, history
<1>3. ASSUME Drive(s), ~(BatchDone(s) \/ Synthesize(s)) PROVE wanted' = wanted
  BY <1>3
  DEF Drive, RunStarted, PrepareResume, PrepareResumeConflict, NothingPending,
      ApprovalCancelled, ApplyVerdicts, StillPending, TurnStart, ModelInterrupted,
      NoToolCalls, CancelledAfterModel, Decide, ToolCut, Gathered,
      FoldResult, BatchCancelled, Terminal, Return,
      ShutdownAfterAbort, SealWrite, OnlyControlMoves, history
<1>4. ASSUME BatchDone(s) \/ Synthesize(s)
      PROVE  pc[s] = "fold" /\ wanted' = wanted \union batch[s].wants
  BY <1>4 DEF BatchDone, Synthesize, At
<1>5. ASSUME Provider(s) \/ Tool(s) PROVE UNCHANGED <<consent, wanted>>
  BY <1>5
  DEF Provider, Tool, ModelResponds, ModelFails, ToolReturns, OnlyControlMoves, history
<1>6. ASSUME User(s) \/ Fault(s) PROVE UNCHANGED <<consent, wanted>>
  BY <1>6
  DEF User, Fault, StartNew, ContinueWith, RespondApproval, RespondApprovals,
      CommandRefused, Command, Cancel, Shutdown, Restart, InterruptLoop,
      InterruptPreparation, Crash, SaveFailsOutside, Propagate, FoldSaveFails,
      ModelSaveFails, TerminalSaveFails, history
<1>7. QED
  BY <1>1, <1>2, <1>3, <1>4, <1>5, <1>6

\* A batch keeps the kind and the calls with which it was started.
LEMMA KindStep ==
    ASSUME IInv, \A t \in Sessions : KindInv(t), NEW s \in Sessions,
           Drive(s) \/ Provider(s) \/ Tool(s) \/ User(s) \/ Fault(s)
    PROVE  \A t \in Sessions : KindInv(t)'
<1> DEFINE Kept(t) == /\ pc[t] \in {"batch", "fold"}
                      /\ batch'[t].kind = batch[t].kind
                      /\ batch'[t].running \union batch'[t].wants
                            \subseteq batch[t].running \union batch[t].wants
<1>1. TypeOK /\ (\A t \in Sessions : batch[t] \in Batch)
  BY DEF IInv, TypeOK, ControlTypes
<1>2. \A c \in Call : consent'[c] = "none" => consent[c] = "none"
  BY <1>1, WantedStep
<1>kept. ASSUME NEW t \in Sessions, Kept(t) PROVE KindInv(t)'
  <2>1. batch[t].running \subseteq Call /\ batch[t].wants \subseteq Call
    BY <1>1 DEF Batch
  <2>2. KindInv(t)
    OBVIOUS
  <2>3. QED
    BY <1>2, <1>kept, <2>1, <2>2 DEF KindInv
<1>3. ASSUME NEW t \in Sessions \ {s} PROVE KindInv(t)'
  <2>1. pc'[t] = pc[t] /\ batch'[t] = batch[t]
    BY <1>1, StepLocal DEF LocalTo
  <2>2. CASE pc[t] \in {"batch", "fold"}
    BY <1>kept, <2>1, <2>2
  <2>3. CASE pc[t] \notin {"batch", "fold"}
    BY <2>1, <2>3 DEF KindInv
  <2>4. QED
    BY <2>2, <2>3
<1>goto. ASSUME NEW p, Goto(s, p) PROVE pc'[s] = p
  BY <1>1, <1>goto DEF Goto, TypeOK, ControlTypes
<1>off. ASSUME pc'[s] \notin {"batch", "fold"} PROVE KindInv(s)'
  BY <1>off DEF KindInv
<1>same. ASSUME UNCHANGED <<pc, batch>> PROVE KindInv(s)'
  BY <1>kept, <1>off, <1>same
<1>finish. ASSUME \E state, status : Finish(s, state, status) PROVE KindInv(s)'
  BY <1>finish, <1>goto, <1>off DEF Finish
<1>apply. ASSUME ApplyVerdicts(s) PROVE KindInv(s)'
  <2> DEFINE decided == UnmatchedToolCalls(st[s]) \intersect Judged(s)
  <2>1. /\ StartBatch(s, "verdict", decided \intersect Approved(s), decided \ Approved(s))
        /\ consent' = [c \in Call |->
              IF c \notin decided THEN consent[c]
              ELSE IF c \in verdicts[s].approve THEN "approved" ELSE "denied"]
    BY <1>apply DEF ApplyVerdicts
  <2>2. decided \subseteq Call
    BY <1>1, UnmatchedType DEF TypeOK, ControlTypes
  <2> HIDE DEF decided
  <2>3. /\ batch'[s].kind = "verdict" /\ batch'[s].wants = {}
        /\ batch'[s].running = decided \intersect Approved(s)
    BY <1>1, <2>1, BatchBegins
  <2>4. \A c \in batch'[s].running : consent'[c] # "none"
    BY <2>1, <2>2, <2>3
  <2>5. QED
    BY <2>3, <2>4 DEF KindInv
<1>decide. ASSUME Decide(s) PROVE KindInv(s)'
  <2>1. CASE \E runs, denies : StartBatch(s, "model", runs, denies)
    <3>1. batch'[s].kind = "model"
      BY <1>1, <2>1, BatchBegins
    <3>2. QED
      BY <3>1 DEF KindInv
  <2>2. QED
    BY <1>decide, <1>finish, <2>1 DEF Decide
<1>synthesize. ASSUME Synthesize(s) PROVE KindInv(s)'
  <2> DEFINE calls == {FollowUp(c) : c \in FollowUpSources(s)}
  <2>1. \/ \E d \in [calls -> Decision] :
              StartBatch(s, "synth", Decided(d, "ALLOW"), Decided(d, "DENY"))
        \/ \E state, waiting : AfterBatch(s, state, waiting)
    BY <1>synthesize DEF Synthesize
  <2>2. CASE \E state, waiting : AfterBatch(s, state, waiting)
    BY <1>finish, <1>goto, <1>off, <2>2 DEF AfterBatch
  <2>3. ASSUME NEW d \in [calls -> Decision],
               StartBatch(s, "synth", Decided(d, "ALLOW"), Decided(d, "DENY"))
        PROVE  KindInv(s)'
    <3>1. /\ batch'[s].kind = "synth" /\ batch'[s].wants = {}
          /\ batch'[s].running = Decided(d, "ALLOW")
      BY <1>1, <2>3, BatchBegins
    <3>2. Decided(d, "ALLOW") \subseteq calls
      BY DEF Decided
    <3>3. FollowUpSources(s) \subseteq Call
      BY <1>1 DEF FollowUpSources, Batch
    <3>4. calls \intersect ModelCall = {}
      BY <3>3, MaxCallsAssumption DEF FollowUp, ModelCall, Call
    <3>5. QED
      BY <3>1, <3>2, <3>4 DEF KindInv
  <2>4. QED
    BY <2>1, <2>2, <2>3
<1>done. ASSUME BatchDone(s) PROVE KindInv(s)'
  BY <1>done, <1>finish, <1>goto, <1>off DEF BatchDone, AfterBatch
<1>returns. ASSUME NEW c \in Call, ToolReturns(s, c) PROVE KindInv(s)'
  <2>1. /\ pc[s] = "batch" /\ c \in batch[s].running
        /\ batch'[s].kind = batch[s].kind
        /\ batch'[s].running \subseteq batch[s].running
        /\ batch'[s].wants \subseteq batch[s].wants \union {c}
    BY <1>1, <1>returns DEF ToolReturns, At, Answered, Batch, TypeOK, ControlTypes
  <2>2. QED
    BY <1>kept, <2>1
<1>cut. ASSUME NEW c \in Call, ToolCut(s, c) PROVE KindInv(s)'
  <2>1. /\ pc[s] = "batch"
        /\ batch'[s].kind = batch[s].kind /\ batch'[s].wants = batch[s].wants
        /\ batch'[s].running \subseteq batch[s].running
    BY <1>1, <1>cut DEF ToolCut, At, Stopped, Batch, TypeOK, ControlTypes
  <2>2. QED
    BY <1>kept, <2>1
<1>gathered. ASSUME Gathered(s) PROVE KindInv(s)'
  BY <1>gathered, <1>kept DEF Gathered, At
<1>fold. ASSUME FoldResult(s) PROVE KindInv(s)'
  <2>1. PICK r \in batch[s].resolved : batch' = [batch EXCEPT ![s] = Appended(@, r)]
    BY <1>fold DEF FoldResult
  <2>2. pc[s] = "fold" /\ st'[s] = st[s]
    BY <1>fold DEF FoldResult, At
  <2>3. QED
    BY <1>1, <1>kept, <2>1, <2>2, FoldedNext
<1>drive. ASSUME Drive(s) PROVE KindInv(s)'
  <2>1. ASSUME \/ ApprovalCancelled(s) \/ StillPending(s) \/ ModelInterrupted(s)
               \/ NoToolCalls(s) \/ CancelledAfterModel(s) \/ BatchCancelled(s)
        PROVE  KindInv(s)'
    BY <1>finish, <2>1
    DEF ApprovalCancelled, StillPending, ModelInterrupted, NoToolCalls,
        CancelledAfterModel, BatchCancelled
  <2>2. ASSUME \/ RunStarted(s) \/ PrepareResume(s) \/ PrepareResumeConflict(s)
               \/ NothingPending(s) \/ Terminal(s) \/ Return(s) \/ ShutdownAfterAbort(s)
        PROVE  KindInv(s)'
    BY <1>goto, <1>off, <2>2
    DEF RunStarted, PrepareResume, PrepareResumeConflict, NothingPending, Terminal,
        Return, ShutdownAfterAbort, Leave
  <2>3. ASSUME TurnStart(s) PROVE KindInv(s)'
    BY <1>finish, <1>goto, <1>off, <2>3 DEF TurnStart
  <2>4. ASSUME SealWrite(s) PROVE KindInv(s)'
    BY <1>same, <2>4 DEF SealWrite, control
  <2>5. QED
    BY <1>drive, <1>apply, <1>decide, <1>synthesize, <1>done, <1>cut, <1>gathered,
       <1>fold, <2>1, <2>2, <2>3, <2>4
    DEF Drive
<1>rest. ASSUME Provider(s) \/ Tool(s) \/ User(s) \/ Fault(s) PROVE KindInv(s)'
  <2>1. ASSUME ModelFails(s) \/ InterruptLoop(s) \/ FoldSaveFails(s) \/ ModelSaveFails(s)
               \/ TerminalSaveFails(s)
        PROVE  KindInv(s)'
    BY <1>finish, <2>1
    DEF ModelFails, InterruptLoop, FoldSaveFails, ModelSaveFails, TerminalSaveFails
  <2>2. ASSUME \/ ModelResponds(s) \/ StartNew(s) \/ ContinueWith(s) \/ RespondApproval(s)
               \/ RespondApprovals(s) \/ InterruptPreparation(s) \/ Crash(s)
               \/ SaveFailsOutside(s)
        PROVE  KindInv(s)'
    BY <1>goto, <1>off, <2>2
    DEF ModelResponds, StartNew, ContinueWith, RespondApproval, RespondApprovals, Claim,
        InterruptPreparation, Crash, SaveFailsOutside, Propagate, Leave
  <2>3. ASSUME CommandRefused(s) \/ Cancel(s) \/ Shutdown(s) \/ Restart(s)
        PROVE  KindInv(s)'
    BY <1>same, <2>3 DEF CommandRefused, Command, Cancel, Shutdown, Restart, control
  <2>4. QED
    BY <1>rest, <1>returns, <2>1, <2>2, <2>3 DEF Provider, Tool, User, Fault
<1>qed. QED
  BY <1>3, <1>drive, <1>rest

\* What Raised says of a transcript after the step.
RaisedNext(state) ==
    \A c \in wanted' \intersect ModelCall :
        consent'[c] = "none" => FollowUp(c) \in state.issued

\* A transcript that grows keeps its follow-ups.
LEMMA RaisedGrows ==
    ASSUME TypeOK, NEW state, NEW grown, Raised(state), state.issued \subseteq grown.issued,
           wanted' = wanted, \A c \in Call : consent'[c] = "none" => consent[c] = "none"
    PROVE  RaisedNext(grown)
BY CallFacts DEF Raised, RaisedNext

\* What a batch adds to the transcript keeps the calls that it has.
LEMMA FoldedIssued ==
    ASSUME TypeOK, NEW s \in Sessions
    PROVE  /\ Folded(s).issued = st[s].issued
           /\ \A r : AfterTool(s, r).issued = st[s].issued
           /\ \A calls \in SUBSET Call :
                 /\ AppendModelResponse(st[s], calls).issued = st[s].issued \union calls
                 /\ AppendSyntheticToolCalls(Folded(s), calls).issued
                       = st[s].issued \union calls
<1>1. st[s] \in State /\ Folded(s) \in State
  BY FoldedType DEF TypeOK, ControlTypes
<1>2. QED
  BY <1>1
  DEF Folded, AfterTool, AppendToolResults, AppendModelResponse,
      AppendSyntheticToolCalls, State

\* A step that nothing disturbs keeps the follow-ups of the session whose step it is.
LEMMA RaisedOwn ==
    ASSUME IInv, UndisturbedInv, FollowUpInv, NEW s \in Sessions, ~disturbed',
           Drive(s) \/ Provider(s) \/ Tool(s) \/ User(s) \/ Fault(s)
    PROVE  /\ RaisedInv(s)'
           /\ lock' = None => RaisedNext(row'.st)
           /\ row'.status = "absent" => wanted' = {}
<1> DEFINE Goal == /\ RaisedInv(s)'
                   /\ lock' = None => RaisedNext(row'.st)
                   /\ row'.status = "absent" => wanted' = {}
<1>next. \A state : Raised(state)' <=> RaisedNext(state')
  BY DEF Raised, RaisedNext
<1>mono. \A c \in Call : consent'[c] = "none" => consent[c] = "none"
  BY WantedStep DEF IInv
<1>own. /\ TypeOK /\ RaisedInv(s) /\ KindInv(s) /\ SessionUndisturbed(s)
        /\ row.status = "absent" => wanted = {}
        /\ lock = None => Raised(row.st)
        /\ st[s] \in State /\ batch[s] \in Batch /\ row.st \in State
  BY CalmStep DEF IInv, TypeOK, StoreTypes, ControlTypes, UndisturbedInv, FollowUpInv
<1>held. pc[s] \notin {"idle", "aborted"} => lock = s /\ lock # None
  BY ConstantsAssumption DEF IInv, SharedInv, ClaimInv
<1>goto. ASSUME NEW p, Goto(s, p) PROVE pc'[s] = p
  BY <1>own, <1>goto DEF Goto, TypeOK, ControlTypes
\* A turn goes on, or ends.
<1>go. ASSUME pc[s] \notin {"idle", "aborted"}, lock' = lock, row'.status # "absent",
              pc'[s] \in {"prepared", "top", "model", "decide", "batch", "fold"},
              RaisedNext(st'[s])
       PROVE  Goal
  BY <1>next, <1>held, <1>go DEF RaisedInv
<1>finish. ASSUME NEW state, NEW status, Finish(s, state, status), status # "absent",
                  pc[s] \notin {"idle", "aborted"}, row' = row, lock' = lock,
                  RaisedNext(state)
           PROVE  Goal
  <2>1. pc'[s] = "finish" /\ st'[s] = state /\ outcome'[s] = status
    BY <1>own, <1>finish DEF Finish, Goto, TypeOK, ControlTypes
  <2>2. QED
    BY <1>next, <1>own, <1>held, <1>finish, <2>1 DEF RaisedInv
<1>afterBatch. ASSUME NEW state, NEW waiting, AfterBatch(s, state, waiting),
                      pc[s] \notin {"idle", "aborted"}, row' = row, lock' = lock,
                      RaisedNext(state)
               PROVE  Goal
  <2>1. CASE waiting # {}
    BY <1>finish, <1>afterBatch, <2>1 DEF AfterBatch
  <2>2. CASE waiting = {}
    <3>1. pc'[s] = "top" /\ st'[s] = state
      BY <1>own, <1>afterBatch, <2>2 DEF AfterBatch, Goto, TypeOK, ControlTypes
    <3>2. QED
      BY <1>own, <1>go, <1>afterBatch, <3>1 DEF RaisedInv
  <2>3. QED
    BY <2>1, <2>2
<1>quiet. ASSUME pc[s] = "idle", UNCHANGED <<row, lock, pc, wanted>> PROVE Goal
  <2>1. lock' = None => RaisedNext(row'.st)
    BY <1>own, <1>mono, <1>quiet, RaisedGrows
  <2>2. QED
    BY <1>own, <1>quiet, <2>1 DEF RaisedInv
<1>start. ASSUME StartNew(s) PROVE Goal
  <2>1. /\ lock' = s /\ pc'[s] = "starting" /\ row'.status = "running"
        /\ wanted' = wanted /\ wanted = {}
    BY <1>own, <1>goto, <1>start DEF StartNew, Save, Coalesce, history
  <2>2. QED
    BY <2>1, ConstantsAssumption DEF RaisedInv
<1>started. ASSUME RunStarted(s) PROVE Goal
  <2>1. /\ pc[s] = "starting" /\ pc'[s] = "top" /\ lock' = lock
        /\ row'.status = "running" /\ wanted' = wanted
    BY <1>goto, <1>started DEF RunStarted, At, Save, Coalesce, history
  <2>2. RaisedNext(st'[s])
    BY <1>own, <2>1 DEF RaisedInv, RaisedNext
  <2>3. QED
    BY <1>go, <2>1, <2>2
<1>command. ASSUME ContinueWith(s) \/ RespondApproval(s) \/ RespondApprovals(s)
            PROVE  Goal
  <2>1. PICK state, given :
           Claim(s, state, given) /\ state \in {row.st, Seal(row.st)}
    BY <1>command DEF ContinueWith, RespondApproval, RespondApprovals, ResumeState
  <2>2. /\ row.status # "absent" /\ wanted' = wanted
    BY <1>command
    DEF ContinueWith, RespondApproval, RespondApprovals, Command, history
  <2>3. /\ pc'[s] = "resuming" /\ st'[s] = state /\ lock = None /\ lock' = s /\ row' = row
    BY <1>own, <1>goto, <2>1 DEF Claim, TypeOK, ControlTypes
  <2>4. state.issued = row.st.issued
    BY <1>own, <2>1 DEF Seal, AppendToolResults, State
  <2>5. RaisedNext(row.st) /\ RaisedNext(state)
    BY <1>own, <1>mono, <2>2, <2>3, <2>4, RaisedGrows
  <2>6. QED
    BY <1>next, <2>2, <2>3, <2>5, ConstantsAssumption DEF RaisedInv
<1>refused. ASSUME CommandRefused(s) \/ Restart(s) PROVE Goal
  BY <1>quiet, <1>refused
  DEF CommandRefused, Command, Restart, At, store, control, history
\* The steps that neither add a wish for a follow-up nor take a call from the transcript.
<1>kept. ASSUME NEW state, pc[s] \notin {"idle", "aborted", "starting"}, wanted' = wanted,
                st[s].issued \subseteq state.issued
         PROVE  RaisedNext(state)
  BY <1>own, <1>mono, <1>kept, RaisedGrows DEF RaisedInv
<1>prepare. ASSUME PrepareResume(s) PROVE Goal
  <2>1. /\ pc[s] = "resuming" /\ pc'[s] = "prepared" /\ lock' = lock /\ st' = st
        /\ row'.status = "running" /\ wanted' = wanted
    BY <1>goto, <1>prepare DEF PrepareResume, At, Save, Coalesce, history
  <2>2. QED
    BY <1>go, <1>kept, <2>1
<1>leave. ASSUME PrepareResumeConflict(s) \/ Return(s) PROVE Goal
  <2>1. /\ pc[s] \in {"resuming", "ending"} /\ pc'[s] = "idle" /\ row' = row
        /\ wanted' = wanted
    BY <1>goto, <1>leave DEF PrepareResumeConflict, Return, At, Leave, store, history
  <2>2. RaisedNext(row.st)
    BY <1>own, <1>mono, <2>1, RaisedGrows DEF RaisedInv
  <2>3. QED
    BY <1>own, <2>1, <2>2 DEF RaisedInv
<1>nothing. ASSUME NothingPending(s) \/ Gathered(s) PROVE Goal
  <2>1. /\ pc[s] \in {"prepared", "batch"} /\ pc'[s] \in {"top", "fold"}
        /\ UNCHANGED <<row, lock, st, wanted>>
    BY <1>goto, <1>nothing DEF NothingPending, Gathered, At, store, history
  <2>2. QED
    BY <1>own, <1>go, <1>kept, <2>1 DEF RaisedInv
<1>apply. ASSUME ApplyVerdicts(s) PROVE Goal
  <2>1. /\ pc[s] = "prepared" /\ pc'[s] = "batch" /\ UNCHANGED <<row, lock, st, wanted>>
    BY <1>goto, <1>apply DEF ApplyVerdicts, StartBatch, At, store
  <2>2. QED
    BY <1>own, <1>go, <1>kept, <2>1 DEF RaisedInv
<1>ends. ASSUME StillPending(s) \/ NoToolCalls(s) \/ ModelFails(s) PROVE Goal
  <2>1. /\ pc[s] \in {"prepared", "decide", "model"}
        /\ \E status : Finish(s, st[s], status) /\ status # "absent"
        /\ UNCHANGED <<row, lock, wanted>>
    BY <1>ends
    DEF StillPending, NoToolCalls, ModelFails, At, OnlyControlMoves, store, history
  <2>2. QED
    BY <1>finish, <1>kept, <2>1
<1>turn. ASSUME TurnStart(s) PROVE Goal
  <2>1. /\ pc[s] = "top" /\ UNCHANGED <<row, lock, wanted>> /\ RaisedNext(st[s])
    BY <1>kept, <1>turn DEF TurnStart, At, OnlyControlMoves, store, history
  <2>2. CASE \E status : Finish(s, st[s], status) /\ status # "absent"
    BY <1>finish, <2>1, <2>2
  <2>3. CASE Goto(s, "model") /\ st' = st
    BY <1>own, <1>go, <1>goto, <2>1, <2>3 DEF RaisedInv
  <2>4. QED
    BY <1>turn, <2>2, <2>3 DEF TurnStart
<1>model. ASSUME ModelResponds(s) PROVE Goal
  <2>1. PICK n \in minted .. MaxCalls :
           LET grown == AppendModelResponse(st[s], minted + 1 .. n)
           IN st' = [st EXCEPT ![s] = grown] /\ Save(grown, "keep")
    BY <1>model DEF ModelResponds
  <2>2. /\ pc[s] = "model" /\ pc'[s] = "decide" /\ UNCHANGED <<lock, wanted>>
        /\ row'.status = row.status
    BY <1>goto, <1>model, <2>1 DEF ModelResponds, At, history, Save, Coalesce
  <2>3. st'[s].issued = st[s].issued \union minted + 1 .. n
    BY <1>own, <2>1 DEF AppendModelResponse, State, TypeOK, ControlTypes
  <2>4. QED
    BY <1>own, <1>go, <1>kept, <2>2, <2>3 DEF RaisedInv
<1>decide. ASSUME Decide(s) PROVE Goal
  <2>1. /\ pc[s] = "decide" /\ UNCHANGED <<row, lock, wanted>> /\ RaisedNext(st[s])
    BY <1>kept, <1>decide DEF Decide, At, store
  <2>2. CASE Finish(s, st[s], "waiting_for_approval")
    BY <1>finish, <2>1, <2>2
  <2>3. CASE Goto(s, "batch") /\ st' = st
    BY <1>own, <1>go, <1>goto, <2>1, <2>3 DEF RaisedInv
  <2>4. QED
    BY <1>decide, <2>2, <2>3 DEF Decide, StartBatch
<1>returns. ASSUME NEW c \in Call, ToolReturns(s, c) PROVE Goal
  <2>1. pc[s] = "batch" /\ UNCHANGED <<row, lock, pc, st, wanted>>
    BY <1>returns DEF ToolReturns, At, store
  <2>2. QED
    BY <1>own, <1>go, <1>kept, <2>1 DEF RaisedInv
<1>fold. ASSUME FoldResult(s) PROVE Goal
  <2>1. /\ pc[s] = "fold" /\ UNCHANGED <<lock, pc, st, wanted>>
        /\ row'.status = row.status
    BY <1>fold DEF FoldResult, At, history, Save, Coalesce
  <2>2. QED
    BY <1>own, <1>go, <1>kept, <2>1 DEF RaisedInv
<1>done. ASSUME BatchDone(s) PROVE Goal
  <2>1. /\ pc[s] = "fold" /\ AfterBatch(s, Folded(s), ask[s]) /\ FollowUpSources(s) = {}
        /\ wanted' = wanted \union batch[s].wants /\ UNCHANGED <<row, lock, consent>>
    BY <1>done DEF BatchDone, At, store
  <2>2. \A c \in batch[s].wants \intersect ModelCall : consent[c] # "none"
    <3>1. batch[s].kind \in {"verdict", "model", "synth"}
      BY <1>own, <2>1 DEF KindInv, Batch
    <3>2. QED
      BY <1>own, <2>1, <3>1 DEF KindInv, FollowUpSources
  <2>3. Raised(st[s])
    BY <1>own, <2>1 DEF RaisedInv
  <2>4. Folded(s).issued = st[s].issued
    BY <1>own, FoldedIssued
  <2>5. RaisedNext(Folded(s))
    BY <2>1, <2>2, <2>3, <2>4 DEF Raised, RaisedNext
  <2>6. QED
    BY <1>afterBatch, <2>1, <2>5
<1>synthesize. ASSUME Synthesize(s) PROVE Goal
  <2> DEFINE calls == {FollowUp(c) : c \in FollowUpSources(s)}
             grown == AppendSyntheticToolCalls(Folded(s), calls)
  <2>1. /\ pc[s] = "fold" /\ calls # {} /\ UNCHANGED <<row, lock>>
        /\ wanted' = wanted \union batch[s].wants
        /\ \/ Goto(s, "batch") /\ st' = [st EXCEPT ![s] = grown]
           \/ \E waiting : AfterBatch(s, grown, waiting)
    BY <1>synthesize DEF Synthesize, StartBatch, At, store
  <2>2. FollowUpSources(s) = batch[s].wants
    BY <2>1 DEF FollowUpSources
  <2>3. grown.issued = st[s].issued \union calls
    <3>1. Folded(s) \in State
      BY <1>own, FoldedType DEF TypeOK
    <3>2. grown.issued = Folded(s).issued \union calls
      BY <3>1 DEF AppendSyntheticToolCalls, State
    <3>3. QED
      BY <1>own, <3>2, FoldedIssued
  <2>4. Raised(st[s])
    BY <1>own, <2>1 DEF RaisedInv
  <2>5. RaisedNext(grown)
    <3> SUFFICES ASSUME NEW c \in wanted' \intersect ModelCall, consent'[c] = "none"
                 PROVE  FollowUp(c) \in grown.issued
      BY DEF RaisedNext
    <3>1. CASE c \in batch[s].wants
      BY <2>2, <2>3, <3>1
    <3>2. CASE c \in wanted
      BY <1>mono, <2>3, <2>4, <3>2, CallFacts DEF Raised
    <3>3. QED
      BY <2>1, <3>1, <3>2
  <2> HIDE DEF grown, calls
  <2>6. CASE Goto(s, "batch") /\ st' = [st EXCEPT ![s] = grown]
    <3>1. st'[s] = grown
      BY <1>own, <2>6 DEF TypeOK, ControlTypes
    <3>2. QED
      BY <1>own, <1>go, <1>goto, <2>1, <2>5, <2>6, <3>1 DEF RaisedInv
  <2>7. QED
    BY <1>afterBatch, <2>1, <2>5, <2>6
<1>terminal. ASSUME Terminal(s) PROVE Goal
  <2>1. /\ pc[s] = "finish" /\ pc'[s] = "ending" /\ UNCHANGED <<lock, st, wanted>>
        /\ Save(st[s], outcome[s]) /\ outcome[s] # "keep"
    BY <1>own, <1>goto, <1>terminal
    DEF Terminal, At, history, TypeOK, ControlTypes, Status
  <2>2. row'.st = st[s] /\ row'.status = outcome[s] /\ outcome[s] # "absent"
    BY <1>own, <2>1 DEF Save, Coalesce, RaisedInv
  <2>3. RaisedNext(st[s])
    BY <1>kept, <2>1
  <2>4. QED
    BY <1>next, <1>held, <2>1, <2>2, <2>3 DEF RaisedInv
<1>never. /\ ~ApprovalCancelled(s) /\ ~ModelInterrupted(s) /\ ~CancelledAfterModel(s)
          /\ ~BatchCancelled(s) /\ ~ShutdownAfterAbort(s) /\ ~SealWrite(s)
          /\ \A c \in Call : ~ToolCut(s, c)
  BY <1>own
  DEF SessionUndisturbed, ApprovalCancelled, ModelInterrupted, CancelledAfterModel,
      BatchCancelled, ShutdownAfterAbort, SealWrite, ToolCut, At
<1>qed. QED
  <2>1. ASSUME Drive(s) PROVE Goal
    BY <2>1, <1>started, <1>prepare, <1>leave, <1>nothing, <1>apply, <1>ends, <1>turn,
       <1>decide, <1>fold, <1>done, <1>synthesize, <1>terminal, <1>never
    DEF Drive
  <2>2. ASSUME Provider(s) \/ Tool(s) PROVE Goal
    BY <2>2, <1>model, <1>ends, <1>returns DEF Provider, Tool
  <2>3. QED
    BY <2>1, <2>2, <1>start, <1>command, <1>refused, CalmStep

LEMMA OthersRaised ==
    ASSUME IInv, UndisturbedInv, FollowUpInv, NEW s \in Sessions, LocalTo(s), ~disturbed',
           Drive(s) \/ Provider(s) \/ Tool(s) \/ User(s) \/ Fault(s)
    PROVE  \A t \in Sessions \ {s} : RaisedInv(t)'
<1> SUFFICES ASSUME NEW t \in Sessions \ {s} PROVE RaisedInv(t)'
  OBVIOUS
<1>1. pc'[t] = pc[t] /\ st'[t] = st[t] /\ outcome'[t] = outcome[t]
  BY DEF LocalTo
<1>2. TypeOK /\ ClaimInv /\ RaisedInv(t) /\ sealing[s] = NoSeal
  BY CalmStep DEF IInv, SharedInv, FollowUpInv, UndisturbedInv, SessionUndisturbed
<1>3. CASE pc[t] \in {"idle", "aborted"}
  BY <1>1, <1>3 DEF RaisedInv
<1>4. CASE pc[t] \notin {"idle", "aborted"}
  <2>1. row' = row
    BY <1>2, <1>4, OthersRow
  <2>2. pc[s] # "fold"
    BY <1>2, <1>4 DEF ClaimInv
  <2>3. /\ wanted' = wanted
        /\ \A c \in Call : consent'[c] = "none" => consent[c] = "none"
    BY <1>2, <2>2, WantedStep
  <2>4. /\ Raised(row.st) => RaisedNext(row.st)
        /\ Raised(st[t]) => RaisedNext(st[t])
    BY <1>2, <2>3, RaisedGrows
  <2>5. QED
    BY <1>1, <1>2, <2>1, <2>3, <2>4 DEF RaisedInv, Raised, RaisedNext
<1>5. QED
  BY <1>3, <1>4

LEMMA FollowUpStep ==
    ASSUME IInv, UndisturbedInv, FollowUpInv, [Next]_vars
    PROVE  FollowUpInv'
<1>1. CASE UNCHANGED vars
  BY <1>1 DEF vars, store, control, history, FollowUpInv, KindInv, RaisedInv, Raised
<1>2. ASSUME NEW s \in Sessions,
             Drive(s) \/ Provider(s) \/ Tool(s) \/ User(s) \/ Fault(s)
      PROVE  FollowUpInv'
  <2>1. LocalTo(s)
    BY <1>2, StepLocal DEF IInv
  <2>2. \A t \in Sessions : KindInv(t)'
    BY <1>2, KindStep DEF FollowUpInv
  <2>3. ASSUME ~disturbed'
        PROVE  /\ row'.status = "absent" => wanted' = {}
               /\ lock' = None => Raised(row.st)'
               /\ \A t \in Sessions : RaisedInv(t)'
    BY <1>2, <2>1, <2>3, RaisedOwn, OthersRaised DEF Raised, RaisedNext
  <2>4. QED
    BY <2>2, <2>3 DEF FollowUpInv
<1>3. QED
  BY <1>1, <1>2 DEF Next

LEMMA FollowUpInit == Init => FollowUpInv
BY DEF Init, FollowUpInv, KindInv, RaisedInv, Raised

\* A call that the policy allowed and whose result asked for a follow-up has that
\* follow-up in the transcript when the Run comes to rest (AgentLoop's synthesis after the
\* model's own batch), for any number of sessions, calls, turns and batches.
THEOREM AllowedAreFollowedUp == Spec => []AllowedFollowUpRaised
<1>1. IInv /\ TranscriptInv /\ FollowUpInv /\ [Next]_vars => FollowUpInv'
  BY FollowUpStep DEF TranscriptInv
<1>2. FollowUpInv => AllowedFollowUpRaised
  BY DEF FollowUpInv, Raised, AllowedFollowUpRaised
<1>3. QED
  BY <1>1, <1>2, FollowUpInit, Invariance, TranscriptInvariance, PTL DEF Spec

-----------------------------------------------------------------------------
(* What becomes of a result. *)

LEMMA DoneOperations ==
    ASSUME NEW state \in State
    PROVE  /\ Done(EmptyState) = {}
           /\ Done(Seal(state)) = Done(state)
           /\ \A results : Done(AppendToolResults(state, results))
                             = Done(state) \union {c \in Call : <<c, "done">> \in results}
           /\ \A calls : /\ Done(AppendModelResponse(state, calls)) = Done(state)
                         /\ Done(AppendSyntheticToolCalls(state, calls)) = Done(state)
<1>1. Done(EmptyState) = {}
  BY DEF Done, EmptyState
<1>2. ASSUME NEW results
      PROVE  Done(AppendToolResults(state, results))
               = Done(state) \union {c \in Call : <<c, "done">> \in results}
  <2>1. AppendToolResults(state, results).results = state.results \union results
    BY DEF AppendToolResults, State
  <2>2. QED
    BY <2>1 DEF Done
<1>3. Done(Seal(state)) = Done(state)
  <2>1. {c \in Call : <<c, "done">> \in UnmatchedToolCalls(state) \X {"interrupted"}} = {}
    OBVIOUS
  <2>2. QED
    BY <1>2, <2>1 DEF Seal
<1>4. ASSUME NEW calls
      PROVE  /\ Done(AppendModelResponse(state, calls)) = Done(state)
             /\ Done(AppendSyntheticToolCalls(state, calls)) = Done(state)
  BY DEF Done, AppendModelResponse, AppendSyntheticToolCalls, State
<1>5. QED
  BY <1>1, <1>2, <1>3, <1>4

LEMMA FoldedDone ==
    ASSUME TypeOK, NEW s \in Sessions
    PROVE  /\ Done(st[s]) \subseteq Done(Folded(s))
           /\ batch[s].folded = {} => Done(Folded(s)) = Done(st[s])
<1>1. st[s] \in State
  BY DEF TypeOK, ControlTypes
<1>2. Done(Folded(s)) = Done(st[s]) \union {c \in Call : <<c, "done">> \in batch[s].folded}
  BY <1>1, DoneOperations DEF Folded
<1>3. QED
  BY <1>2

\* The steps that end a worker or its process.
Ends(s) == InterruptLoop(s) \/ InterruptPreparation(s) \/ Crash(s)

\* The results that a session has in memory.
Answers(results) == {c \in Call : <<c, "done">> \in results}
Mine(s) == Done(st[s]) \union Answers(batch[s].resolved)

LEMMA FinishedStep ==
    ASSUME TypeOK, NEW s \in Sessions,
           Drive(s) \/ Provider(s) \/ Tool(s) \/ User(s) \/ Fault(s)
    PROVE  finished' \ finished \subseteq Mine(s)'
<1>1. ASSUME NEW c \in Call, ToolReturns(s, c) PROVE finished' \ finished \subseteq Mine(s)'
  <2>1. finished' \ finished \subseteq {c} /\ <<c, "done">> \in batch'[s].resolved
    BY <1>1 DEF ToolReturns, Answered, Batch, TypeOK, ControlTypes
  <2>2. QED
    BY <2>1 DEF Mine, Answers
<1>2. ASSUME Drive(s) PROVE finished' = finished
  BY <1>2
  DEF Drive, RunStarted, PrepareResume, PrepareResumeConflict, NothingPending,
      ApprovalCancelled, ApplyVerdicts, StillPending, TurnStart, ModelInterrupted,
      NoToolCalls, CancelledAfterModel, Decide, ToolCut, Gathered,
      FoldResult, BatchCancelled, BatchDone, Synthesize, Terminal, Return,
      ShutdownAfterAbort, SealWrite, OnlyControlMoves, history
<1>3. ASSUME Provider(s) \/ User(s) \/ Fault(s) PROVE finished' = finished
  BY <1>3
  DEF Provider, ModelResponds, ModelFails, OnlyControlMoves,
      User, Fault, StartNew, ContinueWith, RespondApproval, RespondApprovals,
      CommandRefused, Command, Cancel, Shutdown, Restart, InterruptLoop,
      InterruptPreparation, Crash, SaveFailsOutside, Propagate, FoldSaveFails,
      ModelSaveFails, TerminalSaveFails, history
<1>4. QED
  BY <1>1, <1>2, <1>3 DEF Tool

\* What a step does to the results of the session whose step it is, and to the row.
LEMMA KeptOwn ==
    ASSUME FoldsComplete, IInv, TypeOK', DurableInv, KeptInv, NEW s \in Sessions,
           Drive(s) \/ Provider(s) \/ Tool(s) \/ User(s) \/ Fault(s)
    PROVE  /\ ResultsInv(s)'
           /\ row'.status = "absent" => Done(row'.st) = {}
           /\ Done(row.st) \subseteq Done(row'.st)
           /\ Ends(s) \/ Mine(s) \subseteq Done(row'.st) \union Mine(s)'
<1> DEFINE Goal == /\ ResultsInv(s)'
                   /\ row'.status = "absent" => Done(row'.st) = {}
                   /\ Done(row.st) \subseteq Done(row'.st)
                   /\ Ends(s) \/ Mine(s) \subseteq Done(row'.st) \union Mine(s)'
<1>own. /\ TypeOK /\ ResultsInv(s)
        /\ row.status = "absent" => Done(row.st) = {}
        /\ st[s] \in State /\ batch[s] \in Batch /\ row.st \in State
        /\ Folded(s) \in State /\ st'[s] \in State
  BY FoldedType DEF IInv, KeptInv, TypeOK, StoreTypes, ControlTypes
<1>goto. ASSUME NEW p, Goto(s, p) PROVE pc'[s] = p
  BY <1>own, <1>goto DEF Goto, TypeOK, ControlTypes
<1>folded. /\ Done(st[s]) \subseteq Done(Folded(s))
           /\ pc[s] # "fold" => Done(Folded(s)) = Done(st[s])
           /\ batch'[s].folded = {} => Done(Folded(s)') = Done(st'[s])
  <2>1. Folded(s)' = AppendToolResults(st'[s], batch'[s].folded)
    BY DEF Folded
  <2>2. ASSUME batch'[s].folded = {} PROVE Done(Folded(s)') = Done(st'[s])
    <3>1. \A results : Done(AppendToolResults(st'[s], results))
                         = Done(st'[s]) \union {c \in Call : <<c, "done">> \in results}
      BY <1>own, DoneOperations
    <3>2. Folded(s)' = AppendToolResults(st'[s], {})
      BY <2>1, <2>2
    <3>3. QED
      BY <3>1, <3>2
  <2>3. QED
    BY <1>own, <2>2, FoldedDone DEF ResultsInv
<1>held. pc[s] \notin {"idle", "aborted"} =>
            row.status # "absent" /\ Done(row.st) \subseteq Done(Folded(s))
  BY <1>own DEF ResultsInv
<1>mine. batch[s].resolved = {} => Mine(s) = Done(st[s])
  BY DEF Mine, Answers
<1>still. ASSUME UNCHANGED <<row, batch, st, outcome>>,
                 \/ pc' = pc
                 \/ pc[s] = "aborted" /\ pc'[s] = "idle"
                 \/ pc[s] = "prepared" /\ pc'[s] = "top"
                 \/ pc[s] = "batch" /\ pc'[s] = "fold"
          PROVE  Goal
  <2>1. Folded(s)' = Folded(s)
    BY <1>still DEF Folded
  <2>2. QED
    BY <1>own, <1>still, <2>1 DEF ResultsInv, Mine, Answers
\* The session goes on to a point between two batches.
<1>on. ASSUME pc'[s] \in {"prepared", "top", "model", "decide"}, row'.status # "absent",
              batch'[s].resolved = {}, batch'[s].folded = {},
              Done(row.st) \subseteq Done(row'.st), Done(row'.st) \subseteq Done(st'[s]),
              Mine(s) \subseteq Done(st'[s])
       PROVE  Goal
  <2>1. ResultsInv(s)'
    BY <1>folded, <1>on DEF ResultsInv
  <2>2. QED
    BY <1>on, <2>1 DEF Mine
<1>finish. ASSUME NEW state, NEW status, Finish(s, state, status), row' = row,
                  pc[s] \notin {"idle", "aborted"}, status # "absent",
                  Done(row.st) \subseteq Done(state),
                  Ends(s) \/ Mine(s) \subseteq Done(state)
           PROVE  Goal
  <2>1. /\ pc'[s] = "finish" /\ st'[s] = state /\ outcome'[s] = status
        /\ batch'[s].resolved = {} /\ batch'[s].folded = {}
    BY <1>own, <1>finish DEF Finish, Goto, TypeOK, ControlTypes, NoBatch
  <2>2. ResultsInv(s)'
    BY <1>folded, <1>held, <1>finish, <2>1 DEF ResultsInv
  <2>3. QED
    BY <1>own, <1>finish, <2>1, <2>2 DEF Mine
<1>leave. ASSUME NEW p \in {"idle", "aborted"}, Leave(s, p), row' = row,
                 Ends(s) \/ Mine(s) \subseteq Done(row.st)
          PROVE  Goal
  <2>1. /\ pc'[s] = p /\ st'[s] = EmptyState
        /\ batch'[s].resolved = {} /\ batch'[s].folded = {}
    BY <1>own, <1>leave DEF Leave, Goto, TypeOK, ControlTypes, NoBatch
  <2>2. ResultsInv(s)'
    BY <1>own, <2>1, DoneOperations DEF ResultsInv
  <2>3. QED
    BY <1>own, <1>leave, <2>2
<1>batch. ASSUME NEW kind, NEW runs, NEW denies, StartBatch(s, kind, runs, denies),
                 row' = row, pc[s] \notin {"idle", "aborted"}, batch[s].resolved = {},
                 Done(row.st) \subseteq Done(st'[s]), Done(st[s]) \subseteq Done(st'[s])
          PROVE  Goal
  <2>1. pc'[s] = "batch" /\ batch'[s].folded = {}
    BY <1>own, <1>batch, BatchBegins
  <2>2. ResultsInv(s)'
    BY <1>folded, <1>held, <1>batch, <2>1 DEF ResultsInv
  <2>3. QED
    BY <1>own, <1>mine, <1>batch, <2>2 DEF Mine
<1>afterBatch. ASSUME NEW state, NEW waiting, AfterBatch(s, state, waiting), row' = row,
                      pc[s] = "fold", batch[s].resolved = {},
                      Done(state) = Done(Folded(s))
               PROVE  Goal
  <2>1. Done(row.st) \subseteq Done(state) /\ Mine(s) \subseteq Done(state)
    BY <1>held, <1>folded, <1>mine, <1>afterBatch
  <2>2. CASE waiting # {}
    BY <1>finish, <1>afterBatch, <2>1, <2>2 DEF AfterBatch
  <2>3. CASE waiting = {}
    <3>1. /\ pc'[s] = "top" /\ st'[s] = state
          /\ batch'[s].resolved = {} /\ batch'[s].folded = {}
      BY <1>own, <1>afterBatch, <2>3 DEF AfterBatch, Goto, TypeOK, ControlTypes, NoBatch
    <3>2. QED
      BY <1>held, <1>on, <1>afterBatch, <2>1, <3>1
  <2>4. QED
    BY <2>2, <2>3
<1>start. ASSUME StartNew(s) PROVE Goal
  <2>1. /\ pc[s] = "idle" /\ pc'[s] = "starting" /\ row.status = "absent"
        /\ row'.st = EmptyState /\ row'.status = "running" /\ UNCHANGED <<st, batch>>
    BY <1>goto, <1>start DEF StartNew, At, Save, Coalesce
  <2>2. Done(row.st) = {} /\ Done(row'.st) = {}
    BY <1>own, <2>1, DoneOperations
  <2>3. ResultsInv(s)'
    BY <1>own, <2>1, <2>2 DEF ResultsInv
  <2>4. QED
    BY <2>1, <2>2, <2>3 DEF Mine, Answers
<1>started. ASSUME RunStarted(s) PROVE Goal
  <2>1. /\ pc[s] = "starting" /\ pc'[s] = "top" /\ row'.st = EmptyState
        /\ row'.status = "running" /\ st'[s] = EmptyState /\ UNCHANGED batch
    BY <1>own, <1>goto, <1>started DEF RunStarted, At, Save, Coalesce, TypeOK, ControlTypes
  <2>2. /\ Done(st[s]) = {} /\ Done(row.st) = {} /\ Done(EmptyState) = {}
        /\ batch[s].resolved = {} /\ batch[s].folded = {}
    BY <1>own, <1>folded, <2>1, DoneOperations DEF ResultsInv
  <2>3. QED
    BY <1>mine, <1>on, <2>1, <2>2
<1>command. ASSUME ContinueWith(s) \/ RespondApproval(s) \/ RespondApprovals(s)
            PROVE  Goal
  <2>1. PICK state, given :
           Claim(s, state, given) /\ state \in {row.st, Seal(row.st)}
    BY <1>command DEF ContinueWith, RespondApproval, RespondApprovals, ResumeState
  <2>2. pc[s] = "idle" /\ row.status # "absent" /\ batch' = batch
    BY <1>command
    DEF ContinueWith, RespondApproval, RespondApprovals, Command, At
  <2>3. pc'[s] = "resuming" /\ st'[s] = state /\ row' = row
    BY <1>own, <1>goto, <2>1 DEF Claim, TypeOK, ControlTypes
  <2>4. Done(st'[s]) = Done(row.st) /\ Done(st[s]) = {}
    BY <1>own, <2>1, <2>2, <2>3, DoneOperations DEF ResultsInv
  <2>5. batch[s].resolved = {} /\ batch[s].folded = {}
    BY <1>own, <2>2 DEF ResultsInv
  <2>6. ResultsInv(s)'
    BY <1>folded, <2>2, <2>3, <2>4, <2>5 DEF ResultsInv
  <2>7. QED
    BY <1>own, <1>mine, <2>3, <2>4, <2>5, <2>6
<1>stays. ASSUME \/ CommandRefused(s) \/ Restart(s) \/ Cancel(s) \/ Shutdown(s)
                 \/ ShutdownAfterAbort(s) \/ NothingPending(s) \/ Gathered(s)
          PROVE  Goal
  BY <1>goto, <1>stays, <1>still
  DEF CommandRefused, Command, Restart, Cancel, Shutdown, ShutdownAfterAbort,
      NothingPending, Gathered, At, store, control
<1>seal. ASSUME SealWrite(s) PROVE Goal
  <2>1. /\ sealing[s] = row.st /\ row'.st = Seal(row.st) /\ row'.status = "cancelled"
        /\ UNCHANGED <<pc, st, batch, outcome>>
    BY <1>own, <1>seal DEF SealWrite, Save, Coalesce, DurableInv, SealInv, control
  <2>2. Done(row'.st) = Done(row.st)
    BY <1>own, <2>1, DoneOperations
  <2>3. Folded(s)' = Folded(s)
    BY <2>1 DEF Folded
  <2>4. ResultsInv(s)'
    BY <1>own, <2>1, <2>2, <2>3 DEF ResultsInv
  <2>5. QED
    BY <2>1, <2>2, <2>4 DEF Mine, Answers
<1>prepare. ASSUME PrepareResume(s) PROVE Goal
  <2>1. /\ pc[s] = "resuming" /\ pc'[s] = "prepared" /\ row'.st = st[s]
        /\ row'.status = "running" /\ UNCHANGED <<st, batch>>
    BY <1>goto, <1>prepare DEF PrepareResume, At, Save, Coalesce
  <2>2. batch[s].resolved = {} /\ batch[s].folded = {}
    BY <1>own, <2>1 DEF ResultsInv
  <2>3. QED
    BY <1>held, <1>folded, <1>mine, <1>on, <2>1, <2>2
<1>leaves. ASSUME PrepareResumeConflict(s) \/ Return(s) PROVE Goal
  <2>1. pc[s] \in {"resuming", "ending"} /\ Leave(s, "idle") /\ row' = row
    BY <1>leaves DEF PrepareResumeConflict, Return, At, store
  <2>2. Mine(s) \subseteq Done(row.st)
    BY <1>own, <1>mine, <2>1 DEF ResultsInv
  <2>3. QED
    BY <1>leave, <2>1, <2>2
<1>ended. ASSUME InterruptPreparation(s) \/ Crash(s) PROVE Goal
  BY <1>leave, <1>ended DEF InterruptPreparation, Crash, Ends, store
<1>interrupt. ASSUME InterruptLoop(s) PROVE Goal
  <2>1. pc[s] \in SuspendPoints /\ Finish(s, st[s], "cancelled") /\ row' = row
    BY <1>interrupt DEF InterruptLoop, Interrupt, Suspended, store
  <2>2. pc[s] \notin {"idle", "aborted", "fold"}
    BY <2>1, ConstantsAssumption DEF FoldsComplete
  <2>3. QED
    BY <1>held, <1>folded, <1>finish, <1>interrupt, <2>1, <2>2 DEF Ends
<1>ends. ASSUME \/ ApprovalCancelled(s) \/ StillPending(s) \/ ModelInterrupted(s)
                \/ NoToolCalls(s) \/ CancelledAfterModel(s) \/ ModelFails(s)
         PROVE  Goal
  <2>1. /\ pc[s] \in {"prepared", "model", "decide"} /\ row' = row
        /\ \E status : Finish(s, st[s], status) /\ status # "absent"
    BY <1>ends
    DEF ApprovalCancelled, StillPending, ModelInterrupted, NoToolCalls,
        CancelledAfterModel, ModelFails, At, OnlyControlMoves, store
  <2>2. batch[s].resolved = {}
    BY <1>own, <2>1 DEF ResultsInv
  <2>3. QED
    BY <1>held, <1>folded, <1>mine, <1>finish, <2>1, <2>2
<1>cancelled. ASSUME BatchCancelled(s) PROVE Goal
  <2>1. /\ pc[s] = "fold" /\ batch[s].resolved = {} /\ row' = row
        /\ Finish(s, Folded(s), "cancelled")
    BY <1>cancelled DEF BatchCancelled, At, OnlyControlMoves, store
  <2>2. QED
    BY <1>held, <1>folded, <1>mine, <1>finish, <2>1
<1>apply. ASSUME ApplyVerdicts(s) PROVE Goal
  <2>1. /\ pc[s] = "prepared" /\ UNCHANGED <<row, st>>
        /\ \E kind, runs, denies : StartBatch(s, kind, runs, denies)
    BY <1>apply DEF ApplyVerdicts, At, store
  <2>2. batch[s].resolved = {}
    BY <1>own, <2>1 DEF ResultsInv
  <2>3. QED
    BY <1>held, <1>folded, <1>batch, <2>1, <2>2
<1>decide. ASSUME Decide(s) PROVE Goal
  <2>1. /\ pc[s] = "decide" /\ row' = row
        /\ \/ st' = st /\ \E kind, runs, denies : StartBatch(s, kind, runs, denies)
           \/ Finish(s, st[s], "waiting_for_approval")
    BY <1>decide DEF Decide, At, store
  <2>2. batch[s].resolved = {}
    BY <1>own, <2>1 DEF ResultsInv
  <2>3. QED
    BY <1>held, <1>folded, <1>mine, <1>batch, <1>finish, <2>1, <2>2
<1>turn. ASSUME TurnStart(s) PROVE Goal
  <2>1. pc[s] = "top" /\ row' = row
    BY <1>turn DEF TurnStart, At, OnlyControlMoves, store
  <2>2. batch[s].resolved = {} /\ batch[s].folded = {}
    BY <1>own, <2>1 DEF ResultsInv
  <2>3. CASE \E status : Finish(s, st[s], status) /\ status # "absent"
    BY <1>held, <1>folded, <1>mine, <1>finish, <2>1, <2>2, <2>3
  <2>4. CASE Goto(s, "model") /\ UNCHANGED <<st, batch>>
    BY <1>held, <1>folded, <1>mine, <1>goto, <1>on, <2>1, <2>2, <2>4
  <2>5. QED
    BY <1>turn, <2>3, <2>4 DEF TurnStart
<1>model. ASSUME ModelResponds(s) PROVE Goal
  <2>1. PICK n \in minted .. MaxCalls :
           LET grown == AppendModelResponse(st[s], minted + 1 .. n)
           IN st' = [st EXCEPT ![s] = grown] /\ Save(grown, "keep")
    BY <1>model DEF ModelResponds
  <2>2. /\ st'[s] = row'.st /\ row'.status = row.status
        /\ st'[s] = AppendModelResponse(st[s], minted + 1 .. n)
    BY <1>own, <2>1 DEF Save, Coalesce, TypeOK, ControlTypes
  <2>3. pc[s] = "model" /\ pc'[s] = "decide" /\ batch' = batch
    BY <1>goto, <1>model DEF ModelResponds, At
  <2>4. Done(st'[s]) = Done(st[s])
    BY <1>own, <2>2, DoneOperations
  <2>5. batch[s].resolved = {} /\ batch[s].folded = {}
    BY <1>own, <2>3 DEF ResultsInv
  <2>6. QED
    BY <1>held, <1>folded, <1>mine, <1>on, <2>2, <2>3, <2>4, <2>5
<1>tool. ASSUME NEW c \in Call, ToolReturns(s, c) \/ ToolCut(s, c) PROVE Goal
  <2>1. pc[s] = "batch" /\ UNCHANGED <<row, pc, st>>
    BY <1>tool DEF ToolReturns, ToolCut, At, store
  <2>2. /\ batch'[s].folded = batch[s].folded
        /\ batch[s].resolved \subseteq batch'[s].resolved
    <3>1. CASE ToolCut(s, c)
      BY <1>own, <3>1 DEF ToolCut, Stopped, Batch, TypeOK, ControlTypes
    <3>2. CASE ToolReturns(s, c)
      BY <1>own, <3>2 DEF ToolReturns, Answered, Batch, TypeOK, ControlTypes
    <3>3. QED
      BY <1>tool, <3>1, <3>2
  <2>3. Folded(s)' = Folded(s)
    BY <2>1, <2>2 DEF Folded
  <2>4. ResultsInv(s)'
    BY <1>own, <2>1, <2>2, <2>3 DEF ResultsInv
  <2>5. Mine(s) \subseteq Mine(s)'
    BY <2>1, <2>2 DEF Mine, Answers
  <2>6. QED
    BY <1>own, <2>1, <2>4, <2>5
<1>fold. ASSUME FoldResult(s) PROVE Goal
  <2>1. PICK r \in batch[s].resolved :
           /\ batch' = [batch EXCEPT ![s] = Appended(@, r)]
           /\ Save(AfterTool(s, r), "keep")
    BY <1>fold DEF FoldResult
  <2>2. pc[s] = "fold" /\ UNCHANGED <<pc, st>>
    BY <1>fold DEF FoldResult, At
  <2>3. row'.st = AfterTool(s, r) /\ row'.status = row.status
    BY <2>1 DEF Save, Coalesce
  <2>4. Folded(s)' = row'.st /\ batch'[s].resolved = batch[s].resolved \ {r}
    BY <1>own, <2>1, <2>2, <2>3, FoldedNext
  <2>5. Done(row'.st) = Done(Folded(s)) \union Answers({r})
    <3>1. row'.st = AppendToolResults(Folded(s), {r})
      BY <2>3 DEF AfterTool
    <3>2. \A results : Done(AppendToolResults(Folded(s), results))
                         = Done(Folded(s)) \union {c \in Call : <<c, "done">> \in results}
      BY <1>own, DoneOperations
    <3>3. QED
      BY <3>1, <3>2 DEF Answers
  <2>6. Done(row.st) \subseteq Done(row'.st)
    BY <1>held, <2>2, <2>5
  <2>7. ResultsInv(s)'
    BY <1>held, <2>2, <2>3, <2>4 DEF ResultsInv
  <2>8. Mine(s) \subseteq Done(row'.st) \union Mine(s)'
    BY <1>folded, <2>2, <2>4, <2>5 DEF Mine, Answers
  <2>9. QED
    BY <1>held, <2>2, <2>3, <2>6, <2>7, <2>8
<1>done. ASSUME BatchDone(s) PROVE Goal
  BY <1>done, <1>afterBatch DEF BatchDone, At, store
<1>synthesize. ASSUME Synthesize(s) PROVE Goal
  <2> DEFINE grown == AppendSyntheticToolCalls(
                          Folded(s), {FollowUp(c) : c \in FollowUpSources(s)})
  <2>1. /\ pc[s] = "fold" /\ batch[s].resolved = {} /\ row' = row
        /\ \/ /\ \E kind, runs, denies : StartBatch(s, kind, runs, denies)
              /\ st' = [st EXCEPT ![s] = grown]
           \/ \E waiting : AfterBatch(s, grown, waiting)
    BY <1>synthesize DEF Synthesize, At, store
  <2>2. Done(grown) = Done(Folded(s))
    BY <1>own, DoneOperations
  <2> HIDE DEF grown
  <2>3. CASE /\ \E kind, runs, denies : StartBatch(s, kind, runs, denies)
             /\ st' = [st EXCEPT ![s] = grown]
    <3>1. st'[s] = grown
      BY <1>own, <2>3 DEF TypeOK, ControlTypes
    <3>2. QED
      BY <1>held, <1>folded, <1>batch, <2>1, <2>2, <2>3, <3>1
  <2>4. QED
    BY <1>afterBatch, <2>1, <2>2, <2>3
<1>terminal. ASSUME Terminal(s) PROVE Goal
  <2>1. /\ pc[s] = "finish" /\ pc'[s] = "ending" /\ UNCHANGED <<st, batch>>
        /\ Save(st[s], outcome[s]) /\ outcome[s] # "keep"
    BY <1>own, <1>goto, <1>terminal DEF Terminal, At, TypeOK, ControlTypes, Status
  <2>2. row'.st = st[s] /\ row'.status = outcome[s] /\ outcome[s] # "absent"
    BY <1>own, <2>1 DEF Save, Coalesce, ResultsInv
  <2>3. batch[s].resolved = {} /\ batch[s].folded = {}
    BY <1>own, <2>1 DEF ResultsInv
  <2>4. ResultsInv(s)'
    BY <1>folded, <2>1, <2>2, <2>3 DEF ResultsInv
  <2>5. QED
    BY <1>held, <1>folded, <1>mine, <2>1, <2>2, <2>3, <2>4
<1>never. ~(SaveFailsOutside(s) \/ FoldSaveFails(s) \/ ModelSaveFails(s)
            \/ TerminalSaveFails(s))
  BY DEF FoldsComplete, SaveFailsOutside, FoldSaveFails, ModelSaveFails, TerminalSaveFails
<1>qed. QED
  <2>1. ASSUME Drive(s) PROVE Goal
    BY <2>1, <1>started, <1>prepare, <1>leaves, <1>stays, <1>ends, <1>cancelled, <1>apply,
       <1>turn, <1>decide, <1>tool, <1>fold, <1>done, <1>synthesize, <1>terminal, <1>seal
    DEF Drive
  <2>2. ASSUME Provider(s) \/ Tool(s) PROVE Goal
    BY <2>2, <1>model, <1>ends, <1>tool DEF Provider, Tool
  <2>3. ASSUME User(s) \/ Fault(s) PROVE Goal
    BY <2>3, <1>start, <1>command, <1>stays, <1>interrupt, <1>ended, <1>never
    DEF User, Fault
  <2>4. QED
    BY <2>1, <2>2, <2>3

LEMMA OthersKept ==
    ASSUME IInv, DurableInv, KeptInv, NEW s \in Sessions, LocalTo(s),
           Drive(s) \/ Provider(s) \/ Tool(s) \/ User(s) \/ Fault(s)
    PROVE  \A t \in Sessions \ {s} : ResultsInv(t)' /\ Mine(t)' = Mine(t)
<1> SUFFICES ASSUME NEW t \in Sessions \ {s} PROVE ResultsInv(t)' /\ Mine(t)' = Mine(t)
  OBVIOUS
<1>1. /\ pc'[t] = pc[t] /\ st'[t] = st[t] /\ batch'[t] = batch[t]
      /\ outcome'[t] = outcome[t]
  BY DEF LocalTo
<1>2. sealing[s] = NoSeal /\ ResultsInv(t)
  BY DEF DurableInv, SealInv, Alone, KeptInv
<1>3. Mine(t)' = Mine(t)
  BY <1>1 DEF Mine
<1>4. CASE pc[t] \in {"idle", "aborted"}
  BY <1>1, <1>2, <1>3, <1>4 DEF ResultsInv
<1>5. CASE pc[t] \notin {"idle", "aborted"}
  <2>1. row' = row
    BY <1>2, <1>5, OthersRow
  <2>2. QED
    BY <1>1, <1>2, <1>3, <2>1 DEF ResultsInv, Folded
<1>6. QED
  BY <1>4, <1>5

\* A result is held by the row, or by a session.
LEMMA HeldBy ==
    ASSUME NEW c \in Call
    PROVE  Held(c) <=> c \in Done(row.st) \/ \E s \in Sessions : c \in Mine(s)
BY DEF Held, Done, Mine, Answers

LEMMA KeptStep ==
    ASSUME FoldsComplete, IInv, TypeOK', DurableInv, KeptInv, [Next]_vars
    PROVE  /\ KeptInv'
           /\ Done(row.st) \subseteq Done(row'.st)
           /\ \A c \in finished' : \/ (c \notin finished \/ Held(c)) => Held(c)'
                                   \/ \E s \in Sessions : Ends(s)
<1>1. CASE UNCHANGED vars
  BY <1>1 DEF vars, store, control, history, KeptInv, ResultsInv, Folded, Held
<1>2. ASSUME NEW s \in Sessions,
             Drive(s) \/ Provider(s) \/ Tool(s) \/ User(s) \/ Fault(s)
      PROVE  /\ KeptInv'
             /\ Done(row.st) \subseteq Done(row'.st)
             /\ \A c \in finished' : \/ (c \notin finished \/ Held(c)) => Held(c)'
                                     \/ \E t \in Sessions : Ends(t)
  <2>1. /\ ResultsInv(s)'
        /\ row'.status = "absent" => Done(row'.st) = {}
        /\ Done(row.st) \subseteq Done(row'.st)
        /\ Ends(s) \/ Mine(s) \subseteq Done(row'.st) \union Mine(s)'
    BY <1>2, KeptOwn
  <2>2. \A t \in Sessions \ {s} : ResultsInv(t)' /\ Mine(t)' = Mine(t)
    BY <1>2, StepLocal, OthersKept DEF IInv
  <2>3. ASSUME NEW c \in finished', ~Ends(s), c \notin finished \/ Held(c)
        PROVE  Held(c)'
    <3>1. c \in Call
      BY DEF TypeOK, HistoryTypes
    <3>2. CASE c \notin finished
      <4>1. c \in Mine(s)'
        BY <1>2, <3>2, FinishedStep DEF IInv
      <4>2. QED
        BY <3>1, <4>1 DEF Held, Done, Mine, Answers
    <3>3. CASE Held(c)
      <4>1. c \in Done(row.st) \/ \E t \in Sessions : c \in Mine(t)
        BY <3>1, <3>3, HeldBy
      <4>2. c \in Done(row'.st) \/ \E t \in Sessions : c \in Mine(t)'
        BY <2>1, <2>2, <2>3, <4>1
      <4>3. QED
        BY <3>1, <4>2 DEF Held, Done, Mine, Answers
    <3>4. QED
      BY <2>3, <3>2, <3>3
  <2>4. KeptInv'
    BY <2>1, <2>2 DEF KeptInv
  <2>5. QED
    BY <2>1, <2>3, <2>4
<1>3. QED
  BY <1>1, <1>2 DEF Next

LEMMA KeptInit == Init => KeptInv
BY DoneOperations DEF Init, KeptInv, ResultsInv, NoBatch, EmptyState, Done

\* The result of a Tool that returned is held until it is on disk, and stays there: no
\* cancelled sibling, halt, call limit, repair or resume takes it away (AgentLoop.advance,
\* CheckpointHandler), for any number of sessions, calls, turns and batches.  It is assumed
\* that nobody else writes the row (OneWriter), and that no save fails and the worker is not
\* stopped between two results of a batch (FoldsComplete).
THEOREM ResultsAreKept ==
    ASSUME OneWriter, FoldsComplete
    PROVE  Spec => ResultsKept
<1> DEFINE Answer == \A c \in finished' :
                        \/ (c \notin finished \/ Held(c)) => Held(c)'
                        \/ \E s \in Sessions : InterruptLoop(s) \/ InterruptPreparation(s)
                                               \/ Crash(s)
           Store == \A c \in Call : <<c, "done">> \in row.st.results =>
                                        <<c, "done">> \in row'.st.results
<1>1. IInv /\ DurableInv /\ [Next]_vars => DurableInv'
  BY DurableStep
<1>2. IInv /\ IInv' /\ DurableInv /\ KeptInv /\ [Next]_vars
         => KeptInv' /\ [Answer]_vars /\ [Store]_vars
  BY KeptStep DEF Ends, Done, IInv
<1>3. ResultsKept <=> [][Answer]_vars /\ [][Store]_vars
  BY PTL DEF ResultsKept
<1>4. QED
  BY <1>1, <1>2, <1>3, DurableInit, KeptInit, Invariance, PTL DEF Spec
=============================================================================
