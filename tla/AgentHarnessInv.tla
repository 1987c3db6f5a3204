-------------------------- MODULE AgentHarnessInv --------------------------
(***************************************************************************)
(* The inductive invariant behind ToolRunsOnce, ConsentBeforeRun,          *)
(* NoDanglingCallAtModel and the refinement of ToolConsent, checked by TLC *)
(* here and proved in AgentHarnessProofs.  It follows one idea through the *)
(* code: whatever may be started next, the fresh calls of a response, the  *)
(* follow-ups of its batch or the pending calls of a Run that waits, has   *)
(* never been started.                                                     *)
(***************************************************************************)
EXTENDS AgentHarness

\* The calls that exist so far: the Provider's, and their follow-ups.
Known == 1..minted \union {FollowUp(c) : c \in 1..minted}

\* The calls exist and their Tools have never been started.
NeverRan(calls) == calls \subseteq Known /\ \A c \in calls : ran[c] = 0

\* The user was asked about the calls, and nothing has come of it yet.
Awaiting(calls) == NeverRan(calls) /\ \A c \in calls : consent[c] = "asked"

\* Nobody has run the call, nor asked the user about it.
Untouched(c) == ran[c] = 0 /\ consent[c] = "none"

-----------------------------------------------------------------------------
(* What the sessions share. *)

\* A session inside the with-claim block owns the claim.
ClaimInv == \A s \in Sessions : pc[s] \notin {"idle", "aborted"} => lock = s

\* The ids that the Provider has not used yet, and their follow-ups.
MintedInv ==
    \A c \in ModelCall : c > minted => Untouched(c) /\ Untouched(FollowUp(c))

\* What an approval may release.
WaitingInv ==
    row.status = "waiting_for_approval" => Awaiting(UnmatchedToolCalls(row.st))

SharedInv ==
    ToolRunsOnce /\ ConsentBeforeRun /\ ClaimInv /\ MintedInv /\ WaitingInv

-----------------------------------------------------------------------------
(* What holds of a session at each of its control points. *)

\* prepare_resume takes the row out of WAITING_FOR_APPROVAL, so that no save
\* of a running turn, which keeps the stored status, can publish it again.
RunningInv(s) ==
    pc[s] \in {"prepared", "top", "model", "decide", "batch", "fold"} =>
        row.status # "waiting_for_approval"

PreparedInv(s) ==
    pc[s] \in {"resuming", "prepared"} => Awaiting(UnmatchedToolCalls(st[s]))

TurnInv(s) ==
    pc[s] \in {"top", "model"} => UnmatchedToolCalls(st[s]) = {}

DecideInv(s) ==
    pc[s] = "decide" =>
        /\ UnmatchedToolCalls(st[s]) \subseteq ask[s]
        /\ \A c \in ask[s] : /\ c \in ModelCall /\ c <= minted
                             /\ Untouched(c) /\ Untouched(FollowUp(c))

Calls(results) == {r[1] : r \in results}

\* Every open call of the turn is kept for the halt, under way, or answered.
Accounted(s) ==
    ask[s] \union batch[s].running \union Calls(batch[s].resolved)
           \union Calls(batch[s].folded)

BatchInv(s) ==
    pc[s] \in {"batch", "fold"} =>
        /\ Awaiting(ask[s])
        /\ ~batch[s].cut => UnmatchedToolCalls(st[s]) \subseteq Accounted(s)
        /\ pc[s] = "fold" => batch[s].running = {}
        /\ batch[s].kind = "model" =>
              /\ ask[s] \subseteq ModelCall
              /\ \A c \in batch[s].running \union batch[s].wants :
                    c \in ModelCall /\ c <= minted /\ Untouched(FollowUp(c))

HaltInv(s) ==
    pc[s] = "finish" /\ outcome[s] = "waiting_for_approval" =>
        Awaiting(UnmatchedToolCalls(st[s]))

SessionInv(s) ==
    /\ RunningInv(s) /\ PreparedInv(s) /\ TurnInv(s)
    /\ DecideInv(s) /\ BatchInv(s) /\ HaltInv(s)

-----------------------------------------------------------------------------
(* The promise about Tool calls, and the inductive invariant. *)

Consent == INSTANCE ToolConsent WITH known <- Known

\* Whatever the sessions do, the calls of the Run go through the protocol of
\* ToolConsent: a verdict is taken only on a call that the user was asked about
\* and that has not been settled (AgentHarness._apply_approvals), and nothing
\* starts but what the policy or the user allowed in that step.
ImplementsToolConsent == Consent!Spec

IInv == TypeOK /\ SharedInv /\ \A s \in Sessions : SessionInv(s)
=============================================================================
