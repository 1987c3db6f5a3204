----------------------- MODULE AgentHarnessStatusInv -----------------------
(***************************************************************************)
(* The inductive invariant behind StatusMatchesTranscript and RepairExact, *)
(* on top of the one of AgentHarnessInv, which says what has run.  This    *)
(* one says what is answered: at every point of a turn the calls that it   *)
(* still has to resolve are open in the transcript that it holds, each in  *)
(* one place; and a Run that nothing has disturbed is only left with a     *)
(* transcript that needs no repair.                                        *)
(***************************************************************************)
EXTENDS AgentHarnessInv

\* A transcript of calls that exist, each answered once at most.
Sound(state) == WellFormed(state) /\ state.issued \subseteq Known

\* Statuses under which no call is left open.
Ended == {"completed", "paused_limit"}

\* The repair has not been at work.
Unrepaired(results) == \A r \in results : r[2] # "interrupted"

-----------------------------------------------------------------------------
(* What is answered. *)

RowSound ==
    /\ Sound(row.st)
    /\ row.status = "waiting_for_approval" => UnmatchedToolCalls(row.st) # {}
    /\ row.status \in Ended => UnmatchedToolCalls(row.st) = {}

\* The transcripts of a session.
HeldSound(s) ==
    /\ Sound(st[s])
    /\ sealing[s] # NoSeal => Sound(sealing[s])

\* The results of the batch, whether appended or not.
Pool(s) == batch[s].resolved \union batch[s].folded

\* The calls of the response are open, and their follow-ups do not exist.
DecideOpen(s) ==
    pc[s] = "decide" =>
        /\ ask[s] \subseteq UnmatchedToolCalls(st[s])
        /\ \A c \in ask[s] : FollowUp(c) \notin st[s].issued

\* The calls under way, answered and kept for the halt are open in the transcript
\* from before the batch, and none is in two of these places.
BatchOpen(s) ==
    pc[s] \in {"batch", "fold"} =>
        /\ \A q, r \in Pool(s) : q[1] = r[1] => q = r
        /\ Unrepaired(Pool(s))
        /\ batch[s].running \intersect Calls(Pool(s)) = {}
        /\ ask[s] \intersect (batch[s].running \union Calls(Pool(s))) = {}
        /\ ask[s] \union batch[s].running \union Calls(Pool(s)) \subseteq
               UnmatchedToolCalls(st[s])
        /\ batch[s].kind = "model" =>
              \A c \in batch[s].running \union batch[s].wants :
                  FollowUp(c) \notin st[s].issued

NothingFolded(s) == pc[s] \notin {"batch", "fold"} => batch[s].folded = {}

\* What is about to be published is true of the transcript that goes with it.
HaltOpen(s) ==
    pc[s] = "finish" =>
        /\ outcome[s] = "waiting_for_approval" => UnmatchedToolCalls(st[s]) # {}
        /\ outcome[s] \in Ended => UnmatchedToolCalls(st[s]) = {}

\* The saves of a running turn keep the stored status, so that it must not promise
\* anything of the transcript.
RunningOpen(s) ==
    pc[s] \in {"prepared", "top", "model", "decide", "batch", "fold"} =>
        row.status \notin Ended

SessionSound(s) ==
    /\ HeldSound(s) /\ DecideOpen(s) /\ BatchOpen(s)
    /\ NothingFolded(s) /\ HaltOpen(s) /\ RunningOpen(s)

AnswersInv == RowSound /\ \A s \in Sessions : SessionSound(s)

-----------------------------------------------------------------------------
(* What is repaired. *)

\* Resuming this Run repairs nothing.
RowSettled == row.status = "waiting_for_approval" \/ UnmatchedToolCalls(row.st) = {}

\* Without a disturbance nobody cancels or seals, and the claim is given back only
\* with a settled row.
SessionUndisturbed(s) ==
    /\ ~token[s] /\ ~down[s] /\ sealing[s] = NoSeal
    /\ pc[s] # "aborted" /\ ~batch[s].cut
    /\ Unrepaired(st[s].results)
    /\ pc[s] = "finish" =>
          outcome[s] = "waiting_for_approval" \/ UnmatchedToolCalls(st[s]) = {}
    /\ pc[s] \in {"resuming", "ending"} => RowSettled

UndisturbedInv ==
    ~disturbed =>
        /\ Unrepaired(row.st.results)
        /\ lock = None => RowSettled
        /\ \A s \in Sessions : SessionUndisturbed(s)

TranscriptInv == AnswersInv /\ UndisturbedInv

-----------------------------------------------------------------------------
(* What a resuming session may overwrite. *)

\* While the row is the one that get_run read, it holds nothing that the transcript
\* of the resuming session, repaired or not, does not hold.
FreshInv ==
    \A s \in Sessions : pc[s] = "resuming" /\ s \in fresh =>
        row.st.issued \subseteq st[s].issued /\ row.st.results \subseteq st[s].results

-----------------------------------------------------------------------------
\* The whole inductive invariant of the Harness: what has run, what is answered, what is
\* repaired and what a resume overwrites, at every control point of every session.
WholeInv == IInv /\ TranscriptInv /\ FreshInv
=============================================================================
