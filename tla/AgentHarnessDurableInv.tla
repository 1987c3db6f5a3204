----------------------- MODULE AgentHarnessDurableInv -----------------------
(***************************************************************************)
(* The inductive invariants behind TurnStartsDurable, ResultsKept and      *)
(* AllowedFollowUpRaised, on top of the one of AgentHarnessStatusInv.      *)
(* They say, at every point of a turn, what the transcript in memory and   *)
(* the one on disk have to do with each other.                             *)
(***************************************************************************)
EXTENDS AgentHarnessStatusInv

-----------------------------------------------------------------------------
(* Who writes the row. *)

Alone == \A s, t \in Sessions : s = t

\* seal_interrupt claims nothing: with a second session, and an Esc or a shutdown, the
\* row can be written by a session that does not hold the Run.
OneWriter == Alone \/ Events \intersect {"esc", "shutdown"} = {}

\* The only session that seals is on its own: the row is still the one that it has read,
\* and the Run it is about to seal has been told to stop.
SealInv(s) ==
    /\ sealing[s] # NoSeal \/ down[s] \/ pc[s] = "aborted" => Alone
    /\ sealing[s] # NoSeal => sealing[s] = row.st /\ (pc[s] = "idle" \/ token[s])

-----------------------------------------------------------------------------
(* What is on disk when the model is called. *)

\* A turn that nobody has cancelled has all it did on disk, but for a response whose
\* first result, or the follow-ups whose first result, is still to come.
OnDisk(s) ==
    /\ pc[s] = "model" => st[s] = row.st
    /\ ~token[s] /\ pc[s] \in {"prepared", "top", "decide"} => st[s] = row.st
    /\ ~token[s] /\ pc[s] \in {"batch", "fold"} =>
          \/ Folded(s) = row.st
          \/ batch[s].folded = {} /\ (batch[s].running # {} \/ batch[s].resolved # {})

DurableInv == \A s \in Sessions : SealInv(s) /\ OnDisk(s)

-----------------------------------------------------------------------------
(* What becomes of a result. *)

\* A save that fails, or a worker that is stopped between two results of a batch,
\* publishes the transcript from before the batch over the results that are stored.
FoldsComplete == "saveError" \notin Events /\ "fold" \notin SuspendPoints

\* The calls whose own results a transcript holds.
Done(state) == {c \in Call : <<c, "done">> \in state.results}

\* A session that holds the Run holds the results that the row holds, and what it is about
\* to drop the row holds.
ResultsInv(s) ==
    /\ pc[s] \notin {"idle", "aborted"} =>
          row.status # "absent" /\ Done(row.st) \subseteq Done(Folded(s))
    /\ pc[s] = "finish" => outcome[s] # "absent"
    /\ pc[s] \in {"resuming", "ending"} => Done(st[s]) \subseteq Done(row.st)
    /\ pc[s] \in {"idle", "starting", "aborted"} => Done(st[s]) = {}
    /\ pc[s] \notin {"batch", "fold"} => batch[s].resolved = {}
    /\ pc[s] # "fold" => batch[s].folded = {}

KeptInv ==
    /\ row.status = "absent" => Done(row.st) = {}
    /\ \A s \in Sessions : ResultsInv(s)

-----------------------------------------------------------------------------
(* What becomes of a follow-up. *)

\* The calls that the policy allowed have their follow-ups in the transcript.
Raised(state) ==
    \A c \in wanted \intersect ModelCall :
        consent[c] = "none" => FollowUp(c) \in state.issued

\* The other batches hold calls that the user approved, or follow-ups themselves.
KindInv(s) ==
    pc[s] \in {"batch", "fold"} =>
        /\ batch[s].kind # "none"
        /\ batch[s].kind = "verdict" =>
              \A c \in batch[s].running \union batch[s].wants : consent[c] # "none"
        /\ batch[s].kind = "synth" =>
              (batch[s].running \union batch[s].wants) \intersect ModelCall = {}

RaisedInv(s) ==
    /\ pc[s] \notin {"idle", "aborted"} => row.status # "absent"
    /\ pc[s] = "finish" => outcome[s] # "absent"
    /\ pc[s] = "starting" => wanted = {}
    /\ pc[s] \in {"resuming", "ending"} => Raised(row.st)
    /\ pc[s] \notin {"idle", "aborted", "starting"} => Raised(st[s])

FollowUpInv ==
    /\ \A s \in Sessions : KindInv(s)
    /\ ~disturbed =>
          /\ row.status = "absent" => wanted = {}
          /\ lock = None => Raised(row.st)
          /\ \A s \in Sessions : RaisedInv(s)
=============================================================================
