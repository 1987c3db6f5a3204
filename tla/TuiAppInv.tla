----------------------------- MODULE TuiAppInv -----------------------------
(***************************************************************************)
(* The inductive invariant of TuiApp.                                      *)
(*                                                                         *)
(* The foreground of the application has one holder at a time: a worker    *)
(* that is alive, the message in the queue that closes one, the batch that *)
(* waits for the user, an open picker, or the launch arguments.  What else *)
(* waits in the queue then, and in which order, is what keeps a key or a   *)
(* line typed for an earlier state from starting a second worker.          *)
(***************************************************************************)
EXTENDS TuiApp

-----------------------------------------------------------------------------
(* Kinds of messages, and how they lie in a queue. *)

Picks == {"pick_run", "pick_mcp"}
Parts == {"thinking", "text", "tool", "result"}

\* No message of q is of a kind in K.
Lacks(q, K) == \A i \in 1..Len(q) : q[i].kind \notin K

\* At most one message of q is of a kind in K.
Once(q, K) == \A i, j \in 1..Len(q) : q[i].kind \in K /\ q[j].kind \in K => i = j

\* Every message of a kind in K is in front of every one of a kind in L.
InFront(q, K, L) == \A i, j \in 1..Len(q) : q[i].kind \in K /\ q[j].kind \in L => i < j

\* A Run has been picked; a dismissed picker and the MCP servers name none.
RunPicked(q) == \E i \in 1..Len(q) : q[i].kind \in Picks /\ q[i].run # None

\* A batch of r waits to be shown.
HaltOf(q, r) == \E i \in 1..Len(q) : q[i].kind = "approval" /\ q[i].run = r

\* Batches are those the Runs have halted on.
TrueBatches(q, h) == \A i \in 1..Len(q) : q[i].kind = "approval" => q[i].arg = h[q[i].run]

\* Answers are to the call c.
AnswersTo(q, c) == \A i \in 1..Len(q) : q[i].kind = "option" => q[i].arg.call = c

-----------------------------------------------------------------------------
(* Types. *)

Answer == [call : Calls, action : Action]

\* What a message of each kind carries.
Message ==
    [kind : {"submit"}, run : {None}, arg : Acts]
    \union [kind : {"option"}, run : {None}, arg : Answer]
    \union [kind : {"approval"}, run : Runs, arg : Seq(Calls)]
    \union [kind : {"tool", "result"}, run : Runs, arg : Calls]
    \union [kind : Picks, run : Runs \union {None}, arg : {None}]
    \union [kind : {"thinking", "text", "compaction", "finished", "error", "escape", "exit"},
            run : Runs \union {None}, arg : {None}]

\* A worker that is at a step of a Run has that Run, and entered it.
WorkerOK(w) ==
    /\ worker[w].kind \in {"continue", "approve", "compact"} => worker[w].run \in Runs
    /\ worker[w].pc = "configuring" => worker[w].kind \in {"start", "continue", "approve"}
    /\ worker[w].pc = "approving" => worker[w].kind = "approve"
    /\ worker[w].pc = "compacting" <=> worker[w].kind = "compact" /\ Alive(w)
    /\ worker[w].pc \in {"approving", "advancing"} =>
         worker[w].entered /\ worker[w].kind \in {"start", "continue", "approve"}
    /\ worker[w].entered => worker[w].run \in Runs

Typed ==
    /\ TypeOK
    /\ menu \in Batch
    /\ halted \in [Runs -> Seq(Calls)]
    /\ closings \in [Workers -> Nat]
    /\ queue \in Seq(Message)
    /\ \A w \in Workers : WorkerOK(w)

-----------------------------------------------------------------------------
(* One holder of the foreground. *)

\* A worker that drives a Run is the one that ForegroundRun can cancel, its Run
\* is presented, and a cancellation finds its token set.
Driving(w) == worker[w].pc \in {"approving", "advancing"}

WorkerHolds(w) ==
    /\ \A u \in Workers : Alive(u) => u = w
    /\ fg.busy /\ ~app.input /\ app.picker = "none" /\ app.launch = "none" /\ ~Pending
    /\ Lacks(queue, Closing) /\ Lacks(queue, Picks)
    /\ Lacks(queue, {"submit"}) /\ Lacks(queue, {"option"})
    /\ Driving(w) => /\ fg.token = w /\ active # None
                     /\ worker[w].pc = "approving" => fg.run = worker[w].run
                     /\ worker[w].pc = "advancing" /\ worker[w].cancel => worker[w].token

ClosingHolds ==
    /\ app.picker = "none" /\ app.launch = "none" /\ ~Pending
    /\ Lacks(queue, Picks) /\ Lacks(queue, {"option"})
    /\ app.input => Lacks(queue, {"finished", "error"})

\* The menu is shown, or a reason is typed; never both.
BatchHolds ==
    /\ app.picker = "none" /\ app.launch = "none"
    /\ Lacks(queue, Picks)
    /\ app.input = menu.deny
    /\ menu.deny => Lacks(queue, {"option"})

PickerHolds ==
    app.launch = "none" /\ ~app.input /\ Lacks(queue, {"submit"}) /\ Lacks(queue, {"option"})

\* Only an Esc can come behind the Run that was picked.
RunPickHolds ==
    app.picker # "none" /\ Once(queue, Picks) /\ InFront(queue, Picks, {"escape"})

Ordered(q) ==
    /\ Once(q, Closing) /\ Once(q, {"submit"}) /\ Once(q, {"option"})
    /\ InFront(q, Picks, {"submit"}) /\ InFront(q, Closing, {"submit"})
    /\ InFront(q, {"submit"}, {"option"})
    /\ InFront(q, Parts, {"finished"})

Held ==
    /\ \A w \in Workers : Alive(w) => WorkerHolds(w)
    /\ ~Lacks(queue, Closing) => ClosingHolds
    /\ Pending => BatchHolds
    /\ app.picker # "none" => PickerHolds
    /\ app.launch # "none" => queue = <<>>
    /\ ~Lacks(queue, {"option"}) \/ menu.shown \/ menu.deny => Pending
    /\ RunPicked(queue) => RunPickHolds
    /\ Ordered(queue)

-----------------------------------------------------------------------------
(* The batch and its answers. *)

\* The menu is at the first undecided call; denials lie behind it.
BatchOK(m, answers) ==
    /\ \A i \in 1..Len(m.calls) : i < m.pos => m.calls[i] \in DOMAIN m.verdicts
    /\ DOMAIN m.verdicts \subseteq {m.calls[i] : i \in 1..Len(m.calls)}
    /\ m.pos <= Len(m.calls) => m.calls[m.pos] \notin DOMAIN m.verdicts
    /\ FollowsAnswers(m.verdicts, answers)
    /\ \A s \in answers : s.action = "deny" =>
         \E i \in 1..Len(m.calls) : i < m.pos /\ m.calls[i] = s.call

\* A call of a batch is asked about once: its id is unique.
Distinct(calls) == \A i, j \in 1..Len(calls) : calls[i] = calls[j] => i = j

DistinctCalls == \A b \in Batches : Distinct(b)

Answered ==
    /\ \A r \in Runs : Distinct(halted[r])
    /\ TrueBatches(queue, halted)
    /\ AnswersTo(queue, Current(menu)) /\ (~Lacks(queue, {"option"}) => menu.shown)
    /\ Pending => menu.calls = halted[menu.run] /\ BatchOK(menu, said)
    /\ menu.shown \/ menu.deny => menu.pos <= Len(menu.calls)
    /\ ~Pending => menu.verdicts = NoVerdicts
    /\ VerdictsAreTheUsers

-----------------------------------------------------------------------------
(* The application is left as it was found. *)

\* A worker, a closing message or a batch that is waiting for the user.
Engaged == Pending \/ ~Lacks(queue, Closing) \/ \E w \in Workers : Alive(w)

\* Runs whose events are presented: between a halt and the answer too.
Presented ==
    \/ \E w \in Workers : /\ Alive(w) /\ worker[w].run = active
                          /\ Driving(w) \/ worker[w].kind = "approve"
    \/ HaltOf(queue, active)
    \/ Pending /\ menu.run = active

Quiet == view.phase = "none" /\ view.tools = {} /\ ~view.spin

Undisturbed ==
    /\ fg.busy => \E w \in Workers : Alive(w)
    /\ app.input \/ app.picker # "none" \/ Engaged
    /\ Engaged \/ (app.bar = "ready" /\ app.worker = NoWorker /\ sd.attached = NoWorker)
    /\ active # None => Presented
    /\ \A w \in Workers : Driving(w) => active = worker[w].run
    /\ active = None /\ Lacks(queue, {"finished"}) => Quiet /\ Lacks(queue, Parts)
    /\ view.compacting => \/ ~Lacks(queue, {"compaction"})
                          \/ \E w \in Workers : worker[w].pc = "compacting"
    /\ \A w \in Workers : worker[w].pc = "gone" /\ worker[w].kind # "compact" => closings[w] = 1

Left ==
    /\ \A w \in Workers : closings[w] <= 1 /\ (worker[w].pc # "gone" => closings[w] = 0)
    /\ astray = {} /\ ~sd.requested => Undisturbed

-----------------------------------------------------------------------------
(* The stored Runs. *)

\* A Run of this session is RUNNING only as long as a worker drives it.
Driven ==
    \A w \in Workers : worker[w].entered /\ row[worker[w].run] = "running" =>
        \E u \in Workers : Driving(u) /\ worker[u].run = worker[w].run

TuiInv == Typed /\ Held /\ Answered /\ Left /\ Driven
=============================================================================
