----------------------------- MODULE Sandboxes -----------------------------
(***************************************************************************)
(* Sandboxes: the commands of a session's Runs, on the host or in a        *)
(* container, and the containers themselves.                               *)
(*                                                                         *)
(* Every Run has a Sandbox of its own.  In a container Sandbox the first   *)
(* command starts the container under the lock of a ContainerRegistry and  *)
(* the others share it; the registry of a nested Run is closed when that   *)
(* Run ends, a foreground Run's when the session closes its factory, if    *)
(* that factory can be closed.  A command runs under a timeout; it is      *)
(* killed when that passes or when its Task is cancelled, and its call     *)
(* returns when nothing holds its output any more.                         *)
(***************************************************************************)
EXTENDS Naturals, FiniteSets

CONSTANTS
    Runs,       \* the Runs of the session
    Kind,       \* of each Run: "local", or the owner of its registry
    Calls,      \* the commands that their Tools run
    RunOf,      \* the Run of each
    None,       \* no call
    Faults      \* what docker may do wrong

ASSUME SandboxAssumption ==
    /\ Kind \in [Runs -> {"local", "foreground", "nested"}]
    /\ RunOf \in [Calls -> Runs] /\ None \notin Calls
    /\ Faults \subseteq {"runFails", "noId", "dies", "rmFails", "lateCreate"}

VARIABLES
    pc,         \* where run_command is
    outcome,    \* how it ends
    client,     \* the process on the host: the shell, or docker run / docker exec
    child,      \* a process that the shell has left in its group, with its output
    inside,     \* the command's process in the container
    cont,       \* the container that the call has asked for, by its unique name
    lock,       \* ContainerRegistry._lock, per Run
    cached,     \* _containers: whose container the Run's commands use
    closing,    \* ContainerRegistry.aclose; "closed" after it, _closed from "removing" on
    cancelled,  \* the calls whose Task is cancelled
    open        \* the session has not been left

vars == <<pc, outcome, client, child, inside, cont, lock, cached, closing, cancelled, open>>

TypeOK ==
    /\ pc \in [Calls -> {"idle", "acquire", "starting", "reaping", "exec", "running",
                         "settling", "done"}]
    /\ outcome \in [Calls -> {"none", "result", "timeout", "unavailable", "cancelled"}]
    /\ client \in [Calls -> BOOLEAN] /\ child \in [Calls -> BOOLEAN]
    /\ inside \in [Calls -> BOOLEAN]
    /\ cont \in [Calls -> {"none", "asked", "up", "gone"}]
    /\ lock \in [Runs -> Calls \union {None}]
    /\ cached \in [Runs -> Calls \union {None}]
    /\ closing \in [Runs -> {"no", "waiting", "removing", "closed"}]
    /\ cancelled \in SUBSET Calls /\ open \in BOOLEAN

Init ==
    /\ pc = [c \in Calls |-> "idle"] /\ outcome = [c \in Calls |-> "none"]
    /\ client = [c \in Calls |-> FALSE] /\ child = [c \in Calls |-> FALSE]
    /\ inside = [c \in Calls |-> FALSE] /\ cont = [c \in Calls |-> "none"]
    /\ lock = [r \in Runs |-> None] /\ cached = [r \in Runs |-> None]
    /\ closing = [r \in Runs |-> "no"] /\ cancelled = {} /\ open = TRUE

Of(r) == {c \in Calls : RunOf[c] = r}
Local(c) == Kind[RunOf[c]] = "local"
Closed(r) == closing[r] \in {"removing", "closed"}

processes == <<client, child, inside>>
registry == <<lock, cached, closing>>

-----------------------------------------------------------------------------
(* acquire and _start: the container of a Run. *)

\* The Tools of a batch run their commands at once.
RunCommand(c) ==
    /\ pc[c] = "idle" /\ open /\ closing[RunOf[c]] = "no"
    /\ pc' = [pc EXCEPT ![c] = IF Local(c) THEN "exec" ELSE "acquire"]
    /\ UNCHANGED <<outcome, processes, cont, registry, cancelled, open>>

\* The call returns or raises, and gives the lock back if it has it.
Ends(c, how) ==
    /\ pc' = [pc EXCEPT ![c] = "done"]
    /\ outcome' = [outcome EXCEPT ![c] = how]
    /\ lock' = [r \in Runs |-> IF lock[r] = c THEN None ELSE lock[r]]

\* Mutant of Acquire: without the lock.
AcquireAtOnce(c) ==
    LET r == RunOf[c] IN
    /\ pc[c] = "acquire" /\ c \notin cancelled
    /\ IF cached[r] # None
       THEN pc' = [pc EXCEPT ![c] = "exec"] /\ UNCHANGED <<lock, client, cont>>
       ELSE /\ pc' = [pc EXCEPT ![c] = "starting"]
            /\ client' = [client EXCEPT ![c] = TRUE]
            /\ cont' = [cont EXCEPT ![c] = "asked"]
            /\ UNCHANGED lock
    /\ UNCHANGED <<outcome, child, inside, cached, closing, cancelled, open>>

\* Under the lock: a closed registry refuses, a container is used again, and
\* docker run is started otherwise.
Acquire(c) ==
    LET r == RunOf[c] IN
    /\ pc[c] = "acquire" /\ lock[r] = None /\ c \notin cancelled
    /\ IF Closed(r)
       THEN Ends(c, "unavailable") /\ UNCHANGED <<client, cont>>
       ELSE /\ UNCHANGED outcome
            /\ IF cached[r] # None
               THEN pc' = [pc EXCEPT ![c] = "exec"] /\ UNCHANGED <<lock, client, cont>>
               ELSE /\ pc' = [pc EXCEPT ![c] = "starting"]
                    /\ lock' = [lock EXCEPT ![r] = c]
                    /\ client' = [client EXCEPT ![c] = TRUE]
                    /\ cont' = [cont EXCEPT ![c] = "asked"]
    /\ UNCHANGED <<child, inside, cached, closing, cancelled, open>>

AcquireCancelled(c) ==
    /\ pc[c] = "acquire" /\ c \in cancelled
    /\ Ends(c, "cancelled")
    /\ UNCHANGED <<processes, cont, cached, closing, cancelled, open>>

\* The daemon creates the container that it was asked for; after its client is
\* gone only with the fault lateCreate.
DaemonCreates(c) ==
    /\ cont[c] = "asked" /\ (client[c] \/ "lateCreate" \in Faults)
    /\ cont' = [cont EXCEPT ![c] = "up"]
    /\ UNCHANGED <<pc, outcome, processes, registry, cancelled, open>>

\* docker run has printed the id of the container.
Started(c) ==
    /\ pc[c] = "starting" /\ cont[c] = "up" /\ c \notin cancelled
    /\ cached' = [cached EXCEPT ![RunOf[c]] = c]
    /\ lock' = [lock EXCEPT ![RunOf[c]] = None]
    /\ pc' = [pc EXCEPT ![c] = "exec"]
    /\ client' = [client EXCEPT ![c] = FALSE]
    /\ UNCHANGED <<outcome, child, inside, cont, closing, cancelled, open>>

\* docker run fails, with or without a container, or prints no id.
StartFails(c) ==
    /\ pc[c] = "starting" /\ c \notin cancelled
    /\ \/ "runFails" \in Faults
       \/ "noId" \in Faults /\ cont[c] = "up"
    /\ pc' = [pc EXCEPT ![c] = "reaping"]
    /\ outcome' = [outcome EXCEPT ![c] = "unavailable"]
    /\ client' = [client EXCEPT ![c] = FALSE]
    /\ UNCHANGED <<child, inside, cont, registry, cancelled, open>>

\* Mutant of StartCancelled: what docker run has started is left alone.
StartAbandoned(c) ==
    /\ pc[c] = "starting" /\ c \in cancelled
    /\ Ends(c, "cancelled")
    /\ client' = [client EXCEPT ![c] = FALSE]
    /\ UNCHANGED <<child, inside, cont, cached, closing, cancelled, open>>

\* The client of docker run is killed; the container may be there.
StartCancelled(c) ==
    /\ pc[c] = "starting" /\ c \in cancelled
    /\ pc' = [pc EXCEPT ![c] = "reaping"]
    /\ outcome' = [outcome EXCEPT ![c] = "cancelled"]
    /\ client' = [client EXCEPT ![c] = FALSE]
    /\ UNCHANGED <<child, inside, cont, registry, cancelled, open>>

\* docker rm may fail; nobody looks at its exit code.
RmWorks == IF "rmFails" \in Faults THEN BOOLEAN ELSE {TRUE}

\* complete_cleanup around docker rm -f of the name of this attempt.
Reap(c) ==
    /\ pc[c] = "reaping"
    /\ Ends(c, IF c \in cancelled THEN "cancelled" ELSE outcome[c])
    /\ \E works \in RmWorks :
        cont' = [cont EXCEPT ![c] = CASE @ = "up" /\ works -> "gone"
                                      [] @ = "asked" /\ "lateCreate" \notin Faults -> "none"
                                      [] OTHER -> @]
    /\ UNCHANGED <<processes, cached, closing, cancelled, open>>

-----------------------------------------------------------------------------
(* run_local_command, and docker exec (SubprocessDockerCli.combined). *)

Spawn(c) ==
    /\ pc[c] = "exec" /\ c \notin cancelled
    /\ pc' = [pc EXCEPT ![c] = "running"]
    /\ client' = [client EXCEPT ![c] = TRUE]
    /\ inside' = [inside EXCEPT ![c] = /\ ~Local(c) /\ cached[RunOf[c]] # None
                                       /\ cont[cached[RunOf[c]]] = "up"]
    /\ UNCHANGED <<outcome, child, cont, registry, cancelled, open>>

SpawnCancelled(c) ==
    /\ pc[c] = "exec" /\ c \in cancelled
    /\ Ends(c, "cancelled")
    /\ UNCHANGED <<processes, cont, cached, closing, cancelled, open>>

\* The shell ends, and may leave a child of its group that holds the output.
ShellEnds(c) ==
    /\ Local(c) /\ client[c]
    /\ client' = [client EXCEPT ![c] = FALSE]
    /\ child' \in {child, [child EXCEPT ![c] = TRUE]}
    /\ UNCHANGED <<pc, outcome, inside, cont, registry, cancelled, open>>

ChildEnds(c) ==
    /\ child[c]
    /\ child' = [child EXCEPT ![c] = FALSE]
    /\ UNCHANGED <<pc, outcome, client, inside, cont, registry, cancelled, open>>

\* The command ends in the container, and docker exec with it.
ExecEnds(c) ==
    /\ ~Local(c) /\ pc[c] = "running" /\ client[c]
    /\ client' = [client EXCEPT ![c] = FALSE]
    /\ inside' = [inside EXCEPT ![c] = FALSE]
    /\ UNCHANGED <<pc, outcome, child, cont, registry, cancelled, open>>

OutputHeld(c) == client[c] \/ child[c]

Communicated(c) ==
    /\ pc[c] = "running" /\ ~OutputHeld(c) /\ c \notin cancelled
    /\ Ends(c, "result")
    /\ UNCHANGED <<processes, cont, cached, closing, cancelled, open>>

\* Mutant of Kill: the call returns without killing anything.
KillNothing(c) == UNCHANGED <<client, child>>

\* _kill_process kills the group of a shell that has not exited yet; of docker exec
\* only the client is killed.
Kill(c) ==
    /\ client' = [client EXCEPT ![c] = FALSE]
    /\ child' = [child EXCEPT ![c] = @ /\ ~client[c]]

TimesOut(c) ==
    /\ pc[c] = "running" /\ c \notin cancelled
    /\ Kill(c)
    /\ pc' = [pc EXCEPT ![c] = "settling"]
    /\ outcome' = [outcome EXCEPT ![c] = "timeout"]
    /\ UNCHANGED <<inside, cont, registry, cancelled, open>>

Interrupted(c) ==
    /\ pc[c] = "running" /\ c \in cancelled
    /\ Kill(c)
    /\ pc' = [pc EXCEPT ![c] = "settling"]
    /\ outcome' = [outcome EXCEPT ![c] = "cancelled"]
    /\ UNCHANGED <<inside, cont, registry, cancelled, open>>

\* complete_cleanup(communicate): until nothing holds the output.
Settled(c) ==
    /\ pc[c] = "settling" /\ ~OutputHeld(c)
    /\ Ends(c, IF c \in cancelled THEN "cancelled" ELSE outcome[c])
    /\ UNCHANGED <<processes, cont, cached, closing, cancelled, open>>

CallStep(c) ==
    \/ Acquire(c) \/ AcquireCancelled(c) \/ Started(c) \/ StartCancelled(c) \/ Reap(c)
    \/ Spawn(c) \/ SpawnCancelled(c) \/ Communicated(c) \/ TimesOut(c) \/ Interrupted(c)
    \/ Settled(c)

-----------------------------------------------------------------------------
(* The end of a Run and of the session, and what docker does of itself. *)

\* Esc, or the end of the Run, cancels the Tools that are under way.
CancelRun(r) ==
    /\ \E c \in Of(r) : pc[c] \notin {"idle", "done"} /\ c \notin cancelled
    /\ cancelled' = cancelled \union {c \in Of(r) : pc[c] \notin {"idle", "done"}}
    /\ UNCHANGED <<pc, outcome, processes, cont, registry, open>>

\* aclose, once the Run has ended; a Tool that was cancelled may still be cleaning up.
CloseRun(r) ==
    /\ Kind[r] = "nested" /\ closing[r] = "no"
    /\ \A c \in Of(r) : pc[c] = "done" \/ c \in cancelled
    /\ closing' = [closing EXCEPT ![r] = "waiting"]
    /\ UNCHANGED <<pc, outcome, processes, cont, lock, cached, cancelled, open>>

\* The session is left.  _WorkspaceSandboxFactory has no aclose: the registry of a
\* foreground Run, and its container, are left with the process.
LeaveSession ==
    /\ open
    /\ \A c \in Calls : pc[c] \in {"idle", "done"}
    /\ \A r \in Runs : Kind[r] = "nested" => closing[r] \in {"no", "closed"}
    /\ open' = FALSE
    /\ UNCHANGED <<pc, outcome, processes, cont, registry, cancelled>>

CloseTakesLock(r) ==
    /\ closing[r] = "waiting" /\ lock[r] = None
    /\ closing' = [closing EXCEPT ![r] = IF cached[r] = None THEN "closed" ELSE "removing"]
    /\ UNCHANGED <<pc, outcome, processes, cont, lock, cached, cancelled, open>>

\* docker rm -f -v of the container takes the processes in it along.
RemoveContainer(r) ==
    /\ closing[r] = "removing"
    /\ closing' = [closing EXCEPT ![r] = "closed"] /\ cached' = [cached EXCEPT ![r] = None]
    /\ \E works \in RmWorks :
        IF works
        THEN /\ cont' = [cont EXCEPT ![cached[r]] = "gone"]
             /\ inside' = [c \in Calls |-> inside[c] /\ RunOf[c] # r]
        ELSE UNCHANGED <<cont, inside>>
    /\ UNCHANGED <<pc, outcome, client, child, lock, cancelled, open>>

\* An OOM kill or a restart of the daemon; the registry keeps the id.
ContainerDies(r) ==
    /\ "dies" \in Faults /\ cached[r] # None /\ cont[cached[r]] = "up"
    /\ cont' = [cont EXCEPT ![cached[r]] = "gone"]
    /\ inside' = [c \in Calls |-> inside[c] /\ RunOf[c] # r]
    /\ UNCHANGED <<pc, outcome, client, child, registry, cancelled, open>>

Closing(r) == CloseTakesLock(r) \/ RemoveContainer(r)

Next ==
    \/ \E c \in Calls : \/ CallStep(c) \/ RunCommand(c) \/ DaemonCreates(c) \/ StartFails(c)
                        \/ ShellEnds(c) \/ ChildEnds(c) \/ ExecEnds(c)
    \/ \E r \in Runs : CancelRun(r) \/ CloseRun(r) \/ Closing(r) \/ ContainerDies(r)
    \/ LeaveSession

\* The event loop runs, the timeouts pass and docker answers what it is asked.  No
\* command is assumed to end.
Fairness ==
    /\ \A c \in Calls : WF_vars(CallStep(c)) /\ WF_vars(DaemonCreates(c))
    /\ \A r \in Runs : WF_vars(Closing(r))

Spec == Init /\ [][Next]_vars
FairSpec == Spec /\ Fairness

-----------------------------------------------------------------------------
(* Properties. *)

Up(r) == {c \in Of(r) : cont[c] = "up"}

\* The commands of a Run share one container, however many are started at once and
\* whichever starts are cancelled or fail.
OneContainer == \A r \in Runs : Cardinality(Up(r)) <= 1

\* A container that runs is known to somebody who will use or remove it: it is in
\* the registry, or the call that asked for it is starting or removing it.
NoContainerLost ==
    \A c \in Calls : cont[c] = "up" => cached[RunOf[c]] = c \/ pc[c] \in {"starting", "reaping"}

\* After aclose nothing of the Run is left, neither a container nor a process of a
\* command that was given up; the worktree of a nested Run is finalized then.
ClosedRunLeavesNothing ==
    \A r \in Runs : closing[r] = "closed" => Up(r) = {} /\ \A c \in Of(r) : ~inside[c]

\* A call that has returned has left no process on the host that still works for it.
ReturnedLeavesNoClient ==
    \A c \in Calls : pc[c] = "done" /\ outcome[c] # "result" => ~client[c] /\ ~child[c]

\* Containers and processes are always accounted for.
SandboxesAccounted ==
    OneContainer /\ NoContainerLost /\ ClosedRunLeavesNothing /\ ReturnedLeavesNoClient

\* Every call returns, also when its command never ends (bash's timeout), and a
\* cancelled one too; only a child that the shell has left behind, with the output
\* open, is waited for as long as it lives.
CommandsEnd == \A c \in Calls : pc[c] # "idle" ~> pc[c] = "done" \/ child[c]

\* aclose comes to an end although it waits for the lock of a start.
CloseEnds == \A r \in Runs : closing[r] # "no" ~> closing[r] = "closed"

\* Neither a command nor the end of a Run waits for good.
CommandsAndCloseEnd == CommandsEnd /\ CloseEnds
=============================================================================
