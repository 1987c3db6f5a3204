--------------------------- MODULE McpSessionInv ---------------------------
(***************************************************************************)
(* The inductive invariant of McpSession: what the owners, the tables, the *)
(* locks and the binding of the session have to do with each other.        *)
(***************************************************************************)
EXTENDS McpSession

\* The owners that live are the ones in _owners, each under its own name; a
\* connection is listed while its owner serves.
OwnerInv ==
    /\ \A o \in Owners : Live(o) => own[o].name \in Servers /\ owner[own[o].name] = o
    /\ \A n \in Servers : owner[n] # None => Live(owner[n]) /\ own[owner[n]].name = n
    /\ \A n \in Servers :
        servers[n] # None => servers[n] = owner[n] /\ own[owner[n]].pc = "serving"

\* _server_order has the names of the owners, each once.
OrderInv ==
    /\ \A i, j \in 1..Len(order) : order[i] = order[j] => i = j
    /\ \A n \in Servers : owner[n] # None <=> \E i \in 1..Len(order) : order[i] = n

\* A call that is past the lock of its name holds it, so nobody else makes an
\* owner while it waits for the old one.
LockInv ==
    \A t \in Tasks, n \in Servers :
        /\ job[t][n].pc \in {"stopping", "waiting", "undo"} => lock[n] = t
        /\ job[t][n].pc = "stopping" /\ owner[n] # None => owner[n] = job[t][n].old

\* The calls that are configuring have been counted and have yet to register
\* their CompactionHandler.
CountInv ==
    /\ IsFiniteSet(In({"configuring"}))
    /\ handlers + Cardinality(In({"configuring"})) <= calls

\* Unless two of them overlap, a call that configures finds the session unbound
\* when it ends, too.
BindInv ==
    /\ \A t \in In({"configuring"}) : task[t].ws # None
    /\ ~overlap =>
        /\ \A t, u \in In({"configuring"}) : t = u
        /\ workspace = None => handlers = 0
        /\ workspace # None => In({"configuring"}) = {} /\ handlers <= 1

\* The inductive invariant.
IInv ==
    /\ TypeOK
    /\ OwnerInv /\ OrderInv /\ LockInv
    /\ CountInv /\ BindInv
    /\ ClosedLeavesNothing
-----------------------------------------------------------------------------
(* What a reload leaves behind: the session at rest, while no two calls have *)
(* configured it at once. *)

\* An owner that is told to stop has, or has had, a connection, which is listed
\* until it closes it.
ServingInv ==
    \A o \in Owners :
        /\ own[o].stop => own[o].pc \in {"serving", "closing"}
        /\ own[o].pc = "serving" => servers[own[o].name] = o

\* The calls of a Task are those of the place where it is; one that has given up
\* leaves nothing but what undoes a connection.
TaskInv ==
    /\ \A t \in Tasks :
        /\ task[t].pc \in {"disconnecting", "connecting"} <=> reloading = t
        /\ task[t].pc \in {"locking", "disconnecting", "connecting"} =>
                workspace # None /\ task[t].kind = "reload"
    /\ \A t \in Tasks, n \in Servers :
        /\ task[t].pc = "idle" => job[t][n].pc \in {"idle", "undo"}
        /\ task[t].pc = "locking" => job[t][n].pc = "idle"
        /\ task[t].pc \in {"configuring", "connecting"} /\ job[t][n].pc # "idle" =>
                job[t][n].kind = "connect"
        /\ task[t].pc = "disconnecting" /\ job[t][n].pc # "idle" =>
                job[t][n].kind = "disconnect"
        /\ job[t][n].pc = "waiting" => job[t][n].kind = "connect"

\* Until the session is left only a Run is cancelled, while it configures.
CancelInv ==
    /\ closing = "no"
    /\ \A t \in cancelled : task[t].kind = "run" /\ task[t].pc = "configuring"
    /\ \A t \in Tasks, n \in Servers :
        task[t].pc # "idle" /\ (job[t][n].pc = "undo" \/ job[t][n].result = "cancelled") =>
            t \in cancelled

\* The owner that a call waits for, under the name n: it has ended with an error,
\* or it is the one in _owners and nobody stops it.
Attended(o, ready, n) ==
    /\ o \in Owners
    /\ \/ ready = "error" /\ ~Live(o)
       \/ /\ ready = "pending" /\ owner[n] = o
          /\ own[o].pc \in {"connecting", "failing"} /\ ~own[o].cancel
       \/ /\ ready = "tools" /\ owner[n] = o
          /\ own[o].pc = "serving" /\ ~own[o].stop

\* Whoever waits has an owner to wait for; an owner that connects, and may go on,
\* has somebody who waits for it.
AnswerInv ==
    /\ \A t \in Tasks, n \in Servers :
        job[t][n].pc = "waiting" => Attended(job[t][n].old, job[t][n].ready, n)
    /\ \A t \in Tasks, n \in Servers :
        job[t][n].pc \in {"lock", "stopping"} => job[t][n].ready = "pending"
    /\ \A o \in Owners :
        own[o].pc = "connecting" /\ ~own[o].cancel =>
            \E t \in Tasks, n \in Servers : job[t][n].pc = "waiting" /\ job[t][n].old = o

Serves(n) == owner[n] # None /\ own[owner[n]].pc = "serving"

\* It serves, and has been told to stop.
Leaving(n) == Serves(n) /\ own[owner[n]].stop

\* A server that is enabled is stopped only for a call that connects it again, or
\* for one that was cancelled before the session was bound.
LeavingInv ==
    /\ \A t \in In({"configuring"}) \ cancelled, n \in enabled :
        job[t][n].pc \in {"idle", "waiting"} => ~Leaving(n)
    /\ workspace # None =>
        \A n \in enabled : Leaving(n) => \E t \in Tasks : job[t][n].pc = "stopping"

\* Once the configuration has been read, a server that it disables is one that
\* the reload disconnects.
EnabledInv ==
    ~unread =>
        /\ workspace = None =>
            \A n \in Servers \ enabled :
                owner[n] = None /\ \A t \in Tasks : job[t][n].pc = "idle"
        /\ workspace # None =>
            \A n \in Servers \ enabled :
                Serves(n) =>
                    \E t \in In({"disconnecting"}) :
                        n \in task[t].drop \/ job[t][n].pc \in {"lock", "stopping"}
        /\ \A t \in In({"disconnecting"}) : task[t].add \subseteq enabled
        /\ \A t \in In({"connecting"}), n \in Servers \ enabled : job[t][n].pc = "idle"

\* What holds between two steps until the session is left.
AtWork ==
    /\ TaskInv /\ CancelInv /\ AnswerInv
    /\ LeavingInv /\ EnabledInv
    /\ RegisteredToolsServe

\* The whole inductive invariant.
SessionInv ==
    /\ IInv /\ ServingInv
    /\ open /\ ~overlap => AtWork
=============================================================================
