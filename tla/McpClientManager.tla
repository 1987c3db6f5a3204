-------------------------- MODULE McpClientManager --------------------------
(***************************************************************************)
(* McpClientManager: one owner Task per MCP server.                        *)
(*                                                                         *)
(* An owner opens the connection to its server, serves until it is told to *)
(* stop, and closes the connection, all in one Task.  Callers connect and  *)
(* disconnect servers under a lock per name; closing the manager goes past *)
(* those locks.  A step is what a Task does between two awaits.            *)
(***************************************************************************)
EXTENDS Naturals, FiniteSets, SequencesExt

CONSTANTS
    Servers,    \* the names of the configured servers
    Tasks,      \* the Tasks of the application that call the manager
    Owners,     \* the owner Tasks that there may be at a time (bound)
    None        \* no Task, no owner

ASSUME ManagerAssumption == None \notin Tasks \union Owners \union Servers

VARIABLES
    own,        \* the owner Tasks, each with its ready future and its process
    owner,      \* _owners
    servers,    \* _servers: the owner whose connection is listed for a name
    order,      \* _server_order
    lock,       \* _server_locks
    closing,    \* where __aexit__ is; it holds the _lifecycle_lock while "stopping"
    job,        \* the calls in progress, one per Task and name
    cancelled   \* the Tasks that asyncio has cancelled

mvars == <<own, owner, servers, order, lock, closing, job, cancelled>>

Owner == [
    name : Servers \union {None},
    pc : {"connecting", "failing", "aborting", "serving", "closing", "done"},
    cancel : BOOLEAN,       \* Task.cancel has been called
    stop : BOOLEAN          \* the stop Event
]

Job == [
    kind : {"connect", "disconnect"},
    pc : {"idle", "lock", "stopping", "waiting", "undo"},
    old : Owners \union {None},         \* the owner that it waits for
    ready : {"pending", "tools", "error", "cancelled"},     \* what that owner has answered
    result : {"none", "ok", "skipped", "cancelled"}
]

\* An owner that has not been made yet, or has ended.
NoOwner == [name |-> None, pc |-> "done", cancel |-> FALSE, stop |-> FALSE]

NoJob == [kind |-> "disconnect", pc |-> "idle", old |-> None, ready |-> "pending",
          result |-> "none"]

ManagerTypeOK ==
    /\ own \in [Owners -> Owner]
    /\ owner \in [Servers -> Owners \union {None}]
    /\ servers \in [Servers -> Owners \union {None}]
    /\ order \in Seq(Servers)
    /\ lock \in [Servers -> Tasks \union {None}]
    /\ closing \in {"no", "stopping", "done"}
    /\ job \in [Tasks -> [Servers -> Job]]
    /\ cancelled \in SUBSET Tasks

ManagerInit ==
    /\ own = [o \in Owners |-> NoOwner]
    /\ owner = [n \in Servers |-> None] /\ servers = [n \in Servers |-> None]
    /\ order = <<>> /\ lock = [n \in Servers |-> None]
    /\ closing = "no"
    /\ job = [t \in Tasks |-> [n \in Servers |-> NoJob]] /\ cancelled = {}

Live(o) == own[o].pc # "done"

-----------------------------------------------------------------------------
(* The owner Task (_own_server, _open_connection). *)

tables == <<owner, servers, order>>
callers == <<lock, closing, cancelled>>

\* The future that the call which made the owner waits for.
Answer(o, answer) ==
    job' = [t \in Tasks |-> [n \in Servers |->
               IF job[t][n].pc = "waiting" /\ job[t][n].old = o
               THEN [job[t][n] EXCEPT !.ready = answer] ELSE job[t][n]]]

\* list.remove takes the first place.
Place(n) == CHOOSE i \in 1..Len(order) : order[i] = n /\ \A j \in 1..(i - 1) : order[j] # n

\* _forget_owner, by an owner that ends.
Forget(o) ==
    LET n == own[o].name IN
    IF owner[n] = o
    THEN /\ owner' = [owner EXCEPT ![n] = None]
         /\ servers' = IF servers[n] = o THEN [servers EXCEPT ![n] = None] ELSE servers
         /\ order' = RemoveAt(order, Place(n))
    ELSE UNCHANGED <<owner, servers, order>>

Connected(o) ==
    LET n == own[o].name IN
    /\ own[o].pc = "connecting" /\ ~own[o].cancel
    /\ own' = [own EXCEPT ![o].pc = "serving"]
    /\ Answer(o, "tools")
    /\ servers' = IF owner[n] = o THEN [servers EXCEPT ![n] = o] ELSE servers
    /\ UNCHANGED <<owner, order, callers>>

\* The handshake fails or times out, or the Task is cancelled: what is open of
\* the connection is closed before the owner tells anybody.
OpenFails(o) ==
    /\ own[o].pc = "connecting"
    /\ own' = [own EXCEPT ![o].pc = IF own[o].cancel THEN "aborting" ELSE "failing",
                          ![o].cancel = FALSE]
    /\ UNCHANGED <<tables, job, callers>>

\* Mutant of OpenClosed: a failure is logged and not told to the caller.
OpenClosedSilently(o) ==
    /\ own[o].pc \in {"failing", "aborting"}
    /\ own' = [own EXCEPT ![o] = NoOwner]
    /\ IF own[o].pc = "failing" /\ ~own[o].cancel THEN UNCHANGED job ELSE Answer(o, "cancelled")
    /\ Forget(o)
    /\ UNCHANGED callers

\* A cancellation while it closes cuts the closing short.
OpenClosed(o) ==
    /\ own[o].pc \in {"failing", "aborting"}
    /\ own' = [own EXCEPT ![o] = NoOwner]
    /\ Answer(o, IF own[o].pc = "failing" /\ ~own[o].cancel THEN "error" ELSE "cancelled")
    /\ Forget(o)
    /\ UNCHANGED callers

StopsServing(o) ==
    LET n == own[o].name IN
    /\ own[o].pc = "serving" /\ own[o].stop
    /\ own' = [own EXCEPT ![o].pc = "closing"]
    /\ servers' = IF servers[n] = o THEN [servers EXCEPT ![n] = None] ELSE servers
    /\ UNCHANGED <<owner, order, job, callers>>

Closes(o) ==
    /\ own[o].pc = "closing"
    /\ own' = [own EXCEPT ![o] = NoOwner]
    /\ Forget(o)
    /\ UNCHANGED <<job, callers>>

OwnerStep(o) == \/ Connected(o) \/ OpenFails(o) \/ OpenClosed(o) \/ StopsServing(o)
                \/ Closes(o)

-----------------------------------------------------------------------------
(* The callers (connect_server, disconnect_server, _stop_server). *)

\* _stop_server up to its await: an owner without a connection is cancelled, any
\* other is told to stop.
StopRequested(os) ==
    [o \in Owners |->
        IF o \notin os \/ ~Live(o) THEN own[o]
        ELSE IF own[o].pc \in {"serving", "closing"} THEN [own[o] EXCEPT !.stop = TRUE]
        ELSE [own[o] EXCEPT !.cancel = TRUE]]

Ended(o) == o # None => ~Live(o)

TakeLock(t, n) ==
    /\ job[t][n].pc = "lock" /\ lock[n] = None /\ t \notin cancelled
    /\ lock' = [lock EXCEPT ![n] = t]
    /\ own' = StopRequested({owner[n]})
    /\ job' = [job EXCEPT ![t][n] = [@ EXCEPT !.pc = "stopping", !.old = owner[n]]]
    /\ UNCHANGED <<tables, closing, cancelled>>

\* The call ends and releases the lock of the name.
End(t, n, result) ==
    /\ job' = [job EXCEPT ![t][n] = [NoJob EXCEPT !.result = result]]
    /\ lock' = [lock EXCEPT ![n] = IF @ = t THEN None ELSE @]

\* An owner that has not been made yet, or that no call remembers.
Free(o) ==
    ~Live(o) /\ \A t \in Tasks, n \in Servers : job[t][n].old # o

\* A new owner, in its own Task.
Make(t, n) ==
    /\ \E o \in Owners : Free(o)
    /\ LET o == CHOOSE x \in Owners : Free(x) IN
        /\ own' = [own EXCEPT ![o] = [NoOwner EXCEPT !.name = n, !.pc = "connecting"]]
        /\ owner' = [owner EXCEPT ![n] = o]
        /\ job' = [job EXCEPT ![t][n] = [@ EXCEPT !.pc = "waiting", !.old = o]]
    /\ order' = Append(order, n)
    /\ UNCHANGED <<servers, lock, closing, cancelled>>

StoppedForConnect(t, n) ==
    /\ job[t][n].pc = "stopping" /\ job[t][n].kind = "connect"
    /\ Ended(job[t][n].old) /\ t \notin cancelled

\* Mutant of Create: without waiting for the old owner to end.
CreateAtOnce(t, n) ==
    /\ job[t][n].pc = "stopping" /\ job[t][n].kind = "connect" /\ t \notin cancelled
    /\ closing = "no"
    /\ Make(t, n)

\* The old owner is gone: a new one is made, unless the manager is closed; the
\* call waits while it is being closed.
Create(t, n) ==
    /\ StoppedForConnect(t, n)
    /\ \/ /\ closing = "no"
          /\ Make(t, n)
       \/ /\ closing = "done"
          /\ End(t, n, "skipped")
          /\ UNCHANGED <<own, tables, closing, cancelled>>

Disconnected(t, n) ==
    /\ job[t][n].pc = "stopping" /\ job[t][n].kind = "disconnect"
    /\ Ended(job[t][n].old) /\ t \notin cancelled
    /\ End(t, n, "ok")
    /\ UNCHANGED <<own, tables, closing, cancelled>>

\* The owner has answered; connect_many skips a server that failed.
Answered(t, n) ==
    /\ job[t][n].pc = "waiting" /\ job[t][n].ready \in {"tools", "error"}
    /\ t \notin cancelled
    /\ End(t, n, IF job[t][n].ready = "tools" THEN "ok" ELSE "skipped")
    /\ UNCHANGED <<own, tables, closing, cancelled>>

\* The caller is cancelled, or the owner was: the server is stopped in a Task of
\* its own (complete_cleanup) before the CancelledError goes on.
Undo(t, n) ==
    /\ job[t][n].pc = "waiting"
    /\ t \in cancelled \/ job[t][n].ready = "cancelled"
    /\ own' = StopRequested({owner[n]})
    /\ job' = [job EXCEPT ![t][n] = [@ EXCEPT !.pc = "undo", !.old = owner[n]]]
    /\ UNCHANGED <<tables, lock, closing, cancelled>>

Undone(t, n) ==
    /\ job[t][n].pc = "undo" /\ Ended(job[t][n].old)
    /\ End(t, n, "cancelled")
    /\ UNCHANGED <<own, tables, closing, cancelled>>

\* A cancellation while the call waits for a lock or for the old owner, which
\* goes on closing.
CancelledEarly(t, n) ==
    /\ job[t][n].pc \in {"lock", "stopping"} /\ t \in cancelled
    /\ End(t, n, "cancelled")
    /\ UNCHANGED <<own, tables, closing, cancelled>>

JobStep(t, n) == \/ TakeLock(t, n) \/ Create(t, n) \/ Disconnected(t, n) \/ Answered(t, n)
                 \/ Undo(t, n) \/ Undone(t, n) \/ CancelledEarly(t, n)

-----------------------------------------------------------------------------
(* __aexit__: _close_all past the locks of the names, under the lifecycle lock. *)

CloseAll ==
    /\ closing = "no"
    /\ closing' = "stopping"
    /\ own' = StopRequested({owner[n] : n \in Servers} \ {None})
    /\ UNCHANGED <<tables, lock, job, cancelled>>

\* Mutant of AllClosed: the owners are told to stop and not waited for.
ClosedAtOnce ==
    /\ closing = "stopping"
    /\ closing' = "done"
    /\ UNCHANGED <<own, tables, lock, job, cancelled>>

AllClosed ==
    /\ closing = "stopping"
    /\ \A n \in Servers : Ended(owner[n])
    /\ closing' = "done"
    /\ UNCHANGED <<own, tables, lock, job, cancelled>>

ManagerStep ==
    \/ \E o \in Owners : OwnerStep(o)
    \/ \E t \in Tasks, n \in Servers : JobStep(t, n)
    \/ AllClosed

-----------------------------------------------------------------------------
(* Properties. *)

\* At most one process of a server is driven at a time: a reconnection waits for
\* the old owner, also when the call that stopped it was cancelled.
OneOwnerPerServer ==
    \A o, p \in Owners : Live(o) /\ Live(p) /\ own[o].name = own[p].name => o = p

\* The tables agree with each other and with the owners: a name is listed once
\* and only while its owner lives, and the Tools of a server are listed only
\* while its connection is open.
TablesAgree ==
    /\ \A o \in Owners : Live(o) <=> \E n \in Servers : owner[n] = o
    /\ \A n \in Servers :
        /\ owner[n] # None => own[owner[n]].name = n
        /\ Cardinality({i \in 1..Len(order) : order[i] = n}) = IF owner[n] = None THEN 0 ELSE 1
        /\ servers[n] # None => servers[n] = owner[n] /\ own[servers[n]].pc = "serving"

\* When the manager is closed no server is left running, not even one that a call
\* was connecting meanwhile.
ClosedLeavesNothing ==
    closing = "done" => \A o \in Owners : ~Live(o)

\* The calls end: each is told of every way in which its owner can end.
CallsEnd == []<>(\A t \in Tasks, n \in Servers : job[t][n].pc = "idle")
=============================================================================
