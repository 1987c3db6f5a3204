----------------------------- MODULE McpSession -----------------------------
(***************************************************************************)
(* AgentSession around the McpClientManager: the workspace a session is    *)
(* bound to, the MCP Tools in the ToolRegistry, the CompactionHandler it   *)
(* registers, and the end of the session.                                  *)
(*                                                                         *)
(* Every foreground Run configures the workspace first, without a lock;    *)
(* the worker of /mcp does so too and then reloads under one.  The user    *)
(* edits the configuration, cancels the worker of a Run, and exits.        *)
(***************************************************************************)
EXTENDS McpClientManager

CONSTANTS
    Workspaces,     \* the Workspaces of the Runs of this instance
    Cwd,            \* the one the session was started in
    Config,         \* the servers that mcp.json enables at first
    Configs,        \* the sets of servers that it may be edited to enable
    MaxCalls,       \* bound on the Runs and reloads of the session
    MaxEdits        \* bound on the edits of mcp.json

ASSUME SessionAssumption ==
    /\ Cwd \in Workspaces /\ None \notin Workspaces /\ Config \subseteq Servers /\ Configs \subseteq SUBSET Servers
    /\ MaxCalls \in Nat /\ MaxEdits \in Nat

VARIABLES
    task,       \* start_new / continue_with and reload_mcp, by the Task they run in
    workspace,  \* _workspace
    registry,   \* the connection whose Tools the ToolRegistry has, per server
    handlers,   \* how many CompactionHandlers are registered on the hub
    reloading,  \* _mcp_reload_lock
    enabled,    \* the servers that mcp.json enables
    calls, edits,   \* how many calls and edits there were (bounded)
    open,       \* the session has been entered and not left
    overlap,    \* (history) two Tasks configured the workspace at once
    unread      \* (history) mcp.json was edited and no reload has read it since

svars == <<task, workspace, registry, handlers, reloading, enabled, calls, edits, open, overlap,
           unread>>
vars == <<mvars, svars>>

Task == [
    kind : {"none", "run", "reload"},
    pc : {"idle", "configuring", "locking", "disconnecting", "connecting"},
    ws : Workspaces \union {None},
    drop : SUBSET Servers,      \* the servers that a reload has yet to disconnect
    add : SUBSET Servers        \* the ones it connects then
]

TypeOK ==
    /\ ManagerTypeOK
    /\ task \in [Tasks -> Task]
    /\ workspace \in Workspaces \union {None}
    /\ registry \in [Servers -> Owners \union {None}]
    /\ handlers \in 0..MaxCalls
    /\ reloading \in Tasks \union {None}
    /\ enabled \in SUBSET Servers /\ calls \in 0..MaxCalls /\ edits \in 0..MaxEdits
    /\ open \in BOOLEAN /\ overlap \in BOOLEAN /\ unread \in BOOLEAN

NoTask == [kind |-> "none", pc |-> "idle", ws |-> None, drop |-> {}, add |-> {}]

Init ==
    /\ ManagerInit
    /\ task = [t \in Tasks |-> NoTask]
    /\ workspace = None /\ registry = [n \in Servers |-> None] /\ handlers = 0
    /\ reloading = None /\ enabled = Config /\ calls = 0 /\ edits = 0
    /\ open = TRUE /\ overlap = FALSE /\ unread = FALSE

In(pcs) == {t \in Tasks : task[t].pc \in pcs}
InProgress == Tasks \ In({"idle"})

-----------------------------------------------------------------------------
(* The awaits of a Task on the manager. *)

\* connect_many, or one disconnect_server: the calls of t.
Launch(t, kind, ns) ==
    job' = [job EXCEPT ![t] = [n \in Servers |->
               IF n \in ns THEN [NoJob EXCEPT !.kind = kind, !.pc = "lock"] ELSE NoJob]]

Returned(t) == \A n \in Servers : job[t][n].pc = "idle" /\ job[t][n].result # "cancelled"

\* gather passes on the first CancelledError while the other calls go on; one that
\* reaches the caller has reached every call before.
Thrown(t) ==
    /\ \E n \in Servers : job[t][n].pc = "idle" /\ job[t][n].result = "cancelled"
    /\ t \in cancelled => \A n \in Servers : job[t][n].pc \in {"idle", "undo"}

managerExceptJobs == <<own, tables, lock, closing, cancelled>>

-----------------------------------------------------------------------------
(* _configure_workspace *)

Unused(t) == task[t].pc = "idle" /\ \A n \in Servers : job[t][n].pc = "idle"

\* Mutant of Call: a bound session is configured again.
CallAnew(t, kind, ws) ==
    /\ open /\ calls < MaxCalls
    /\ Unused(t) /\ t = CHOOSE u \in Tasks : Unused(u)
    /\ calls' = calls + 1
    /\ task' = [task EXCEPT ![t] = [NoTask EXCEPT !.kind = kind, !.ws = ws, !.pc = "configuring"]]
    /\ Launch(t, "connect", enabled)
    /\ overlap' = (overlap \/ In({"configuring"}) # {})
    /\ UNCHANGED <<managerExceptJobs, workspace, registry, handlers, reloading, enabled,
                   edits, open, unread>>

\* Up to connect_many.  A bound session configures nothing, and refuses a Run of
\* another Workspace.
Call(t, kind, ws) ==
    /\ open /\ calls < MaxCalls
    /\ Unused(t) /\ t = CHOOSE u \in Tasks : Unused(u)
    /\ calls' = calls + 1
    /\ IF workspace = None
       THEN /\ task' = [task EXCEPT ![t] = [NoTask EXCEPT !.kind = kind, !.ws = ws,
                                                         !.pc = "configuring"]]
            /\ Launch(t, "connect", enabled)
            /\ overlap' = (overlap \/ In({"configuring"}) # {})
       ELSE /\ task' = IF ws = workspace /\ kind = "reload"
                       THEN [task EXCEPT ![t] = [NoTask EXCEPT !.kind = kind, !.pc = "locking"]]
                       ELSE task
            /\ Launch(t, "connect", {})
            /\ UNCHANGED overlap
    /\ UNCHANGED <<managerExceptJobs, workspace, registry, handlers, reloading, enabled,
                   edits, open, unread>>

\* Only one foreground Run is under way; a Run may come from another Workspace.
StartRun(t) ==
    /\ \A u \in InProgress : task[u].kind = "reload"
    /\ \E ws \in Workspaces : Call(t, "run", ws)

ReloadMcp(t) == Call(t, "reload", IF workspace = None THEN Cwd ELSE workspace)

\* The rest: the Tools, the CompactionHandler, the binding.  Nothing asks whether
\* another Task has bound the session meanwhile.
Configured(t) ==
    /\ task[t].pc = "configuring" /\ Returned(t) /\ t \notin cancelled
    /\ registry' = servers
    /\ handlers' = handlers + 1
    /\ workspace' = task[t].ws
    /\ task' = [task EXCEPT ![t] = IF @.kind = "reload"
                                   THEN [NoTask EXCEPT !.kind = "reload", !.pc = "locking"]
                                   ELSE NoTask]
    /\ Launch(t, "connect", {})
    /\ UNCHANGED <<managerExceptJobs, reloading, enabled, calls, edits, open, overlap, unread>>

-----------------------------------------------------------------------------
(* reload_mcp *)

\* The configuration is read and compared with the servers that are listed; the
\* ones to connect are settled before any is stopped.
TakeReloadLock(t) ==
    LET running == {n \in Servers : servers[n] # None} IN
    /\ task[t].pc = "locking" /\ reloading = None /\ t \notin cancelled
    /\ reloading' = t
    /\ task' = [task EXCEPT ![t].pc = "disconnecting", ![t].drop = running \ enabled,
                            ![t].add = enabled \ running]
    /\ Launch(t, "disconnect", {})
    /\ unread' = FALSE
    /\ UNCHANGED <<managerExceptJobs, workspace, registry, handlers, enabled, calls, edits,
                   open, overlap>>

DisconnectOne(t) ==
    /\ task[t].pc = "disconnecting" /\ Returned(t) /\ t \notin cancelled
    /\ \E n \in task[t].drop :
        /\ Launch(t, "disconnect", {n})
        /\ task' = [task EXCEPT ![t].drop = @ \ {n}]
    /\ UNCHANGED <<managerExceptJobs, workspace, registry, handlers, reloading, enabled,
                   calls, edits, open, overlap, unread>>

ConnectNew(t) ==
    /\ task[t].pc = "disconnecting" /\ task[t].drop = {} /\ Returned(t) /\ t \notin cancelled
    /\ Launch(t, "connect", task[t].add)
    /\ task' = [task EXCEPT ![t].pc = "connecting", ![t].add = {}]
    /\ UNCHANGED <<managerExceptJobs, workspace, registry, handlers, reloading, enabled,
                   calls, edits, open, overlap, unread>>

\* Mutant of Reloaded: the Tools are not replaced.
ReloadedWithoutTools(t) ==
    /\ task[t].pc = "connecting" /\ Returned(t) /\ t \notin cancelled
    /\ reloading' = None
    /\ task' = [task EXCEPT ![t] = NoTask]
    /\ Launch(t, "connect", {})
    /\ UNCHANGED <<managerExceptJobs, workspace, registry, handlers, enabled, calls, edits,
                   open, overlap, unread>>

Reloaded(t) ==
    /\ task[t].pc = "connecting" /\ Returned(t) /\ t \notin cancelled
    /\ registry' = servers
    /\ reloading' = None
    /\ task' = [task EXCEPT ![t] = NoTask]
    /\ Launch(t, "connect", {})
    /\ UNCHANGED <<managerExceptJobs, workspace, handlers, enabled, calls, edits, open,
                   overlap, unread>>

\* A CancelledError, of this Task or of an owner that the manager closed.
Raised(t) ==
    /\ \/ task[t].pc \in {"configuring", "disconnecting", "connecting"} /\ Thrown(t)
       \/ t \in InProgress \intersect cancelled /\ Returned(t)
    /\ task' = [task EXCEPT ![t] = NoTask]
    /\ cancelled' = cancelled \ {t}
    /\ reloading' = IF reloading = t THEN None ELSE reloading
    /\ UNCHANGED <<own, tables, lock, closing, job, workspace, registry, handlers, enabled,
                   calls, edits, open, overlap, unread>>

TaskStep(t) == \/ Configured(t) \/ TakeReloadLock(t) \/ DisconnectOne(t) \/ ConnectNew(t)
               \/ Reloaded(t) \/ Raised(t)

-----------------------------------------------------------------------------
(* The user, and the end of the session. *)

\* The picker writes mcp.json and asks for a reload.  The event loop runs a Task
\* that was woken before it comes to the user's next keys: an owner that was told
\* to stop has unlisted its connection.
EditConfig ==
    /\ open /\ edits < MaxEdits
    /\ calls < MaxCalls
    /\ \A o \in Owners : own[o].stop => own[o].pc # "serving"
    /\ enabled' \in Configs \ {enabled}
    /\ edits' = edits + 1 /\ unread' = TRUE
    /\ UNCHANGED <<mvars, task, workspace, registry, handlers, reloading, calls, open, overlap>>

\* Esc cancels the worker of a Run.
CancelRun(t) ==
    /\ t \in InProgress \ cancelled /\ task[t].kind = "run"
    /\ cancelled' = cancelled \union {t}
    /\ UNCHANGED <<own, tables, lock, closing, job, svars>>

\* The application ends: its workers are cancelled and the session is left.
Exit ==
    /\ open
    /\ open' = FALSE
    /\ cancelled' = cancelled \union InProgress
    /\ UNCHANGED <<own, tables, lock, closing, job, task, workspace, registry, handlers,
                   reloading, enabled, calls, edits, overlap, unread>>

\* __aexit__, once the Run is shut down and the Handlers and the model are closed.
CloseManager ==
    /\ ~open /\ CloseAll
    /\ UNCHANGED svars

\* What happens of itself: a server answers or the timeout of its connection or
\* of its closing passes, and the event loop runs some Task that is ready.
Progress ==
    \/ ManagerStep /\ UNCHANGED svars
    \/ \E t \in Tasks : TaskStep(t)
    \/ CloseManager

Next ==
    \/ Progress
    \/ \E t \in Tasks : StartRun(t) \/ ReloadMcp(t) \/ CancelRun(t)
    \/ EditConfig \/ Exit

Spec == Init /\ [][Next]_vars
FairSpec == Spec /\ WF_vars(Progress)

-----------------------------------------------------------------------------
(* Properties. *)

\* Every call has returned, the last one after the last edit.
Settled == open /\ InProgress = {} /\ workspace # None /\ ~overlap /\ ~unread

\* The connections are kept apart and counted right by every call and every owner.
ConnectionsConsistent == TypeOK /\ OneOwnerPerServer /\ TablesAgree

\* When the session is at rest the Tools that the model is offered are those of
\* the connections that serve, whichever calls were cancelled before.
RegisteredToolsServe == Settled => registry = servers

\* reload_mcp: once the configuration has been read no server runs that it has
\* disabled, except one that is being stopped.
DisabledServersStopped ==
    Settled =>
        \A n \in Servers \ enabled :
            owner[n] # None => own[owner[n]].cancel \/ own[owner[n]].pc # "serving"

\* The session has one CompactionHandler: a second one would fold a transcript twice.
OneCompactionHandler == ~overlap => handlers <= 1

\* What a reload leaves behind, however it is interleaved, cancelled or repeated.
ReloadComplete == RegisteredToolsServe /\ DisabledServersStopped /\ OneCompactionHandler

\* A session keeps the Workspace of its first Run, and with it the Sandbox, the
\* Skills and the servers of that project.
WorkspaceBound == [][workspace # None /\ ~overlap => workspace' = workspace]_vars

\* Leaving the session comes to an end: whatever is being connected, the servers are closed.
ExitCloses == ~open ~> closing = "done"

\* Nobody waits for good, neither who connects a server nor who leaves the session.
CallsAndExitEnd == CallsEnd /\ ExitCloses
=============================================================================
