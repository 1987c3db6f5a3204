---------------------------- MODULE SandboxesInv ----------------------------
(***************************************************************************)
(* The inductive invariant behind the properties of Sandboxes: who holds   *)
(* the lock of a registry, whose container it has, and which processes a   *)
(* call can still have at each point.                                      *)
(***************************************************************************)
EXTENDS Sandboxes

\* The lock of a registry is held through a start and its removal, and by no other
\* call; while it is held the registry has no container.
LockInv ==
    /\ \A r \in Runs : lock[r] # None => /\ RunOf[lock[r]] = r
                                         /\ pc[lock[r]] \in {"starting", "reaping"}
                                         /\ cached[r] = None
    /\ \A c \in Calls : pc[c] \in {"starting", "reaping"} => lock[RunOf[c]] = c

\* A closed registry starts nothing more, and has a container only until that is
\* removed.
ClosedInv ==
    \A r \in Runs : /\ Closed(r) => lock[r] = None
                    /\ closing[r] = "removing" => cached[r] # None
                    /\ closing[r] = "closed" => cached[r] = None

\* The container of a registry was started by a call of its Run.
CachedInv ==
    \A r \in Runs : cached[r] # None => /\ RunOf[cached[r]] = r
                                        /\ pc[cached[r]] \notin {"idle", "acquire"}
                                        /\ cont[cached[r]] \in {"up", "gone"}

\* A container exists, or may come to exist, from the start of its call only.
ContainerInv ==
    \A c \in Calls : /\ pc[c] \in {"idle", "acquire"} => cont[c] = "none"
                     /\ cont[c] = "asked" => pc[c] \in {"starting", "reaping"}

\* The process of a command in a container ends with that container.
InsideInv ==
    \A c \in Calls : inside[c] => /\ cached[RunOf[c]] # None
                                  /\ cont[cached[RunOf[c]]] = "up"

\* What a call can have running on the host.
ProcessInv ==
    \A c \in Calls : /\ client[c] => pc[c] \in {"starting", "running"}
                     /\ child[c] => pc[c] \in {"running", "settling"}
                     /\ Local(c) => pc[c] \notin {"acquire", "starting", "reaping"}

\* The inductive invariant, for a docker that does what it says.
IInv ==
    /\ TypeOK
    /\ LockInv
    /\ ClosedInv
    /\ CachedInv
    /\ ContainerInv
    /\ InsideInv
    /\ ProcessInv
    /\ NoContainerLost
=============================================================================
