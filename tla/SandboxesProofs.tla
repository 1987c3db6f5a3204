-------------------------- MODULE SandboxesProofs --------------------------
(***************************************************************************)
(* What the Sandboxes of a session keep, for any Runs and commands and for *)
(* every start that fails, is cancelled or loses its container.            *)
(***************************************************************************)
EXTENDS SandboxesInv, FiniteSetTheorems, TLAPS

\* docker rm removes what it is asked to remove, and the daemon starts no container
\* after the client that asked for it is gone.
DockerObeys == Faults \intersect {"rmFails", "lateCreate"} = {}

LEMMA NoneIsNoCall == None \notin Calls /\ RunOf \in [Calls -> Runs]
  BY SandboxAssumption

LEMMA EndsType ==
    ASSUME TypeOK, NEW c \in Calls,
           NEW how \in {"none", "result", "timeout", "unavailable", "cancelled"}, Ends(c, how)
    PROVE  /\ pc' \in [Calls -> {"idle", "acquire", "starting", "reaping", "exec", "running",
                                 "settling", "done"}]
           /\ outcome' \in [Calls -> {"none", "result", "timeout", "unavailable", "cancelled"}]
           /\ lock' \in [Runs -> Calls \union {None}]
  BY DEF TypeOK, Ends

\* What the lock of a start and the process of a command say about the registry.
LEMMA LockHeld ==
    ASSUME IInv, NEW c \in Calls, pc[c] \in {"starting", "reaping"}
    PROVE  lock[RunOf[c]] = c /\ cached[RunOf[c]] = None
  <1>1. lock[RunOf[c]] = c /\ RunOf[c] \in Runs
    BY NoneIsNoCall DEF IInv, LockInv
  <1> QED BY <1>1, NoneIsNoCall DEF IInv, LockInv

LEMMA InsideContainer ==
    ASSUME IInv, NEW c \in Calls, inside[c]
    PROVE  /\ cached[RunOf[c]] \in Calls /\ RunOf[cached[RunOf[c]]] = RunOf[c]
           /\ cont[cached[RunOf[c]]] = "up"
  <1>1. RunOf[c] \in Runs /\ cached[RunOf[c]] # None /\ cont[cached[RunOf[c]]] = "up"
    BY NoneIsNoCall DEF IInv, InsideInv
  <1> QED BY <1>1 DEF IInv, TypeOK, CachedInv

-----------------------------------------------------------------------------
(* The container of a Run: every step of acquire and _start. *)

LEMMA AcquireKeeps ==
    ASSUME IInv, NEW c \in Calls, Acquire(c)
    PROVE  IInv'
  <1> USE NoneIsNoCall DEF IInv, Acquire, TypeOK
  <1>1. CASE Closed(RunOf[c])
    <2>1. TypeOK'
      BY <1>1, EndsType
    <2>2. LockInv' /\ ClosedInv' /\ CachedInv'
      BY <1>1 DEF Ends, LockInv, ClosedInv, CachedInv, Closed
    <2>3. ContainerInv' /\ InsideInv' /\ NoContainerLost' /\ ProcessInv'
      BY <1>1 DEF Ends, ContainerInv, InsideInv, NoContainerLost, ProcessInv, Local
    <2> QED BY <2>1, <2>2, <2>3
  <1>2. CASE ~Closed(RunOf[c]) /\ cached[RunOf[c]] # None
    <2>1. TypeOK' /\ ProcessInv'
      BY <1>2 DEF ProcessInv, Local
    <2>2. LockInv' /\ ClosedInv' /\ CachedInv'
      BY <1>2 DEF LockInv, ClosedInv, CachedInv, Closed
    <2>3. ContainerInv' /\ InsideInv' /\ NoContainerLost'
      BY <1>2 DEF ContainerInv, InsideInv, NoContainerLost
    <2> QED BY <2>1, <2>2, <2>3
  <1>3. CASE ~Closed(RunOf[c]) /\ cached[RunOf[c]] = None
    <2>1. /\ pc[c] = "acquire" /\ lock[RunOf[c]] = None
          /\ pc' = [pc EXCEPT ![c] = "starting"]
          /\ lock' = [lock EXCEPT ![RunOf[c]] = c]
          /\ client' = [client EXCEPT ![c] = TRUE]
          /\ cont' = [cont EXCEPT ![c] = "asked"]
          /\ UNCHANGED <<outcome, child, inside, cached, closing, cancelled, open>>
      BY <1>3, Zenon
    <2> HIDE DEF Acquire
    <2>2. TypeOK' /\ ProcessInv'
      BY <2>1 DEF ProcessInv, Local
    <2>3. LockInv' /\ ClosedInv' /\ CachedInv'
      BY <1>3, <2>1 DEF LockInv, ClosedInv, CachedInv, Closed
    <2>4. ContainerInv' /\ InsideInv' /\ NoContainerLost'
      BY <2>1 DEF ContainerInv, InsideInv, NoContainerLost, CachedInv
    <2> QED BY <2>2, <2>3, <2>4
  <1> QED BY <1>1, <1>2, <1>3

LEMMA AcquireCancelledKeeps ==
    ASSUME IInv, NEW c \in Calls, AcquireCancelled(c)
    PROVE  IInv'
  <1> USE NoneIsNoCall DEF IInv, AcquireCancelled, Ends, TypeOK, processes, registry
  <1>1. TypeOK' /\ ProcessInv'
    BY DEF ProcessInv, Local
  <1>2. LockInv' /\ ClosedInv' /\ CachedInv'
    BY DEF LockInv, ClosedInv, CachedInv, Closed
  <1>3. ContainerInv' /\ InsideInv' /\ NoContainerLost'
    BY DEF ContainerInv, InsideInv, NoContainerLost
  <1> QED BY <1>1, <1>2, <1>3

\* The registry had no container while the lock was held.
LEMMA StartedKeeps ==
    ASSUME IInv, NEW c \in Calls, Started(c)
    PROVE  IInv'
  <1> USE NoneIsNoCall DEF IInv, Started, TypeOK
  <1>1. lock[RunOf[c]] = c /\ cached[RunOf[c]] = None
    BY LockHeld
  <1>2. TypeOK' /\ ProcessInv'
    BY DEF ProcessInv, Local
  <1>3. LockInv' /\ ClosedInv' /\ CachedInv'
    BY <1>1 DEF LockInv, ClosedInv, CachedInv, Closed
  <1>4. ContainerInv' /\ InsideInv'
    BY <1>1 DEF ContainerInv, InsideInv
  <1>5. ASSUME NEW d \in Calls, cont'[d] = "up"
        PROVE  cached'[RunOf[d]] = d \/ pc'[d] \in {"starting", "reaping"}
    <2>1. CASE d = c
      BY <2>1
    <2>2. CASE d # c
      <3>1. RunOf[d] # RunOf[c] \/ cached[RunOf[c]] # d
        BY <1>1
      <3>2. cached[RunOf[d]] = d \/ pc[d] \in {"starting", "reaping"}
        BY <1>5 DEF NoContainerLost
      <3> QED BY <2>2, <3>1, <3>2
    <2> QED BY <2>1, <2>2
  <1>6. NoContainerLost'
    BY <1>5 DEF NoContainerLost
  <1> QED BY <1>2, <1>3, <1>4, <1>6

LEMMA StartFailsKeeps ==
    ASSUME IInv, NEW c \in Calls, StartFails(c)
    PROVE  IInv'
  <1> USE NoneIsNoCall DEF IInv, StartFails, TypeOK, processes, registry
  <1>1. TypeOK' /\ ProcessInv'
    BY DEF ProcessInv, Local
  <1>2. LockInv' /\ ClosedInv' /\ CachedInv'
    BY DEF LockInv, ClosedInv, CachedInv, Closed
  <1>3. ContainerInv' /\ InsideInv' /\ NoContainerLost'
    BY DEF ContainerInv, InsideInv, NoContainerLost
  <1> QED BY <1>1, <1>2, <1>3

LEMMA StartCancelledKeeps ==
    ASSUME IInv, NEW c \in Calls, StartCancelled(c)
    PROVE  IInv'
  <1> USE NoneIsNoCall DEF IInv, StartCancelled, TypeOK, processes, registry
  <1>1. TypeOK' /\ ProcessInv'
    BY DEF ProcessInv, Local
  <1>2. LockInv' /\ ClosedInv' /\ CachedInv'
    BY DEF LockInv, ClosedInv, CachedInv, Closed
  <1>3. ContainerInv' /\ InsideInv' /\ NoContainerLost'
    BY DEF ContainerInv, InsideInv, NoContainerLost
  <1> QED BY <1>1, <1>2, <1>3

LEMMA ReapEffect ==
    ASSUME DockerObeys, TypeOK, NEW c \in Calls, Reap(c)
    PROVE  /\ cont' = [cont EXCEPT ![c] = IF @ = "up" THEN "gone"
                                          ELSE IF @ = "asked" THEN "none" ELSE @]
           /\ pc[c] = "reaping" /\ pc' = [pc EXCEPT ![c] = "done"]
           /\ lock' = [r \in Runs |-> IF lock[r] = c THEN None ELSE lock[r]]
           /\ UNCHANGED <<client, child, inside, cached, closing, cancelled, open>>
  BY DEF DockerObeys, Reap, RmWorks, Ends, TypeOK, processes

\* The call takes the container that it asked for along, and gives the lock back.
LEMMA ReapKeeps ==
    ASSUME DockerObeys, IInv, NEW c \in Calls, Reap(c)
    PROVE  IInv'
  <1> USE NoneIsNoCall, ReapEffect DEF IInv, TypeOK
  <1>1. TypeOK'
    <2>1. outcome' \in [Calls -> {"none", "result", "timeout", "unavailable", "cancelled"}]
      BY DEF Reap, Ends
    <2> QED BY <2>1
  <1>2. lock[RunOf[c]] = c /\ cached[RunOf[c]] = None
    BY LockHeld
  <1>3. LockInv' /\ ClosedInv'
    BY <1>2 DEF LockInv, ClosedInv, Closed
  <1>4. CachedInv'
    BY DEF CachedInv
  <1>5. ContainerInv' /\ NoContainerLost' /\ ProcessInv'
    BY DEF ContainerInv, NoContainerLost, ProcessInv, Local
  <1>6. InsideInv'
    <2>1. \A r \in Runs : cached[r] # c
      BY <1>2 DEF CachedInv
    <2> QED BY <2>1 DEF InsideInv
  <1> QED BY <1>1, <1>3, <1>4, <1>5, <1>6

LEMMA DaemonCreatesKeeps ==
    ASSUME IInv, NEW c \in Calls, DaemonCreates(c)
    PROVE  IInv'
  <1> USE NoneIsNoCall DEF IInv, DaemonCreates, TypeOK, processes, registry
  <1>1. TypeOK' /\ ProcessInv'
    BY DEF ProcessInv, Local
  <1>2. LockInv' /\ ClosedInv' /\ CachedInv'
    BY DEF LockInv, ClosedInv, CachedInv, Closed
  <1>3. ContainerInv' /\ InsideInv' /\ NoContainerLost'
    BY DEF ContainerInv, InsideInv, NoContainerLost
  <1> QED BY <1>1, <1>2, <1>3

-----------------------------------------------------------------------------
(* The commands. *)

LEMMA RunCommandKeeps ==
    ASSUME IInv, NEW c \in Calls, RunCommand(c)
    PROVE  IInv'
  <1> USE NoneIsNoCall DEF IInv, RunCommand, TypeOK, processes, registry
  <1>1. TypeOK' /\ ProcessInv'
    BY DEF ProcessInv, Local
  <1>2. LockInv' /\ ClosedInv' /\ CachedInv'
    BY DEF LockInv, ClosedInv, CachedInv, Closed
  <1>3. ContainerInv' /\ InsideInv' /\ NoContainerLost'
    BY DEF ContainerInv, InsideInv, NoContainerLost
  <1> QED BY <1>1, <1>2, <1>3

LEMMA SpawnKeeps ==
    ASSUME IInv, NEW c \in Calls, Spawn(c)
    PROVE  IInv'
  <1> USE NoneIsNoCall DEF IInv, Spawn, Local, TypeOK, processes, registry
  <1>1. TypeOK' /\ ProcessInv'
    BY DEF ProcessInv
  <1>2. LockInv' /\ ClosedInv' /\ CachedInv'
    BY DEF LockInv, ClosedInv, CachedInv, Closed
  <1>3. ContainerInv' /\ InsideInv' /\ NoContainerLost'
    BY DEF ContainerInv, InsideInv, NoContainerLost
  <1> QED BY <1>1, <1>2, <1>3

LEMMA SpawnCancelledKeeps ==
    ASSUME IInv, NEW c \in Calls, SpawnCancelled(c)
    PROVE  IInv'
  <1> USE NoneIsNoCall DEF IInv, SpawnCancelled, Ends, TypeOK, processes, registry
  <1>1. TypeOK' /\ ProcessInv'
    BY DEF ProcessInv, Local
  <1>2. LockInv' /\ ClosedInv' /\ CachedInv'
    BY DEF LockInv, ClosedInv, CachedInv, Closed
  <1>3. ContainerInv' /\ InsideInv' /\ NoContainerLost'
    BY DEF ContainerInv, InsideInv, NoContainerLost
  <1> QED BY <1>1, <1>2, <1>3

LEMMA ShellEndsKeeps ==
    ASSUME IInv, NEW c \in Calls, ShellEnds(c)
    PROVE  IInv'
  <1> USE NoneIsNoCall DEF IInv, ShellEnds, Local, TypeOK, processes, registry
  <1>1. TypeOK' /\ ProcessInv'
    BY ZenonT(60) DEF ProcessInv
  <1>2. LockInv' /\ ClosedInv' /\ CachedInv'
    BY DEF LockInv, ClosedInv, CachedInv, Closed
  <1>3. ContainerInv' /\ InsideInv' /\ NoContainerLost'
    BY DEF ContainerInv, InsideInv, NoContainerLost
  <1> QED BY <1>1, <1>2, <1>3

LEMMA ChildEndsKeeps ==
    ASSUME IInv, NEW c \in Calls, ChildEnds(c)
    PROVE  IInv'
  <1> USE NoneIsNoCall DEF IInv, ChildEnds, TypeOK, processes, registry
  <1>1. TypeOK' /\ ProcessInv'
    BY DEF ProcessInv, Local
  <1>2. LockInv' /\ ClosedInv' /\ CachedInv'
    BY DEF LockInv, ClosedInv, CachedInv, Closed
  <1>3. ContainerInv' /\ InsideInv' /\ NoContainerLost'
    BY DEF ContainerInv, InsideInv, NoContainerLost
  <1> QED BY <1>1, <1>2, <1>3

LEMMA ExecEndsKeeps ==
    ASSUME IInv, NEW c \in Calls, ExecEnds(c)
    PROVE  IInv'
  <1> USE NoneIsNoCall DEF IInv, ExecEnds, Local, TypeOK, processes, registry
  <1>1. TypeOK' /\ ProcessInv'
    BY DEF ProcessInv
  <1>2. LockInv' /\ ClosedInv' /\ CachedInv'
    BY DEF LockInv, ClosedInv, CachedInv, Closed
  <1>3. ContainerInv' /\ InsideInv' /\ NoContainerLost'
    BY DEF ContainerInv, InsideInv, NoContainerLost
  <1> QED BY <1>1, <1>2, <1>3

LEMMA CommunicatedKeeps ==
    ASSUME IInv, NEW c \in Calls, Communicated(c)
    PROVE  IInv'
  <1> USE NoneIsNoCall DEF IInv, Communicated, Ends, OutputHeld, TypeOK, processes, registry
  <1>1. TypeOK' /\ ProcessInv'
    BY DEF ProcessInv, Local
  <1>2. LockInv' /\ ClosedInv' /\ CachedInv'
    BY DEF LockInv, ClosedInv, CachedInv, Closed
  <1>3. ContainerInv' /\ InsideInv' /\ NoContainerLost'
    BY DEF ContainerInv, InsideInv, NoContainerLost
  <1> QED BY <1>1, <1>2, <1>3

LEMMA TimesOutKeeps ==
    ASSUME IInv, NEW c \in Calls, TimesOut(c)
    PROVE  IInv'
  <1> USE NoneIsNoCall DEF IInv, TimesOut, Kill, TypeOK, processes, registry
  <1>1. TypeOK' /\ ProcessInv'
    BY DEF ProcessInv, Local
  <1>2. LockInv' /\ ClosedInv' /\ CachedInv'
    BY DEF LockInv, ClosedInv, CachedInv, Closed
  <1>3. ContainerInv' /\ InsideInv' /\ NoContainerLost'
    BY DEF ContainerInv, InsideInv, NoContainerLost
  <1> QED BY <1>1, <1>2, <1>3

LEMMA InterruptedKeeps ==
    ASSUME IInv, NEW c \in Calls, Interrupted(c)
    PROVE  IInv'
  <1> USE NoneIsNoCall DEF IInv, Interrupted, Kill, TypeOK, processes, registry
  <1>1. TypeOK' /\ ProcessInv'
    BY DEF ProcessInv, Local
  <1>2. LockInv' /\ ClosedInv' /\ CachedInv'
    BY DEF LockInv, ClosedInv, CachedInv, Closed
  <1>3. ContainerInv' /\ InsideInv' /\ NoContainerLost'
    BY DEF ContainerInv, InsideInv, NoContainerLost
  <1> QED BY <1>1, <1>2, <1>3

LEMMA SettledKeeps ==
    ASSUME IInv, NEW c \in Calls, Settled(c)
    PROVE  IInv'
  <1> USE NoneIsNoCall DEF IInv, Settled, Ends, OutputHeld, TypeOK, processes, registry
  <1>1. TypeOK' /\ ProcessInv'
    BY DEF ProcessInv, Local
  <1>2. LockInv' /\ ClosedInv' /\ CachedInv'
    BY DEF LockInv, ClosedInv, CachedInv, Closed
  <1>3. ContainerInv' /\ InsideInv' /\ NoContainerLost'
    BY DEF ContainerInv, InsideInv, NoContainerLost
  <1> QED BY <1>1, <1>2, <1>3

-----------------------------------------------------------------------------
(* The end of a Run, of the session and of a container. *)

LEMMA CancelRunKeeps ==
    ASSUME IInv, NEW r \in Runs, CancelRun(r)
    PROVE  IInv'
  <1> USE NoneIsNoCall DEF IInv, CancelRun, Of, TypeOK, processes, registry
  <1>1. TypeOK' /\ ProcessInv'
    BY DEF ProcessInv, Local
  <1>2. LockInv' /\ ClosedInv' /\ CachedInv'
    BY DEF LockInv, ClosedInv, CachedInv, Closed
  <1>3. ContainerInv' /\ InsideInv' /\ NoContainerLost'
    BY DEF ContainerInv, InsideInv, NoContainerLost
  <1> QED BY <1>1, <1>2, <1>3

LEMMA CloseRunKeeps ==
    ASSUME IInv, NEW r \in Runs, CloseRun(r)
    PROVE  IInv'
  <1> USE NoneIsNoCall DEF IInv, CloseRun, TypeOK, processes, registry
  <1>1. TypeOK' /\ ProcessInv'
    BY DEF ProcessInv, Local
  <1>2. LockInv' /\ ClosedInv' /\ CachedInv'
    BY DEF LockInv, ClosedInv, CachedInv, Closed
  <1>3. ContainerInv' /\ InsideInv' /\ NoContainerLost'
    BY DEF ContainerInv, InsideInv, NoContainerLost
  <1> QED BY <1>1, <1>2, <1>3

LEMMA LeaveSessionKeeps ==
    ASSUME IInv, LeaveSession
    PROVE  IInv'
  <1> USE NoneIsNoCall DEF IInv, LeaveSession, TypeOK, processes, registry
  <1>1. TypeOK' /\ ProcessInv'
    BY DEF ProcessInv, Local
  <1>2. LockInv' /\ ClosedInv' /\ CachedInv'
    BY DEF LockInv, ClosedInv, CachedInv, Closed
  <1>3. ContainerInv' /\ InsideInv' /\ NoContainerLost'
    BY DEF ContainerInv, InsideInv, NoContainerLost
  <1> QED BY <1>1, <1>2, <1>3

LEMMA CloseTakesLockKeeps ==
    ASSUME IInv, NEW r \in Runs, CloseTakesLock(r)
    PROVE  IInv'
  <1> USE NoneIsNoCall DEF IInv, CloseTakesLock, TypeOK, processes, registry
  <1>1. TypeOK' /\ ProcessInv'
    BY DEF ProcessInv, Local
  <1>2. LockInv' /\ ClosedInv' /\ CachedInv'
    BY DEF LockInv, ClosedInv, CachedInv, Closed
  <1>3. ContainerInv' /\ InsideInv' /\ NoContainerLost'
    BY DEF ContainerInv, InsideInv, NoContainerLost
  <1> QED BY <1>1, <1>2, <1>3

LEMMA RemoveEffect ==
    ASSUME DockerObeys, NEW r \in Runs, RemoveContainer(r)
    PROVE  /\ closing[r] = "removing"
           /\ closing' = [closing EXCEPT ![r] = "closed"]
           /\ cached' = [cached EXCEPT ![r] = None]
           /\ cont' = [cont EXCEPT ![cached[r]] = "gone"]
           /\ inside' = [c \in Calls |-> inside[c] /\ RunOf[c] # r]
           /\ UNCHANGED <<pc, outcome, client, child, lock, cancelled, open>>
  BY DEF DockerObeys, RemoveContainer, RmWorks

\* docker rm takes the container and the processes in it; no start is under way.
LEMMA RemoveContainerKeeps ==
    ASSUME DockerObeys, IInv, NEW r \in Runs, RemoveContainer(r)
    PROVE  IInv'
  <1> USE NoneIsNoCall DEF IInv
  <1> DEFINE k == cached[r]
  <1>0. /\ closing[r] = "removing"
        /\ closing' = [closing EXCEPT ![r] = "closed"]
        /\ cached' = [cached EXCEPT ![r] = None]
        /\ cont' = [cont EXCEPT ![k] = "gone"]
        /\ inside' = [c \in Calls |-> inside[c] /\ RunOf[c] # r]
        /\ UNCHANGED <<pc, outcome, client, child, lock, cancelled, open>>
    BY RemoveEffect
  <1>1. k \in Calls /\ RunOf[k] = r /\ lock[r] = None /\ pc[k] \notin {"idle", "acquire"}
    BY <1>0 DEF TypeOK, ClosedInv, CachedInv, Closed
  <1> HIDE DEF k
  <1>2. TypeOK'
    BY <1>0, <1>1 DEF TypeOK
  <1>3. LockInv' /\ ClosedInv'
    BY <1>0, <1>1 DEF TypeOK, LockInv, ClosedInv, Closed
  <1>4. CachedInv'
    BY <1>0, <1>1 DEF TypeOK, CachedInv
  <1>5. ContainerInv'
    BY <1>0, <1>1 DEF TypeOK, ContainerInv
  <1>6. ProcessInv'
    BY <1>0 DEF ProcessInv, Local
  <1>7. InsideInv'
    <2>1. ASSUME NEW c \in Calls, inside'[c]
          PROVE  cached'[RunOf[c]] # None /\ cont'[cached'[RunOf[c]]] = "up"
      <3>1. RunOf[c] # r /\ inside[c]
        BY <1>0, <2>1 DEF TypeOK
      <3>2. cached'[RunOf[c]] = cached[RunOf[c]]
        BY <1>0, <3>1 DEF TypeOK
      <3>3. /\ cached[RunOf[c]] \in Calls /\ RunOf[cached[RunOf[c]]] = RunOf[c]
            /\ cont[cached[RunOf[c]]] = "up"
        BY <3>1, InsideContainer
      <3> QED BY <1>0, <1>1, <3>1, <3>2, <3>3 DEF TypeOK
    <2> QED BY <2>1 DEF InsideInv
  <1>8. NoContainerLost'
    <2>1. ASSUME NEW c \in Calls, cont'[c] = "up"
          PROVE  cached'[RunOf[c]] = c \/ pc'[c] \in {"starting", "reaping"}
      <3>1. c # k /\ cont[c] = "up"
        BY <1>0, <1>1, <2>1 DEF TypeOK
      <3>2. cached[RunOf[c]] = c \/ pc[c] \in {"starting", "reaping"}
        BY <3>1 DEF NoContainerLost
      <3>3. RunOf[c] # r => cached'[RunOf[c]] = cached[RunOf[c]]
        BY <1>0 DEF TypeOK
      <3>4. RunOf[c] = r => cached[RunOf[c]] # c
        BY <3>1 DEF k
      <3> QED BY <1>0, <3>2, <3>3, <3>4
    <2> QED BY <2>1 DEF NoContainerLost
  <1> QED BY <1>2, <1>3, <1>4, <1>5, <1>6, <1>7, <1>8

LEMMA ContainerDiesKeeps ==
    ASSUME IInv, NEW r \in Runs, ContainerDies(r)
    PROVE  IInv'
  <1> USE NoneIsNoCall DEF IInv, ContainerDies, registry
  <1> DEFINE k == cached[r]
  <1>1. k \in Calls /\ RunOf[k] = r
    BY DEF TypeOK, CachedInv
  <1>2. TypeOK'
    BY <1>1 DEF TypeOK
  <1>3. LockInv' /\ ClosedInv' /\ CachedInv'
    BY <1>1 DEF TypeOK, LockInv, ClosedInv, CachedInv, Closed
  <1>4. ContainerInv' /\ NoContainerLost' /\ ProcessInv'
    BY <1>1 DEF TypeOK, ContainerInv, NoContainerLost, ProcessInv, Local
  <1>5. InsideInv'
    <2>1. ASSUME NEW c \in Calls, inside'[c]
          PROVE  cached[RunOf[c]] # None /\ cont'[cached[RunOf[c]]] = "up"
      <3>1. RunOf[c] # r /\ inside[c]
        BY <2>1 DEF TypeOK
      <3>2. /\ cached[RunOf[c]] \in Calls /\ RunOf[cached[RunOf[c]]] = RunOf[c]
            /\ cont[cached[RunOf[c]]] = "up"
        BY <3>1, InsideContainer
      <3> QED BY <1>1, <3>1, <3>2 DEF TypeOK
    <2> QED BY <2>1 DEF InsideInv
  <1> QED BY <1>2, <1>3, <1>4, <1>5

-----------------------------------------------------------------------------
(* The theorems. *)

LEMMA InitEstablishes == Init => IInv
  <1> SUFFICES ASSUME Init PROVE IInv
    OBVIOUS
  <1> USE NoneIsNoCall DEF Init
  <1>1. TypeOK
    BY DEF TypeOK
  <1>2. LockInv /\ ClosedInv /\ CachedInv
    BY DEF LockInv, ClosedInv, CachedInv, Closed
  <1>3. ContainerInv /\ InsideInv /\ ProcessInv /\ NoContainerLost
    BY DEF ContainerInv, InsideInv, ProcessInv, NoContainerLost
  <1> QED BY <1>1, <1>2, <1>3 DEF IInv

LEMMA NextKeeps == DockerObeys /\ IInv /\ [Next]_vars => IInv'
  <1> SUFFICES ASSUME DockerObeys, IInv, [Next]_vars PROVE IInv'
    OBVIOUS
  <1>1. ASSUME NEW c \in Calls, CallStep(c) PROVE IInv'
    BY <1>1, AcquireKeeps, AcquireCancelledKeeps, StartedKeeps, StartCancelledKeeps,
       ReapKeeps, SpawnKeeps, SpawnCancelledKeeps, CommunicatedKeeps, TimesOutKeeps,
       InterruptedKeeps, SettledKeeps DEF CallStep
  <1>2. ASSUME NEW c \in Calls,
               \/ RunCommand(c) \/ DaemonCreates(c) \/ StartFails(c)
               \/ ShellEnds(c) \/ ChildEnds(c) \/ ExecEnds(c)
        PROVE IInv'
    BY <1>2, RunCommandKeeps, DaemonCreatesKeeps, StartFailsKeeps, ShellEndsKeeps,
       ChildEndsKeeps, ExecEndsKeeps
  <1>3. ASSUME NEW r \in Runs, CancelRun(r) \/ CloseRun(r) \/ Closing(r) \/ ContainerDies(r)
        PROVE IInv'
    BY <1>3, CancelRunKeeps, CloseRunKeeps, CloseTakesLockKeeps, RemoveContainerKeeps,
       ContainerDiesKeeps DEF Closing
  <1>4. ASSUME LeaveSession PROVE IInv'
    BY <1>4, LeaveSessionKeeps
  <1>5. ASSUME UNCHANGED vars PROVE IInv'
    <2> USE <1>5 DEF vars, IInv
    <2>1. TypeOK' /\ LockInv' /\ ClosedInv' /\ CachedInv'
      BY DEF TypeOK, LockInv, ClosedInv, CachedInv, Closed
    <2>2. ContainerInv' /\ InsideInv' /\ ProcessInv' /\ NoContainerLost'
      BY DEF ContainerInv, InsideInv, ProcessInv, NoContainerLost, Local
    <2> QED BY <2>1, <2>2
  <1> QED BY <1>1, <1>2, <1>3, <1>4, <1>5 DEF Next

\* The invariant of all that follows: the lock of a registry, its container and the
\* processes of its calls are where run_command and ContainerRegistry put them, for a
\* docker that does what it says.
THEOREM Invariance ==
    ASSUME DockerObeys
    PROVE  Spec => []IInv
  <1>1. Init => IInv
    BY InitEstablishes
  <1>2. IInv /\ [Next]_vars => IInv'
    BY NextKeeps
  <1> QED BY <1>1, <1>2, PTL DEF Spec

\* Two containers of a Run that both run are the same: one is in the registry, or being
\* started under its lock, and never the one while the other.
LEMMA ContainersAgree ==
    ASSUME IInv, NEW r \in Runs, NEW c \in Up(r), NEW d \in Up(r)
    PROVE  c = d
  <1>1. c \in Calls /\ RunOf[c] = r /\ cont[c] = "up"
    BY DEF Up, Of
  <1>2. d \in Calls /\ RunOf[d] = r /\ cont[d] = "up"
    BY DEF Up, Of
  <1>3. cached[r] = c \/ lock[r] = c
    BY <1>1 DEF IInv, NoContainerLost, LockInv
  <1>4. cached[r] = d \/ lock[r] = d
    BY <1>2 DEF IInv, NoContainerLost, LockInv
  <1>5. lock[r] # None => cached[r] = None
    BY DEF IInv, LockInv
  <1> QED BY <1>1, <1>2, <1>3, <1>4, <1>5, NoneIsNoCall

LEMMA AccountedFromInvariant == IInv => SandboxesAccounted
  <1> SUFFICES ASSUME IInv PROVE SandboxesAccounted
    OBVIOUS
  <1>1. OneContainer
    <2> SUFFICES ASSUME NEW r \in Runs PROVE Cardinality(Up(r)) <= 1
      BY DEF OneContainer
    <2>1. CASE Up(r) = {}
      BY <2>1, FS_EmptySet
    <2>2. CASE Up(r) # {}
      <3>1. PICK c \in Up(r) : TRUE
        BY <2>2
      <3>2. Up(r) = {c}
        BY <3>1, ContainersAgree
      <3>3. Cardinality({c}) = 1
        BY FS_Singleton
      <3> QED BY <3>2, <3>3
    <2> QED BY <2>1, <2>2
  <1>2. NoContainerLost
    BY DEF IInv
  <1>3. ClosedRunLeavesNothing
    <2> SUFFICES ASSUME NEW r \in Runs, closing[r] = "closed", NEW c \in Of(r)
                 PROVE  cont[c] # "up" /\ ~inside[c]
      BY DEF ClosedRunLeavesNothing, Up
    <2>1. c \in Calls /\ RunOf[c] = r /\ cached[r] = None /\ lock[r] = None
      BY DEF Of, IInv, ClosedInv, Closed
    <2> QED BY <2>1, NoneIsNoCall DEF IInv, NoContainerLost, LockInv, InsideInv
  <1>4. ReturnedLeavesNoClient
    BY DEF ReturnedLeavesNoClient, IInv, ProcessInv
  <1> QED BY <1>1, <1>2, <1>3, <1>4 DEF SandboxesAccounted

\* Whatever is started, fails, is cancelled or is closed, and for any number of Runs and
\* of commands: a Run has at most one container, no container is lost, a closed Run
\* leaves nothing behind and a command that was given up leaves no process on the host.
THEOREM NothingUnaccounted ==
    ASSUME DockerObeys
    PROVE  Spec => []SandboxesAccounted
  BY Invariance, AccountedFromInvariant, PTL
=============================================================================
