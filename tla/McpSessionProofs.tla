-------------------------- MODULE McpSessionProofs --------------------------
(***************************************************************************)
(* What the connections of a session keep, for any number of servers,      *)
(* calling Tasks and owners, any Workspaces and any configuration.         *)
(***************************************************************************)
EXTENDS McpSessionInv, FiniteSetTheorems, SequenceTheorems, TLAPS

-----------------------------------------------------------------------------
(* The list of the names.                                                  *)

\* Each name of the list has one place, the one that list.remove finds.
LEMMA PlaceFound ==
    ASSUME order \in Seq(Servers), OrderInv, NEW n \in Servers, owner[n] # None
    PROVE  Place(n) \in 1..Len(order) /\ order[Place(n)] = n
  <1>1. PICK i \in 1..Len(order) : order[i] = n
    BY DEF OrderInv
  <1>2. Len(order) \in Nat
    BY LenProperties
  <1>3. \A j \in 1..(i - 1) : j \in 1..Len(order) /\ j # i
    BY <1>2
  <1>4. \A j \in 1..(i - 1) : order[j] # n
    BY <1>1, <1>3 DEF OrderInv
  <1> QED BY <1>1, <1>4 DEF Place

\* What the list is when the element of the place i is gone.
LEMMA RemoveAtProperties ==
    ASSUME NEW S, NEW s \in Seq(S), NEW i \in 1..Len(s)
    PROVE  /\ RemoveAt(s, i) \in Seq(S)
           /\ Len(RemoveAt(s, i)) = Len(s) - 1
           /\ \A j \in 1..(Len(s) - 1) :
                RemoveAt(s, i)[j] = IF j < i THEN s[j] ELSE s[j + 1]
  <1> DEFINE l == SubSeq(s, 1, i - 1)
             r == SubSeq(s, i + 1, Len(s))
  <1>1. Len(s) \in Nat /\ \A j \in 1..Len(s) : s[j] \in S
    BY LenProperties, ElementOfSeq
  <1>2. /\ l \in Seq(S) /\ Len(l) = i - 1
        /\ \A j \in 1..(i - 1) : l[j] = s[j]
    <2>1. \A j \in 1..(i - 1) : s[j] \in S
      BY <1>1
    <2>2. /\ l \in Seq(S)
          /\ Len(l) = IF 1 <= i - 1 THEN (i - 1) - 1 + 1 ELSE 0
          /\ \A j \in 1..((i - 1) - 1 + 1) : l[j] = s[1 + j - 1]
      <3>1. 1 \in Int /\ i - 1 \in Int
        BY <1>1
      <3> QED BY <2>1, <3>1, SubSeqProperties
    <2> QED BY <2>2, <1>1
  <1>3. /\ r \in Seq(S) /\ Len(r) = Len(s) - i
        /\ \A j \in 1..(Len(s) - i) : r[j] = s[i + j]
    <2>1. \A j \in (i + 1)..Len(s) : s[j] \in S
      BY <1>1
    <2>2. /\ r \in Seq(S)
          /\ Len(r) = IF i + 1 <= Len(s) THEN Len(s) - (i + 1) + 1 ELSE 0
          /\ \A j \in 1..(Len(s) - (i + 1) + 1) : r[j] = s[(i + 1) + j - 1]
      <3>1. i + 1 \in Int /\ Len(s) \in Int
        BY <1>1
      <3> QED BY <2>1, <3>1, SubSeqProperties
    <2> QED BY <2>2, <1>1
  <1> HIDE DEF l, r
  <1>4. /\ l \o r \in Seq(S)
        /\ Len(l \o r) = Len(l) + Len(r)
        /\ \A j \in 1..(Len(l) + Len(r)) :
              (l \o r)[j] = IF j <= Len(l) THEN l[j] ELSE r[j - Len(l)]
    BY <1>2, <1>3, ConcatProperties
  <1>5. RemoveAt(s, i) = l \o r
    BY DEF RemoveAt, l, r
  <1>6. Len(l) + Len(r) = Len(s) - 1
    BY <1>1, <1>2, <1>3
  <1>7. ASSUME NEW j \in 1..(Len(s) - 1)
        PROVE  (l \o r)[j] = IF j < i THEN s[j] ELSE s[j + 1]
    <2>1. (l \o r)[j] = IF j <= i - 1 THEN l[j] ELSE r[j - (i - 1)]
      BY <1>2, <1>4, <1>6
    <2>2. CASE j < i
      BY <1>1, <1>2, <2>1, <2>2
    <2>3. CASE ~(j < i)
      <3>1. j - (i - 1) \in 1..(Len(s) - i) /\ i + (j - (i - 1)) = j + 1
        BY <1>1, <2>3
      <3>2. r[j - (i - 1)] = s[i + (j - (i - 1))]
        BY <1>3, <3>1
      <3> QED BY <1>1, <2>1, <2>3, <3>1, <3>2
    <2> QED BY <2>2, <2>3
  <1> QED BY <1>4, <1>5, <1>6, <1>7

\* Without the name n the list still has every other name once.
LEMMA NameRemoved ==
    ASSUME order \in Seq(Servers), OrderInv, NEW n \in Servers, owner[n] # None
    PROVE  LET s == RemoveAt(order, Place(n)) IN
           /\ s \in Seq(Servers)
           /\ \A i, j \in 1..Len(s) : s[i] = s[j] => i = j
           /\ \A m \in Servers :
                (\E i \in 1..Len(s) : s[i] = m) <=> m # n /\ owner[m] # None
  <1> DEFINE p == Place(n)
             s == RemoveAt(order, p)
  <1>1. p \in 1..Len(order) /\ order[p] = n
    BY PlaceFound
  <1>2. Len(order) \in Nat
    BY LenProperties
  <1> HIDE DEF p
  <1>3. /\ s \in Seq(Servers) /\ Len(s) = Len(order) - 1
        /\ \A j \in 1..(Len(order) - 1) : s[j] = IF j < p THEN order[j] ELSE order[j + 1]
    BY <1>1, RemoveAtProperties
  <1> HIDE DEF s
  <1>4. \A i, j \in 1..Len(order) : order[i] = order[j] => i = j
    BY DEF OrderInv
  <1>5. ASSUME NEW i \in 1..Len(s), NEW j \in 1..Len(s), s[i] = s[j] PROVE i = j
    BY <1>1, <1>2, <1>3, <1>4, <1>5
  <1>6. ASSUME NEW m \in Servers
        PROVE  (\E i \in 1..Len(s) : s[i] = m) <=> m # n /\ owner[m] # None
    <2>1. ASSUME NEW i \in 1..Len(s), s[i] = m PROVE m # n /\ owner[m] # None
      <3>1. PICK k \in 1..Len(order) : k # p /\ order[k] = m
        BY <1>1, <1>2, <1>3, <2>1
      <3> QED BY <1>1, <1>4, <3>1 DEF OrderInv
    <2>2. ASSUME m # n, owner[m] # None PROVE \E i \in 1..Len(s) : s[i] = m
      <3>1. PICK k \in 1..Len(order) : order[k] = m
        BY <2>2 DEF OrderInv
      <3>2. k # p
        BY <1>1, <2>2, <3>1
      <3>3. CASE k < p
        <4>1. k \in 1..Len(s) /\ s[k] = m
          BY <1>1, <1>2, <1>3, <3>1, <3>3
        <4> QED BY <4>1
      <3>4. CASE k > p
        <4>1. k - 1 \in 1..Len(s) /\ s[k - 1] = m
          BY <1>1, <1>2, <1>3, <3>1, <3>4
        <4> QED BY <4>1
      <3> QED BY <1>1, <1>2, <3>2, <3>3, <3>4
    <2> QED BY <2>1, <2>2
  <1> QED BY <1>3, <1>5, <1>6 DEF p, s

\* Appending a new name.
LEMMA NameAppended ==
    ASSUME order \in Seq(Servers), OrderInv, NEW n \in Servers, owner[n] = None
    PROVE  LET s == Append(order, n) IN
           /\ s \in Seq(Servers)
           /\ \A i, j \in 1..Len(s) : s[i] = s[j] => i = j
           /\ \A m \in Servers :
                (\E i \in 1..Len(s) : s[i] = m) <=> m = n \/ owner[m] # None
  <1> DEFINE s == Append(order, n)
  <1>1. Len(order) \in Nat
    BY LenProperties
  <1>2. /\ s \in Seq(Servers) /\ Len(s) = Len(order) + 1
        /\ \A j \in 1..Len(order) : s[j] = order[j]
        /\ s[Len(order) + 1] = n
    BY AppendProperties
  <1> HIDE DEF s
  <1>3. \A i, j \in 1..Len(order) : order[i] = order[j] => i = j
    BY DEF OrderInv
  <1>4. \A j \in 1..Len(order) : order[j] # n
    BY DEF OrderInv
  <1>5. ASSUME NEW i \in 1..Len(s), NEW j \in 1..Len(s), s[i] = s[j] PROVE i = j
    BY <1>1, <1>2, <1>3, <1>4, <1>5
  <1>6. ASSUME NEW m \in Servers
        PROVE  (\E i \in 1..Len(s) : s[i] = m) <=> m = n \/ owner[m] # None
    <2>1. ASSUME NEW i \in 1..Len(s), s[i] = m, m # n PROVE owner[m] # None
      <3>1. i \in 1..Len(order) /\ order[i] = m
        BY <1>1, <1>2, <2>1
      <3> QED BY <3>1 DEF OrderInv
    <2>2. CASE m = n
      <3>1. Len(order) + 1 \in 1..Len(s) /\ s[Len(order) + 1] = m
        BY <1>1, <1>2, <2>2
      <3> QED BY <3>1, <2>2
    <2>3. ASSUME owner[m] # None PROVE \E i \in 1..Len(s) : s[i] = m
      <3>1. PICK k \in 1..Len(order) : order[k] = m
        BY <2>3 DEF OrderInv
      <3>2. k \in 1..Len(s) /\ s[k] = m
        BY <1>1, <1>2, <3>1
      <3> QED BY <3>2
    <2> QED BY <2>1, <2>2, <2>3
  <1> QED BY <1>2, <1>5, <1>6 DEF s

\* The count that TablesAgree takes.
LEMMA NameCounted ==
    ASSUME order \in Seq(Servers), OrderInv, NEW n \in Servers
    PROVE  Cardinality({i \in 1..Len(order) : order[i] = n}) = IF owner[n] = None THEN 0 ELSE 1
  <1> DEFINE places == {i \in 1..Len(order) : order[i] = n}
  <1>1. CASE owner[n] = None
    <2>1. places = {}
      BY <1>1 DEF OrderInv
    <2> QED BY <1>1, <2>1, FS_EmptySet
  <1>2. CASE owner[n] # None
    <2>1. PICK i \in 1..Len(order) : order[i] = n
      BY <1>2 DEF OrderInv
    <2>2. places = {i}
      BY <2>1 DEF OrderInv
    <2> QED BY <1>2, <2>2, FS_Singleton
  <1> QED BY <1>1, <1>2

-----------------------------------------------------------------------------
(* What the operations of the manager do.                                  *)

\* An owner that is told to stop, or is cancelled, stays where it is.
LEMMA StopRequestedSound ==
    ASSUME own \in [Owners -> Owner], NEW os
    PROVE  /\ StopRequested(os) \in [Owners -> Owner]
           /\ \A o \in Owners : /\ StopRequested(os)[o].pc = own[o].pc
                                /\ StopRequested(os)[o].name = own[o].name
  <1>1. ASSUME NEW o \in Owners
        PROVE  /\ StopRequested(os)[o] \in Owner
               /\ StopRequested(os)[o].pc = own[o].pc
               /\ StopRequested(os)[o].name = own[o].name
    <2>1. own[o] \in Owner
      OBVIOUS
    <2> QED BY <2>1 DEF StopRequested, Owner
  <1>2. StopRequested(os) \in [Owners -> Owner]
    BY <1>1 DEF StopRequested
  <1> QED BY <1>1, <1>2

LEMMA AnswerSound ==
    ASSUME ManagerTypeOK, NEW o, NEW answer \in {"tools", "error", "cancelled"},
           Answer(o, answer)
    PROVE  /\ job' \in [Tasks -> [Servers -> Job]]
           /\ \A t \in Tasks, n \in Servers :
                job'[t][n].pc = job[t][n].pc /\ job'[t][n].old = job[t][n].old
  <1>1. ASSUME NEW t \in Tasks, NEW n \in Servers
        PROVE  /\ job'[t][n] \in Job
               /\ job'[t][n].pc = job[t][n].pc /\ job'[t][n].old = job[t][n].old
    <2>1. job[t][n] \in Job
      BY DEF ManagerTypeOK
    <2>2. job'[t][n] = job[t][n] \/ job'[t][n] = [job[t][n] EXCEPT !.ready = answer]
      BY DEF Answer
    <2> QED BY <2>1, <2>2 DEF Job
  <1> QED BY <1>1 DEF Answer

LEMMA NoJobType == NoJob \in Job
  BY DEF NoJob, Job

\* One call of one Task changes, to j.
LEMMA JobUpdate ==
    ASSUME ManagerTypeOK, NEW t \in Tasks, NEW n \in Servers, NEW j \in Job,
           job' = [job EXCEPT ![t][n] = j]
    PROVE  /\ job' \in [Tasks -> [Servers -> Job]]
           /\ job'[t][n] = j
           /\ \A u \in Tasks, m \in Servers : u # t \/ m # n => job'[u][m] = job[u][m]
  BY DEF ManagerTypeOK

LEMMA EndSound ==
    ASSUME ManagerTypeOK, NEW t \in Tasks, NEW n \in Servers,
           NEW result \in {"ok", "skipped", "cancelled"}, End(t, n, result)
    PROVE  /\ job' \in [Tasks -> [Servers -> Job]]
           /\ job'[t][n].pc = "idle"
           /\ \A u \in Tasks, m \in Servers : u # t \/ m # n => job'[u][m] = job[u][m]
           /\ lock' \in [Servers -> Tasks \union {None}]
           /\ \A m \in Servers : lock[m] # t \/ m # n => lock'[m] = lock[m]
  <1> DEFINE j == [NoJob EXCEPT !.result = result]
  <1>1. j \in Job /\ j.pc = "idle"
    BY DEF NoJob, Job
  <1>2. job' = [job EXCEPT ![t][n] = j]
    BY DEF End
  <1> HIDE DEF j
  <1>3. /\ job' \in [Tasks -> [Servers -> Job]]
        /\ job'[t][n].pc = "idle"
        /\ \A u \in Tasks, m \in Servers : u # t \/ m # n => job'[u][m] = job[u][m]
    BY <1>1, <1>2 DEF ManagerTypeOK
  <1>4. /\ lock' \in [Servers -> Tasks \union {None}]
        /\ \A m \in Servers : lock[m] # t \/ m # n => lock'[m] = lock[m]
    BY DEF End, ManagerTypeOK
  <1> QED BY <1>3, <1>4

\* The calls that a Task starts wait for their locks.
LEMMA LaunchSound ==
    ASSUME ManagerTypeOK, NEW t \in Tasks, NEW kind \in {"connect", "disconnect"},
           NEW ns, Launch(t, kind, ns)
    PROVE  /\ job' \in [Tasks -> [Servers -> Job]]
           /\ \A n \in Servers : job'[t][n].pc \in {"idle", "lock"}
           /\ \A u \in Tasks : u # t => job'[u] = job[u]
  <1> DEFINE row == [n \in Servers |->
                        IF n \in ns THEN [NoJob EXCEPT !.kind = kind, !.pc = "lock"] ELSE NoJob]
  <1>1. \A n \in Servers : row[n] \in Job /\ row[n].pc \in {"idle", "lock"}
    BY DEF NoJob, Job
  <1>2. row \in [Servers -> Job]
    BY <1>1
  <1>3. job' = [job EXCEPT ![t] = row]
    BY DEF Launch
  <1> HIDE DEF row
  <1> QED BY <1>1, <1>2, <1>3 DEF ManagerTypeOK

-----------------------------------------------------------------------------
(* Parts of the invariant that whole groups of steps keep.                 *)

\* Owners that stay where they are, under tables that do not change.
LEMMA OwnersKept ==
    ASSUME ManagerTypeOK, OwnerInv, OrderInv, UNCHANGED tables,
           \A o \in Owners : own'[o].pc = own[o].pc /\ own'[o].name = own[o].name
    PROVE  OwnerInv' /\ OrderInv'
  <1>1. UNCHANGED <<owner, servers, order>>
    BY DEF tables
  <1>2. OwnerInv'
    BY <1>1, SMTT(30) DEF OwnerInv, Live, ManagerTypeOK
  <1>3. OrderInv'
    BY <1>1 DEF OrderInv
  <1> QED BY <1>2, <1>3

LEMMA ClosedKept ==
    ASSUME ClosedLeavesNothing, closing' = closing,
           \A o \in Owners : own'[o].pc # "done" => own[o].pc # "done"
    PROVE  ClosedLeavesNothing'
  BY DEF ClosedLeavesNothing, Live

\* An owner ends, whatever it answers: the names, the list and the other owners
\* are as they should be.
LEMMA ForgetSound ==
    ASSUME ManagerTypeOK, OwnerInv, OrderInv, NEW o \in Owners, Live(o), Forget(o),
           own' = [own EXCEPT ![o] = NoOwner]
    PROVE  /\ own' \in [Owners -> Owner]
           /\ owner' \in [Servers -> Owners \union {None}]
           /\ servers' \in [Servers -> Owners \union {None}]
           /\ order' \in Seq(Servers)
           /\ OwnerInv' /\ OrderInv'
           /\ \A p \in Owners : own'[p].pc # "done" => own[p].pc # "done"
           /\ \A m \in Servers : owner'[m] = owner[m] \/ owner'[m] = None
  <1> DEFINE n == own[o].name
  <1>1. n \in Servers /\ owner[n] = o
    BY DEF OwnerInv
  <1>2. o # None
    BY ManagerAssumption
  <1>3. /\ owner' = [owner EXCEPT ![n] = None]
        /\ servers' = IF servers[n] = o THEN [servers EXCEPT ![n] = None] ELSE servers
        /\ order' = RemoveAt(order, Place(n))
    BY <1>1, Zenon DEF Forget
  <1>4. NoOwner \in Owner /\ NoOwner.pc = "done"
    BY DEF NoOwner, Owner
  <1>5. /\ own' \in [Owners -> Owner]
        /\ \A p \in Owners : own'[p] = IF p = o THEN NoOwner ELSE own[p]
    BY <1>4 DEF ManagerTypeOK
  <1> HIDE DEF n
  <1>6. /\ owner' \in [Servers -> Owners \union {None}]
        /\ servers' \in [Servers -> Owners \union {None}]
        /\ \A m \in Servers : owner'[m] = IF m = n THEN None ELSE owner[m]
        /\ \A m \in Servers : m # n => servers'[m] = servers[m]
        /\ servers[n] = o => servers'[n] = None
        /\ servers[n] # o => servers'[n] = servers[n]
    BY <1>1, <1>3 DEF ManagerTypeOK
  <1>7. /\ order' \in Seq(Servers)
        /\ \A i, j \in 1..Len(order') : order'[i] = order'[j] => i = j
        /\ \A m \in Servers :
             (\E i \in 1..Len(order') : order'[i] = m) <=> m # n /\ owner[m] # None
    <2>1. order \in Seq(Servers) /\ owner[n] # None
      BY <1>1, <1>2 DEF ManagerTypeOK
    <2>2. order' = RemoveAt(order, Place(n))
      BY <1>3
    <2> DEFINE s == RemoveAt(order, Place(n))
    <2>3. /\ s \in Seq(Servers)
          /\ \A i, j \in 1..Len(s) : s[i] = s[j] => i = j
          /\ \A m \in Servers :
               (\E i \in 1..Len(s) : s[i] = m) <=> m # n /\ owner[m] # None
      BY <1>1, <2>1, NameRemoved, Zenon
    <2>4. order' = s
      BY <2>2
    <2> HIDE DEF s
    <2> QED BY <2>3, <2>4, ZenonT(60)
  <1>8. OrderInv'
    BY <1>6, <1>7 DEF OrderInv
  <1>9. OwnerInv'
    <2>1. servers'[n] = None
      BY <1>1, <1>6 DEF OwnerInv
    <2>2. ASSUME NEW p \in Owners, own'[p].pc # "done"
          PROVE  own'[p].name \in Servers /\ owner'[own'[p].name] = p
      <3>1. p # o /\ own'[p] = own[p]
        BY <1>4, <1>5, <2>2
      <3>2. own[p].name \in Servers /\ owner[own[p].name] = p
        BY <2>2, <3>1 DEF OwnerInv, Live
      <3>3. own[p].name # n
        BY <1>1, <3>1, <3>2
      <3> QED BY <1>6, <3>1, <3>2, <3>3
    <2>3. ASSUME NEW m \in Servers, owner'[m] # None
          PROVE  own'[owner'[m]].pc # "done" /\ own'[owner'[m]].name = m
      <3>1. m # n /\ owner'[m] = owner[m]
        BY <1>6, <2>3
      <3>2. own[owner[m]].pc # "done" /\ own[owner[m]].name = m /\ owner[m] \in Owners
        BY <2>3, <3>1 DEF OwnerInv, Live, ManagerTypeOK
      <3>3. owner[m] # o
        BY <1>1, <3>1, <3>2 DEF n
      <3> QED BY <1>5, <3>1, <3>2, <3>3
    <2>4. ASSUME NEW m \in Servers, servers'[m] # None
          PROVE  servers'[m] = owner'[m] /\ own'[owner'[m]].pc = "serving"
      <3>1. m # n /\ servers'[m] = servers[m] /\ owner'[m] = owner[m]
        BY <1>6, <2>1, <2>4
      <3>2. servers[m] = owner[m] /\ own[owner[m]].pc = "serving" /\ owner[m] \in Owners
        BY <2>4, <3>1 DEF OwnerInv, ManagerTypeOK
      <3>3. own[owner[m]].name = m
        BY <2>4, <3>1, <3>2 DEF OwnerInv
      <3>4. owner[m] # o
        BY <3>1, <3>3 DEF n
      <3> QED BY <1>5, <3>1, <3>2, <3>4
    <2> QED BY <2>2, <2>3, <2>4 DEF OwnerInv, Live
  <1> QED BY <1>4, <1>5, <1>6, <1>7, <1>8, <1>9

\* A call makes an owner for a name that has none.
LEMMA MakeSound ==
    ASSUME ManagerTypeOK, OwnerInv, OrderInv, NEW t \in Tasks, NEW n \in Servers,
           owner[n] = None, Make(t, n)
    PROVE  \E o \in Owners :
             /\ own' \in [Owners -> Owner]
             /\ owner' \in [Servers -> Owners \union {None}]
             /\ order' \in Seq(Servers)
             /\ job' \in [Tasks -> [Servers -> Job]]
             /\ OwnerInv' /\ OrderInv'
             /\ owner' = [owner EXCEPT ![n] = o]
             /\ job'[t][n].pc = "waiting"
             /\ \A u \in Tasks, m \in Servers : u # t \/ m # n => job'[u][m] = job[u][m]
             /\ UNCHANGED <<servers, lock, closing, cancelled>>
  <1> DEFINE o == CHOOSE x \in Owners : Free(x)
             r == [NoOwner EXCEPT !.name = n, !.pc = "connecting"]
             j == [job[t][n] EXCEPT !.pc = "waiting", !.old = o]
  <1>1. o \in Owners /\ Free(o)
    BY DEF Make
  <1>2. /\ own' = [own EXCEPT ![o] = r]
        /\ owner' = [owner EXCEPT ![n] = o]
        /\ order' = Append(order, n)
        /\ UNCHANGED <<servers, lock, closing, cancelled>>
    BY Zenon DEF Make
  <1>3. job' = [job EXCEPT ![t][n] = j]
    BY Zenon DEF Make
  <1>4. r \in Owner /\ r.pc = "connecting" /\ r.name = n
    BY DEF NoOwner, Owner
  <1>5. job[t][n] \in Job
    BY DEF ManagerTypeOK
  <1>6. j \in Job /\ j.pc = "waiting"
    BY <1>1, <1>5 DEF Job
  <1>8. own[o].pc = "done" /\ o # None
    BY <1>1, ManagerAssumption DEF Free, Live
  <1> HIDE DEF o, r, j
  <1>9. /\ job' \in [Tasks -> [Servers -> Job]]
        /\ job'[t][n].pc = "waiting"
        /\ \A u \in Tasks, m \in Servers : u # t \/ m # n => job'[u][m] = job[u][m]
    BY <1>3, <1>6, JobUpdate, ZenonT(60)
  <1>10. /\ own' \in [Owners -> Owner]
         /\ \A p \in Owners : own'[p] = IF p = o THEN r ELSE own[p]
         /\ owner' \in [Servers -> Owners \union {None}]
         /\ \A m \in Servers : owner'[m] = IF m = n THEN o ELSE owner[m]
    BY <1>1, <1>2, <1>4 DEF ManagerTypeOK
  <1>11. /\ order' \in Seq(Servers)
         /\ \A i, k \in 1..Len(order') : order'[i] = order'[k] => i = k
         /\ \A m \in Servers :
              (\E i \in 1..Len(order') : order'[i] = m) <=> m = n \/ owner[m] # None
    <2>1. order \in Seq(Servers)
      BY DEF ManagerTypeOK
    <2>2. order' = Append(order, n)
      BY <1>2
    <2> QED BY <2>1, <2>2, NameAppended, Zenon
  <1>12. OrderInv'
    BY <1>8, <1>10, <1>11 DEF OrderInv
  <1>13. \A m \in Servers : owner[m] # o
    BY <1>8 DEF OwnerInv, Live
  <1>14. OwnerInv'
    <2>1. ASSUME NEW p \in Owners, own'[p].pc # "done"
          PROVE  own'[p].name \in Servers /\ owner'[own'[p].name] = p
      <3>1. CASE p = o
        BY <1>4, <1>10, <3>1
      <3>2. CASE p # o
        <4>1. own'[p] = own[p]
          BY <1>10, <3>2
        <4>2. own[p].name \in Servers /\ owner[own[p].name] = p
          BY <2>1, <4>1 DEF OwnerInv, Live
        <4>3. own[p].name # n
          BY <4>2, ManagerAssumption
        <4> QED BY <1>10, <4>1, <4>2, <4>3
      <3> QED BY <3>1, <3>2
    <2>2. ASSUME NEW m \in Servers, owner'[m] # None
          PROVE  own'[owner'[m]].pc # "done" /\ own'[owner'[m]].name = m
      <3>1. CASE m = n
        BY <1>1, <1>4, <1>10, <3>1
      <3>2. CASE m # n
        <4>1. owner'[m] = owner[m] /\ owner[m] # o /\ owner[m] \in Owners
          BY <1>10, <1>13, <2>2, <3>2 DEF ManagerTypeOK
        <4>2. own[owner[m]].pc # "done" /\ own[owner[m]].name = m
          BY <2>2, <4>1 DEF OwnerInv, Live
        <4> QED BY <1>10, <4>1, <4>2
      <3> QED BY <3>1, <3>2
    <2>3. ASSUME NEW m \in Servers, servers'[m] # None
          PROVE  servers'[m] = owner'[m] /\ own'[owner'[m]].pc = "serving"
      <3>1. servers'[m] = servers[m] /\ servers[m] = owner[m] /\ own[owner[m]].pc = "serving"
        BY <1>2, <2>3 DEF OwnerInv
      <3>2. m # n /\ owner[m] \in Owners
        BY <2>3, <3>1 DEF ManagerTypeOK
      <3> QED BY <1>10, <1>13, <3>1, <3>2
    <2> QED BY <2>1, <2>2, <2>3 DEF OwnerInv, Live
  <1> QED BY <1>1, <1>2, <1>9, <1>10, <1>11, <1>12, <1>14

\* The calls and the locks stay as they are while owners end.
LEMMA LockKept ==
    ASSUME LockInv, UNCHANGED lock,
           \A t \in Tasks, n \in Servers :
              job'[t][n].pc = job[t][n].pc /\ job'[t][n].old = job[t][n].old,
           \A n \in Servers : owner'[n] = owner[n] \/ owner'[n] = None
    PROVE  LockInv'
  BY DEF LockInv

\* The call of t for n takes a step: no other call is concerned.
LEMMA LockStep ==
    ASSUME LockInv, NEW t \in Tasks, NEW n \in Servers,
           \A u \in Tasks, m \in Servers : u # t \/ m # n => job'[u][m] = job[u][m],
           \A m \in Servers : lock'[m] = lock[m] \/ (m = n /\ lock[n] \in {None, t}),
           \A m \in Servers : owner'[m] = owner[m] \/ (m = n /\ lock[n] = t),
           job'[t][n].pc \in {"stopping", "waiting", "undo"} => lock'[n] = t,
           job'[t][n].pc = "stopping" /\ owner'[n] # None => owner'[n] = job'[t][n].old
    PROVE  LockInv'
  <1> SUFFICES ASSUME NEW u \in Tasks, NEW m \in Servers
               PROVE  /\ job'[u][m].pc \in {"stopping", "waiting", "undo"} => lock'[m] = u
                      /\ job'[u][m].pc = "stopping" /\ owner'[m] # None
                            => owner'[m] = job'[u][m].old
    BY DEF LockInv
  <1>1. CASE u = t /\ m = n
    BY <1>1
  <1>2. CASE u # t \/ m # n
    <2>1. job'[u][m] = job[u][m]
      BY <1>2
    <2>2. u # None
      BY ManagerAssumption
    <2>3. ASSUME job[u][m].pc \in {"stopping", "waiting", "undo"}
          PROVE  lock'[m] = u /\ owner'[m] = owner[m]
      <3>1. lock[m] = u
        BY <2>3 DEF LockInv
      <3>2. m # n \/ lock[n] \notin {None, t}
        BY <1>2, <2>2, <3>1
      <3> QED BY <3>1, <3>2
    <2> QED BY <2>1, <2>3 DEF LockInv
  <1> QED BY <1>1, <1>2

\* The calls that t starts hold no lock yet.
LEMMA LockLaunched ==
    ASSUME LockInv, NEW t \in Tasks, UNCHANGED <<lock, owner>>,
           \A n \in Servers : job'[t][n].pc \in {"idle", "lock"},
           \A u \in Tasks : u # t => job'[u] = job[u]
    PROVE  LockInv'
  BY DEF LockInv

\* The session around the manager does not move.
LEMMA SessionKept ==
    ASSUME TypeOK, CountInv, BindInv, UNCHANGED svars, ManagerTypeOK'
    PROVE  TypeOK' /\ CountInv' /\ BindInv'
  <1>1. /\ UNCHANGED <<task, workspace, registry, handlers, reloading, enabled>>
        /\ UNCHANGED <<calls, edits, open, overlap, unread>>
    BY DEF svars
  <1>2. In({"configuring"})' = In({"configuring"})
    BY <1>1 DEF In
  <1>3. TypeOK'
    BY <1>1 DEF TypeOK
  <1>4. CountInv'
    BY <1>1, <1>2 DEF CountInv
  <1>5. BindInv'
    BY <1>1, <1>2 DEF BindInv
  <1> QED BY <1>3, <1>4, <1>5

-----------------------------------------------------------------------------
(* The steps of the manager.                                               *)

LEMMA OwnerStepSound ==
    ASSUME IInv, NEW o \in Owners, OwnerStep(o), UNCHANGED svars
    PROVE  IInv'
  <1>1. /\ TypeOK /\ ManagerTypeOK /\ OwnerInv /\ OrderInv /\ LockInv /\ CountInv
        /\ BindInv /\ ClosedLeavesNothing
    BY DEF IInv, TypeOK
  <1>2. own[o] \in Owner /\ own \in [Owners -> Owner]
    BY <1>1 DEF ManagerTypeOK
  <1> SUFFICES /\ ManagerTypeOK' /\ OwnerInv' /\ OrderInv' /\ LockInv'
               /\ ClosedLeavesNothing'
    BY <1>1, SessionKept DEF IInv
  \* An owner that ends, whatever it has answered before.
  <1>3. ASSUME Live(o), own' = [own EXCEPT ![o] = NoOwner], Forget(o), UNCHANGED callers,
               \/ UNCHANGED job
               \/ Answer(o, "error")
               \/ Answer(o, "cancelled")
        PROVE  /\ ManagerTypeOK' /\ OwnerInv' /\ OrderInv' /\ LockInv'
               /\ ClosedLeavesNothing'
    <2>1. /\ own' \in [Owners -> Owner]
          /\ owner' \in [Servers -> Owners \union {None}]
          /\ servers' \in [Servers -> Owners \union {None}]
          /\ order' \in Seq(Servers)
          /\ OwnerInv' /\ OrderInv'
          /\ \A p \in Owners : own'[p].pc # "done" => own[p].pc # "done"
          /\ \A m \in Servers : owner'[m] = owner[m] \/ owner'[m] = None
      BY <1>1, <1>3, ForgetSound
    <2>2. UNCHANGED <<lock, closing, cancelled>>
      BY <1>3 DEF callers
    <2>3. /\ job' \in [Tasks -> [Servers -> Job]]
          /\ \A t \in Tasks, n \in Servers :
                job'[t][n].pc = job[t][n].pc /\ job'[t][n].old = job[t][n].old
      <3>1. CASE UNCHANGED job
        BY <1>1, <3>1 DEF ManagerTypeOK
      <3>2. CASE Answer(o, "error")
        BY <1>1, <3>2, AnswerSound
      <3>3. CASE Answer(o, "cancelled")
        BY <1>1, <3>3, AnswerSound
      <3> QED BY <1>3, <3>1, <3>2, <3>3
    <2>4. ManagerTypeOK'
      BY <1>1, <2>1, <2>2, <2>3 DEF ManagerTypeOK
    <2>5. LockInv'
      BY <1>1, <2>1, <2>2, <2>3, LockKept
    <2>6. ClosedLeavesNothing'
      BY <1>1, <2>1, <2>2, ClosedKept
    <2> QED BY <2>1, <2>4, <2>5, <2>6
  <1>4. CASE Connected(o)
    <2> DEFINE n == own[o].name
    <2>1. /\ own[o].pc = "connecting"
          /\ own' = [own EXCEPT ![o].pc = "serving"]
          /\ Answer(o, "tools")
          /\ UNCHANGED <<owner, order, lock, closing, cancelled>>
      BY <1>4 DEF Connected, callers
    <2>2. Live(o) /\ n \in Servers /\ owner[n] = o
      BY <1>1, <2>1 DEF Live, OwnerInv
    <2>3. servers' = [servers EXCEPT ![n] = o]
      BY <1>4, <2>2 DEF Connected
    <2>4. /\ own' \in [Owners -> Owner]
          /\ own'[o].pc = "serving" /\ own'[o].name = n
          /\ \A p \in Owners : p # o => own'[p] = own[p]
      <3>1. [own[o] EXCEPT !.pc = "serving"] \in Owner
        BY <1>2 DEF Owner
      <3> QED BY <1>2, <2>1, <3>1 DEF Owner
    <2>5. /\ job' \in [Tasks -> [Servers -> Job]]
          /\ \A t \in Tasks, m \in Servers :
                job'[t][m].pc = job[t][m].pc /\ job'[t][m].old = job[t][m].old
      BY <1>1, <2>1, AnswerSound
    <2> HIDE DEF n
    <2>6. /\ servers' \in [Servers -> Owners \union {None}]
          /\ servers'[n] = o
          /\ \A m \in Servers : m # n => servers'[m] = servers[m]
      BY <1>1, <2>2, <2>3 DEF ManagerTypeOK
    <2>7. ManagerTypeOK'
      BY <1>1, <2>1, <2>4, <2>5, <2>6 DEF ManagerTypeOK
    <2>8. OwnerInv'
      <3>1. \A p \in Owners : own'[p].name = own[p].name /\ (own'[p].pc = "done" <=> own[p].pc = "done")
        BY <2>1, <2>4 DEF n
      <3>2. \A m \in Servers : owner[m] # None => owner[m] \in Owners
        BY <1>1 DEF ManagerTypeOK
      <3>3. ASSUME NEW m \in Servers, servers'[m] # None
            PROVE  servers'[m] = owner[m] /\ own'[owner[m]].pc = "serving"
        <4>1. CASE m = n
          BY <2>2, <2>4, <2>6, <4>1
        <4>2. CASE m # n
          <5>1. servers[m] = owner[m] /\ own[owner[m]].pc = "serving"
            BY <1>1, <2>6, <3>3, <4>2 DEF OwnerInv
          <5> QED BY <2>4, <2>6, <3>2, <3>3, <4>2, <5>1
        <4> QED BY <4>1, <4>2
      <3> QED BY <1>1, <2>1, <3>1, <3>2, <3>3 DEF OwnerInv, Live
    <2>9. OrderInv'
      BY <1>1, <2>1 DEF OrderInv
    <2>10. LockInv'
      BY <1>1, <2>1, <2>5, LockKept
    <2>11. ClosedLeavesNothing'
      BY <1>1, <2>1, <2>4, ClosedKept
    <2> QED BY <2>7, <2>8, <2>9, <2>10, <2>11
  <1>5. CASE OpenFails(o)
    <2>1. /\ own[o].pc = "connecting"
          /\ own' = [own EXCEPT ![o].pc = IF own[o].cancel THEN "aborting" ELSE "failing",
                                ![o].cancel = FALSE]
          /\ UNCHANGED <<owner, servers, order, job, lock, closing, cancelled>>
      BY <1>5 DEF OpenFails, callers, tables
    <2>2. /\ own' \in [Owners -> Owner]
          /\ own'[o].pc \in {"aborting", "failing"} /\ own'[o].name = own[o].name
          /\ \A p \in Owners : p # o => own'[p] = own[p]
      <3> DEFINE r == [own[o] EXCEPT !.pc = IF own[o].cancel THEN "aborting" ELSE "failing",
                                     !.cancel = FALSE]
      <3>1. r \in Owner /\ r.pc \in {"aborting", "failing"} /\ r.name = own[o].name
        BY <1>2 DEF Owner
      <3>2. own' = [own EXCEPT ![o] = r]
        BY <1>2, <2>1
      <3> HIDE DEF r
      <3> QED BY <1>2, <3>1, <3>2
    <2>3. ManagerTypeOK'
      BY <1>1, <2>1, <2>2 DEF ManagerTypeOK
    <2>4. OwnerInv'
      <3>1. \A p \in Owners : own'[p].name = own[p].name /\ (own'[p].pc = "done" <=> own[p].pc = "done")
        BY <2>1, <2>2
      <3>2. \A m \in Servers : owner[m] # None => owner[m] \in Owners
        BY <1>1 DEF ManagerTypeOK
      <3>3. ASSUME NEW m \in Servers, servers[m] # None
            PROVE  servers[m] = owner[m] /\ own'[owner[m]].pc = "serving"
        BY <1>1, <2>1, <2>2, <3>2, <3>3 DEF OwnerInv
      <3>4. owner' = owner /\ servers' = servers
        BY <2>1
      <3> QED BY <1>1, <3>1, <3>2, <3>3, <3>4 DEF OwnerInv, Live
    <2>5. OrderInv' /\ LockInv'
      BY <1>1, <2>1 DEF OrderInv, LockInv
    <2>6. ClosedLeavesNothing'
      BY <1>1, <2>1, <2>2, ClosedKept
    <2> QED BY <2>3, <2>4, <2>5, <2>6
  <1>6. CASE OpenClosed(o)
    BY <1>3, <1>6, Zenon DEF OpenClosed, Live
  <1>7. CASE StopsServing(o)
    <2> DEFINE n == own[o].name
    <2>1. /\ own[o].pc = "serving"
          /\ own' = [own EXCEPT ![o].pc = "closing"]
          /\ servers' = IF servers[n] = o THEN [servers EXCEPT ![n] = None] ELSE servers
          /\ UNCHANGED <<owner, order, job, lock, closing, cancelled>>
      BY <1>7 DEF StopsServing, callers
    <2>2. Live(o) /\ n \in Servers /\ owner[n] = o
      BY <1>1, <2>1 DEF Live, OwnerInv
    <2>3. /\ own' \in [Owners -> Owner]
          /\ own'[o].pc = "closing" /\ own'[o].name = n
          /\ \A p \in Owners : p # o => own'[p] = own[p]
      <3>1. [own[o] EXCEPT !.pc = "closing"] \in Owner
        BY <1>2 DEF Owner
      <3> QED BY <1>2, <2>1, <3>1 DEF Owner
    <2> HIDE DEF n
    <2>4. /\ servers' \in [Servers -> Owners \union {None}]
          /\ servers'[n] # o
          /\ \A m \in Servers : m # n => servers'[m] = servers[m]
          /\ servers[n] # o => servers'[n] = servers[n]
          /\ servers[n] = o => servers'[n] = None
      BY <1>1, <2>1, <2>2, ManagerAssumption DEF ManagerTypeOK
    <2>5. ManagerTypeOK'
      BY <1>1, <2>1, <2>3, <2>4 DEF ManagerTypeOK
    <2>6. OwnerInv'
      <3>1. \A p \in Owners : own'[p].name = own[p].name /\ (own'[p].pc = "done" <=> own[p].pc = "done")
        BY <2>1, <2>3 DEF n
      <3>2. \A m \in Servers : owner[m] # None => owner[m] \in Owners
        BY <1>1 DEF ManagerTypeOK
      <3>3. ASSUME NEW m \in Servers, servers'[m] # None
            PROVE  servers'[m] = owner[m] /\ own'[owner[m]].pc = "serving"
        <4>1. m # n
          <5>1. servers[n] # None => servers[n] = o
            BY <1>1, <2>2 DEF OwnerInv
          <5> QED BY <2>4, <3>3, <5>1
        <4>2. servers[m] = owner[m] /\ own[owner[m]].pc = "serving" /\ own[owner[m]].name = m
          BY <1>1, <2>4, <3>3, <4>1 DEF OwnerInv
        <4>3. owner[m] # o
          BY <4>1, <4>2 DEF n
        <4> QED BY <2>3, <2>4, <3>2, <3>3, <4>1, <4>2, <4>3
      <3> QED BY <1>1, <2>1, <3>1, <3>2, <3>3 DEF OwnerInv, Live
    <2>7. OrderInv' /\ LockInv'
      BY <1>1, <2>1 DEF OrderInv, LockInv
    <2>8. ClosedLeavesNothing'
      BY <1>1, <2>1, <2>3, ClosedKept
    <2> QED BY <2>5, <2>6, <2>7, <2>8
  <1>8. CASE Closes(o)
    <2>1. Live(o) /\ own' = [own EXCEPT ![o] = NoOwner] /\ Forget(o) /\ UNCHANGED callers
      BY <1>8 DEF Closes, Live
    <2>2. UNCHANGED job
      BY <1>8 DEF Closes
    <2> QED BY <1>3, <2>1, <2>2
  <1> QED BY <1>4, <1>5, <1>6, <1>7, <1>8 DEF OwnerStep

LEMMA JobStepSound ==
    ASSUME IInv, NEW t \in Tasks, NEW n \in Servers, JobStep(t, n), UNCHANGED svars
    PROVE  IInv'
  <1>1. /\ TypeOK /\ ManagerTypeOK /\ OwnerInv /\ OrderInv /\ LockInv /\ CountInv
        /\ BindInv /\ ClosedLeavesNothing
    BY DEF IInv, TypeOK
  <1>2. job[t][n] \in Job /\ own \in [Owners -> Owner]
    BY <1>1 DEF ManagerTypeOK
  <1> SUFFICES /\ ManagerTypeOK' /\ OwnerInv' /\ OrderInv' /\ LockInv'
               /\ ClosedLeavesNothing'
    BY <1>1, SessionKept DEF IInv
  \* A call that ends leaves the owners alone.
  <1>3. ASSUME NEW result \in {"ok", "skipped", "cancelled"}, End(t, n, result),
               UNCHANGED <<own, tables, closing, cancelled>>
        PROVE  /\ ManagerTypeOK' /\ OwnerInv' /\ OrderInv' /\ LockInv'
               /\ ClosedLeavesNothing'
    <2>1. /\ job' \in [Tasks -> [Servers -> Job]]
          /\ job'[t][n].pc = "idle"
          /\ \A u \in Tasks, m \in Servers : u # t \/ m # n => job'[u][m] = job[u][m]
          /\ lock' \in [Servers -> Tasks \union {None}]
          /\ \A m \in Servers : lock[m] # t \/ m # n => lock'[m] = lock[m]
      BY <1>1, <1>3, EndSound
    <2>2. UNCHANGED <<own, owner, servers, order, closing, cancelled>>
      BY <1>3 DEF tables
    <2>3. ManagerTypeOK'
      BY <1>1, <2>1, <2>2 DEF ManagerTypeOK
    <2>4. OwnerInv' /\ OrderInv'
      BY <1>1, <1>3, <2>2, OwnersKept
    <2>5. /\ \A m \in Servers : lock'[m] = lock[m] \/ (m = n /\ lock[n] \in {None, t})
          /\ \A m \in Servers : owner'[m] = owner[m] \/ (m = n /\ lock[n] = t)
          /\ job'[t][n].pc \notin {"stopping", "waiting", "undo"}
      <3>1. \A m \in Servers : lock'[m] = lock[m] \/ (m = n /\ lock[n] \in {None, t})
        BY <2>1
      <3>2. \A m \in Servers : owner'[m] = owner[m]
        BY <2>2
      <3>3. job'[t][n].pc \notin {"stopping", "waiting", "undo"}
        BY <2>1
      <3> QED BY <3>1, <3>2, <3>3
    <2>6. LockInv'
      BY <1>1, <2>1, <2>5, LockStep
    <2>7. ClosedLeavesNothing'
      BY <1>1, <2>2, ClosedKept
    <2> QED BY <2>3, <2>4, <2>6, <2>7
  \* A call that stops the owner of the name waits for it, under the lock.
  <1>4. ASSUME NEW pc \in {"stopping", "undo"}, own' = StopRequested({owner[n]}),
               job' = [job EXCEPT ![t][n] = [@ EXCEPT !.pc = pc, !.old = owner[n]]],
               lock' = [lock EXCEPT ![n] = t], lock[n] \in {None, t},
               UNCHANGED <<tables, closing, cancelled>>
        PROVE  /\ ManagerTypeOK' /\ OwnerInv' /\ OrderInv' /\ LockInv'
               /\ ClosedLeavesNothing'
    <2> DEFINE j == [job[t][n] EXCEPT !.pc = pc, !.old = owner[n]]
    <2>1. owner[n] \in Owners \union {None}
      BY <1>1 DEF ManagerTypeOK
    <2>2. j \in Job /\ j.pc = pc /\ j.old = owner[n]
      BY <1>2, <1>4, <2>1 DEF Job
    <2>3. job' = [job EXCEPT ![t][n] = j]
      BY <1>4
    <2> HIDE DEF j
    <2>4. /\ job' \in [Tasks -> [Servers -> Job]]
          /\ job'[t][n] = j
          /\ \A u \in Tasks, m \in Servers : u # t \/ m # n => job'[u][m] = job[u][m]
      <3>1. job \in [Tasks -> [Servers -> Job]]
        BY <1>1 DEF ManagerTypeOK
      <3> QED BY <2>2, <2>3, <3>1
    <2>5. /\ own' \in [Owners -> Owner]
          /\ \A o \in Owners : own'[o].pc = own[o].pc /\ own'[o].name = own[o].name
      BY <1>2, <1>4, StopRequestedSound
    <2>6. UNCHANGED <<owner, servers, order, closing, cancelled>>
      BY <1>4 DEF tables
    <2>7. /\ lock' \in [Servers -> Tasks \union {None}]
          /\ lock'[n] = t
          /\ \A m \in Servers : m # n => lock'[m] = lock[m]
      BY <1>1, <1>4 DEF ManagerTypeOK
    <2>8. ManagerTypeOK'
      BY <1>1, <2>4, <2>5, <2>6, <2>7 DEF ManagerTypeOK
    <2>9. OwnerInv' /\ OrderInv'
      BY <1>1, <1>4, <2>5, OwnersKept
    <2>10. LockInv'
      <3>1. /\ \A m \in Servers : lock'[m] = lock[m] \/ (m = n /\ lock[n] \in {None, t})
            /\ \A m \in Servers : owner'[m] = owner[m] \/ (m = n /\ lock[n] = t)
            /\ owner'[n] = job'[t][n].old
        <4>1. \A m \in Servers : lock'[m] = lock[m] \/ (m = n /\ lock[n] \in {None, t})
          BY <1>4, <2>7
        <4>2. \A m \in Servers : owner'[m] = owner[m]
          BY <2>6
        <4>3. owner'[n] = job'[t][n].old
          BY <2>2, <2>4, <2>6
        <4> QED BY <4>1, <4>2, <4>3
      <3> QED BY <1>1, <2>4, <2>7, <3>1, LockStep
    <2>11. ClosedLeavesNothing'
      BY <1>1, <2>5, <2>6, ClosedKept
    <2> QED BY <2>8, <2>9, <2>10, <2>11
  <1>5. CASE TakeLock(t, n)
    <2>1. lock[n] = None /\ lock' = [lock EXCEPT ![n] = t]
      BY <1>5 DEF TakeLock
    <2> QED BY <1>4, <1>5, <2>1 DEF TakeLock
  <1>6. CASE Create(t, n)
    <2>1. CASE closing = "no" /\ Make(t, n)
      <3>1. job[t][n].pc = "stopping" /\ Ended(job[t][n].old)
        BY <1>6 DEF Create, StoppedForConnect
      <3>2. lock[n] = t
        BY <1>1, <3>1 DEF LockInv
      \* The old owner is gone, and nobody else can have made one.
      <3>3. owner[n] = None
        <4> SUFFICES ASSUME owner[n] # None PROVE FALSE
          OBVIOUS
        <4>1. owner[n] = job[t][n].old
          BY <1>1, <3>1 DEF LockInv
        <4>2. Live(owner[n])
          BY <1>1 DEF OwnerInv
        <4> QED BY <3>1, <4>1, <4>2 DEF Ended
      <3>4. PICK o \in Owners :
              /\ own' \in [Owners -> Owner]
              /\ owner' \in [Servers -> Owners \union {None}]
              /\ order' \in Seq(Servers)
              /\ job' \in [Tasks -> [Servers -> Job]]
              /\ OwnerInv' /\ OrderInv'
              /\ owner' = [owner EXCEPT ![n] = o]
              /\ job'[t][n].pc = "waiting"
              /\ \A u \in Tasks, m \in Servers : u # t \/ m # n => job'[u][m] = job[u][m]
              /\ UNCHANGED <<servers, lock, closing, cancelled>>
        BY <1>1, <2>1, <3>3, MakeSound
      <3>5. ManagerTypeOK'
        BY <1>1, <3>4 DEF ManagerTypeOK
      <3>6. \A m \in Servers : owner'[m] = owner[m] \/ (m = n /\ lock[n] = t)
        BY <1>1, <3>2, <3>4 DEF ManagerTypeOK
      <3>7. LockInv'
        BY <1>1, <3>2, <3>4, <3>6, LockStep
      <3>8. ClosedLeavesNothing'
        BY <2>1, <3>4 DEF ClosedLeavesNothing
      <3> QED BY <3>4, <3>5, <3>7, <3>8
    <2>2. CASE End(t, n, "skipped") /\ UNCHANGED <<own, tables, closing, cancelled>>
      BY <1>3, <2>2
    <2> QED BY <1>6, <2>1, <2>2 DEF Create
  <1>7. CASE Disconnected(t, n)
    BY <1>3, <1>7 DEF Disconnected
  <1>8. CASE Answered(t, n)
    BY <1>3, <1>8, Zenon DEF Answered
  <1>9. CASE Undo(t, n)
    <2>1. lock[n] = t
      BY <1>1, <1>9 DEF Undo, LockInv
    <2>2. lock' = [lock EXCEPT ![n] = t]
      BY <1>1, <1>9, <2>1 DEF Undo, ManagerTypeOK
    <2> QED BY <1>4, <1>9, <2>1, <2>2 DEF Undo
  <1>10. CASE Undone(t, n)
    BY <1>3, <1>10 DEF Undone
  <1>11. CASE CancelledEarly(t, n)
    BY <1>3, <1>11 DEF CancelledEarly
  <1> QED BY <1>5, <1>6, <1>7, <1>8, <1>9, <1>10, <1>11 DEF JobStep

\* Closing stops every owner there is; once they have ended, no owner is left.
LEMMA CloseSound ==
    ASSUME IInv, CloseAll \/ AllClosed, UNCHANGED svars
    PROVE  IInv'
  <1>1. /\ TypeOK /\ ManagerTypeOK /\ OwnerInv /\ OrderInv /\ LockInv /\ CountInv
        /\ BindInv /\ ClosedLeavesNothing
    BY DEF IInv, TypeOK
  <1> SUFFICES /\ ManagerTypeOK' /\ OwnerInv' /\ OrderInv' /\ LockInv'
               /\ ClosedLeavesNothing'
    BY <1>1, SessionKept DEF IInv
  <1>2. CASE CloseAll
    <2>1. /\ closing' = "stopping"
          /\ own' = StopRequested({owner[n] : n \in Servers} \ {None})
          /\ UNCHANGED <<owner, servers, order, lock, job, cancelled>>
          /\ UNCHANGED tables
      BY <1>2 DEF CloseAll, tables
    <2>2. own \in [Owners -> Owner]
      BY <1>1 DEF ManagerTypeOK
    <2>3. /\ own' \in [Owners -> Owner]
          /\ \A o \in Owners : own'[o].pc = own[o].pc /\ own'[o].name = own[o].name
      BY <2>1, <2>2, StopRequestedSound
    <2>4. ManagerTypeOK'
      BY <1>1, <2>1, <2>3 DEF ManagerTypeOK
    <2>5. OwnerInv' /\ OrderInv'
      BY <1>1, <2>1, <2>3, OwnersKept
    <2>6. LockInv' /\ ClosedLeavesNothing'
      BY <1>1, <2>1 DEF LockInv, ClosedLeavesNothing
    <2> QED BY <2>4, <2>5, <2>6
  <1>3. CASE AllClosed
    <2>1. /\ \A n \in Servers : Ended(owner[n])
          /\ closing' = "done"
          /\ UNCHANGED <<own, owner, servers, order, lock, job, cancelled>>
          /\ UNCHANGED tables
      BY <1>3 DEF AllClosed, tables
    <2>2. ManagerTypeOK'
      BY <1>1, <2>1 DEF ManagerTypeOK
    <2>3. OwnerInv' /\ OrderInv'
      BY <1>1, <2>1, OwnersKept
    <2>4. LockInv'
      BY <1>1, <2>1 DEF LockInv
    <2>5. ASSUME NEW o \in Owners, Live(o) PROVE FALSE
      <3>1. own[o].name \in Servers /\ owner[own[o].name] = o
        BY <1>1, <2>5 DEF OwnerInv
      <3> QED BY <2>1, <2>5, <3>1, ManagerAssumption DEF Ended
    <2>6. ClosedLeavesNothing'
      BY <2>1, <2>5 DEF ClosedLeavesNothing, Live
    <2> QED BY <2>2, <2>3, <2>4, <2>6
  <1> QED BY <1>2, <1>3

-----------------------------------------------------------------------------
(* The steps of the session.                                               *)

\* Who configures, when only t moves.
LEMMA Configuring ==
    ASSUME TypeOK, task' \in [Tasks -> Task], NEW t \in Tasks,
           \A u \in Tasks : u # t => task'[u] = task[u]
    PROVE  In({"configuring"})' = IF task'[t].pc = "configuring"
                                  THEN In({"configuring"}) \union {t}
                                  ELSE In({"configuring"}) \ {t}
  BY DEF In

\* A Task that stops configuring, or goes on with something else.
LEMMA CountKept ==
    ASSUME TypeOK, CountInv, task' \in [Tasks -> Task], NEW t \in Tasks,
           \A u \in Tasks : u # t => task'[u] = task[u],
           task'[t].pc # "configuring", UNCHANGED <<handlers, calls>>
    PROVE  CountInv'
  <1> DEFINE C == In({"configuring"})
             D == In({"configuring"})'
  <1>1. D = C \ {t}
    BY Configuring
  <1>2. IsFiniteSet(C) /\ handlers + Cardinality(C) <= calls
    BY DEF CountInv
  <1>3. /\ IsFiniteSet(C \ {t}) /\ Cardinality(C) \in Nat
        /\ Cardinality(C \ {t}) = IF t \in C THEN Cardinality(C) - 1 ELSE Cardinality(C)
    BY <1>2, FS_RemoveElement, FS_CardinalityType
  <1>4. handlers \in Nat /\ calls \in Nat
    BY SessionAssumption DEF TypeOK
  <1>5. CountInv' <=> IsFiniteSet(D) /\ handlers' + Cardinality(D) <= calls'
    BY DEF CountInv
  <1> HIDE DEF C, D
  <1> QED BY <1>1, <1>2, <1>3, <1>4, <1>5

\* What the steps of a Task that do not configure leave alone.
LEMMA BindKept ==
    ASSUME TypeOK, BindInv, task' \in [Tasks -> Task], NEW t \in Tasks,
           \A u \in Tasks : u # t => task'[u] = task[u],
           task'[t].pc # "configuring", UNCHANGED <<workspace, handlers, overlap>>
    PROVE  BindInv'
  <1>1. In({"configuring"})' = In({"configuring"}) \ {t}
    BY Configuring
  <1>2. \A u \in In({"configuring"})' : u \in In({"configuring"}) /\ task'[u] = task[u]
    BY <1>1 DEF In
  <1> QED BY <1>1, <1>2 DEF BindInv

\* The Task t goes on, and starts calls of the manager or none.
LEMMA TaskMoves ==
    ASSUME IInv, NEW t \in Tasks, task' \in [Tasks -> Task],
           \A u \in Tasks : u # t => task'[u] = task[u],
           task'[t].pc # "configuring",
           UNCHANGED <<own, tables, lock, closing, workspace, handlers, calls, overlap>>,
           \/ UNCHANGED job
           \/ \E kind \in {"connect", "disconnect"}, ns \in SUBSET Servers : Launch(t, kind, ns),
           cancelled' \in SUBSET Tasks,
           registry' \in [Servers -> Owners \union {None}],
           reloading' \in Tasks \union {None},
           UNCHANGED <<enabled, edits, open>>, unread' \in BOOLEAN
    PROVE  IInv'
  <1>1. /\ TypeOK /\ ManagerTypeOK /\ OwnerInv /\ OrderInv /\ LockInv /\ CountInv
        /\ BindInv /\ ClosedLeavesNothing
    BY DEF IInv, TypeOK
  <1>2. UNCHANGED <<own, owner, servers, order, lock, closing>>
    BY DEF tables
  <1>3. job' \in [Tasks -> [Servers -> Job]] /\ LockInv'
    <2>1. CASE UNCHANGED job
      BY <1>1, <1>2, <2>1 DEF ManagerTypeOK, LockInv
    <2>2. ASSUME NEW kind \in {"connect", "disconnect"}, NEW ns \in SUBSET Servers,
                 Launch(t, kind, ns)
          PROVE  job' \in [Tasks -> [Servers -> Job]] /\ LockInv'
      <3>1. /\ job' \in [Tasks -> [Servers -> Job]]
            /\ \A n \in Servers : job'[t][n].pc \in {"idle", "lock"}
            /\ \A u \in Tasks : u # t => job'[u] = job[u]
        BY <1>1, <2>2, LaunchSound
      <3>2. UNCHANGED <<lock, owner>>
        BY <1>2
      <3> QED BY <1>1, <3>1, <3>2, LockLaunched
    <2> QED BY <2>1, <2>2
  <1>4. ManagerTypeOK'
    BY <1>1, <1>2, <1>3 DEF ManagerTypeOK
  <1>5. TypeOK'
    BY <1>1, <1>4 DEF TypeOK
  <1>6. OwnerInv' /\ OrderInv' /\ ClosedLeavesNothing'
    BY <1>1, <1>2 DEF OwnerInv, OrderInv, ClosedLeavesNothing, Live
  <1>7. CountInv'
    BY <1>1, CountKept
  <1>8. BindInv'
    BY <1>1, BindKept
  <1> QED BY <1>3, <1>5, <1>6, <1>7, <1>8 DEF IInv

LEMMA NoTaskType == NoTask \in Task /\ NoTask.pc = "idle"
  BY DEF NoTask, Task

LEMMA CallSound ==
    ASSUME IInv, NEW t \in Tasks, NEW kind \in {"run", "reload"}, NEW ws \in Workspaces,
           Call(t, kind, ws)
    PROVE  IInv'
  <1>1. /\ TypeOK /\ ManagerTypeOK /\ OwnerInv /\ OrderInv /\ LockInv /\ CountInv
        /\ BindInv /\ ClosedLeavesNothing
    BY DEF IInv, TypeOK
  <1>2. /\ calls < MaxCalls /\ calls' = calls + 1 /\ task[t].pc = "idle"
        /\ UNCHANGED <<own, owner, servers, order, lock, closing, cancelled>>
        /\ UNCHANGED <<workspace, registry, handlers, reloading, enabled, edits, open, unread>>
    BY DEF Call, Unused, managerExceptJobs, tables
  <1>3. calls' \in 0..MaxCalls /\ calls \in Nat /\ handlers \in Nat
    BY <1>1, <1>2, SessionAssumption DEF TypeOK
  <1>4. OwnerInv' /\ OrderInv' /\ ClosedLeavesNothing'
    BY <1>1, <1>2 DEF OwnerInv, OrderInv, ClosedLeavesNothing, Live
  <1> DEFINE C == In({"configuring"})
             D == In({"configuring"})'
  <1>5. IsFiniteSet(C) /\ handlers + Cardinality(C) <= calls /\ Cardinality(C) \in Nat
    BY <1>1, FS_CardinalityType DEF CountInv
  <1>6. t \notin C
    BY <1>2 DEF In
  <1>7. CountInv' <=> IsFiniteSet(D) /\ handlers' + Cardinality(D) <= calls'
    BY DEF CountInv
  <1>8. CASE workspace = None
    <2> DEFINE r == [NoTask EXCEPT !.kind = kind, !.ws = ws, !.pc = "configuring"]
    <2>1. r \in Task /\ r.pc = "configuring" /\ r.ws = ws
      BY DEF NoTask, Task
    <2>2. /\ task' = [task EXCEPT ![t] = r]
          /\ Launch(t, "connect", enabled)
          /\ overlap' = (overlap \/ C # {})
      BY <1>8 DEF Call
    <2> HIDE DEF r
    <2>3. /\ task' \in [Tasks -> Task] /\ task'[t] = r
          /\ \A u \in Tasks : u # t => task'[u] = task[u]
      BY <1>1, <2>1, <2>2 DEF TypeOK
    <2>4. /\ job' \in [Tasks -> [Servers -> Job]]
          /\ \A n \in Servers : job'[t][n].pc \in {"idle", "lock"}
          /\ \A u \in Tasks : u # t => job'[u] = job[u]
      BY <1>1, <2>2, LaunchSound
    <2>5. LockInv'
      <3>1. UNCHANGED <<lock, owner>>
        BY <1>2
      <3> QED BY <1>1, <2>4, <3>1, LockLaunched
    <2>6. TypeOK'
      <3>1. overlap' \in BOOLEAN
        BY <2>2
      <3> QED BY <1>1, <1>2, <1>3, <2>3, <2>4, <3>1 DEF TypeOK, ManagerTypeOK
    <2>7. D = C \union {t}
      BY <1>1, <2>1, <2>3, Configuring
    <2>8. CountInv'
      <3>1. IsFiniteSet(C \union {t}) /\ Cardinality(C \union {t}) = Cardinality(C) + 1
        BY <1>5, <1>6, FS_AddElement
      <3> HIDE DEF C, D
      <3> QED BY <1>2, <1>3, <1>5, <1>7, <2>7, <3>1
    <2>9. BindInv'
      <3>1. \A u \in D : task'[u].ws # None
        <4>1. ws # None
          BY SessionAssumption
        <4>2. \A u \in C : u # t /\ u \in Tasks /\ task[u].ws # None
          BY <1>1, <1>6 DEF BindInv, In
        <4> QED BY <2>1, <2>3, <2>7, <4>1, <4>2
      <3>2. ~overlap' => ~overlap /\ D = {t}
        BY <2>2, <2>7
      <3>3. workspace' = None /\ handlers' = handlers
        BY <1>2, <1>8
      <3>4. ~overlap => handlers = 0
        BY <1>1, <1>8 DEF BindInv
      <3> QED BY <3>1, <3>2, <3>3, <3>4 DEF BindInv
    <2> QED BY <1>4, <2>5, <2>6, <2>8, <2>9 DEF IInv
  <1>9. CASE workspace # None
    <2> DEFINE r == [NoTask EXCEPT !.kind = kind, !.pc = "locking"]
    <2>1. r \in Task /\ r.pc = "locking"
      BY DEF NoTask, Task
    <2>2. task' = [task EXCEPT ![t] = r] \/ task' = task
      BY <1>9 DEF Call
    <2>3. Launch(t, "connect", {}) /\ UNCHANGED overlap
      BY <1>9 DEF Call
    <2>3a. /\ job' \in [Tasks -> [Servers -> Job]]
           /\ \A n \in Servers : job'[t][n].pc \in {"idle", "lock"}
           /\ \A u \in Tasks : u # t => job'[u] = job[u]
      BY <1>1, <2>3, LaunchSound
    <2> HIDE DEF r
    <2>4. /\ task' \in [Tasks -> Task] /\ task'[t].pc # "configuring"
          /\ \A u \in Tasks : u # t => task'[u] = task[u]
      BY <1>1, <1>2, <2>1, <2>2 DEF TypeOK
    <2>5. LockInv'
      <3>1. UNCHANGED <<lock, owner>>
        BY <1>2
      <3> QED BY <1>1, <2>3a, <3>1, LockLaunched
    <2>6. TypeOK'
      BY <1>1, <1>2, <1>3, <2>3, <2>3a, <2>4 DEF TypeOK, ManagerTypeOK
    <2>7. D = C
      <3>1. D = C \ {t}
        BY <1>1, <2>4, Configuring
      <3> QED BY <1>6, <3>1
    <2>8. CountInv'
      <3> HIDE DEF C, D
      <3> QED BY <1>2, <1>3, <1>5, <1>7, <2>7
    <2>9. BindInv'
      BY <1>1, <1>2, <2>3, <2>4, BindKept
    <2> QED BY <1>4, <2>5, <2>6, <2>8, <2>9 DEF IInv
  <1> QED BY <1>8, <1>9

LEMMA ConfiguredSound ==
    ASSUME IInv, NEW t \in Tasks, Configured(t)
    PROVE  IInv'
  <1>1. /\ TypeOK /\ ManagerTypeOK /\ OwnerInv /\ OrderInv /\ LockInv /\ CountInv
        /\ BindInv /\ ClosedLeavesNothing
    BY DEF IInv, TypeOK
  <1>2. /\ task[t].pc = "configuring"
        /\ registry' = servers /\ handlers' = handlers + 1 /\ workspace' = task[t].ws
        /\ Launch(t, "connect", {})
        /\ UNCHANGED <<own, owner, servers, order, lock, closing, cancelled>>
        /\ UNCHANGED <<reloading, enabled, calls, edits, open, overlap, unread>>
    BY DEF Configured, managerExceptJobs, tables
  <1> DEFINE r == IF task[t].kind = "reload"
                  THEN [NoTask EXCEPT !.kind = "reload", !.pc = "locking"] ELSE NoTask
  <1>3. task' = [task EXCEPT ![t] = r]
    BY DEF Configured
  <1>4. r \in Task /\ r.pc # "configuring"
    BY DEF NoTask, Task
  <1> HIDE DEF r
  <1>5. /\ task' \in [Tasks -> Task] /\ task'[t].pc # "configuring"
        /\ \A u \in Tasks : u # t => task'[u] = task[u]
    BY <1>1, <1>3, <1>4 DEF TypeOK
  <1>6. /\ job' \in [Tasks -> [Servers -> Job]]
        /\ \A n \in Servers : job'[t][n].pc \in {"idle", "lock"}
        /\ \A u \in Tasks : u # t => job'[u] = job[u]
    BY <1>1, <1>2, LaunchSound
  <1>7. LockInv'
    <2>1. UNCHANGED <<lock, owner>>
      BY <1>2
    <2> QED BY <1>1, <1>6, <2>1, LockLaunched
  <1>8. OwnerInv' /\ OrderInv' /\ ClosedLeavesNothing'
    BY <1>1, <1>2 DEF OwnerInv, OrderInv, ClosedLeavesNothing, Live
  <1> DEFINE C == In({"configuring"})
             D == In({"configuring"})'
  <1>9. D = C \ {t} /\ t \in C
    BY <1>1, <1>2, <1>5, Configuring DEF In
  <1>10. CountInv' /\ handlers' \in 0..MaxCalls
    <2>1. IsFiniteSet(C) /\ handlers + Cardinality(C) <= calls /\ Cardinality(C) \in Nat
      BY <1>1, FS_CardinalityType DEF CountInv
    <2>2. IsFiniteSet(C \ {t}) /\ Cardinality(C \ {t}) = Cardinality(C) - 1
      BY <1>9, <2>1, FS_RemoveElement
    <2>3. Cardinality(C \ {t}) \in Nat
      BY <2>2, FS_CardinalityType
    <2>4. handlers \in Nat /\ calls \in 0..MaxCalls /\ MaxCalls \in Nat
      BY <1>1, SessionAssumption DEF TypeOK
    <2>5. CountInv' <=> IsFiniteSet(D) /\ handlers' + Cardinality(D) <= calls'
      BY DEF CountInv
    <2> HIDE DEF C, D
    <2> QED BY <1>2, <1>9, <2>1, <2>2, <2>3, <2>4, <2>5
  <1>11. task[t].ws \in Workspaces
    BY <1>1, <1>9 DEF BindInv, TypeOK, Task
  <1>12. TypeOK'
    BY <1>1, <1>2, <1>5, <1>6, <1>10, <1>11 DEF TypeOK, ManagerTypeOK
  <1>13. BindInv'
    <2>1. \A u \in D : task'[u].ws # None
      BY <1>1, <1>5, <1>9 DEF BindInv, In
    <2>2. workspace' # None
      BY <1>2, <1>11, SessionAssumption
    <2>3. ASSUME ~overlap' PROVE D = {} /\ handlers' <= 1
      <3>1. ~overlap /\ C = {t}
        BY <1>1, <1>2, <1>9, <2>3 DEF BindInv
      <3>2. handlers = 0
        BY <1>1, <3>1 DEF BindInv
      <3> QED BY <1>2, <1>9, <3>1, <3>2
    <2> QED BY <2>1, <2>2, <2>3 DEF BindInv
  <1> QED BY <1>7, <1>8, <1>10, <1>12, <1>13 DEF IInv

LEMMA TaskStepSound ==
    ASSUME IInv, NEW t \in Tasks, TaskStep(t)
    PROVE  IInv'
  <1>1. TypeOK /\ task[t] \in Task /\ task \in [Tasks -> Task] /\ cancelled \in SUBSET Tasks
    BY DEF IInv, TypeOK, ManagerTypeOK
  <1>2. /\ registry \in [Servers -> Owners \union {None}]
        /\ servers \in [Servers -> Owners \union {None}]
        /\ reloading \in Tasks \union {None} /\ unread \in BOOLEAN /\ enabled \in SUBSET Servers
    BY <1>1 DEF TypeOK, ManagerTypeOK
  <1>3. \A r \in Task : /\ [task EXCEPT ![t] = r] \in [Tasks -> Task]
                        /\ [task EXCEPT ![t] = r][t] = r
                        /\ \A u \in Tasks : u # t => [task EXCEPT ![t] = r][u] = task[u]
    BY <1>1
  <1>4. CASE Configured(t)
    BY <1>4, ConfiguredSound
  <1>5. CASE TakeReloadLock(t)
    <2> DEFINE running == {n \in Servers : servers[n] # None}
               r == [task[t] EXCEPT !.pc = "disconnecting", !.drop = running \ enabled,
                                    !.add = enabled \ running]
    <2>1. r \in Task /\ r.pc = "disconnecting"
      BY <1>1, <1>2 DEF Task
    <2>2. task' = [task EXCEPT ![t] = r]
      BY <1>1, <1>5 DEF TakeReloadLock
    <2>3. /\ Launch(t, "disconnect", {}) /\ reloading' = t /\ unread' = FALSE
          /\ UNCHANGED <<own, tables, lock, closing, workspace, handlers, calls, overlap>>
          /\ UNCHANGED <<cancelled, registry, enabled, edits, open>>
      BY <1>5 DEF TakeReloadLock, managerExceptJobs
    <2> HIDE DEF r
    <2>4. task' \in [Tasks -> Task] /\ task'[t] = r /\ \A u \in Tasks : u # t => task'[u] = task[u]
      BY <1>3, <2>1, <2>2
    <2> QED BY <1>1, <1>2, <2>1, <2>3, <2>4, TaskMoves
  <1>6. CASE DisconnectOne(t)
    <2>1. PICK n \in task[t].drop :
            /\ Launch(t, "disconnect", {n})
            /\ task' = [task EXCEPT ![t].drop = @ \ {n}]
      BY <1>6 DEF DisconnectOne
    <2> DEFINE r == [task[t] EXCEPT !.drop = @ \ {n}]
    <2>2. task[t].pc = "disconnecting" /\ {n} \in SUBSET Servers
      BY <1>1, <1>6 DEF DisconnectOne, Task
    <2>3. r \in Task /\ r.pc = "disconnecting"
      BY <1>1, <2>2 DEF Task
    <2>4. task' = [task EXCEPT ![t] = r]
      BY <1>1, <2>1
    <2>5. /\ UNCHANGED <<own, tables, lock, closing, workspace, handlers, calls, overlap>>
          /\ UNCHANGED <<cancelled, registry, reloading, enabled, edits, open, unread>>
      BY <1>6 DEF DisconnectOne, managerExceptJobs
    <2> HIDE DEF r
    <2>6. task' \in [Tasks -> Task] /\ task'[t] = r /\ \A u \in Tasks : u # t => task'[u] = task[u]
      BY <1>3, <2>3, <2>4
    <2> QED BY <1>1, <1>2, <2>1, <2>2, <2>3, <2>5, <2>6, TaskMoves
  <1>7. CASE ConnectNew(t)
    <2> DEFINE r == [task[t] EXCEPT !.pc = "connecting", !.add = {}]
    <2>1. Launch(t, "connect", task[t].add) /\ task[t].add \in SUBSET Servers
      BY <1>1, <1>7 DEF ConnectNew, Task
    <2>2. r \in Task /\ r.pc = "connecting"
      BY <1>1 DEF Task
    <2>3. task' = [task EXCEPT ![t] = r]
      BY <1>1, <1>7 DEF ConnectNew
    <2>4. /\ UNCHANGED <<own, tables, lock, closing, workspace, handlers, calls, overlap>>
          /\ UNCHANGED <<cancelled, registry, reloading, enabled, edits, open, unread>>
      BY <1>7 DEF ConnectNew, managerExceptJobs
    <2> HIDE DEF r
    <2>5. task' \in [Tasks -> Task] /\ task'[t] = r /\ \A u \in Tasks : u # t => task'[u] = task[u]
      BY <1>3, <2>2, <2>3
    <2> QED BY <1>1, <1>2, <2>1, <2>2, <2>4, <2>5, TaskMoves
  <1>8. CASE Reloaded(t)
    <2>1. /\ task' = [task EXCEPT ![t] = NoTask]
          /\ Launch(t, "connect", {}) /\ registry' = servers /\ reloading' = None
          /\ UNCHANGED <<own, tables, lock, closing, workspace, handlers, calls, overlap>>
          /\ UNCHANGED <<cancelled, enabled, edits, open, unread>>
      BY <1>8 DEF Reloaded, managerExceptJobs
    <2>2. /\ task' \in [Tasks -> Task] /\ task'[t] = NoTask
          /\ \A u \in Tasks : u # t => task'[u] = task[u]
      BY <1>3, <2>1, NoTaskType
    <2> QED BY <1>1, <1>2, <2>1, <2>2, NoTaskType, TaskMoves
  <1>9. CASE Raised(t)
    <2>1. /\ task' = [task EXCEPT ![t] = NoTask] /\ cancelled' = cancelled \ {t}
          /\ reloading' = IF reloading = t THEN None ELSE reloading
          /\ UNCHANGED <<own, tables, lock, closing, workspace, handlers, calls, overlap>>
          /\ UNCHANGED <<job, registry, enabled, edits, open, unread>>
      BY <1>9 DEF Raised
    <2>2. /\ task' \in [Tasks -> Task] /\ task'[t] = NoTask
          /\ \A u \in Tasks : u # t => task'[u] = task[u]
      BY <1>3, <2>1, NoTaskType
    <2>3. reloading' \in Tasks \union {None} /\ cancelled' \in SUBSET Tasks
      BY <1>1, <1>2, <2>1
    <2> QED BY <1>1, <1>2, <2>1, <2>2, <2>3, NoTaskType, TaskMoves
  <1> QED BY <1>4, <1>5, <1>6, <1>7, <1>8, <1>9 DEF TaskStep

\* The user's edits, the cancellations and the exit.
LEMMA UserStepSound ==
    ASSUME IInv, EditConfig \/ Exit \/ \E t \in Tasks : CancelRun(t)
    PROVE  IInv'
  <1>1. /\ TypeOK /\ ManagerTypeOK /\ OwnerInv /\ OrderInv /\ LockInv /\ CountInv
        /\ BindInv /\ ClosedLeavesNothing
    BY DEF IInv, TypeOK
  <1>2. /\ UNCHANGED <<own, owner, servers, order, lock, closing, job>>
        /\ UNCHANGED <<task, workspace, registry, handlers, reloading, calls, overlap>>
        /\ cancelled' \in SUBSET Tasks
        /\ enabled' \in SUBSET Servers /\ edits' \in 0..MaxEdits
        /\ open' \in BOOLEAN /\ unread' \in BOOLEAN
    <2>1. CASE EditConfig
      BY <1>1, <2>1, SessionAssumption DEF EditConfig, mvars, TypeOK, ManagerTypeOK
    <2>2. CASE Exit
      BY <1>1, <2>2 DEF Exit, tables, InProgress, TypeOK, ManagerTypeOK
    <2>3. CASE \E t \in Tasks : CancelRun(t)
      BY <1>1, <2>3 DEF CancelRun, tables, svars, InProgress, TypeOK, ManagerTypeOK
    <2> QED BY <2>1, <2>2, <2>3
  <1>3. TypeOK'
    BY <1>1, <1>2 DEF TypeOK, ManagerTypeOK
  <1>4. OwnerInv' /\ OrderInv' /\ LockInv' /\ ClosedLeavesNothing'
    BY <1>1, <1>2 DEF OwnerInv, OrderInv, LockInv, ClosedLeavesNothing, Live
  <1>5. In({"configuring"})' = In({"configuring"})
    BY <1>2 DEF In
  <1>6. CountInv' /\ BindInv'
    BY <1>1, <1>2, <1>5 DEF CountInv, BindInv
  <1> QED BY <1>3, <1>4, <1>6 DEF IInv

-----------------------------------------------------------------------------
(* The theorems.                                                           *)

LEMMA InitHolds == Init => IInv
  <1> SUFFICES ASSUME Init PROVE IInv
    OBVIOUS
  <1>1. NoOwner \in Owner /\ NoOwner.pc = "done" /\ NoJob \in Job /\ NoJob.pc = "idle"
    BY NoJobType DEF NoOwner, Owner, NoJob
  <1>2. In({"configuring"}) = {}
    BY NoTaskType DEF Init, In
  <1>3. order = <<>> /\ order \in Seq(Servers) /\ 1..Len(order) = {}
    BY EmptySeq DEF Init, ManagerInit
  <1>4. ManagerTypeOK
    BY <1>1, <1>3 DEF Init, ManagerInit, ManagerTypeOK
  <1>5. TypeOK
    <2>1. 0 \in 0..MaxCalls /\ 0 \in 0..MaxEdits
      BY SessionAssumption
    <2>2. task \in [Tasks -> Task] /\ registry \in [Servers -> Owners \union {None}]
      BY NoTaskType DEF Init
    <2>3. workspace = None /\ reloading = None /\ enabled \in SUBSET Servers
      BY SessionAssumption DEF Init
    <2>4. /\ handlers = 0 /\ calls = 0 /\ edits = 0
          /\ open = TRUE /\ overlap = FALSE /\ unread = FALSE
      BY DEF Init
    <2> QED BY <1>4, <2>1, <2>2, <2>3, <2>4 DEF TypeOK
  <1>6. OwnerInv /\ ClosedLeavesNothing
    BY <1>1 DEF Init, ManagerInit, OwnerInv, ClosedLeavesNothing, Live
  <1>7. OrderInv
    BY <1>3 DEF Init, ManagerInit, OrderInv
  <1>8. LockInv
    BY <1>1 DEF Init, ManagerInit, LockInv
  <1>9. CountInv
    <2>1. IsFiniteSet(In({"configuring"})) /\ Cardinality(In({"configuring"})) = 0
      BY <1>2, FS_EmptySet
    <2> QED BY <2>1 DEF Init, CountInv
  <1>10. BindInv
    BY <1>2 DEF Init, BindInv
  <1> QED BY <1>5, <1>6, <1>7, <1>8, <1>9, <1>10 DEF IInv

LEMMA StepHolds == IInv /\ [Next]_vars => IInv'
  <1> SUFFICES ASSUME IInv, [Next]_vars PROVE IInv'
    OBVIOUS
  <1>1. ASSUME ManagerStep, UNCHANGED svars PROVE IInv'
    BY <1>1, OwnerStepSound, JobStepSound, CloseSound DEF ManagerStep
  <1>2. ASSUME NEW t \in Tasks, TaskStep(t) PROVE IInv'
    BY <1>2, TaskStepSound
  <1>3. ASSUME CloseManager PROVE IInv'
    BY <1>3, CloseSound DEF CloseManager
  <1>4. ASSUME NEW t \in Tasks, StartRun(t) PROVE IInv'
    BY <1>4, CallSound DEF StartRun
  <1>5. ASSUME NEW t \in Tasks, ReloadMcp(t) PROVE IInv'
    <2>1. (IF workspace = None THEN Cwd ELSE workspace) \in Workspaces
      BY SessionAssumption DEF IInv, TypeOK
    <2> QED BY <1>5, <2>1, CallSound DEF ReloadMcp
  <1>6. ASSUME EditConfig \/ Exit \/ \E t \in Tasks : CancelRun(t) PROVE IInv'
    BY <1>6, UserStepSound
  <1>7. CASE UNCHANGED vars
    <2>1. UNCHANGED <<own, owner, servers, order, lock, closing, job, cancelled>> /\ UNCHANGED svars
      BY <1>7 DEF vars, mvars
    <2>2. OwnerInv' /\ OrderInv' /\ LockInv' /\ ClosedLeavesNothing' /\ ManagerTypeOK'
      BY <2>1 DEF IInv, TypeOK, OwnerInv, OrderInv, LockInv, ClosedLeavesNothing, Live,
                  ManagerTypeOK
    <2> QED BY <2>1, <2>2, SessionKept DEF IInv
  <1> QED BY <1>1, <1>2, <1>3, <1>4, <1>5, <1>6, <1>7 DEF Next, Progress

\* IInv is inductive.
THEOREM Invariance == Spec => []IInv
  <1> QED BY InitHolds, StepHolds, PTL DEF Spec

\* No server ever has two owners, and _owners, _servers, _server_order and the
\* owner Tasks agree after every step of every call, cancelled or not.
THEOREM ConnectionsKept == Spec => []ConnectionsConsistent
  <1>1. IInv => OneOwnerPerServer
    BY DEF IInv, OwnerInv, OneOwnerPerServer
  <1>2. IInv => TablesAgree
    <2> SUFFICES ASSUME IInv PROVE TablesAgree
      OBVIOUS
    <2>1. order \in Seq(Servers) /\ OwnerInv /\ OrderInv /\ owner \in [Servers -> Owners \union {None}]
      BY DEF IInv, TypeOK, ManagerTypeOK
    <2>2. \A o \in Owners : Live(o) <=> \E n \in Servers : owner[n] = o
      BY <2>1, ManagerAssumption DEF OwnerInv
    <2>3. \A n \in Servers :
            Cardinality({i \in 1..Len(order) : order[i] = n}) = IF owner[n] = None THEN 0 ELSE 1
      BY <2>1, NameCounted
    <2> QED BY <2>1, <2>2, <2>3 DEF OwnerInv, TablesAgree
  <1>3. IInv => ConnectionsConsistent
    BY <1>1, <1>2 DEF IInv, ConnectionsConsistent
  <1> QED BY <1>3, Invariance, PTL

\* A closed manager has left no server running, not even one that a call was
\* connecting meanwhile.
THEOREM NothingLeftRunning == Spec => []ClosedLeavesNothing
  <1>1. IInv => ClosedLeavesNothing
    BY DEF IInv
  <1> QED BY <1>1, Invariance, PTL

\* The session registers one CompactionHandler, unless two Tasks configure it at once.
THEOREM OneHandler == Spec => []OneCompactionHandler
  <1>1. IInv => OneCompactionHandler
    BY DEF IInv, BindInv, OneCompactionHandler
  <1> QED BY <1>1, Invariance, PTL

\* A session that is bound to a Workspace stays bound to it, unless two Tasks
\* configured it at once.
THEOREM BoundForGood == Spec => WorkspaceBound
  <1> DEFINE Kept == workspace # None /\ ~overlap => workspace' = workspace
  <1>1. IInv /\ [Next]_vars => [Kept]_vars
    <2> SUFFICES ASSUME IInv, Next PROVE Kept
      BY DEF vars
    <2>1. ASSUME NEW t \in Tasks, Configured(t) PROVE Kept
      BY <2>1 DEF IInv, BindInv, In, Configured
    <2>2. ASSUME NEW t \in Tasks, TaskStep(t), ~Configured(t) PROVE Kept
      BY <2>2 DEF TaskStep, TakeReloadLock, DisconnectOne, ConnectNew, Reloaded, Raised
    <2>3. ASSUME NEW t \in Tasks, StartRun(t) \/ ReloadMcp(t) \/ CancelRun(t) PROVE Kept
      BY <2>3 DEF StartRun, ReloadMcp, CancelRun, Call, svars
    <2>4. ASSUME (ManagerStep /\ UNCHANGED svars) \/ CloseManager \/ EditConfig \/ Exit PROVE Kept
      BY <2>4 DEF CloseManager, EditConfig, Exit, svars
    <2> QED BY <2>1, <2>2, <2>3, <2>4 DEF Next, Progress
  <1>2. WorkspaceBound <=> [][Kept]_vars
    BY PTL DEF WorkspaceBound
  <1> HIDE DEF Kept
  <1> QED BY <1>1, <1>2, Invariance, PTL DEF Spec
-----------------------------------------------------------------------------
(* The session at rest: what the steps of the owners and of the calls keep. *)

\* StopRequested concerns the one owner of the name.
LEMMA StopOneSound ==
    ASSUME ManagerTypeOK, OwnerInv, NEW n \in Servers, own' = StopRequested({owner[n]})
    PROVE  /\ \A o \in Owners : o # owner[n] => own'[o] = own[o]
           /\ \A o \in Owners : /\ own'[o].pc = own[o].pc /\ own'[o].name = own[o].name
                                /\ own'[o].stop => own[o].stop \/ own[o].pc \in {"serving", "closing"}
                                /\ o = owner[n] /\ own[o].pc \in {"connecting", "failing"} => own'[o].cancel
                                /\ own[o].cancel => own'[o].cancel
  <1>1. ASSUME NEW o \in Owners, o = owner[n]
        PROVE  own'[o] = IF own[o].pc \in {"serving", "closing"} THEN [own[o] EXCEPT !.stop = TRUE]
                         ELSE [own[o] EXCEPT !.cancel = TRUE]
    <2>1. Live(o)
      BY <1>1, ManagerAssumption DEF OwnerInv
    <2> QED BY <1>1, <2>1 DEF StopRequested
  <1>2. ASSUME NEW o \in Owners, o # owner[n] PROVE own'[o] = own[o]
    BY <1>2 DEF StopRequested
  <1>3. ASSUME NEW o \in Owners
        PROVE  /\ own'[o].pc = own[o].pc /\ own'[o].name = own[o].name
               /\ own'[o].stop => own[o].stop \/ own[o].pc \in {"serving", "closing"}
               /\ o = owner[n] /\ own[o].pc \in {"connecting", "failing"} => own'[o].cancel
               /\ own[o].cancel => own'[o].cancel
    <2>1. own[o] \in Owner
      BY DEF ManagerTypeOK
    <2>2. CASE o = owner[n]
      <3>1. CASE own[o].pc \in {"serving", "closing"}
        BY <1>1, <2>1, <2>2, <3>1 DEF Owner
      <3>2. CASE own[o].pc \notin {"serving", "closing"}
        BY <1>1, <2>1, <2>2, <3>2 DEF Owner
      <3> QED BY <3>1, <3>2
    <2>3. CASE o # owner[n]
      BY <1>2, <2>1, <2>3
    <2> QED BY <2>2, <2>3
  <1> QED BY <1>2, <1>3

\* The owners of two names are two owners.
LEMMA OwnersApart ==
    ASSUME OwnerInv, NEW m \in Servers, NEW n \in Servers, owner[m] # None, owner[m] = owner[n]
    PROVE  m = n
  BY DEF OwnerInv

LEMMA ServingStep ==
    ASSUME IInv, ServingInv, [Next]_vars
    PROVE  ServingInv'
  <1>1. /\ TypeOK /\ ManagerTypeOK /\ OwnerInv /\ own \in [Owners -> Owner]
        /\ servers \in [Servers -> Owners \union {None}]
    BY DEF IInv, TypeOK, ManagerTypeOK
  <1>2. ASSUME UNCHANGED <<own, servers>> PROVE ServingInv'
    BY <1>2 DEF ServingInv
  <1>3. ASSUME NEW n \in Servers, own' = StopRequested({owner[n]}), UNCHANGED servers PROVE ServingInv'
    BY <1>1, <1>3, StopOneSound DEF ServingInv
  <1>4. ASSUME NEW os, own' = StopRequested(os), UNCHANGED servers PROVE ServingInv'
    <2>1. \A o \in Owners : own[o] \in Owner
      BY <1>1
    <2> QED BY <1>4, <2>1 DEF ServingInv, StopRequested, Owner
  <1>5. ASSUME NEW o \in Owners, OwnerStep(o) PROVE ServingInv'
    <2>1. own[o] \in Owner
      BY <1>1
    <2>2. \A p \in Owners : Live(p) => own[p].name \in Servers /\ owner[own[p].name] = p
      BY <1>1 DEF OwnerInv
    <2>3. ASSUME own' = [own EXCEPT ![o] = NoOwner], own[o].pc # "serving", Live(o), Forget(o) PROVE ServingInv'
      <3>1. UNCHANGED servers
        <4>1. own[o].name \in Servers
          BY <2>2, <2>3
        <4>2. servers[own[o].name] # o
          BY <1>1, <2>3, <4>1, ManagerAssumption DEF OwnerInv
        <4> QED BY <2>3, <4>2, Zenon DEF Forget
      <3> QED BY <1>1, <2>3, <3>1 DEF ServingInv, NoOwner
    <2>4. CASE Connected(o)
      <3> DEFINE n == own[o].name
                 r == [own[o] EXCEPT !.pc = "serving"]
      <3>1. own[o].pc = "connecting" /\ own' = [own EXCEPT ![o] = r]
        BY <1>1, <2>4 DEF Connected
      <3>2. n \in Servers /\ owner[n] = o
        BY <2>2, <3>1 DEF Live
      <3>3. servers' = [servers EXCEPT ![n] = o]
        BY <2>4, <3>2 DEF Connected
      <3>4. r.pc = "serving" /\ r.stop = own[o].stop /\ r.name = n
        BY <2>1 DEF Owner
      <3> HIDE DEF r
      <3>5. own'[o] = r /\ servers'[n] = o /\ \A p \in Owners : p # o => own'[p] = own[p]
        BY <1>1, <3>1, <3>2, <3>3
      <3>6. ASSUME NEW p \in Owners, p # o, own[p].pc = "serving" PROVE servers'[own[p].name] = p
        <4>1. own[p].name \in Servers /\ owner[own[p].name] = p
          BY <2>2, <3>6 DEF Live
        <4>2. own[p].name # n
          BY <3>2, <3>6, <4>1
        <4> HIDE DEF n
        <4> QED BY <1>1, <3>3, <3>6, <4>1, <4>2 DEF ServingInv
      <3> QED BY <3>1, <3>4, <3>5, <3>6 DEF ServingInv
    <2>5. CASE OpenFails(o)
      <3> DEFINE r == [own[o] EXCEPT !.pc = IF own[o].cancel THEN "aborting" ELSE "failing",
                                     !.cancel = FALSE]
      <3>1. own[o].pc = "connecting" /\ own' = [own EXCEPT ![o] = r] /\ UNCHANGED servers
        BY <1>1, <2>5 DEF OpenFails, tables
      <3>2. r.pc \notin {"serving", "closing"} /\ r.stop = own[o].stop
        BY <2>1 DEF Owner
      <3> HIDE DEF r
      <3> QED BY <1>1, <3>1, <3>2 DEF ServingInv
    <2>6. CASE OpenClosed(o)
      BY <2>3, <2>6, Zenon DEF OpenClosed, Live
    <2>7. CASE StopsServing(o)
      <3> DEFINE n == own[o].name
                 r == [own[o] EXCEPT !.pc = "closing"]
      <3>1. own[o].pc = "serving" /\ own' = [own EXCEPT ![o] = r]
        BY <1>1, <2>7 DEF StopsServing
      <3>2. n \in Servers /\ owner[n] = o
        BY <2>2, <3>1 DEF Live
      <3>3. \A m \in Servers : m # n => servers'[m] = servers[m]
        BY <1>1, <2>7 DEF StopsServing
      <3>4. r.pc = "closing" /\ r.name = n
        BY <2>1 DEF Owner
      <3> HIDE DEF r
      <3>5. own'[o] = r /\ \A p \in Owners : p # o => own'[p] = own[p]
        BY <1>1, <3>1
      <3>6. ASSUME NEW p \in Owners, p # o, own[p].pc = "serving" PROVE servers'[own[p].name] = p
        <4>1. own[p].name \in Servers /\ owner[own[p].name] = p
          BY <2>2, <3>6 DEF Live
        <4> QED BY <3>2, <3>3, <3>6, <4>1 DEF ServingInv
      <3> QED BY <3>4, <3>5, <3>6 DEF ServingInv
    <2>8. CASE Closes(o)
      BY <2>3, <2>8 DEF Closes, Live
    <2> QED BY <1>5, <2>4, <2>5, <2>6, <2>7, <2>8 DEF OwnerStep
  <1>6. ASSUME NEW t \in Tasks, NEW n \in Servers, JobStep(t, n) PROVE ServingInv'
    <2>1. CASE TakeLock(t, n) \/ Undo(t, n)
      BY <1>3, <2>1 DEF TakeLock, Undo, tables
    <2>2. CASE Make(t, n)
      <3> DEFINE o == CHOOSE x \in Owners : Free(x)
                 r == [NoOwner EXCEPT !.name = n, !.pc = "connecting"]
      <3>1. own' = [own EXCEPT ![o] = r] /\ UNCHANGED servers
        BY <2>2, Zenon DEF Make
      <3>2. r.pc = "connecting" /\ ~r.stop
        BY DEF NoOwner
      <3> HIDE DEF o, r
      <3> QED BY <1>1, <3>1, <3>2 DEF ServingInv
    <2>3. CASE UNCHANGED <<own, tables>>
      BY <1>2, <2>3 DEF tables
    <2> QED BY <1>6, <2>1, <2>2, <2>3
            DEF JobStep, Create, Disconnected, Answered, Undone, CancelledEarly
  <1>7. ASSUME NEW t \in Tasks, TaskStep(t) PROVE ServingInv'
    BY <1>2, <1>7 DEF TaskStep, Configured, TakeReloadLock, DisconnectOne, ConnectNew, Reloaded,
                      Raised, managerExceptJobs, tables
  <1>8. ASSUME NEW t \in Tasks, StartRun(t) \/ ReloadMcp(t) \/ CancelRun(t) PROVE ServingInv'
    BY <1>2, <1>8 DEF StartRun, ReloadMcp, CancelRun, Call, managerExceptJobs, tables
  <1>9. ASSUME EditConfig \/ Exit \/ AllClosed \/ UNCHANGED vars PROVE ServingInv'
    BY <1>2, <1>9 DEF EditConfig, Exit, AllClosed, vars, mvars, tables
  <1>10. ASSUME CloseManager PROVE ServingInv'
    BY <1>4, <1>10 DEF CloseManager, CloseAll, tables
  <1> QED BY <1>5, <1>6, <1>7, <1>8, <1>9, <1>10 DEF Next, Progress, ManagerStep

\* What Answer tells, and to whom.
LEMMA AnswerEffect ==
    ASSUME ManagerTypeOK, NEW o, NEW answer \in {"tools", "error", "cancelled"},
           Answer(o, answer)
    PROVE  \A t \in Tasks, n \in Servers :
             /\ job'[t][n].pc = job[t][n].pc /\ job'[t][n].old = job[t][n].old
             /\ job'[t][n].kind = job[t][n].kind /\ job'[t][n].result = job[t][n].result
             /\ job[t][n].pc = "waiting" /\ job[t][n].old = o => job'[t][n].ready = answer
             /\ job[t][n].pc # "waiting" \/ job[t][n].old # o => job'[t][n].ready = job[t][n].ready
  <1> SUFFICES ASSUME NEW t \in Tasks, NEW n \in Servers
               PROVE  /\ job'[t][n].pc = job[t][n].pc /\ job'[t][n].old = job[t][n].old
                      /\ job'[t][n].kind = job[t][n].kind /\ job'[t][n].result = job[t][n].result
                      /\ job[t][n].pc = "waiting" /\ job[t][n].old = o => job'[t][n].ready = answer
                      /\ job[t][n].pc # "waiting" \/ job[t][n].old # o => job'[t][n].ready = job[t][n].ready
    OBVIOUS
  <1>1. job[t][n] \in Job
    BY DEF ManagerTypeOK
  <1>2. job'[t][n] = IF job[t][n].pc = "waiting" /\ job[t][n].old = o
                     THEN [job[t][n] EXCEPT !.ready = answer] ELSE job[t][n]
    BY DEF Answer
  <1> QED BY <1>1, <1>2 DEF Job

\* The steps of the owners leave the calls where they are.
LEMMA CallsStand ==
    ASSUME TypeOK, AtWork, UNCHANGED svars, UNCHANGED callers,
           \A t \in Tasks, n \in Servers :
             /\ job'[t][n].pc = job[t][n].pc /\ job'[t][n].kind = job[t][n].kind
             /\ job'[t][n].result = job[t][n].result,
           \A n \in Servers : Leaving(n)' => Leaving(n),
           \A n \in Servers : owner'[n] = owner[n] \/ owner'[n] = None
    PROVE  TaskInv' /\ CancelInv' /\ LeavingInv'
  <1>1. /\ UNCHANGED <<task, workspace, reloading, enabled, open, overlap, unread>>
        /\ UNCHANGED <<lock, closing, cancelled>>
    BY DEF svars, callers
  <1>2. TaskInv'
    BY <1>1 DEF AtWork, TaskInv
  <1>3. CancelInv'
    BY <1>1 DEF AtWork, CancelInv
  <1>4. LeavingInv'
    <2>1. In({"configuring"})' = In({"configuring"})
      BY <1>1 DEF In
    <2>2. LeavingInv
      BY DEF AtWork
    <2>3. ASSUME NEW t \in In({"configuring"})' \ cancelled', NEW n \in enabled',
                 job'[t][n].pc \in {"idle", "waiting"}, Leaving(n)'
          PROVE  FALSE
      <3>1. t \in In({"configuring"}) \ cancelled /\ t \in Tasks /\ n \in enabled /\ n \in Servers
        BY <1>1, <2>1, <2>3 DEF In, TypeOK
      <3>2. job[t][n].pc \in {"idle", "waiting"} /\ Leaving(n)
        BY <2>3, <3>1
      <3> QED BY <2>2, <3>1, <3>2 DEF LeavingInv
    <2>4. ASSUME workspace' # None, NEW n \in enabled', Leaving(n)'
          PROVE  \E t \in Tasks : job'[t][n].pc = "stopping"
      <3>1. workspace # None /\ n \in enabled /\ n \in Servers
        BY <1>1, <2>4 DEF TypeOK
      <3>2. Leaving(n)
        BY <2>4, <3>1
      <3>3. PICK t \in Tasks : job[t][n].pc = "stopping"
        BY <2>2, <3>1, <3>2 DEF LeavingInv
      <3> QED BY <3>1, <3>3
    <2> QED BY <2>3, <2>4 DEF LeavingInv
  <1> QED BY <1>2, <1>3, <1>4

\* While all calls have returned and all edits have been read, no server leaves.
LEMMA NobodyLeaves ==
    ASSUME TypeOK, AtWork, Settled
    PROVE  /\ \A t \in Tasks, n \in Servers : job[t][n].pc \in {"idle", "undo"}
           /\ \A n \in Servers : ~Leaving(n)
           /\ \A n \in Servers \ enabled : ~Serves(n)
  <1>1. \A t \in Tasks : task[t].pc = "idle"
    BY DEF Settled, InProgress, In
  <1>2. \A t \in Tasks, n \in Servers : job[t][n].pc \in {"idle", "undo"}
    BY <1>1 DEF AtWork, TaskInv
  <1>3. \A n \in Servers \ enabled : ~Serves(n)
    BY <1>1 DEF AtWork, EnabledInv, Settled, In
  <1>4. ASSUME NEW n \in enabled, Leaving(n) PROVE FALSE
    <2>1. LeavingInv /\ workspace # None /\ n \in Servers
      BY DEF AtWork, Settled, TypeOK
    <2>2. \E t \in Tasks : job[t][n].pc = "stopping"
      BY <1>4, <2>1 DEF LeavingInv
    <2> QED BY <1>2, <2>1, <2>2
  <1> QED BY <1>2, <1>3, <1>4 DEF Leaving

\* Whoever waits for an owner that can still connect waits for the one in _owners.
LEMMA WhoWaits ==
    ASSUME IInv, AtWork, ~overlap, NEW o \in Owners, own[o].pc = "connecting", ~own[o].cancel
    PROVE  LET n == own[o].name IN
           /\ n \in Servers /\ owner[n] = o
           /\ \E t \in In({"configuring", "connecting"}) : job[t][n].pc = "waiting"
  <1>1. PICK t \in Tasks, n \in Servers : job[t][n].pc = "waiting" /\ job[t][n].old = o
    BY DEF AtWork, AnswerInv
  <1>2. owner[n] = o
    <2>1. Attended(o, job[t][n].ready, n)
      BY <1>1 DEF AtWork, AnswerInv
    <2> QED BY <2>1 DEF Attended, Live
  <1>3. own[o].name = n
    BY <1>2, ManagerAssumption DEF IInv, OwnerInv
  <1>4. t \in In({"configuring", "connecting"})
    <2>1. task[t].pc \in {"idle", "configuring", "locking", "disconnecting", "connecting"}
      BY DEF IInv, TypeOK, Task
    <2>2. job[t][n].kind = "connect"
      BY <1>1 DEF AtWork, TaskInv
    <2> QED BY <1>1, <2>1, <2>2 DEF AtWork, TaskInv, In
  <1> QED BY <1>1, <1>2, <1>3, <1>4

LEMMA OwnerAtWork ==
    ASSUME IInv, ServingInv, AtWork, open, ~overlap,
           NEW o \in Owners, OwnerStep(o), UNCHANGED svars
    PROVE  AtWork'
  <1>1. /\ TypeOK /\ ManagerTypeOK /\ OwnerInv /\ BindInv
        /\ TaskInv /\ CancelInv /\ AnswerInv /\ LeavingInv /\ EnabledInv
        /\ RegisteredToolsServe
    BY DEF IInv, TypeOK, AtWork
  <1>2. own[o] \in Owner /\ own \in [Owners -> Owner]
    BY <1>1 DEF ManagerTypeOK
  <1>3. /\ UNCHANGED <<task, workspace, registry, reloading, enabled, open, overlap, unread>>
    BY DEF svars
  <1>4. \A p \in Owners : Live(p) => own[p].name \in Servers /\ owner[own[p].name] = p
    BY <1>1 DEF OwnerInv
  <1>5. o # None
    BY ManagerAssumption
  \* The table of what waits, when only o moves and answers.
  <1>6. ASSUME UNCHANGED callers, servers' = servers \/ ~Settled,
               \/ UNCHANGED job
               \/ Answer(o, "tools")
               \/ Answer(o, "error")
               \/ Answer(o, "cancelled"),
               \A p \in Owners : p # o => own'[p] = own[p],
               \A n \in Servers : owner[n] # o => owner'[n] = owner[n],
               \A n \in Servers : owner'[n] = owner[n] \/ owner'[n] = None,
               own'[o].pc = "connecting" => own[o].pc = "connecting" /\ own'[o].cancel = own[o].cancel,
               own'[o].pc = "serving" => Live(o) /\ ~own'[o].stop,
               \A t \in Tasks, n \in Servers :
                  job[t][n].pc = "waiting" /\ job[t][n].old = o => Attended(o, job[t][n].ready, n)',
               own'[o].pc = "serving" => own[o].pc = "connecting" /\ ~own[o].cancel
        PROVE  AtWork'
    <2>1. \A t \in Tasks, n \in Servers :
             /\ job'[t][n].pc = job[t][n].pc /\ job'[t][n].old = job[t][n].old
             /\ job'[t][n].kind = job[t][n].kind /\ job'[t][n].result = job[t][n].result
             /\ job[t][n].pc # "waiting" \/ job[t][n].old # o => job'[t][n].ready = job[t][n].ready
      BY <1>1, <1>6, AnswerEffect
    <2>2. \A n \in Servers : Leaving(n)' => Leaving(n)
      <3> SUFFICES ASSUME NEW n \in Servers, Leaving(n)' PROVE Leaving(n)
        OBVIOUS
      <3>1. owner'[n] = owner[n] /\ owner[n] \in Owners
        BY <1>1, <1>6 DEF Leaving, Serves, ManagerTypeOK
      <3>2. owner[n] # o
        BY <1>6, <3>1 DEF Leaving, Serves
      <3> QED BY <1>6, <3>1, <3>2 DEF Leaving, Serves
    <2>3. TaskInv' /\ CancelInv' /\ LeavingInv'
      BY <1>1, <1>6, <2>1, <2>2, CallsStand
    <2>4. AnswerInv'
      <3>1. ASSUME NEW t \in Tasks, NEW n \in Servers, job'[t][n].pc = "waiting"
            PROVE  Attended(job[t][n].old, job[t][n].ready, n)'
        <4> DEFINE p == job[t][n].old
        <4>1. job[t][n].pc = "waiting" /\ job'[t][n].old = p
          BY <2>1, <3>1
        <4>2. CASE p = o
          BY <1>6, <4>1, <4>2
        <4>3. CASE p # o
          <5>1. job'[t][n].ready = job[t][n].ready
            BY <2>1, <4>3
          <5>2. Attended(p, job[t][n].ready, n)
            BY <1>1, <4>1 DEF AnswerInv
          <5> HIDE DEF p
          <5>3. p \in Owners /\ own'[p] = own[p]
            BY <1>6, <4>3, <5>2 DEF Attended
          <5>4. owner[n] = p => owner'[n] = p
            BY <1>6, <4>3
          <5> QED BY <4>1, <5>1, <5>2, <5>3, <5>4 DEF Attended, Live
        <4> QED BY <4>2, <4>3
      <3>2. \A t \in Tasks, n \in Servers :
              job'[t][n].pc \in {"lock", "stopping"} => job'[t][n].ready = "pending"
        BY <1>1, <2>1 DEF AnswerInv
      <3>3. \A p \in Owners : own'[p].pc = "connecting" /\ ~own'[p].cancel =>
              own[p].pc = "connecting" /\ ~own[p].cancel
        BY <1>6
      <3>4. \A p \in Owners : own'[p].pc = "connecting" /\ ~own'[p].cancel =>
              \E t \in Tasks, n \in Servers : job'[t][n].pc = "waiting" /\ job'[t][n].old = p
        BY <1>1, <2>1, <3>3 DEF AnswerInv
      <3> QED BY <3>1, <3>2, <3>4 DEF AnswerInv
    <2>5. ASSUME NEW n \in Servers, Serves(n)', ~Serves(n)
          PROVE  own[o].name = n /\ own[o].pc = "connecting" /\ ~own[o].cancel
      <3>1. owner'[n] = owner[n] /\ owner[n] \in Owners
        BY <1>1, <1>6, <2>5 DEF Serves, ManagerTypeOK
      <3>2. owner[n] = o /\ own'[o].pc = "serving"
        BY <1>6, <2>5, <3>1 DEF Serves
      <3> QED BY <1>1, <1>5, <1>6, <3>2 DEF OwnerInv
    <2>6. EnabledInv'
      <3> SUFFICES ASSUME ~unread PROVE EnabledInv'
        BY <1>3 DEF EnabledInv
      <3>1. In({"disconnecting"})' = In({"disconnecting"}) /\ In({"connecting"})' = In({"connecting"})
        BY <1>3 DEF In
      <3>2. workspace = None => \A n \in Servers \ enabled :
                owner'[n] = None /\ \A t \in Tasks : job'[t][n].pc = "idle"
        BY <1>1, <1>6, <2>1 DEF EnabledInv
      <3>3. ASSUME workspace # None, NEW n \in Servers \ enabled, Serves(n)'
            PROVE  \E t \in In({"disconnecting"}) : n \in task[t].drop \/ job'[t][n].pc \in {"lock", "stopping"}
        <4>1. CASE Serves(n)
          <5>1. PICK t \in In({"disconnecting"}) : n \in task[t].drop \/ job[t][n].pc \in {"lock", "stopping"}
            BY <1>1, <3>3, <4>1 DEF EnabledInv
          <5> QED BY <2>1, <5>1 DEF In
        <4>2. CASE own[o].name = n /\ own[o].pc = "connecting" /\ ~own[o].cancel
          <5>1. PICK t \in In({"configuring", "connecting"}) : job[t][n].pc = "waiting"
            BY <4>2, WhoWaits
          <5>2. In({"configuring"}) = {}
            BY <1>1, <3>3 DEF BindInv
          <5>3. t \in In({"connecting"})
            BY <5>1, <5>2 DEF In
          <5> QED BY <1>1, <3>3, <5>1, <5>3 DEF EnabledInv
        <4> QED BY <2>5, <3>3, <4>1, <4>2
      <3>4. \A t \in In({"connecting"}), n \in Servers \ enabled : job'[t][n].pc = "idle"
        BY <1>1, <2>1 DEF EnabledInv, In
      <3> QED BY <1>1, <1>3, <3>1, <3>2, <3>3, <3>4 DEF EnabledInv
    <2>7. RegisteredToolsServe'
      <3>1. Settled' = Settled
        BY <1>3 DEF Settled, InProgress, In
      <3> QED BY <1>1, <1>3, <1>6, <3>1 DEF RegisteredToolsServe
    <2> QED BY <2>3, <2>4, <2>6, <2>7 DEF AtWork
  <1>7. CASE Connected(o)
    <2> DEFINE r == [own[o] EXCEPT !.pc = "serving"]
    <2>1. /\ own[o].pc = "connecting" /\ ~own[o].cancel /\ own' = [own EXCEPT ![o] = r]
          /\ Answer(o, "tools") /\ UNCHANGED owner /\ UNCHANGED callers
      BY <1>2, <1>7 DEF Connected
    <2>2. r.pc = "serving" /\ r.stop = own[o].stop
      BY <1>2 DEF Owner
    <2> HIDE DEF r
    <2>3. own'[o] = r /\ \A p \in Owners : p # o => own'[p] = own[p]
      BY <1>2, <2>1
    <2>4. ~r.stop
      BY <2>1, <2>2 DEF ServingInv
    <2>5. ~Settled
      <3>1. SUFFICES ASSUME Settled PROVE FALSE
        OBVIOUS
      <3>2. \E t \in In({"configuring", "connecting"}) : TRUE
        BY <2>1, WhoWaits
      <3> QED BY <3>1, <3>2 DEF Settled, InProgress, In
    <2>6. ASSUME NEW t \in Tasks, NEW n \in Servers, job[t][n].pc = "waiting", job[t][n].old = o
          PROVE  Attended(o, job[t][n].ready, n)'
      <3>1. job'[t][n].ready = "tools"
        BY <1>1, <2>1, <2>6, AnswerEffect
      <3>2. owner[n] = o
        BY <1>1, <2>1, <2>6 DEF AnswerInv, Attended, Live
      <3> QED BY <2>1, <2>2, <2>3, <2>4, <3>1, <3>2 DEF Attended
    <2>7. Live(o) /\ own'[o].pc = "serving" /\ ~own'[o].stop
      BY <2>1, <2>2, <2>3, <2>4 DEF Live
    <2> QED BY <1>6, <2>1, <2>3, <2>5, <2>6, <2>7
  <1>8. CASE OpenFails(o)
    <2> DEFINE r == [own[o] EXCEPT !.pc = IF own[o].cancel THEN "aborting" ELSE "failing",
                                   !.cancel = FALSE]
    <2>1. /\ own[o].pc = "connecting" /\ own' = [own EXCEPT ![o] = r]
          /\ UNCHANGED <<owner, servers, job>> /\ UNCHANGED callers
      BY <1>2, <1>8 DEF OpenFails, tables
    <2>2. r.pc \in {"aborting", "failing"} /\ ~r.cancel /\ (~own[o].cancel => r.pc = "failing")
      BY <1>2 DEF Owner
    <2> HIDE DEF r
    <2>3. own'[o] = r /\ \A p \in Owners : p # o => own'[p] = own[p]
      BY <1>2, <2>1
    <2>4. ASSUME NEW t \in Tasks, NEW n \in Servers, job[t][n].pc = "waiting", job[t][n].old = o
          PROVE  Attended(o, job[t][n].ready, n)'
      BY <1>1, <2>1, <2>2, <2>3, <2>4 DEF AnswerInv, Attended, Live
    <2>5. own'[o].pc \notin {"connecting", "serving"}
      BY <2>2, <2>3
    <2> QED BY <1>6, <2>1, <2>3, <2>4, <2>5
  \* An owner ends that no call waits for, or that tells its call of the failure.
  <1>9. ASSUME Live(o), own[o].pc # "serving", own' = [own EXCEPT ![o] = NoOwner], Forget(o),
               UNCHANGED callers,
               \/ UNCHANGED job
               \/ Answer(o, "error")
               \/ Answer(o, "cancelled"),
               Answer(o, "error") \/
                 \A t \in Tasks, n \in Servers : ~(job[t][n].pc = "waiting" /\ job[t][n].old = o)
        PROVE  AtWork'
    <2> DEFINE n == own[o].name
    <2>1. n \in Servers /\ owner[n] = o
      BY <1>4, <1>9
    <2>2. servers[n] # o
      BY <1>1, <1>5, <1>9, <2>1 DEF OwnerInv
    <2>3. owner' = [owner EXCEPT ![n] = None] /\ UNCHANGED servers
      BY <1>9, <2>1, <2>2, Zenon DEF Forget
    <2> HIDE DEF n
    <2>4. own'[o].pc = "done" /\ \A p \in Owners : p # o => own'[p] = own[p]
      BY <1>2, <1>9 DEF NoOwner
    <2>5. \A m \in Servers : /\ owner'[m] = owner[m] \/ owner'[m] = None
                             /\ owner[m] # o => owner'[m] = owner[m]
      BY <1>1, <2>1, <2>3 DEF ManagerTypeOK
    <2>6. ASSUME NEW t \in Tasks, NEW m \in Servers, job[t][m].pc = "waiting", job[t][m].old = o
          PROVE  Attended(o, job[t][m].ready, m)'
      <3>1. Answer(o, "error")
        BY <1>9, <2>6
      <3>2. job'[t][m].ready = "error"
        BY <1>1, <2>6, <3>1, AnswerEffect
      <3> QED BY <2>4, <3>2 DEF Attended, Live
    <2> QED BY <1>6, <1>9, <2>3, <2>4, <2>5, <2>6
  <1>10. CASE OpenClosed(o)
    <2> DEFINE answer == IF own[o].pc = "failing" /\ ~own[o].cancel THEN "error" ELSE "cancelled"
    <2>1. /\ own[o].pc \in {"failing", "aborting"} /\ own' = [own EXCEPT ![o] = NoOwner]
          /\ Answer(o, answer) /\ Forget(o) /\ UNCHANGED callers
      BY <1>10 DEF OpenClosed
    <2>2. CASE own[o].pc = "failing" /\ ~own[o].cancel
      <3>1. Answer(o, "error")
        BY <2>1, <2>2
      <3> QED BY <1>9, <2>1, <3>1 DEF Live
    <2>3. CASE ~(own[o].pc = "failing" /\ ~own[o].cancel)
      <3>1. Answer(o, "cancelled")
        BY <2>1, <2>3
      <3>2. \A t \in Tasks, n \in Servers : ~(job[t][n].pc = "waiting" /\ job[t][n].old = o)
        BY <1>1, <2>1, <2>3 DEF AnswerInv, Attended, Live
      <3> QED BY <1>9, <2>1, <3>1, <3>2 DEF Live
    <2> QED BY <2>2, <2>3
  <1>11. CASE StopsServing(o)
    <2> DEFINE r == [own[o] EXCEPT !.pc = "closing"]
    <2>1. /\ own[o].pc = "serving" /\ own[o].stop /\ own' = [own EXCEPT ![o] = r]
          /\ UNCHANGED <<owner, job>> /\ UNCHANGED callers
      BY <1>2, <1>11 DEF StopsServing
    <2>2. r.pc = "closing"
      BY <1>2 DEF Owner
    <2> HIDE DEF r
    <2>3. own'[o] = r /\ \A p \in Owners : p # o => own'[p] = own[p]
      BY <1>2, <2>1
    <2>4. ~Settled
      <3>1. own[o].name \in Servers /\ Leaving(own[o].name)
        BY <1>4, <1>5, <2>1 DEF Live, Leaving, Serves
      <3> QED BY <1>1, <3>1, NobodyLeaves
    <2>5. \A t \in Tasks, n \in Servers : ~(job[t][n].pc = "waiting" /\ job[t][n].old = o)
      BY <1>1, <2>1 DEF AnswerInv, Attended, Live
    <2>6. own'[o].pc \notin {"connecting", "serving"}
      BY <2>2, <2>3
    <2> QED BY <1>6, <2>1, <2>3, <2>4, <2>5, <2>6
  <1>12. CASE Closes(o)
    <2>1. /\ own[o].pc = "closing" /\ own' = [own EXCEPT ![o] = NoOwner] /\ Forget(o)
          /\ UNCHANGED job /\ UNCHANGED callers
      BY <1>12 DEF Closes
    <2>2. \A t \in Tasks, n \in Servers : ~(job[t][n].pc = "waiting" /\ job[t][n].old = o)
      BY <1>1, <2>1 DEF AnswerInv, Attended, Live
    <2> QED BY <1>9, <2>1, <2>2 DEF Live
  <1> QED BY <1>7, <1>8, <1>10, <1>11, <1>12 DEF OwnerStep

\* An undone or cancelled call is one of a Task that was cancelled; the others have
\* the owner of the name, or none.
LEMMA CallFacts ==
    ASSUME IInv, AtWork, open, ~overlap, NEW t \in Tasks, NEW n \in Servers,
           job[t][n].pc # "idle"
    PROVE  /\ task[t].pc # "locking"
           /\ task[t].pc = "idle" => job[t][n].pc = "undo"
           /\ task[t].pc \in {"configuring", "connecting"} => job[t][n].kind = "connect"
           /\ task[t].pc = "disconnecting" => job[t][n].kind = "disconnect"
           /\ workspace = None => task[t].pc \in {"idle", "configuring"}
           /\ workspace # None => task[t].pc # "configuring" /\ t \notin cancelled
  <1>1. TaskInv /\ CancelInv /\ BindInv /\ task[t] \in Task
    BY DEF AtWork, IInv, TypeOK
  <1>2. workspace # None => task[t].pc # "configuring"
    BY <1>1 DEF BindInv, In
  <1>3. t \in cancelled => task[t].pc = "configuring"
    BY <1>1 DEF CancelInv
  <1>4. task[t].pc \in {"idle", "configuring", "locking", "disconnecting", "connecting"}
    BY <1>1 DEF Task
  <1>5. workspace = None => task[t].pc \in {"idle", "configuring"}
    BY <1>1, <1>4 DEF TaskInv
  <1> QED BY <1>1, <1>2, <1>3, <1>5 DEF TaskInv

LEMMA JobAtWork ==
    ASSUME IInv, ServingInv, AtWork, open, ~overlap,
           NEW t \in Tasks, NEW n \in Servers, JobStep(t, n), UNCHANGED svars
    PROVE  AtWork'
  <1>1. /\ TypeOK /\ ManagerTypeOK /\ OwnerInv /\ LockInv /\ BindInv
        /\ TaskInv /\ CancelInv /\ AnswerInv /\ LeavingInv /\ EnabledInv
        /\ RegisteredToolsServe
    BY DEF IInv, TypeOK, AtWork
  <1>2. job[t][n] \in Job /\ own \in [Owners -> Owner] /\ job \in [Tasks -> [Servers -> Job]]
    BY <1>1 DEF ManagerTypeOK
  <1>3. UNCHANGED <<task, workspace, registry, reloading, enabled, open, overlap, unread>>
    BY DEF svars
  <1>4. job[t][n].pc # "idle"
    BY DEF JobStep, TakeLock, Create, StoppedForConnect, Disconnected, Answered, Undo, Undone,
           CancelledEarly
  <1>5. /\ task[t].pc # "locking"
        /\ task[t].pc = "idle" => job[t][n].pc = "undo"
        /\ task[t].pc \in {"configuring", "connecting"} => job[t][n].kind = "connect"
        /\ task[t].pc = "disconnecting" => job[t][n].kind = "disconnect"
        /\ workspace = None => task[t].pc \in {"idle", "configuring"}
        /\ workspace # None => task[t].pc # "configuring" /\ t \notin cancelled
    BY <1>4, CallFacts
  <1>6. \A u \in In({"configuring"}), v \in In({"configuring"}) : u = v
    BY <1>1 DEF BindInv
  \* What is left to show of a step of the call, whatever it is.
  <1>7. ASSUME UNCHANGED <<servers, closing, cancelled>>,
               \A u \in Tasks, m \in Servers : u # t \/ m # n => job'[u][m] = job[u][m],
               job'[t][n].pc = "idle" \/ job'[t][n].kind = job[t][n].kind,
               job'[t][n].pc = "waiting" => job[t][n].kind = "connect",
               task[t].pc = "idle" => job'[t][n].pc \in {"idle", "undo"},
               task[t].pc # "idle" /\ (job'[t][n].pc = "undo" \/ job'[t][n].result = "cancelled") =>
                  t \in cancelled,
               job'[t][n].pc \in {"lock", "stopping"} => job'[t][n].ready = "pending",
               \A m \in Servers : m # n => owner'[m] = owner[m],
               \A m \in Servers : m # n => (Leaving(m)' => Leaving(m)) /\ (Serves(m)' => Serves(m)),
               Serves(n)' => Serves(n),
               \A u \in Tasks, m \in Servers :
                  (u # t \/ m # n) /\ job[u][m].pc = "waiting" =>
                     Attended(job[u][m].old, job[u][m].ready, m)',
               job'[t][n].pc = "waiting" => Attended(job[t][n].old, job[t][n].ready, n)',
               \A o \in Owners : own'[o].pc = "connecting" /\ ~own'[o].cancel =>
                  \E u \in Tasks, m \in Servers : job'[u][m].pc = "waiting" /\ job'[u][m].old = o,
               \* the server of the call
               Leaving(n)' => \/ job'[t][n].pc = "stopping"
                              \/ t \in cancelled
                              \/ /\ Leaving(n) /\ (job[t][n].pc = "stopping" => t \in cancelled)
                                 /\ job'[t][n].pc \in {"idle", "waiting"} =>
                                      \/ t \in cancelled
                                      \/ job[t][n].pc \in {"idle", "waiting"}
                                      \/ task[t].pc # "configuring",
               Serves(n) /\ task[t].pc = "disconnecting" /\ job[t][n].pc \in {"lock", "stopping"}
                  => job'[t][n].pc \in {"lock", "stopping"}
        PROVE  AtWork'
    <2>1. TaskInv'
      BY <1>1, <1>3, <1>5, <1>7 DEF TaskInv
    <2>2. CancelInv'
      BY <1>1, <1>3, <1>7 DEF CancelInv
    <2>3. AnswerInv'
      <3>1. \A u \in Tasks, m \in Servers :
              job'[u][m].pc = "waiting" => Attended(job[u][m].old, job[u][m].ready, m)'
        <4> SUFFICES ASSUME NEW u \in Tasks, NEW m \in Servers, job'[u][m].pc = "waiting"
                     PROVE  Attended(job[u][m].old, job[u][m].ready, m)'
          OBVIOUS
        <4>1. CASE u = t /\ m = n
          BY <1>7, <4>1
        <4>2. CASE u # t \/ m # n
          <5>1. job'[u][m] = job[u][m]
            BY <1>7, <4>2
          <5> QED BY <1>7, <4>2, <5>1
        <4> QED BY <4>1, <4>2
      <3>2. \A u \in Tasks, m \in Servers :
              job'[u][m].pc \in {"lock", "stopping"} => job'[u][m].ready = "pending"
        BY <1>1, <1>7 DEF AnswerInv
      <3> QED BY <1>7, <3>1, <3>2 DEF AnswerInv
    <2>4. LeavingInv'
      <3>1. In({"configuring"})' = In({"configuring"})
        BY <1>3 DEF In
      <3>2. ASSUME NEW u \in In({"configuring"}) \ cancelled, NEW m \in enabled,
                   job'[u][m].pc \in {"idle", "waiting"}, Leaving(m)'
            PROVE  FALSE
        <4>1. u \in Tasks /\ m \in Servers /\ task[u].pc = "configuring" /\ u \notin cancelled
          BY <1>1, <3>2 DEF In, TypeOK
        <4>2. workspace = None
          BY <1>1, <3>2 DEF BindInv
        <4>3. task[t].pc = "configuring" => t = u
          BY <1>6, <4>1 DEF In
        <4>4. ~(job[u][m].pc \in {"idle", "waiting"} /\ Leaving(m))
          BY <1>1, <3>2 DEF LeavingInv
        <4>5. CASE m # n
          BY <1>7, <3>2, <4>1, <4>4, <4>5
        <4>6. CASE m = n /\ u = t
          BY <1>4, <1>7, <3>2, <4>1, <4>4, <4>6
        <4>7. CASE m = n /\ u # t
          <5>1. task[t].pc = "idle" /\ job[t][n].pc = "undo" /\ t \notin cancelled
            BY <1>1, <1>5, <4>2, <4>3, <4>7 DEF CancelInv
          <5>2. job'[u][m] = job[u][m]
            BY <1>7, <4>1, <4>7
          <5> QED BY <1>7, <3>2, <4>4, <4>7, <5>1, <5>2
        <4> QED BY <4>5, <4>6, <4>7
      <3>3. ASSUME workspace # None, NEW m \in enabled, Leaving(m)'
            PROVE  \E u \in Tasks : job'[u][m].pc = "stopping"
        <4>1. m \in Servers /\ t \notin cancelled
          BY <1>1, <1>5, <3>3 DEF TypeOK
        <4>2. Leaving(m) => \E u \in Tasks : job[u][m].pc = "stopping"
          BY <1>1, <3>3 DEF LeavingInv
        <4>3. CASE m # n
          BY <1>7, <3>3, <4>1, <4>2, <4>3
        <4>4. CASE m = n
          BY <1>7, <3>3, <4>1, <4>2, <4>4
        <4> QED BY <4>3, <4>4
      <3> QED BY <1>3, <1>7, <3>1, <3>2, <3>3 DEF LeavingInv
    <2>5. EnabledInv'
      <3> SUFFICES ASSUME ~unread PROVE EnabledInv'
        BY <1>3 DEF EnabledInv
      <3>1. In({"disconnecting"})' = In({"disconnecting"}) /\ In({"connecting"})' = In({"connecting"})
        BY <1>3 DEF In
      <3>2. ASSUME workspace = None, NEW m \in Servers \ enabled
            PROVE  owner'[m] = None /\ \A u \in Tasks : job'[u][m].pc = "idle"
        <4>1. owner[m] = None /\ \A u \in Tasks : job[u][m].pc = "idle"
          BY <1>1, <3>2 DEF EnabledInv
        <4>2. m # n
          BY <1>4, <4>1
        <4> QED BY <1>7, <4>1, <4>2
      <3>3. ASSUME workspace # None, NEW m \in Servers \ enabled, Serves(m)'
            PROVE  \E u \in In({"disconnecting"}) : m \in task[u].drop \/ job'[u][m].pc \in {"lock", "stopping"}
        <4>1. Serves(m)
          BY <1>7, <3>3
        <4>2. PICK u \in In({"disconnecting"}) : m \in task[u].drop \/ job[u][m].pc \in {"lock", "stopping"}
          BY <1>1, <3>3, <4>1 DEF EnabledInv
        <4>3. u \in Tasks /\ task[u].pc = "disconnecting"
          BY <4>2 DEF In
        <4>4. CASE u = t /\ m = n
          BY <1>7, <4>1, <4>2, <4>3, <4>4
        <4>5. CASE u # t \/ m # n
          BY <1>7, <4>2, <4>3, <4>5
        <4> QED BY <4>4, <4>5
      <3>4. ASSUME NEW u \in In({"connecting"}), NEW m \in Servers \ enabled
            PROVE  job'[u][m].pc = "idle"
        <4>1. job[u][m].pc = "idle" /\ u \in Tasks
          BY <1>1, <3>4 DEF EnabledInv, In
        <4> QED BY <1>4, <1>7, <4>1
      <3> QED BY <1>1, <1>3, <3>1, <3>2, <3>3, <3>4 DEF EnabledInv
    <2>6. RegisteredToolsServe'
      <3>1. Settled' = Settled
        BY <1>3 DEF Settled, InProgress, In
      <3> QED BY <1>1, <1>3, <1>7, <3>1 DEF RegisteredToolsServe
    <2> QED BY <2>1, <2>2, <2>3, <2>4, <2>5, <2>6 DEF AtWork
  \* A call that ends, with the result that is left in its row.
  <1>8. ASSUME NEW result \in {"ok", "skipped", "cancelled"}, End(t, n, result),
               UNCHANGED <<own, tables, closing, cancelled>>,
               task[t].pc # "idle" /\ result = "cancelled" => t \in cancelled,
               job[t][n].pc = "waiting" => job[t][n].ready \in {"tools", "error"},
               Leaving(n) /\ t \notin cancelled =>
                  /\ job[t][n].pc # "stopping"
                  /\ job[t][n].pc = "waiting" \/ task[t].pc # "configuring",
               ~(Serves(n) /\ task[t].pc = "disconnecting" /\ job[t][n].pc \in {"lock", "stopping"})
        PROVE  AtWork'
    <2>1. job' = [job EXCEPT ![t][n] = [NoJob EXCEPT !.result = result]]
      BY <1>8 DEF End
    <2> DEFINE j == [NoJob EXCEPT !.result = result]
    <2>2. j.pc = "idle" /\ j.result = result
      BY DEF NoJob
    <2> HIDE DEF j
    <2>3. job'[t][n] = j /\ \A u \in Tasks, m \in Servers : u # t \/ m # n => job'[u][m] = job[u][m]
      BY <1>2, <2>1 DEF j
    <2>4. UNCHANGED <<own, owner, servers, closing, cancelled>>
      BY <1>8 DEF tables
    <2>5. \A m \in Servers : (Leaving(m)' <=> Leaving(m)) /\ (Serves(m)' <=> Serves(m))
      BY <2>4 DEF Leaving, Serves
    <2>6. \A o, ready, m : Attended(o, ready, m) => Attended(o, ready, m)'
      BY <2>4 DEF Attended, Live
    <2>7. ASSUME NEW u \in Tasks, NEW m \in Servers, u # t \/ m # n, job[u][m].pc = "waiting"
          PROVE  Attended(job[u][m].old, job[u][m].ready, m)'
      <3>1. job'[u][m] = job[u][m]
        BY <2>3, <2>7
      <3>2. Attended(job[u][m].old, job[u][m].ready, m)
        BY <1>1, <2>7 DEF AnswerInv
      <3> QED BY <2>4, <3>1, <3>2 DEF Attended, Live
    <2>8. ASSUME NEW o \in Owners, own'[o].pc = "connecting", ~own'[o].cancel
          PROVE  \E u \in Tasks, m \in Servers : job'[u][m].pc = "waiting" /\ job'[u][m].old = o
      <3>1. own[o].pc = "connecting" /\ ~own[o].cancel
        BY <2>4, <2>8
      <3>2. PICK u \in Tasks, m \in Servers : job[u][m].pc = "waiting" /\ job[u][m].old = o
        BY <1>1, <3>1 DEF AnswerInv
      <3>3. Attended(o, job[u][m].ready, m)
        BY <1>1, <3>2 DEF AnswerInv
      <3>4. job[u][m].ready = "pending"
        BY <3>1, <3>3 DEF Attended, Live
      <3>5. u # t \/ m # n
        BY <1>8, <3>2, <3>4
      <3> QED BY <2>3, <3>2, <3>5
    <2>9. \A m \in Servers : owner'[m] = owner[m]
      BY <2>4
    <2>10. /\ Leaving(n)' =>
                \/ t \in cancelled
                \/ /\ Leaving(n) /\ (job[t][n].pc = "stopping" => t \in cancelled)
                   /\ job'[t][n].pc \in {"idle", "waiting"} =>
                        \/ t \in cancelled
                        \/ job[t][n].pc \in {"idle", "waiting"}
                        \/ task[t].pc # "configuring"
           /\ task[t].pc # "idle" /\ (job'[t][n].pc = "undo" \/ job'[t][n].result = "cancelled") =>
                t \in cancelled
      BY <1>8, <2>2, <2>3, <2>5
    <2> QED BY <1>7, <1>8, <2>2, <2>3, <2>4, <2>5, <2>7, <2>8, <2>9, <2>10
  \* Where the owner is that a stopping call waits for.
  <1>9. job[t][n].pc = "stopping" /\ Ended(job[t][n].old) => owner[n] = None
    <2>1. job[t][n].pc = "stopping" /\ owner[n] # None => owner[n] = job[t][n].old
      BY <1>1 DEF LockInv
    <2>2. owner[n] # None => Live(owner[n])
      BY <1>1 DEF OwnerInv
    <2> QED BY <2>1, <2>2 DEF Ended
  <1>10. CASE Disconnected(t, n)
    <2>1. /\ job[t][n].pc = "stopping" /\ Ended(job[t][n].old)
          /\ End(t, n, "ok") /\ UNCHANGED <<own, tables, closing, cancelled>>
      BY <1>10 DEF Disconnected
    <2>2. ~Serves(n) /\ ~Leaving(n)
      BY <1>9, <2>1 DEF Serves, Leaving
    <2> QED BY <1>8, <2>1, <2>2
  <1>11. CASE Answered(t, n)
    <2>1. /\ job[t][n].pc = "waiting" /\ job[t][n].ready \in {"tools", "error"}
          /\ UNCHANGED <<own, tables, closing, cancelled>>
          /\ End(t, n, "ok") \/ End(t, n, "skipped")
      BY <1>11, Zenon DEF Answered
    <2>2. CASE End(t, n, "ok")
      BY <1>8, <2>1, <2>2
    <2>3. CASE End(t, n, "skipped")
      BY <1>8, <2>1, <2>3
    <2> QED BY <2>1, <2>2, <2>3
  <1>12. CASE Undone(t, n)
    <2>1. /\ job[t][n].pc = "undo"
          /\ End(t, n, "cancelled") /\ UNCHANGED <<own, tables, closing, cancelled>>
      BY <1>12 DEF Undone
    <2>2. task[t].pc # "idle" => t \in cancelled
      BY <1>1, <2>1 DEF CancelInv
    <2> QED BY <1>8, <2>1, <2>2
  <1>13. CASE CancelledEarly(t, n)
    <2>1. /\ job[t][n].pc \in {"lock", "stopping"} /\ t \in cancelled
          /\ End(t, n, "cancelled") /\ UNCHANGED <<own, tables, closing, cancelled>>
      BY <1>13 DEF CancelledEarly
    <2>2. task[t].pc = "configuring"
      BY <1>1, <2>1 DEF CancelInv
    <2> QED BY <1>8, <2>1, <2>2
  \* The owner of the name is stopped for the call.
  <1>14. ASSUME NEW pc \in {"stopping", "undo"}, own' = StopRequested({owner[n]}),
                job' = [job EXCEPT ![t][n] = [@ EXCEPT !.pc = pc, !.old = owner[n]]],
                lock[n] \in {None, t}, UNCHANGED <<tables, closing, cancelled>>,
                pc = "stopping" => job[t][n].pc = "lock",
                pc = "undo" => job[t][n].pc = "waiting" /\ t \in cancelled
         PROVE  AtWork'
    <2> DEFINE j == [job[t][n] EXCEPT !.pc = pc, !.old = owner[n]]
    <2>1. j.pc = pc /\ j.kind = job[t][n].kind /\ j.ready = job[t][n].ready /\ j.result = job[t][n].result
      BY <1>2 DEF Job
    <2> HIDE DEF j
    <2>2. job'[t][n] = j /\ \A u \in Tasks, m \in Servers : u # t \/ m # n => job'[u][m] = job[u][m]
      BY <1>2, <1>14 DEF j
    <2>3. UNCHANGED <<owner, servers, closing, cancelled>>
      BY <1>14 DEF tables
    <2>4. /\ \A o \in Owners : o # owner[n] => own'[o] = own[o]
          /\ \A o \in Owners : /\ own'[o].pc = own[o].pc
                               /\ o = owner[n] /\ own[o].pc \in {"connecting", "failing"} => own'[o].cancel
                               /\ own[o].cancel => own'[o].cancel
      BY <1>1, <1>14, StopOneSound
    <2>5. \A m \in Servers : owner[m] # None => owner[m] \in Owners
      BY <1>1 DEF ManagerTypeOK
    <2>6. \A m \in Servers : m # n /\ owner[m] # None => owner[m] # owner[n]
      BY <1>1, OwnersApart
    <2>7. \A m \in Servers : /\ m # n => (Leaving(m)' => Leaving(m))
                             /\ Serves(m)' => Serves(m)
      BY <2>3, <2>4, <2>5, <2>6 DEF Leaving, Serves
    <2>8. ASSUME NEW u \in Tasks, NEW m \in Servers, u # t \/ m # n, job[u][m].pc = "waiting"
          PROVE  Attended(job[u][m].old, job[u][m].ready, m)'
      <3> DEFINE p == job[u][m].old
      <3>1. job'[u][m] = job[u][m] /\ Attended(p, job[u][m].ready, m)
        BY <1>1, <2>2, <2>8 DEF AnswerInv
      <3>2. p \in Owners
        BY <3>1 DEF Attended
      <3>3. CASE p # owner[n]
        <4>1. own'[p] = own[p]
          BY <2>4, <3>2, <3>3
        <4> HIDE DEF p
        <4>2. job'[u][m].old = p
          BY <3>1 DEF p
        <4> QED BY <2>3, <3>1, <4>1, <4>2 DEF Attended, Live
      <3>4. CASE p = owner[n]
        <4>1. m # n
          <5>1. lock[m] = u
            BY <1>1, <2>8 DEF LockInv
          <5> QED BY <1>14, <2>8, <5>1, ManagerAssumption
        <4>2. Live(p)
          BY <1>1, <3>2, <3>4, ManagerAssumption DEF OwnerInv
        <4>3. owner[m] = p
          BY <3>1, <4>2 DEF Attended
        <4> QED BY <2>6, <3>2, <3>4, <4>1, <4>3, ManagerAssumption
      <3> QED BY <3>3, <3>4
    <2>9. ASSUME NEW o \in Owners, own'[o].pc = "connecting", ~own'[o].cancel
          PROVE  \E u \in Tasks, m \in Servers : job'[u][m].pc = "waiting" /\ job'[u][m].old = o
      <3>1. own[o].pc = "connecting" /\ ~own[o].cancel /\ o # owner[n]
        BY <2>4, <2>9
      <3>2. PICK u \in Tasks, m \in Servers : job[u][m].pc = "waiting" /\ job[u][m].old = o
        BY <1>1, <3>1 DEF AnswerInv
      <3>3. owner[m] = o
        BY <1>1, <3>1, <3>2 DEF AnswerInv, Attended, Live
      <3>4. m # n
        BY <3>1, <3>3
      <3> QED BY <2>2, <3>2, <3>4
    <2>10. /\ Leaving(n)' => job'[t][n].pc = "stopping" \/ t \in cancelled
           /\ task[t].pc = "idle" => job'[t][n].pc \in {"idle", "undo"}
           /\ job'[t][n].pc \in {"lock", "stopping"} => job'[t][n].ready = "pending"
           /\ job'[t][n].pc # "waiting" /\ job'[t][n].kind = job[t][n].kind
      <3>1. job[t][n].pc = "lock" => job[t][n].ready = "pending"
        BY <1>1 DEF AnswerInv
      <3> QED BY <1>5, <1>14, <2>1, <2>2, <3>1
    <2>11. /\ task[t].pc # "idle" /\ (job'[t][n].pc = "undo" \/ job'[t][n].result = "cancelled") =>
                t \in cancelled
           /\ Serves(n) /\ task[t].pc = "disconnecting" /\ job[t][n].pc \in {"lock", "stopping"}
                => job'[t][n].pc \in {"lock", "stopping"}
      <3>1. task[t].pc # "idle" /\ job[t][n].result = "cancelled" => t \in cancelled
        BY <1>1 DEF CancelInv
      <3> QED BY <1>14, <2>1, <2>2, <3>1
    <2>12. \A m \in Servers : owner'[m] = owner[m]
      BY <2>3
    <2> QED BY <1>7, <2>2, <2>3, <2>7, <2>8, <2>9, <2>10, <2>11, <2>12
  <1>15. CASE TakeLock(t, n)
    BY <1>14, <1>15 DEF TakeLock
  <1>16. CASE Undo(t, n)
    <2>1. lock[n] = t
      BY <1>1, <1>16 DEF Undo, LockInv
    <2>2. job[t][n].pc = "waiting" /\ t \in cancelled
      <3>1. job[t][n].ready # "cancelled"
        BY <1>1, <1>16 DEF Undo, AnswerInv, Attended
      <3> QED BY <1>16, <3>1 DEF Undo
    <2> QED BY <1>14, <1>16, <2>1, <2>2 DEF Undo
  <1>17. CASE Create(t, n)
    <2>1. /\ job[t][n].pc = "stopping" /\ job[t][n].kind = "connect" /\ Ended(job[t][n].old)
          /\ t \notin cancelled
      BY <1>17 DEF Create, StoppedForConnect
    <2>2. Make(t, n)
      BY <1>1, <1>17 DEF Create, CancelInv
    <2>3. owner[n] = None /\ lock[n] = t
      BY <1>1, <1>9, <2>1 DEF LockInv
    <2> DEFINE o == CHOOSE x \in Owners : Free(x)
               r == [NoOwner EXCEPT !.name = n, !.pc = "connecting"]
               j == [job[t][n] EXCEPT !.pc = "waiting", !.old = o]
    <2>4. o \in Owners /\ Free(o)
      BY <2>2 DEF Make
    <2>5. /\ own' = [own EXCEPT ![o] = r] /\ owner' = [owner EXCEPT ![n] = o]
          /\ job' = [job EXCEPT ![t][n] = j]
          /\ UNCHANGED <<servers, closing, cancelled>>
      BY <2>2, Zenon DEF Make
    <2>6. r.pc = "connecting" /\ ~r.cancel
      BY DEF NoOwner
    <2>7. /\ j.pc = "waiting" /\ j.old = o /\ j.kind = job[t][n].kind
          /\ j.ready = job[t][n].ready /\ j.result = job[t][n].result
      BY <1>2 DEF Job
    <2> HIDE DEF o, r, j
    <2>8. /\ own'[o] = r /\ \A p \in Owners : p # o => own'[p] = own[p]
          /\ owner'[n] = o /\ \A m \in Servers : m # n => owner'[m] = owner[m]
          /\ job'[t][n] = j /\ \A u \in Tasks, m \in Servers : u # t \/ m # n => job'[u][m] = job[u][m]
      BY <1>1, <1>2, <2>4, <2>5 DEF ManagerTypeOK
    <2>9. \A m \in Servers : owner[m] # None => owner[m] \in Owners /\ owner[m] # o
      BY <1>1, <2>4 DEF ManagerTypeOK, OwnerInv, Free, Live
    <2>10. ~Serves(n)' /\ ~Leaving(n)'
      BY <2>6, <2>8 DEF Serves, Leaving
    <2>11. \A m \in Servers : m # n => (Leaving(m)' => Leaving(m)) /\ (Serves(m)' => Serves(m))
      BY <2>8, <2>9 DEF Serves, Leaving
    <2>12. ASSUME NEW u \in Tasks, NEW m \in Servers, u # t \/ m # n, job[u][m].pc = "waiting"
           PROVE  Attended(job[u][m].old, job[u][m].ready, m)'
      <3> DEFINE p == job[u][m].old
      <3>1. job'[u][m] = job[u][m] /\ Attended(p, job[u][m].ready, m)
        BY <1>1, <2>8, <2>12 DEF AnswerInv
      <3>2. m # n
        <4>1. lock[m] = u
          BY <1>1, <2>12 DEF LockInv
        <4> QED BY <2>3, <2>12, <4>1
      <3>3. p \in Owners /\ p # o
        BY <2>4, <3>1 DEF Attended, Free
      <3> HIDE DEF p
      <3>4. job'[u][m].old = p /\ own'[p] = own[p] /\ owner'[m] = owner[m]
        BY <2>8, <3>1, <3>2, <3>3 DEF p
      <3> QED BY <3>1, <3>4 DEF Attended, Live
    <2>13. Attended(job[t][n].old, job[t][n].ready, n)'
      <3>1. job[t][n].ready = "pending"
        BY <1>1, <2>1 DEF AnswerInv
      <3> QED BY <2>4, <2>6, <2>7, <2>8, <3>1 DEF Attended
    <2>14. ASSUME NEW p \in Owners, own'[p].pc = "connecting", ~own'[p].cancel
           PROVE  \E u \in Tasks, m \in Servers : job'[u][m].pc = "waiting" /\ job'[u][m].old = p
      <3>1. CASE p = o
        BY <2>7, <2>8, <3>1
      <3>2. CASE p # o
        <4>1. own[p].pc = "connecting" /\ ~own[p].cancel
          BY <2>8, <2>14, <3>2
        <4>2. PICK u \in Tasks, m \in Servers : job[u][m].pc = "waiting" /\ job[u][m].old = p
          BY <1>1, <4>1 DEF AnswerInv
        <4>3. u # t \/ m # n
          BY <2>1, <4>2
        <4> QED BY <2>8, <4>2, <4>3
      <3> QED BY <3>1, <3>2
    <2>15. /\ job'[t][n].kind = job[t][n].kind /\ job'[t][n].pc = "waiting"
           /\ job'[t][n].result = job[t][n].result
           /\ task[t].pc # "idle" /\ task[t].pc # "disconnecting"
      BY <1>5, <2>1, <2>7, <2>8
    <2>16. task[t].pc # "idle" /\ job[t][n].result = "cancelled" => t \in cancelled
      BY <1>1 DEF CancelInv
    <2> QED BY <1>7, <2>1, <2>5, <2>8, <2>10, <2>11, <2>12, <2>13, <2>14, <2>15, <2>16
  <1> QED BY <1>10, <1>11, <1>12, <1>13, <1>15, <1>16, <1>17 DEF JobStep

\* The calls that a Task starts, and the ones it does not.
LEMMA LaunchEffect ==
    ASSUME ManagerTypeOK, NEW t \in Tasks, NEW kind \in {"connect", "disconnect"},
           NEW ns, Launch(t, kind, ns)
    PROVE  /\ \A n \in Servers :
                /\ n \in ns => job'[t][n].pc = "lock" /\ job'[t][n].kind = kind
                /\ n \notin ns => job'[t][n].pc = "idle"
                /\ job'[t][n].ready = "pending" /\ job'[t][n].result = "none"
           /\ \A u \in Tasks : u # t => job'[u] = job[u]
  <1> DEFINE row == [n \in Servers |->
                        IF n \in ns THEN [NoJob EXCEPT !.kind = kind, !.pc = "lock"] ELSE NoJob]
  <1>1. job' = [job EXCEPT ![t] = row]
    BY DEF Launch
  <1>2. \A n \in Servers :
          /\ n \in ns => row[n].pc = "lock" /\ row[n].kind = kind
          /\ n \notin ns => row[n].pc = "idle"
          /\ row[n].ready = "pending" /\ row[n].result = "none"
    BY DEF NoJob
  <1> HIDE DEF row
  <1> QED BY <1>1, <1>2 DEF ManagerTypeOK

\* The Task t starts calls of the kind after all that it had have returned.
LEMMA LaunchAtWork ==
    ASSUME IInv, AtWork, NEW t \in Tasks, NEW kind \in {"connect", "disconnect"},
           NEW ns, Launch(t, kind, ns), \A n \in Servers : job[t][n].pc = "idle",
           UNCHANGED <<own, tables, closing, cancelled>>,
           task' \in [Tasks -> Task], \A u \in Tasks : u # t => task'[u] = task[u],
           t \notin cancelled, workspace # None => workspace' # None,
           task'[t].pc \in {"disconnecting", "connecting"} <=> reloading' = t,
           \A u \in Tasks : u # t => (reloading' = u <=> reloading = u),
           task'[t].pc \in {"locking", "disconnecting", "connecting"} =>
              workspace' # None /\ task'[t].kind = "reload",
           task'[t].pc \in {"idle", "locking"} => ns = {},
           task'[t].pc \in {"configuring", "connecting"} => kind = "connect",
           task'[t].pc = "disconnecting" => kind = "disconnect"
    PROVE  TaskInv' /\ CancelInv' /\ AnswerInv'
  <1>1. /\ ManagerTypeOK /\ TaskInv /\ CancelInv /\ AnswerInv
        /\ UNCHANGED <<own, owner, servers, closing, cancelled>>
    BY DEF IInv, TypeOK, AtWork, tables
  <1>2. /\ \A n \in Servers :
             /\ n \in ns => job'[t][n].pc = "lock" /\ job'[t][n].kind = kind
             /\ n \notin ns => job'[t][n].pc = "idle"
             /\ job'[t][n].ready = "pending" /\ job'[t][n].result = "none"
        /\ \A u \in Tasks : u # t => job'[u] = job[u]
    BY <1>1, LaunchEffect
  <1>3. TaskInv'
    <2>1. ASSUME NEW u \in Tasks
          PROVE  /\ task'[u].pc \in {"disconnecting", "connecting"} <=> reloading' = u
                 /\ task'[u].pc \in {"locking", "disconnecting", "connecting"} =>
                      workspace' # None /\ task'[u].kind = "reload"
      <3>1. CASE u = t
        BY <3>1
      <3>2. CASE u # t
        BY <1>1, <3>2 DEF TaskInv
      <3> QED BY <3>1, <3>2
    <2>2. ASSUME NEW u \in Tasks, NEW n \in Servers
          PROVE  /\ task'[u].pc = "idle" => job'[u][n].pc \in {"idle", "undo"}
                 /\ task'[u].pc = "locking" => job'[u][n].pc = "idle"
                 /\ task'[u].pc \in {"configuring", "connecting"} /\ job'[u][n].pc # "idle" =>
                      job'[u][n].kind = "connect"
                 /\ task'[u].pc = "disconnecting" /\ job'[u][n].pc # "idle" =>
                      job'[u][n].kind = "disconnect"
                 /\ job'[u][n].pc = "waiting" => job'[u][n].kind = "connect"
      <3>1. CASE u = t
        BY <1>2, <3>1
      <3>2. CASE u # t
        BY <1>1, <1>2, <3>2 DEF TaskInv
      <3> QED BY <3>1, <3>2
    <2> QED BY <2>1, <2>2 DEF TaskInv
  <1>4. CancelInv'
    <2>1. \A u \in cancelled : u \in Tasks /\ task'[u] = task[u]
      BY <1>1 DEF ManagerTypeOK
    <2>2. ASSUME NEW u \in Tasks, NEW n \in Servers, task'[u].pc # "idle",
                 job'[u][n].pc = "undo" \/ job'[u][n].result = "cancelled"
          PROVE  u \in cancelled
      <3>1. u # t
        BY <1>2, <2>2
      <3> QED BY <1>1, <1>2, <2>2, <3>1 DEF CancelInv
    <2> QED BY <1>1, <2>1, <2>2 DEF CancelInv
  <1>5. AnswerInv'
    <2>1. ASSUME NEW u \in Tasks, NEW n \in Servers, job'[u][n].pc = "waiting"
          PROVE  Attended(job[u][n].old, job[u][n].ready, n)'
      <3>1. u # t /\ job'[u] = job[u]
        BY <1>2, <2>1
      <3>2. Attended(job[u][n].old, job[u][n].ready, n)
        BY <1>1, <2>1, <3>1 DEF AnswerInv
      <3> QED BY <1>1, <3>1, <3>2 DEF Attended, Live
    <2>2. \A u \in Tasks, n \in Servers :
            job'[u][n].pc \in {"lock", "stopping"} => job'[u][n].ready = "pending"
      <3>1. ASSUME NEW u \in Tasks, NEW n \in Servers, job'[u][n].pc \in {"lock", "stopping"}
            PROVE  job'[u][n].ready = "pending"
        BY <1>1, <1>2, <3>1 DEF AnswerInv
      <3> QED BY <3>1
    <2>3. ASSUME NEW o \in Owners, own'[o].pc = "connecting", ~own'[o].cancel
          PROVE  \E u \in Tasks, n \in Servers : job'[u][n].pc = "waiting" /\ job'[u][n].old = o
      <3>1. PICK u \in Tasks, n \in Servers : job[u][n].pc = "waiting" /\ job[u][n].old = o
        BY <1>1, <2>3 DEF AnswerInv
      <3>2. u # t
        BY <3>1
      <3> QED BY <1>2, <3>1, <3>2
    <2> QED BY <2>1, <2>2, <2>3 DEF AnswerInv
  <1> QED BY <1>3, <1>4, <1>5

\* A Task that moves in a session that is bound, or does not become the one that
\* configures it, stops no server.
LEMMA LeavingKept ==
    ASSUME IInv, AtWork, UNCHANGED <<own, owner, enabled>>, NEW t \in Tasks,
           \A u \in Tasks : u # t => job'[u] = job[u] /\ task'[u] = task[u],
           \A n \in Servers : job[t][n].pc # "stopping",
           task'[t].pc # "configuring", UNCHANGED workspace,
           \A u \in Tasks : u # t => (u \in cancelled' <=> u \in cancelled)
    PROVE  LeavingInv'
  <1>1. LeavingInv /\ \A n \in Servers : Leaving(n)' <=> Leaving(n)
    BY DEF AtWork, Leaving, Serves
  <1>2. enabled \in SUBSET Servers
    BY DEF IInv, TypeOK
  <1>3. ASSUME NEW u \in In({"configuring"})' \ cancelled', NEW n \in enabled,
               job'[u][n].pc \in {"idle", "waiting"}, Leaving(n)'
        PROVE  FALSE
    <2>1. u \in Tasks /\ u # t
      BY <1>3 DEF In
    <2>2. u \in In({"configuring"}) \ cancelled /\ job[u][n].pc \in {"idle", "waiting"} /\ n \in Servers
      BY <1>2, <1>3, <2>1 DEF In
    <2> QED BY <1>1, <1>3, <2>2 DEF LeavingInv
  <1>4. ASSUME workspace # None, NEW n \in enabled, Leaving(n)'
        PROVE  \E u \in Tasks : job'[u][n].pc = "stopping"
    <2>1. n \in Servers /\ Leaving(n)
      BY <1>1, <1>2, <1>4
    <2>2. PICK u \in Tasks : job[u][n].pc = "stopping"
      BY <1>1, <1>4, <2>1 DEF LeavingInv
    <2>3. u # t
      BY <2>1, <2>2
    <2> QED BY <2>2, <2>3
  <1> QED BY <1>3, <1>4 DEF LeavingInv

\* A Task that is not at rest is at work: nobody can tell that the session is settled.
LEMMA NotSettled ==
    ASSUME NEW t \in Tasks, task'[t].pc # "idle"
    PROVE  RegisteredToolsServe'
  BY DEF RegisteredToolsServe, Settled, InProgress, In

LEMMA ConfiguredAtWork ==
    ASSUME IInv, ServingInv, AtWork, ~overlap, NEW t \in Tasks, Configured(t)
    PROVE  AtWork'
  <1>1. /\ TypeOK /\ ManagerTypeOK /\ OwnerInv /\ BindInv
        /\ TaskInv /\ CancelInv /\ AnswerInv /\ LeavingInv /\ EnabledInv
    BY DEF IInv, TypeOK, AtWork
  <1>2. /\ task[t].pc = "configuring" /\ Returned(t) /\ t \notin cancelled
        /\ registry' = servers /\ workspace' = task[t].ws
        /\ Launch(t, "connect", {})
        /\ UNCHANGED <<own, tables, closing, cancelled, owner, servers>>
        /\ UNCHANGED <<reloading, enabled, open, overlap, unread>>
    BY DEF Configured, managerExceptJobs, tables
  <1> DEFINE r == IF task[t].kind = "reload"
                  THEN [NoTask EXCEPT !.kind = "reload", !.pc = "locking"] ELSE NoTask
  <1>3. task' = [task EXCEPT ![t] = r]
    BY DEF Configured
  <1>4. /\ r \in Task /\ r.pc \in {"idle", "locking"}
        /\ r.pc = "locking" => r.kind = "reload"
    BY DEF NoTask, Task
  <1> HIDE DEF r
  <1>5. /\ task' \in [Tasks -> Task] /\ task'[t] = r
        /\ \A u \in Tasks : u # t => task'[u] = task[u]
    BY <1>1, <1>3, <1>4 DEF TypeOK
  <1>6. /\ In({"configuring"}) = {t}
        /\ task[t].ws # None /\ workspace = None
    BY <1>1, <1>2 DEF BindInv, In
  <1>7. \A n \in Servers : job[t][n].pc = "idle"
    BY <1>2 DEF Returned
  <1>8. TaskInv' /\ CancelInv' /\ AnswerInv'
    <2>1. reloading # t
      BY <1>1, <1>2 DEF TaskInv
    <2> QED BY <1>2, <1>4, <1>5, <1>6, <1>7, <2>1, LaunchAtWork
  <1>9. \A n \in Servers : (Leaving(n)' <=> Leaving(n)) /\ (Serves(n)' <=> Serves(n))
    BY <1>2 DEF Leaving, Serves
  <1>10. In({"configuring"})' = {}
    BY <1>4, <1>5, <1>6 DEF In
  <1>11. \A n \in enabled : ~Leaving(n)
    BY <1>1, <1>2, <1>6, <1>7 DEF LeavingInv, TypeOK
  <1>12. LeavingInv'
    <2>1. enabled \in SUBSET Servers
      BY <1>1 DEF TypeOK
    <2> QED BY <1>2, <1>9, <1>10, <1>11, <2>1 DEF LeavingInv
  <1>13. EnabledInv'
    <2> SUFFICES ASSUME ~unread PROVE EnabledInv'
      BY <1>2 DEF EnabledInv
    <2>1. \A n \in Servers \ enabled : ~Serves(n)'
      BY <1>1, <1>2, <1>6, <1>9 DEF EnabledInv, Serves
    <2>2. \A u \in Tasks : task'[u].pc \notin {"disconnecting", "connecting"}
      BY <1>1, <1>4, <1>5, <1>6 DEF TaskInv
    <2>3. In({"disconnecting"})' = {} /\ In({"connecting"})' = {}
      BY <2>2 DEF In
    <2> QED BY <1>2, <1>6, <2>1, <2>3 DEF EnabledInv
  <1>14. RegisteredToolsServe'
    BY <1>2 DEF RegisteredToolsServe
  <1> QED BY <1>8, <1>12, <1>13, <1>14 DEF AtWork

\* A Task that has the workspace bound reloads; nobody configures any more.
LEMMA ReloadAtWork ==
    ASSUME IInv, ServingInv, AtWork, ~overlap, NEW t \in Tasks,
           TakeReloadLock(t) \/ DisconnectOne(t) \/ ConnectNew(t) \/ Reloaded(t)
    PROVE  AtWork'
  <1>1. /\ TypeOK /\ ManagerTypeOK /\ OwnerInv /\ BindInv
        /\ TaskInv /\ CancelInv /\ AnswerInv /\ LeavingInv /\ EnabledInv
    BY DEF IInv, TypeOK, AtWork
  <1>2. task[t] \in Task /\ task \in [Tasks -> Task] /\ enabled \in SUBSET Servers
    BY <1>1 DEF TypeOK
  <1>3. /\ task[t].pc \in {"locking", "disconnecting", "connecting"} /\ t \notin cancelled
        /\ UNCHANGED <<own, tables, closing, cancelled, owner, servers>>
        /\ UNCHANGED <<workspace, enabled, open, overlap>>
    BY DEF TakeReloadLock, DisconnectOne, ConnectNew, Reloaded, managerExceptJobs, tables
  <1>4. \A n \in Servers : job[t][n].pc = "idle"
    BY <1>1 DEF TaskInv, Returned, TakeReloadLock, DisconnectOne, ConnectNew, Reloaded
  <1>5. /\ workspace # None /\ task[t].kind = "reload"
        /\ task[t].pc \in {"disconnecting", "connecting"} <=> reloading = t
    BY <1>1, <1>3 DEF TaskInv
  <1>6. \A u \in Tasks : task[u].pc \in {"disconnecting", "connecting"} => u = reloading
    BY <1>1 DEF TaskInv
  <1>7. \A n \in Servers : Serves(n)' <=> Serves(n)
    BY <1>3 DEF Serves
  \* What is left to show of a step of the reload.
  <1>8. ASSUME NEW kind \in {"connect", "disconnect"}, NEW ns, Launch(t, kind, ns),
               NEW r \in Task, task' = [task EXCEPT ![t] = r], r.pc # "configuring",
               r.pc \in {"disconnecting", "connecting"} <=> reloading' = t,
               \A u \in Tasks : u # t => (reloading' = u <=> reloading = u),
               r.pc # "idle" => r.kind = "reload",
               r.pc \in {"idle", "locking"} => ns = {},
               r.pc = "connecting" => kind = "connect",
               r.pc = "disconnecting" => kind = "disconnect",
               ~unread' => \/ ~unread
                           \/ \A u \in Tasks : task[u].pc \notin {"disconnecting", "connecting"},
               ~unread' => /\ r.pc = "disconnecting" => r.add \subseteq enabled
                           /\ r.pc = "connecting" => \A n \in Servers \ enabled : n \notin ns,
               ~unread' => \A n \in Servers \ enabled :
                              Serves(n) => r.pc = "disconnecting" /\ (n \in r.drop \/ n \in ns),
               r.pc = "idle" => registry' = servers
        PROVE  AtWork'
    <2>1. /\ task' \in [Tasks -> Task] /\ task'[t] = r
          /\ \A u \in Tasks : u # t => task'[u] = task[u]
      BY <1>2, <1>8
    <2>2. TaskInv' /\ CancelInv' /\ AnswerInv'
      BY <1>3, <1>4, <1>5, <1>8, <2>1, LaunchAtWork
    <2>3. /\ \A n \in Servers :
               /\ n \in ns => job'[t][n].pc = "lock" /\ job'[t][n].kind = kind
               /\ n \notin ns => job'[t][n].pc = "idle"
          /\ \A u \in Tasks : u # t => job'[u] = job[u]
      BY <1>1, <1>8, LaunchEffect
    <2>4. LeavingInv'
      <3>1. \A n \in Servers : job[t][n].pc # "stopping"
        BY <1>4
      <3>2. \A u \in Tasks : u # t => job'[u] = job[u] /\ task'[u] = task[u]
        BY <2>1, <2>3
      <3>3. UNCHANGED <<own, owner, enabled>> /\ UNCHANGED workspace
        BY <1>3
      <3>4. task'[t].pc # "configuring" /\ \A u \in Tasks : u # t => (u \in cancelled' <=> u \in cancelled)
        BY <1>3, <1>8, <2>1
      <3> QED BY <3>1, <3>2, <3>3, <3>4, LeavingKept
    <2>5. EnabledInv'
      <3> SUFFICES ASSUME ~unread' PROVE EnabledInv'
        BY DEF EnabledInv
      <3>1. ASSUME NEW u \in Tasks, u # t, task'[u].pc \in {"disconnecting", "connecting"}
            PROVE  ~unread /\ task[u].pc = task'[u].pc
        BY <1>8, <2>1, <3>1
      <3>2. ASSUME NEW n \in Servers \ enabled, Serves(n)'
            PROVE  \E u \in In({"disconnecting"})' :
                     n \in task'[u].drop \/ job'[u][n].pc \in {"lock", "stopping"}
        <4>1. r.pc = "disconnecting" /\ (n \in r.drop \/ n \in ns)
          BY <1>7, <1>8, <3>2
        <4>2. t \in In({"disconnecting"})'
          BY <2>1, <4>1 DEF In
        <4>3. n \in task'[t].drop \/ job'[t][n].pc = "lock"
          BY <2>1, <2>3, <4>1
        <4> QED BY <4>2, <4>3
      <3>3. ASSUME NEW u \in In({"disconnecting"})' PROVE task'[u].add \subseteq enabled
        <4>1. u \in Tasks /\ task'[u].pc = "disconnecting"
          BY <3>3 DEF In
        <4>2. CASE u = t
          BY <1>8, <2>1, <4>1, <4>2
        <4>3. CASE u # t
          <5>1. ~unread /\ u \in In({"disconnecting"}) /\ task'[u] = task[u]
            BY <2>1, <3>1, <4>1, <4>3 DEF In
          <5> QED BY <1>1, <5>1 DEF EnabledInv
        <4> QED BY <4>2, <4>3
      <3>4. ASSUME NEW u \in In({"connecting"})', NEW n \in Servers \ enabled
            PROVE  job'[u][n].pc = "idle"
        <4>1. u \in Tasks /\ task'[u].pc = "connecting"
          BY <3>4 DEF In
        <4>2. CASE u = t
          BY <1>8, <2>1, <2>3, <4>1, <4>2
        <4>3. CASE u # t
          <5>1. ~unread /\ u \in In({"connecting"}) /\ job'[u] = job[u]
            BY <2>3, <3>1, <4>1, <4>3 DEF In
          <5> QED BY <1>1, <5>1 DEF EnabledInv
        <4> QED BY <4>2, <4>3
      <3> QED BY <1>3, <1>5, <3>2, <3>3, <3>4 DEF EnabledInv
    <2>6. RegisteredToolsServe'
      <3>1. CASE r.pc = "idle"
        BY <1>3, <1>8, <3>1 DEF RegisteredToolsServe
      <3>2. CASE r.pc # "idle"
        BY <2>1, <3>2, NotSettled
      <3> QED BY <3>1, <3>2
    <2> QED BY <2>2, <2>4, <2>5, <2>6 DEF AtWork
  \* A reload that has read the configuration disconnects what it disables.
  <1>9. task[t].pc \in {"disconnecting", "connecting"} /\ ~unread =>
          \A n \in Servers \ enabled :
             Serves(n) => task[t].pc = "disconnecting" /\ n \in task[t].drop
    <2> SUFFICES ASSUME task[t].pc \in {"disconnecting", "connecting"}, ~unread,
                        NEW n \in Servers \ enabled, Serves(n)
                 PROVE  task[t].pc = "disconnecting" /\ n \in task[t].drop
      OBVIOUS
    <2>1. PICK u \in In({"disconnecting"}) : n \in task[u].drop \/ job[u][n].pc \in {"lock", "stopping"}
      BY <1>1, <1>5 DEF EnabledInv
    <2>2. u = t
      BY <1>5, <1>6, <2>1 DEF In
    <2> QED BY <1>4, <2>1, <2>2 DEF In
  <1>10. CASE TakeReloadLock(t)
    <2> DEFINE running == {n \in Servers : servers[n] # None}
               r == [task[t] EXCEPT !.pc = "disconnecting", !.drop = running \ enabled,
                                    !.add = enabled \ running]
    <2>1. /\ r \in Task /\ r.pc = "disconnecting" /\ r.drop = running \ enabled
          /\ r.add = enabled \ running /\ r.kind = task[t].kind
      BY <1>2 DEF Task
    <2>2. task' = [task EXCEPT ![t] = r]
      BY <1>2, <1>10 DEF TakeReloadLock
    <2>3. Launch(t, "disconnect", {}) /\ reloading = None /\ reloading' = t
      BY <1>10 DEF TakeReloadLock
    <2>4. ASSUME NEW n \in Servers, Serves(n) PROVE n \in running
      <3>1. owner[n] \in Owners /\ own[owner[n]].pc = "serving"
        BY <1>1, <2>4 DEF Serves, ManagerTypeOK
      <3>2. servers[own[owner[n]].name] = owner[n] /\ own[owner[n]].name = n
        BY <1>1, <2>4, <3>1 DEF ServingInv, OwnerInv, Serves
      <3> QED BY <2>4, <3>2 DEF Serves
    <2> HIDE DEF r, running
    <2>5. \A u \in Tasks : u # None /\ task[u].pc \notin {"disconnecting", "connecting"}
      BY <1>6, <2>3, ManagerAssumption
    <2>6. \A u \in Tasks : u # t => (reloading' = u <=> reloading = u)
      BY <2>3, <2>5
    <2>7. \A n \in Servers \ enabled : Serves(n) => n \in r.drop
      BY <2>1, <2>4
    <2> QED BY <1>5, <1>8, <2>1, <2>2, <2>3, <2>5, <2>6, <2>7
  <1>11. CASE DisconnectOne(t)
    <2>1. PICK n \in task[t].drop :
            /\ Launch(t, "disconnect", {n})
            /\ task' = [task EXCEPT ![t].drop = @ \ {n}]
      BY <1>11 DEF DisconnectOne
    <2> DEFINE r == [task[t] EXCEPT !.drop = @ \ {n}]
    <2>2. task[t].pc = "disconnecting" /\ UNCHANGED <<reloading, unread>>
      BY <1>11 DEF DisconnectOne
    <2>3. /\ r \in Task /\ r.pc = "disconnecting" /\ r.add = task[t].add
          /\ r.drop = task[t].drop \ {n} /\ r.kind = task[t].kind
      BY <1>2, <2>2 DEF Task
    <2>4. task' = [task EXCEPT ![t] = r]
      BY <1>2, <2>1
    <2> HIDE DEF r
    <2>5. ~unread => task[t].add \subseteq enabled
      BY <1>1, <2>2 DEF EnabledInv, In
    <2>6. ~unread => \A m \in Servers \ enabled : Serves(m) => m \in r.drop \/ m \in {n}
      BY <1>9, <2>2, <2>3
    <2> QED BY <1>5, <1>8, <2>1, <2>2, <2>3, <2>4, <2>5, <2>6
  <1>12. CASE ConnectNew(t)
    <2> DEFINE r == [task[t] EXCEPT !.pc = "connecting", !.add = {}]
    <2>1. /\ Launch(t, "connect", task[t].add) /\ task[t].pc = "disconnecting"
          /\ task[t].drop = {} /\ UNCHANGED <<reloading, unread>>
      BY <1>12 DEF ConnectNew
    <2>2. r \in Task /\ r.pc = "connecting" /\ r.kind = task[t].kind
      BY <1>2 DEF Task
    <2>3. task' = [task EXCEPT ![t] = r]
      BY <1>2, <1>12 DEF ConnectNew
    <2> HIDE DEF r
    <2>4. ~unread => task[t].add \subseteq enabled
      BY <1>1, <2>1 DEF EnabledInv, In
    <2>5. ~unread => \A n \in Servers \ enabled : ~Serves(n)
      BY <1>9, <2>1
    <2> QED BY <1>5, <1>8, <2>1, <2>2, <2>3, <2>4, <2>5, ZenonT(60)
  <1>13. CASE Reloaded(t)
    <2>1. /\ task' = [task EXCEPT ![t] = NoTask] /\ Launch(t, "connect", {})
          /\ registry' = servers /\ reloading' = None
          /\ task[t].pc = "connecting" /\ UNCHANGED unread
      BY <1>13 DEF Reloaded
    <2>2. NoTask \in Task /\ NoTask.pc = "idle"
      BY NoTaskType
    <2>3. \A u \in Tasks : u # None /\ (u # t => (reloading' = u <=> reloading = u))
      BY <1>5, <2>1, ManagerAssumption
    <2>4. ~unread => \A n \in Servers \ enabled : ~Serves(n)
      BY <1>9, <2>1
    <2> QED BY <1>8, <2>1, <2>2, <2>3, <2>4
  <1> QED BY <1>10, <1>11, <1>12, <1>13

\* Until the session is left only a Run that configures is ever cancelled.
LEMMA RaisedAtWork ==
    ASSUME IInv, AtWork, ~overlap, NEW t \in Tasks, Raised(t)
    PROVE  AtWork'
  <1>1. /\ TypeOK /\ ManagerTypeOK /\ BindInv
        /\ TaskInv /\ CancelInv /\ AnswerInv /\ LeavingInv /\ EnabledInv
    BY DEF IInv, TypeOK, AtWork
  <1>2. /\ task' = [task EXCEPT ![t] = NoTask] /\ cancelled' = cancelled \ {t}
        /\ reloading' = IF reloading = t THEN None ELSE reloading
        /\ UNCHANGED <<own, owner, servers, closing, job>>
        /\ UNCHANGED <<workspace, registry, enabled, open, overlap, unread>>
    BY DEF Raised, tables
  <1>3. t \in cancelled
    <2>1. CASE task[t].pc \in {"configuring", "disconnecting", "connecting"} /\ Thrown(t)
      BY <1>1, <2>1 DEF Thrown, CancelInv
    <2>2. CASE t \in InProgress \intersect cancelled /\ Returned(t)
      BY <2>2
    <2> QED BY <2>1, <2>2 DEF Raised
  <1>4. task[t].pc = "configuring" /\ workspace = None
    BY <1>1, <1>3 DEF CancelInv, BindInv, In
  <1>5. \A n \in Servers : job[t][n].pc \in {"idle", "undo"}
    <2>1. CASE Thrown(t)
      BY <1>3, <2>1 DEF Thrown
    <2>2. CASE Returned(t)
      BY <2>2 DEF Returned
    <2> QED BY <2>1, <2>2 DEF Raised
  <1>6. task'[t].pc = "idle" /\ \A u \in Tasks : u # t => task'[u] = task[u]
    BY <1>1, <1>2, NoTaskType DEF TypeOK
  <1>7. UNCHANGED reloading
    BY <1>1, <1>2, <1>4 DEF TaskInv
  <1>8. TaskInv'
    <2>1. ASSUME NEW u \in Tasks
          PROVE  /\ task'[u].pc \in {"disconnecting", "connecting"} <=> reloading = u
                 /\ task'[u].pc \in {"locking", "disconnecting", "connecting"} =>
                      workspace # None /\ task'[u].kind = "reload"
      BY <1>1, <1>4, <1>6 DEF TaskInv
    <2>2. ASSUME NEW u \in Tasks, NEW n \in Servers
          PROVE  /\ task'[u].pc = "idle" => job[u][n].pc \in {"idle", "undo"}
                 /\ task'[u].pc = "locking" => job[u][n].pc = "idle"
                 /\ task'[u].pc \in {"configuring", "connecting"} /\ job[u][n].pc # "idle" =>
                      job[u][n].kind = "connect"
                 /\ task'[u].pc = "disconnecting" /\ job[u][n].pc # "idle" =>
                      job[u][n].kind = "disconnect"
                 /\ job[u][n].pc = "waiting" => job[u][n].kind = "connect"
      BY <1>1, <1>5, <1>6 DEF TaskInv
    <2> QED BY <1>2, <1>7, <2>1, <2>2 DEF TaskInv
  <1>9. CancelInv'
    <2>1. \A u \in cancelled' : u \in cancelled /\ u \in Tasks /\ task'[u] = task[u]
      BY <1>1, <1>2, <1>6 DEF ManagerTypeOK
    <2>2. \A u \in Tasks : task'[u].pc # "idle" => u # t /\ task[u].pc # "idle"
      BY <1>6
    <2> QED BY <1>1, <1>2, <2>1, <2>2 DEF CancelInv
  <1>10. AnswerInv'
    BY <1>1, <1>2 DEF AnswerInv, Attended, Live
  <1>11. LeavingInv'
    <2>1. In({"configuring"})' = {}
      BY <1>1, <1>4, <1>6 DEF In, BindInv
    <2> QED BY <1>2, <1>4, <2>1 DEF LeavingInv
  <1>12. EnabledInv'
    <2>1. In({"disconnecting"})' = {} /\ In({"connecting"})' = {}
      BY <1>1, <1>4, <1>6 DEF In, TaskInv
    <2> QED BY <1>1, <1>2, <1>4, <2>1 DEF EnabledInv
  <1>13. RegisteredToolsServe'
    BY <1>2, <1>4 DEF RegisteredToolsServe, Settled
  <1> QED BY <1>8, <1>9, <1>10, <1>11, <1>12, <1>13 DEF AtWork

LEMMA CallAtWork ==
    ASSUME IInv, AtWork, ~overlap', NEW t \in Tasks, NEW kind \in {"run", "reload"},
           NEW ws \in Workspaces, Call(t, kind, ws)
    PROVE  AtWork'
  <1>1. /\ TypeOK /\ ManagerTypeOK /\ BindInv /\ RegisteredToolsServe
        /\ TaskInv /\ CancelInv /\ AnswerInv /\ LeavingInv /\ EnabledInv
    BY DEF IInv, TypeOK, AtWork
  <1>2. /\ task[t].pc = "idle" /\ \A n \in Servers : job[t][n].pc = "idle"
        /\ UNCHANGED <<own, tables, owner, servers, closing, cancelled>>
        /\ UNCHANGED <<workspace, registry, reloading, enabled, open, unread>>
    BY DEF Call, Unused, managerExceptJobs, tables
  <1>3. t \notin cancelled /\ reloading # t
    BY <1>1, <1>2 DEF CancelInv, TaskInv
  <1>4. enabled \in SUBSET Servers /\ task \in [Tasks -> Task]
    BY <1>1 DEF TypeOK
  <1>5. CASE workspace = None
    <2> DEFINE r == [NoTask EXCEPT !.kind = kind, !.ws = ws, !.pc = "configuring"]
    <2>1. r \in Task /\ r.pc = "configuring"
      BY DEF NoTask, Task
    <2>2. /\ task' = [task EXCEPT ![t] = r] /\ Launch(t, "connect", enabled)
          /\ In({"configuring"}) = {}
      BY <1>5 DEF Call
    <2> HIDE DEF r
    <2>3. /\ task' \in [Tasks -> Task] /\ task'[t] = r
          /\ \A u \in Tasks : u # t => task'[u] = task[u]
      BY <1>4, <2>1, <2>2
    <2>4. TaskInv' /\ CancelInv' /\ AnswerInv'
      BY <1>2, <1>3, <2>1, <2>2, <2>3, LaunchAtWork
    <2>5. /\ \A n \in Servers : /\ n \in enabled => job'[t][n].pc = "lock"
                                /\ n \notin enabled => job'[t][n].pc = "idle"
          /\ \A u \in Tasks : u # t => job'[u] = job[u]
      BY <1>1, <2>2, LaunchEffect
    <2>6. LeavingInv'
      <3>1. In({"configuring"})' = {t}
        BY <2>1, <2>2, <2>3 DEF In
      <3> QED BY <1>2, <1>4, <1>5, <2>5, <3>1 DEF LeavingInv
    <2>7. EnabledInv'
      <3>1. In({"disconnecting"})' = {} /\ In({"connecting"})' = {}
        BY <1>1, <1>5, <2>1, <2>3 DEF In, TaskInv
      <3>2. ~unread => \A n \in Servers \ enabled :
              owner[n] = None /\ \A u \in Tasks : job'[u][n].pc = "idle"
        BY <1>1, <1>5, <2>5 DEF EnabledInv
      <3> QED BY <1>2, <1>5, <3>1, <3>2 DEF EnabledInv
    <2>8. RegisteredToolsServe'
      BY <2>1, <2>3, NotSettled
    <2> QED BY <2>4, <2>6, <2>7, <2>8 DEF AtWork
  <1>6. CASE workspace # None
    <2> DEFINE r == [NoTask EXCEPT !.kind = kind, !.pc = "locking"]
    <2>1. r \in Task /\ r.pc = "locking" /\ r.kind = kind
      BY DEF NoTask, Task
    <2>2. /\ \/ kind = "reload" /\ task' = [task EXCEPT ![t] = r]
             \/ task' = task
          /\ Launch(t, "connect", {}) /\ UNCHANGED overlap
      BY <1>6 DEF Call
    <2> HIDE DEF r
    <2>3. /\ task' \in [Tasks -> Task]
          /\ \A u \in Tasks : u # t => task'[u] = task[u]
          /\ task'[t].pc \in {"idle", "locking"}
          /\ task'[t].pc = "locking" => task'[t].kind = "reload"
      BY <1>2, <1>4, <2>1, <2>2
    <2>4. TaskInv' /\ CancelInv' /\ AnswerInv'
      BY <1>2, <1>3, <1>6, <2>2, <2>3, LaunchAtWork
    <2>5. /\ \A n \in Servers : job'[t][n].pc = "idle"
          /\ \A u \in Tasks : u # t => job'[u] = job[u]
      BY <1>1, <2>2, LaunchEffect
    <2>6. LeavingInv'
      BY <1>2, <2>3, <2>5, LeavingKept
    <2>7. EnabledInv'
      <3> SUFFICES ASSUME ~unread PROVE EnabledInv'
        BY <1>2 DEF EnabledInv
      <3>1. ASSUME NEW u \in Tasks, u # t PROVE task'[u] = task[u] /\ job'[u] = job[u]
        BY <2>3, <2>5, <3>1
      <3>2. \A pc \in {"disconnecting", "connecting"} : In({pc})' = In({pc}) /\ t \notin In({pc})
        BY <1>2, <2>3 DEF In
      <3>3. \A n \in Servers : Serves(n)' <=> Serves(n)
        BY <1>2 DEF Serves
      <3>4. ASSUME NEW n \in Servers \ enabled, Serves(n)
            PROVE  \E u \in In({"disconnecting"}) : n \in task'[u].drop \/ job'[u][n].pc \in {"lock", "stopping"}
        <4>1. PICK u \in In({"disconnecting"}) : n \in task[u].drop \/ job[u][n].pc \in {"lock", "stopping"}
          BY <1>1, <1>6, <3>4 DEF EnabledInv
        <4>2. u \in Tasks /\ u # t
          BY <3>2, <4>1 DEF In
        <4> QED BY <3>1, <4>1, <4>2
      <3>5. \A u \in In({"disconnecting"}) : task'[u].add \subseteq enabled
        BY <1>1, <3>1, <3>2 DEF EnabledInv, In
      <3>6. \A u \in In({"connecting"}), n \in Servers \ enabled : job'[u][n].pc = "idle"
        BY <1>1, <3>1, <3>2 DEF EnabledInv, In
      <3> QED BY <1>2, <1>6, <3>2, <3>3, <3>4, <3>5, <3>6 DEF EnabledInv
    <2>8. RegisteredToolsServe'
      <3>1. CASE task'[t].pc # "idle"
        BY <3>1, NotSettled
      <3>2. CASE task'[t].pc = "idle"
        <4>1. task' = task
          BY <1>4, <2>1, <2>2, <3>2
        <4>2. Settled' = Settled
          BY <1>2, <2>2, <4>1 DEF Settled, InProgress, In
        <4> QED BY <1>1, <1>2, <4>2 DEF RegisteredToolsServe
      <3> QED BY <3>1, <3>2
    <2> QED BY <2>4, <2>6, <2>7, <2>8 DEF AtWork
  <1> QED BY <1>5, <1>6

\* The user's edits and cancellations.  No server leaves while the user edits.
LEMMA UserAtWork ==
    ASSUME IInv, AtWork, open', EditConfig \/ Exit \/ \E t \in Tasks : CancelRun(t)
    PROVE  AtWork'
  <1>1. /\ TypeOK /\ OwnerInv /\ RegisteredToolsServe
        /\ TaskInv /\ CancelInv /\ AnswerInv /\ LeavingInv /\ EnabledInv
    BY DEF IInv, TypeOK, AtWork
  <1>2. /\ UNCHANGED <<own, owner, servers, closing, job>>
        /\ UNCHANGED <<task, workspace, registry, reloading, overlap>>
    BY DEF EditConfig, Exit, CancelRun, mvars, svars, tables
  <1>3. TaskInv' /\ AnswerInv'
    BY <1>1, <1>2 DEF TaskInv, AnswerInv, Attended, Live
  <1>4. In({"configuring"})' = In({"configuring"}) /\ \A n : (Leaving(n)' <=> Leaving(n)) /\ (Serves(n)' <=> Serves(n))
    BY <1>2 DEF In, Leaving, Serves
  <1>5. CASE EditConfig
    <2>1. /\ \A o \in Owners : own[o].stop => own[o].pc # "serving"
          /\ unread' /\ enabled' \in SUBSET Servers /\ UNCHANGED cancelled
      BY <1>5, SessionAssumption DEF EditConfig, mvars
    <2>2. \A n \in Servers : ~Leaving(n)
      BY <1>1, <2>1 DEF Leaving, Serves, TypeOK, ManagerTypeOK
    <2>3. LeavingInv'
      <3>1. \A n \in enabled' : ~Leaving(n)'
        BY <1>4, <2>1, <2>2
      <3> QED BY <3>1 DEF LeavingInv
    <2>4. CancelInv'
      BY <1>1, <1>2, <2>1 DEF CancelInv
    <2>5. EnabledInv' /\ RegisteredToolsServe'
      BY <2>1 DEF EnabledInv, RegisteredToolsServe, Settled
    <2> QED BY <1>3, <2>3, <2>4, <2>5 DEF AtWork
  <1>6. ASSUME NEW t \in Tasks, CancelRun(t) PROVE AtWork'
    <2>1. /\ task[t].pc # "idle" /\ task[t].kind = "run" /\ cancelled' = cancelled \union {t}
          /\ UNCHANGED <<enabled, open, unread>>
      BY <1>6 DEF CancelRun, InProgress, In, svars
    <2>2. task[t].pc = "configuring"
      <3>1. task[t].pc \in {"idle", "configuring", "locking", "disconnecting", "connecting"}
        BY <1>1 DEF TypeOK, Task
      <3> QED BY <1>1, <2>1, <3>1 DEF TaskInv
    <2>3. CancelInv'
      BY <1>1, <1>2, <2>1, <2>2 DEF CancelInv
    <2>4. LeavingInv'
      <3>1. \A u \in In({"configuring"}) \ cancelled' : u \in In({"configuring"}) \ cancelled
        BY <2>1
      <3>2. enabled \in SUBSET Servers
        BY <1>1 DEF TypeOK
      <3> QED BY <1>1, <1>2, <1>4, <2>1, <3>1, <3>2 DEF LeavingInv
    <2>5. EnabledInv'
      <3>1. In({"disconnecting"})' = In({"disconnecting"}) /\ In({"connecting"})' = In({"connecting"})
        BY <1>2 DEF In
      <3> QED BY <1>1, <1>2, <1>4, <2>1, <3>1 DEF EnabledInv
    <2>6. RegisteredToolsServe'
      <3>1. Settled' = Settled
        BY <1>2, <2>1 DEF Settled, InProgress, In
      <3> QED BY <1>1, <1>2, <3>1 DEF RegisteredToolsServe
    <2> QED BY <1>3, <2>3, <2>4, <2>5, <2>6 DEF AtWork
  <1>7. ~Exit
    BY DEF Exit
  <1> QED BY <1>5, <1>6, <1>7

LEMMA SessionInitHolds == Init => SessionInv
  <1> SUFFICES ASSUME Init PROVE SessionInv
    OBVIOUS
  <1>1. IInv
    BY InitHolds
  <1>2. /\ own = [o \in Owners |-> NoOwner] /\ owner = [n \in Servers |-> None]
        /\ servers = [n \in Servers |-> None] /\ closing = "no" /\ cancelled = {}
        /\ job = [t \in Tasks |-> [n \in Servers |-> NoJob]]
        /\ task = [t \in Tasks |-> NoTask] /\ workspace = None /\ reloading = None
    BY DEF Init, ManagerInit
  <1>3. \A o \in Owners : own[o].pc = "done" /\ ~own[o].stop
    BY <1>2 DEF NoOwner
  <1>4. \A t \in Tasks : t # None /\ task[t].pc = "idle"
    BY <1>2, ManagerAssumption DEF NoTask
  <1>5. \A t \in Tasks, n \in Servers : /\ job[t][n].pc = "idle" /\ job[t][n].kind = "disconnect"
                                        /\ job[t][n].result = "none"
    BY <1>2 DEF NoJob
  <1>6. \A n \in Servers : owner[n] = None /\ ~Serves(n) /\ ~Leaving(n)
    BY <1>2 DEF Serves, Leaving
  <1>7. ServingInv
    BY <1>3 DEF ServingInv
  <1>8. TaskInv
    BY <1>2, <1>4, <1>5 DEF TaskInv
  <1>9. CancelInv /\ AnswerInv
    BY <1>2, <1>3, <1>4, <1>5 DEF CancelInv, AnswerInv
  <1>10. \A pc \in {"configuring", "disconnecting", "connecting"} : In({pc}) = {}
    BY <1>4 DEF In
  <1>11. LeavingInv /\ EnabledInv
    BY <1>2, <1>5, <1>6, <1>10 DEF LeavingInv, EnabledInv
  <1>12. RegisteredToolsServe
    BY <1>2 DEF RegisteredToolsServe, Settled
  <1> QED BY <1>1, <1>7, <1>8, <1>9, <1>11, <1>12 DEF SessionInv, AtWork

LEMMA SessionStepHolds == SessionInv /\ [Next]_vars => SessionInv'
  <1> SUFFICES ASSUME SessionInv, [Next]_vars PROVE SessionInv'
    OBVIOUS
  <1>1. IInv /\ ServingInv /\ (open /\ ~overlap => AtWork)
    BY DEF SessionInv
  <1>2. IInv'
    BY <1>1, StepHolds
  <1>3. ServingInv'
    BY <1>1, ServingStep
  <1> SUFFICES ASSUME open', ~overlap' PROVE AtWork'
    BY <1>2, <1>3 DEF SessionInv
  \* The session has been at work before, too.
  <1>4. open /\ ~overlap
    <2>1. ASSUME NEW t \in Tasks, TaskStep(t) PROVE open' = open /\ overlap' = overlap
      BY <2>1 DEF TaskStep, Configured, TakeReloadLock, DisconnectOne, ConnectNew, Reloaded, Raised
    <2>2. ASSUME NEW t \in Tasks, StartRun(t) \/ ReloadMcp(t) PROVE open' = open /\ (overlap => overlap')
      BY <2>2 DEF StartRun, ReloadMcp, Call
    <2>3. ASSUME NEW t \in Tasks, CancelRun(t) PROVE open' = open /\ overlap' = overlap
      BY <2>3 DEF CancelRun, svars
    <2>4. ASSUME \/ ManagerStep /\ UNCHANGED svars
                 \/ CloseManager
                 \/ UNCHANGED vars
          PROVE  open' = open /\ overlap' = overlap
      <3>1. UNCHANGED svars
        BY <2>4 DEF CloseManager, vars
      <3> QED BY <3>1 DEF svars
    <2>5. ASSUME EditConfig PROVE open' = open /\ overlap' = overlap
      BY <2>5 DEF EditConfig
    <2>6. ~Exit
      BY DEF Exit
    <2>7. \/ open' = open /\ overlap' = overlap
          \/ open' = open /\ (overlap => overlap')
      BY <2>1, <2>2, <2>3, <2>4, <2>5, <2>6 DEF Next, Progress
    <2>8. open \in BOOLEAN /\ open' \in BOOLEAN /\ overlap \in BOOLEAN /\ overlap' \in BOOLEAN
      BY <1>1, <1>2 DEF IInv, TypeOK
    <2> QED BY <2>7, <2>8
  <1>5. AtWork /\ CancelInv
    BY <1>1, <1>4 DEF AtWork
  <1>6. ASSUME NEW o \in Owners, OwnerStep(o), UNCHANGED svars PROVE AtWork'
    BY <1>1, <1>4, <1>5, <1>6, OwnerAtWork
  <1>7. ASSUME NEW t \in Tasks, NEW n \in Servers, JobStep(t, n), UNCHANGED svars PROVE AtWork'
    BY <1>1, <1>4, <1>5, <1>7, JobAtWork
  <1>8. ~AllClosed /\ ~CloseManager
    BY <1>4, <1>5 DEF AllClosed, CloseManager, CancelInv
  <1>9. ASSUME NEW t \in Tasks, TaskStep(t) PROVE AtWork'
    BY <1>1, <1>4, <1>5, <1>9, ConfiguredAtWork, ReloadAtWork, RaisedAtWork DEF TaskStep
  <1>10. ASSUME NEW t \in Tasks, StartRun(t) PROVE AtWork'
    BY <1>1, <1>5, <1>10, CallAtWork DEF StartRun
  <1>11. ASSUME NEW t \in Tasks, ReloadMcp(t) PROVE AtWork'
    <2>1. (IF workspace = None THEN Cwd ELSE workspace) \in Workspaces
      BY <1>1, SessionAssumption DEF IInv, TypeOK
    <2> QED BY <1>1, <1>5, <1>11, <2>1, CallAtWork DEF ReloadMcp
  <1>12. ASSUME EditConfig \/ Exit \/ \E t \in Tasks : CancelRun(t) PROVE AtWork'
    BY <1>1, <1>5, <1>12, UserAtWork
  <1>13. CASE UNCHANGED vars
    <2>1. UNCHANGED mvars /\ UNCHANGED svars
      BY <1>13 DEF vars
    <2>2. TaskInv' /\ CancelInv' /\ AnswerInv'
      BY <1>5, <2>1 DEF mvars, svars, AtWork, TaskInv, CancelInv, AnswerInv, Attended, Live
    <2>3. LeavingInv' /\ EnabledInv' /\ RegisteredToolsServe'
      BY <1>5, <2>1 DEF mvars, svars, AtWork, LeavingInv, EnabledInv, RegisteredToolsServe,
                        Leaving, Serves, In, Settled, InProgress
    <2> QED BY <2>2, <2>3 DEF AtWork
  <1> QED BY <1>6, <1>7, <1>8, <1>9, <1>10, <1>11, <1>12, <1>13 DEF Next, Progress, ManagerStep

\* SessionInv is inductive.
THEOREM SessionInvariance == Spec => []SessionInv
  <1> QED BY SessionInitHolds, SessionStepHolds, PTL DEF Spec

\* When every call has returned and every edit of mcp.json has been read, the Tools
\* that the model is offered are those of the connections that serve, and no server
\* serves that the configuration disables, unless two Tasks configured the session
\* at once.
THEOREM ReloadLeaves == Spec => []ReloadComplete
  <1>1. SessionInv => RegisteredToolsServe
    BY DEF SessionInv, AtWork, RegisteredToolsServe, Settled
  <1>2. SessionInv => DisabledServersStopped
    <2> SUFFICES ASSUME SessionInv, Settled, NEW n \in Servers \ enabled, owner[n] # None
                 PROVE  own[owner[n]].pc # "serving"
      BY DEF DisabledServersStopped
    <2>1. AtWork /\ TypeOK
      BY DEF SessionInv, IInv, Settled
    <2> QED BY <2>1, NobodyLeaves DEF Serves
  <1>3. IInv => OneCompactionHandler
    BY DEF IInv, BindInv, OneCompactionHandler
  <1>4. SessionInv => ReloadComplete
    BY <1>1, <1>2, <1>3 DEF SessionInv, ReloadComplete
  <1> QED BY <1>4, SessionInvariance, PTL
=============================================================================
