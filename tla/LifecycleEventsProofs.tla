----------------------- MODULE LifecycleEventsProofs -----------------------
(***************************************************************************)
(* What is proved of LifecycleEvents, for any Runs, Tool calls and bounds. *)
(***************************************************************************)
EXTENDS LifecycleEventsInv, FiniteSetTheorems, WellFoundedInduction, TLAPS

(***************************************************************************)
(* EventHub.                                                               *)
(***************************************************************************)
\* The call that _open takes up next is one of the batch.
LEMMA FirstIsOne == ASSUME NEW S \in SUBSET Nat, S # {} PROVE First(S) \in S
<1> DEFINE R == {ss \in Nat \X Nat : ss[1] < ss[2]}
<1>1. IsWellFoundedOn(R, Nat)
  BY NatLessThanWellFounded, Zenon DEF OpToRel
<1> HIDE DEF R
<1>2. PICK x \in S : \A y \in S : ~(<<y, x>> \in R)
  BY <1>1, WFMin, Zenon
<1>3. \A y \in S : ~(y < x)
  BY <1>2 DEF R
<1>4. \A y \in S : x <= y
  BY <1>3
<1> QED
  BY <1>4, Zenon DEF First

LEMMA PairSize ==
  ASSUME NEW a, NEW b, a # b
  PROVE  IsFiniteSet({a, b}) /\ Cardinality({a, b}) = 2
<1>1. IsFiniteSet({b}) /\ Cardinality({b}) = 1
  BY FS_Singleton
<1>2. {a, b} = {b} \union {a} /\ a \notin {b}
  OBVIOUS
<1> QED
  BY <1>1, <1>2, FS_AddElement

LEMMA TripleSize ==
  ASSUME NEW a, NEW b, NEW c, a # b, a # c, b # c
  PROVE  Cardinality({a, b, c}) = 3
<1>1. IsFiniteSet({b, c}) /\ Cardinality({b, c}) = 2
  BY PairSize
<1>2. {a, b, c} = {b, c} \union {a} /\ a \notin {b, c}
  OBVIOUS
<1> QED
  BY <1>1, <1>2, FS_AddElement

\* Two registrations, the first before the second, are delivered to in that order.
LEMMA TwoInOrder ==
  ASSUME NEW a, NEW b, Precedes(a, b), ~Precedes(a, a), ~Precedes(b, b), ~Precedes(b, a)
  PROVE  InOrder({a, b}) = <<a.handler, b.handler>>
<1> DEFINE S == {a, b}
           Before(r) == {q \in S : Precedes(q, r)}
           At(i) == CHOOSE r \in S : Cardinality(Before(r)) = i - 1
<1>1. a # b
  OBVIOUS
<1>2. Before(a) = {} /\ Before(b) = {a}
  BY <1>1
<1>3. Cardinality(Before(a)) = 0 /\ Cardinality(Before(b)) = 1
  BY <1>2, FS_EmptySet, FS_Singleton
<1>4. Cardinality(S) = 2
  BY <1>1, PairSize
<1>5. At(1) = a /\ At(2) = b
  <2> HIDE DEF Before
  <2> QED
    BY <1>3
<1>6. InOrder(S) = [i \in 1..Cardinality(S) |-> At(i).handler]
  BY DEF InOrder
<1> HIDE DEF S, At
<1>7. InOrder(S) = [i \in 1..2 |-> At(i).handler]
  BY <1>4, <1>6
<1>8. InOrder(S) = <<a.handler, b.handler>>
  BY <1>5, <1>7
<1> QED
  BY <1>8 DEF S

\* Three registrations, each after the one before, are delivered to in that order.
LEMMA ThreeInOrder ==
  ASSUME NEW a, NEW b, NEW c, Precedes(a, b), Precedes(a, c), Precedes(b, c),
         ~Precedes(a, a), ~Precedes(b, b), ~Precedes(c, c),
         ~Precedes(b, a), ~Precedes(c, a), ~Precedes(c, b)
  PROVE  InOrder({a, b, c}) = <<a.handler, b.handler, c.handler>>
<1> DEFINE S == {a, b, c}
           Before(r) == {q \in S : Precedes(q, r)}
           At(i) == CHOOSE r \in S : Cardinality(Before(r)) = i - 1
<1>1. a # b /\ a # c /\ b # c
  OBVIOUS
<1>2. Before(a) = {} /\ Before(b) = {a} /\ Before(c) = {a, b}
  BY <1>1
<1>3. /\ Cardinality(Before(a)) = 0
      /\ Cardinality(Before(b)) = 1
      /\ Cardinality(Before(c)) = 2
  <2>1. Cardinality({a, b}) = 2
    BY <1>1, PairSize
  <2> QED
    BY <1>2, <2>1, FS_EmptySet, FS_Singleton
<1>4. Cardinality(S) = 3
  BY <1>1, TripleSize
<1>5. At(1) = a /\ At(2) = b /\ At(3) = c
  <2> HIDE DEF Before
  <2> QED
    BY <1>3
<1>6. InOrder(S) = [i \in 1..Cardinality(S) |-> At(i).handler]
  BY DEF InOrder
<1> HIDE DEF S, At
<1>7. InOrder(S) = [i \in 1..3 |-> At(i).handler]
  BY <1>4, <1>6
<1>8. InOrder(S) = <<a.handler, b.handler, c.handler>>
  BY <1>5, <1>7
<1> QED
  BY <1>8 DEF S

\* What a session's registrations deliver of each kind of signal.
LEMMA DeliveryOrder == ASSUME NEW event PROVE Deliveries(event) = Order(event.kind)
<1> DEFINE C == Registration("checkpoint", 100, 0)
           X == Registration("extra", 0, 1)
           L == Registration("langfuse", 0, 2)
           K == Registration("compaction", 0, 3)
           k == event.kind
<1>1. /\ C.handler = "checkpoint" /\ X.handler = "extra"
      /\ L.handler = "langfuse" /\ K.handler = "compaction"
  BY DEF Registration
<1>2. /\ Precedes(C, X) /\ Precedes(C, L) /\ Precedes(X, L)
      /\ Precedes(X, K) /\ Precedes(L, K)
      /\ ~Precedes(X, C) /\ ~Precedes(L, C) /\ ~Precedes(L, X)
      /\ ~Precedes(K, X) /\ ~Precedes(K, L)
      /\ ~Precedes(C, C) /\ ~Precedes(X, X) /\ ~Precedes(L, L) /\ ~Precedes(K, K)
  BY DEF Precedes, Registration
<1>3. Registered(k) = {r \in {C, X, L, K} : /\ r.handler = "checkpoint" => k \in Durable
                                            /\ r.handler = "compaction" => k = "before_model"}
  BY DEF Registered
<1>4. Deliveries(event) = InOrder(Registered(k))
  BY DEF Deliveries
<1> HIDE DEF C, X, L, K, k
<1>5. CASE k \in Durable
  <2>1. k # "before_model"
    BY <1>5 DEF Durable
  <2>2. Registered(k) = {C, X, L}
    BY <1>1, <1>3, <1>5, <2>1
  <2>3. InOrder({C, X, L}) = <<"checkpoint", "extra", "langfuse">>
    BY <1>1, <1>2, ThreeInOrder
  <2> QED
    BY <1>4, <1>5, <2>2, <2>3 DEF Order, k
<1>6. CASE k = "before_model"
  <2>1. k \notin Durable
    BY <1>6 DEF Durable
  <2>2. Registered(k) = {X, L, K}
    BY <1>1, <1>3, <1>6, <2>1
  <2>3. InOrder({X, L, K}) = <<"extra", "langfuse", "compaction">>
    BY <1>1, <1>2, ThreeInOrder
  <2> QED
    BY <1>4, <1>6, <2>1, <2>2, <2>3 DEF Order, k
<1>7. CASE k \notin Durable /\ k # "before_model"
  <2>1. Registered(k) = {X, L}
    BY <1>1, <1>3, <1>7
  <2>2. InOrder({X, L}) = <<"extra", "langfuse">>
    BY <1>1, <1>2, TwoInOrder
  <2> QED
    BY <1>4, <1>7, <2>1, <2>2 DEF Order, k
<1> QED
  BY <1>5, <1>6, <1>7

-----------------------------------------------------------------------------
(* Broadcasts.                                                             *)

\* Where the Handlers are, in terms of what is left of a broadcast.
LEMMA Queue ==
  ASSUME NEW r
  PROVE  /\ bus[r].left = <<>> => Told(r) /\ ~Unsaved(r)
         /\ Unsaved(r) => ~Told(r)
         /\ bus[r].left = <<"extra", "langfuse">> => ~Told(r) /\ ~Unsaved(r) /\ bus[r].left # <<>>
  BY DEF Told, Unsaved

\* A signal is an event of its kind, about its Run.
LEMMA Signals ==
  ASSUME NEW r \in Runs
  PROVE  /\ \A k \in Kind : /\ Signal(k, r) \in Events
                            /\ Signal(k, r).kind = k /\ Signal(k, r).run = r
         /\ \A k \in Kind, c \in Calls :
                /\ ToolSignal(k, r, c) \in Events
                /\ ToolSignal(k, r, c).kind = k /\ ToolSignal(k, r, c).run = r
                /\ ToolSignal(k, r, c).call = c
         /\ \A status \in Outcomes :
                /\ Terminal(r, status) \in Events
                /\ Terminal(r, status).kind = "terminal" /\ Terminal(r, status).run = r
                /\ Terminal(r, status).status = status
  BY DEF Signal, ToolSignal, Terminal, Event, Events, Outcomes, Status, Kind

\* A signal that is published has all of its Handlers before it.
LEMMA Published ==
  ASSUME Types, NEW r \in Runs, NEW e \in Events, Publish(r, e)
  PROVE  /\ bus' \in [Runs -> [event : Events, left : UNION {Remaining(k) : k \in Kind}]]
         /\ \A q \in Runs \ {r} : bus'[q] = bus[q]
         /\ bus'[r].event = e
         /\ bus'[r].left \in Remaining(e.kind)
         /\ bus'[r].left # <<>> /\ ~Told(r)'
         /\ e.kind = "terminal" => Unsaved(r)'
<1> DEFINE b == [event |-> e, left |-> Order(e.kind)]
<1>1. e.kind \in Kind
  BY DEF Events
<1>2. bus' = [bus EXCEPT ![r] = b]
  BY DeliveryOrder DEF Publish
<1>3. /\ b.left \in Remaining(e.kind)
      /\ b.left # <<>> /\ b.left # <<"compaction">>
      /\ e.kind = "terminal" => b.left = <<"checkpoint", "extra", "langfuse">>
  BY DEF Order, Remaining, Durable
<1>4. b.event = e
  OBVIOUS
<1>5. b \in [event : Events, left : UNION {Remaining(k) : k \in Kind}]
  BY <1>1, <1>3
<1> HIDE DEF b
<1>6. /\ bus' \in [Runs -> [event : Events, left : UNION {Remaining(k) : k \in Kind}]]
      /\ \A q \in Runs \ {r} : bus'[q] = bus[q]
      /\ bus'[r] = b
  BY <1>2, <1>5 DEF Types
<1> QED
  BY <1>3, <1>4, <1>6 DEF Told, Unsaved

\* Each broadcast that is under way, without the Handler it is at.
LEMMA Tails ==
  /\ Head(<<"checkpoint", "extra", "langfuse">>) = "checkpoint"
  /\ Tail(<<"checkpoint", "extra", "langfuse">>) = <<"extra", "langfuse">>
  /\ Head(<<"extra", "langfuse">>) = "extra" /\ Tail(<<"extra", "langfuse">>) = <<"langfuse">>
  /\ Head(<<"langfuse">>) = "langfuse" /\ Tail(<<"langfuse">>) = <<>>
  /\ Head(<<"extra", "langfuse", "compaction">>) = "extra"
  /\ Tail(<<"extra", "langfuse", "compaction">>) = <<"langfuse", "compaction">>
  /\ Head(<<"langfuse", "compaction">>) = "langfuse"
  /\ Tail(<<"langfuse", "compaction">>) = <<"compaction">>
  /\ Head(<<"compaction">>) = "compaction" /\ Tail(<<"compaction">>) = <<>>
<1>1. \A a : Head(<<a>>) = a /\ Tail(<<a>>) = <<>>
  OBVIOUS
<1>2. \A a, b : Head(<<a, b>>) = a /\ Tail(<<a, b>>) = <<b>>
  OBVIOUS
<1>3. \A a, b, c : Head(<<a, b, c>>) = a /\ Tail(<<a, b, c>>) = <<b, c>>
  OBVIOUS
<1> QED
  BY <1>1, <1>2, <1>3

\* No two of them are the same.
LEMMA Distinct ==
  LET C == <<"checkpoint", "extra", "langfuse">>
      X == <<"extra", "langfuse">>
      L == <<"langfuse">>
      XK == <<"extra", "langfuse", "compaction">>
      LK == <<"langfuse", "compaction">>
      K == <<"compaction">>
  IN  /\ C # <<>> /\ C # K
      /\ X # <<>> /\ X # K /\ X # C
      /\ L # <<>> /\ L # K /\ L # C
      /\ XK # <<>> /\ XK # K /\ XK # C
      /\ LK # <<>> /\ LK # K /\ LK # C
      /\ K # <<>> /\ K # C
      /\ C # <<>>
<1>1. \A a, b, c, d, e, f : <<a, b, c>> = <<d, e, f>> => a = d
  OBVIOUS
<1>2. \A a, b, c : <<a, b, c>> # <<>> /\ <<a, b>> # <<>> /\ <<a>> # <<>>
  OBVIOUS
<1>3. \A a, b, c, d, e : <<a, b, c>> # <<d, e>> /\ <<a, b, c>> # <<d>> /\ <<a, b>> # <<d>>
  OBVIOUS
<1>4. \A a, b : <<a>> = <<b>> => a = b
  OBVIOUS
<1> QED
  BY <1>1, <1>2, <1>3, <1>4

\* What a Handler that returns leaves of the broadcast.
LEMMA DeliveredOne ==
  ASSUME Types, NEW r \in Runs, BusInv(r), NEW handler, CanDeliver(r, handler), Delivered(r)
  PROVE  /\ bus' \in [Runs -> [event : Events, left : UNION {Remaining(k) : k \in Kind}]]
         /\ \A q \in Runs \ {r} : bus'[q] = bus[q]
         /\ bus'[r].event = bus[r].event
         /\ bus'[r].left \in Remaining(bus[r].event.kind)
         /\ handler = "checkpoint" => /\ Unsaved(r) /\ ~Unsaved(r)' /\ ~Told(r) /\ ~Told(r)'
                                      /\ bus'[r].left # <<>>
                                      /\ bus[r].event.kind \in Durable
         /\ handler = "extra" => /\ ~Unsaved(r) /\ ~Unsaved(r)' /\ ~Told(r) /\ ~Told(r)'
                                 /\ bus'[r].left # <<>>
         /\ handler = "langfuse" => /\ ~Unsaved(r) /\ ~Unsaved(r)' /\ ~Told(r) /\ Told(r)'
                                    /\ bus[r].event.kind = "before_model" \/ bus'[r].left = <<>>
         /\ handler = "compaction" => /\ ~Unsaved(r) /\ ~Unsaved(r)' /\ Told(r) /\ Told(r)'
                                      /\ bus'[r].left = <<>>
                                      /\ bus[r].event.kind = "before_model"
<1> DEFINE b == [bus[r] EXCEPT !.left = Tail(@)]
           k == bus[r].event.kind
<1>1. /\ bus[r] \in [event : Events, left : UNION {Remaining(j) : j \in Kind}]
      /\ k \in Kind
  BY DEF Types, Events
<1>2. bus' = [bus EXCEPT ![r] = b]
  BY DEF Delivered
<1>3. /\ bus[r].left \in Remaining(k) /\ bus[r].left # <<>>
      /\ Head(bus[r].left) = handler
  BY DEF BusInv, CanDeliver
<1>4. \/ /\ bus[r].left = <<"checkpoint", "extra", "langfuse">> /\ handler = "checkpoint"
         /\ b.left = <<"extra", "langfuse">>
         /\ k \in Durable
      \/ /\ bus[r].left = <<"extra", "langfuse">> /\ handler = "extra"
         /\ b.left = <<"langfuse">>
         /\ k # "before_model"
      \/ /\ bus[r].left = <<"extra", "langfuse", "compaction">> /\ handler = "extra"
         /\ b.left = <<"langfuse", "compaction">>
         /\ k = "before_model"
      \/ /\ bus[r].left = <<"langfuse">> /\ handler = "langfuse"
         /\ b.left = <<>>
         /\ k # "before_model"
      \/ /\ bus[r].left = <<"langfuse", "compaction">> /\ handler = "langfuse"
         /\ b.left = <<"compaction">>
         /\ k = "before_model"
      \/ /\ bus[r].left = <<"compaction">> /\ handler = "compaction"
         /\ b.left = <<>>
         /\ k = "before_model"
  <2>1. b.left = Tail(bus[r].left)
    BY <1>1
  <2>2. "before_model" \notin Durable
    BY DEF Durable
  <2>3. \/ /\ bus[r].left \in {<<"checkpoint", "extra", "langfuse">>, <<"extra", "langfuse">>,
                             <<"langfuse">>}
           /\ k \in Durable
        \/ /\ bus[r].left \in {<<"extra", "langfuse", "compaction">>,
                             <<"langfuse", "compaction">>, <<"compaction">>}
           /\ k = "before_model"
        \/ /\ bus[r].left \in {<<"extra", "langfuse">>, <<"langfuse">>}
           /\ k # "before_model"
    BY <1>3, Zenon DEF Remaining
  <2> HIDE DEF b, k
  <2>4. CASE bus[r].left = <<"checkpoint", "extra", "langfuse">>
    BY <1>3, <2>1, <2>2, <2>3, <2>4, Tails
  <2>5. CASE bus[r].left = <<"extra", "langfuse">>
    BY <1>3, <2>1, <2>2, <2>3, <2>5, Tails
  <2>6. CASE bus[r].left = <<"langfuse">>
    BY <1>3, <2>1, <2>2, <2>3, <2>6, Tails
  <2>7. CASE bus[r].left = <<"extra", "langfuse", "compaction">>
    BY <1>3, <2>1, <2>2, <2>3, <2>7, Tails
  <2>8. CASE bus[r].left = <<"langfuse", "compaction">>
    BY <1>3, <2>1, <2>2, <2>3, <2>8, Tails
  <2>9. CASE bus[r].left = <<"compaction">>
    BY <1>3, <2>1, <2>2, <2>3, <2>9, Tails
  <2> QED
    BY <2>3, <2>4, <2>5, <2>6, <2>7, <2>8, <2>9, Zenon
<1>5. b.event = bus[r].event
  BY <1>1
<1>6. b.left \in Remaining(k)
  <2>1. "before_model" \notin Durable
    BY DEF Durable
  <2> HIDE DEF b, k
  <2> QED
    BY <1>3, <1>4, <2>1 DEF Remaining
<1>7. b \in [event : Events, left : UNION {Remaining(j) : j \in Kind}]
  <2> DEFINE Q == UNION {Remaining(j) : j \in Kind}
  <2>1. b.left \in Q
    BY <1>1, <1>6
  <2>2. bus[r] \in [event : Events, left : Q]
    BY <1>1
  <2> HIDE DEF Q
  <2>3. b \in [event : Events, left : Q]
    BY <2>1, <2>2
  <2> QED
    BY <2>3 DEF Q
<1> HIDE DEF b
<1>8. /\ bus' \in [Runs -> [event : Events, left : UNION {Remaining(j) : j \in Kind}]]
      /\ \A q \in Runs \ {r} : bus'[q] = bus[q]
      /\ bus'[r] = b
  BY <1>2, <1>7 DEF Types
<1> HIDE DEF k
<1>9. \/ /\ handler = "checkpoint" /\ Unsaved(r) /\ ~Told(r)
         /\ b.left = <<"extra", "langfuse">> /\ k \in Durable
      \/ /\ handler = "extra" /\ ~Unsaved(r) /\ ~Told(r)
         /\ b.left \in {<<"langfuse">>, <<"langfuse", "compaction">>}
      \/ /\ handler = "langfuse" /\ ~Unsaved(r) /\ ~Told(r)
         /\ b.left = <<>> \/ (b.left = <<"compaction">> /\ k = "before_model")
      \/ /\ handler = "compaction" /\ ~Unsaved(r) /\ Told(r)
         /\ b.left = <<>> /\ k = "before_model"
  BY <1>4, Distinct, Zenon DEF Told, Unsaved
<1>10. bus'[r].left = b.left /\ bus'[r].event = bus[r].event
  BY <1>5, <1>8
<1>11. /\ b.left \in {<<"extra", "langfuse">>, <<"langfuse">>, <<"langfuse", "compaction">>}
             => ~Unsaved(r)' /\ ~Told(r)' /\ b.left # <<>>
       /\ b.left \in {<<>>, <<"compaction">>} => ~Unsaved(r)' /\ Told(r)'
  BY <1>10, Distinct, Zenon DEF Told, Unsaved
<1> HIDE DEF k
<1> QED
  BY <1>6, <1>8, <1>9, <1>10, <1>11 DEF k

-----------------------------------------------------------------------------
(* Steps of one Run.                                                       *)

\* What a step leaves alone of a Run keeps its invariant: the shutdown's seal changes
\* a row, but none of a Run that has returned.
LEMMA Elsewhere ==
  ASSUME Types, NEW q \in Runs, RunInv(q), act'[q] = act[q], bus'[q] = bus[q], seen'[q] = seen[q],
         row'[q] = row[q] \/ (act[q].pc = "idle" /\ row[q] = "running"),
         q \in silent <=> q \in silent',
         q \in tables.traces <=> q \in tables'.traces,
         q \in tables.turns <=> q \in tables'.turns,
         q \in tables.generations <=> q \in tables'.generations,
         q \in tables.texts <=> q \in tables'.texts,
         \A c \in Calls : <<q, c>> \in tables.tools <=> <<q, c>> \in tables'.tools
  PROVE  RunInv(q)'
<1>1. Told(q) <=> Told(q)'
  BY DEF Told
<1>2. Unsaved(q) <=> Unsaved(q)'
  BY DEF Unsaved
<1>3. \A k : Untold(q, k) <=> Untold(q, k)'
  BY <1>1 DEF Untold
<1>4. \A k, c : UntoldTool(q, k, c) <=> UntoldTool(q, k, c)'
  BY <1>3 DEF UntoldTool
<1>5. BusInv(q)' /\ BatchInv(q)' /\ ZoneInv(q)'
  BY <1>4 DEF RunInv, BusInv, BatchInv, ZoneInv
<1>6. StoreInv(q)'
  BY <1>2 DEF RunInv, StoreInv, Outcomes
<1>7. TraceInv(q)'
  <2>1. act[q].running \subseteq Calls
    BY DEF Types, Activation
  <2> QED
    BY <1>1, <1>4, <2>1 DEF RunInv, TraceInv
<1>8. Holds(tables, q) <=> Holds(tables, q)'
  BY DEF Holds
<1>9. SpanInv(q)'
  BY <1>1, <1>3, <1>4, <1>8
     DEF RunInv, SpanInv, Ended, TurnOpen, GenerationOpen, ToolOpen
<1> QED
  BY <1>5, <1>6, <1>7, <1>9 DEF RunInv

\* A step of one Run keeps the invariant when it keeps the invariant of that Run.
LEMMA OneRun ==
  ASSUME IInv, NEW r \in Runs, NEW a \in Activation,
         act' = [act EXCEPT ![r] = a],
         act[r].pc # "idle" \/ export.life = "open",
         bus' \in [Runs -> [event : Events, left : UNION {Remaining(k) : k \in Kind}]],
         \A q \in Runs \ {r} : bus'[q] = bus[q],
         row' \in [Runs -> Status],
         \A q \in Runs \ {r} :
             row'[q] = row[q] \/ (act[q].pc = "idle" /\ row[q] = "running"),
         silent \subseteq silent', silent' \subseteq silent \union {r},
         token' \in BOOLEAN, stop' \in BOOLEAN,
         starts' \in [Runs -> 0..MaxActivations], faults' \in 0..MaxFaults,
         Rest, RunInv(r)'
  PROVE  IInv'
<1>1. /\ act' \in [Runs -> Activation]
      /\ \A q \in Runs \ {r} : act'[q] = act[q]
  BY DEF IInv, Types
<1>2. tables' = tables /\ export' = export /\ seen' = seen
  BY DEF Rest
<1>3. Types'
  BY <1>1, <1>2 DEF IInv, Types
<1>4. ASSUME NEW q \in Runs \ {r} PROVE RunInv(q)'
  <2>1. RunInv(q) /\ Types
    BY DEF IInv
  <2>2. q \in silent <=> q \in silent'
    OBVIOUS
  <2> QED
    BY <1>1, <1>2, <2>1, <2>2, Elsewhere
<1>5. ExportInv'
  <2>1. export.life # "open" => Active' = {}
    BY <1>1 DEF IInv, ExportInv, Active
  <2> QED
    BY <1>2, <2>1 DEF IInv, ExportInv
<1> QED
  BY <1>3, <1>4, <1>5 DEF IInv

\* A terminal event can be published from anywhere.
LEMMA FinishKeeps ==
  ASSUME IInv, NEW r \in Runs, NEW status \in Outcomes,
         NEW zone \in {"outside", "loop", "except"},
         act[r].pc # "idle", Finish(r, status, zone), UNCHANGED <<row, silent>>,
         token' \in BOOLEAN, stop' \in BOOLEAN,
         starts' \in [Runs -> 0..MaxActivations], faults' \in 0..MaxFaults, Rest
  PROVE  IInv'
<1> DEFINE a == [act[r] EXCEPT !.pc = "ending", !.zone = zone, !.running = {},
                               !.todo = {}, !.results = {}]
           e == Terminal(r, status)
<1>1. Types
  BY DEF IInv
<1>2. act[r] \in Activation
  BY <1>1 DEF Types
<1>3. /\ a \in Activation
      /\ a.pc = "ending" /\ a.running = {} /\ a.todo = {} /\ a.results = {}
  BY <1>2 DEF Activation
<1>4. act' = [act EXCEPT ![r] = a]
  BY DEF Finish
<1> HIDE DEF a
<1>5. act'[r] = a
  BY <1>1, <1>4 DEF Types
<1>6. /\ e \in Events /\ e.kind = "terminal" /\ e.run = r /\ e.status = status
  BY Signals
<1>7. Publish(r, e)
  BY DEF Finish
<1> HIDE DEF e
<1>8. /\ bus' \in [Runs -> [event : Events, left : UNION {Remaining(k) : k \in Kind}]]
      /\ \A q \in Runs \ {r} : bus'[q] = bus[q]
      /\ bus'[r].event = e
      /\ bus'[r].left \in Remaining(e.kind)
      /\ bus'[r].left # <<>> /\ ~Told(r)'
      /\ Unsaved(r)'
  BY <1>1, <1>6, <1>7, Published
<1>9. BusInv(r)'
  BY <1>3, <1>5, <1>6, <1>8 DEF BusInv, Announced
<1>10. BatchInv(r)' /\ ZoneInv(r)' /\ TraceInv(r)'
  BY <1>3, <1>5 DEF BatchInv, ZoneInv, TraceInv
<1>11. StoreInv(r)'
  BY <1>3, <1>5, <1>8 DEF StoreInv
<1>12. SpanInv(r)'
  BY <1>3, <1>5, <1>8 DEF SpanInv, Ended, TurnOpen, GenerationOpen, ToolOpen
<1> QED
  BY <1>1, <1>3, <1>4, <1>8, <1>9, <1>10, <1>11, <1>12, OneRun DEF RunInv, Types

\* An exception can end the activation anywhere: the Run is silent then.
LEMMA EscapesKeeps ==
  ASSUME IInv, NEW r \in Runs, act[r].pc # "idle", Escapes(r),
         row' \in [Runs -> Status],
         \A q \in Runs \ {r} :
             row'[q] = row[q] \/ (act[q].pc = "idle" /\ row[q] = "running"),
         token' \in BOOLEAN,
         starts' \in [Runs -> 0..MaxActivations], faults' \in 0..MaxFaults, Rest
  PROVE  IInv'
<1> DEFINE a == [NoActivation EXCEPT !.turns = act[r].turns, !.result = "raised"]
           b == [bus[r] EXCEPT !.left = <<>>]
<1>1. Types /\ BusInv(r)
  BY DEF IInv, RunInv
<1>2. act[r].turns \in 0..MaxTurns
  BY <1>1 DEF Types, Activation
<1>3. /\ a \in Activation
      /\ a.pc = "idle" /\ a.running = {} /\ a.todo = {} /\ a.results = {} /\ a.cut = FALSE
      /\ a.zone = "outside" /\ a.result = "raised"
  BY <1>2 DEF Activation, NoActivation
<1>4. act' = [act EXCEPT ![r] = a]
  BY DEF Escapes
<1> HIDE DEF a
<1>5. act'[r] = a
  BY <1>1, <1>4 DEF Types
<1>6. /\ bus' \in [Runs -> [event : Events, left : UNION {Remaining(k) : k \in Kind}]]
      /\ \A q \in Runs \ {r} : bus'[q] = bus[q]
      /\ bus'[r] = b /\ b.left = <<>> /\ b.event = bus[r].event
  <2> DEFINE Q == UNION {Remaining(k) : k \in Kind}
  <2>1. bus' = [bus EXCEPT ![r] = b]
    BY DEF Escapes
  <2>2. <<>> \in Q
    BY DEF Remaining, Kind
  <2>3. bus \in [Runs -> [event : Events, left : Q]]
    BY <1>1 DEF Types
  <2> HIDE DEF Q
  <2>4. b \in [event : Events, left : Q] /\ b.left = <<>> /\ b.event = bus[r].event
    BY <2>2, <2>3
  <2> HIDE DEF b
  <2> QED
    BY <2>1, <2>3, <2>4 DEF Q
<1> HIDE DEF b
<1>7. Told(r)'
  BY <1>6 DEF Told
<1>8. BusInv(r)'
  BY <1>1, <1>3, <1>5, <1>6 DEF BusInv, Remaining
<1>9. BatchInv(r)' /\ ZoneInv(r)' /\ TraceInv(r)' /\ StoreInv(r)'
  BY <1>3, <1>5 DEF BatchInv, ZoneInv, TraceInv, StoreInv
<1>10. r \in silent' /\ silent \subseteq silent' /\ silent' \subseteq silent \union {r}
  BY DEF Escapes
<1>11. SpanInv(r)'
  BY <1>10 DEF SpanInv
<1>12. stop' \in BOOLEAN
  BY DEF Escapes
<1> QED
  BY <1>3, <1>4, <1>6, <1>8, <1>9, <1>10, <1>11, <1>12, OneRun DEF RunInv

\* The activation moves on to a and publishes e: what its Run is like then.
LEMMA Announces ==
  ASSUME Types, NEW r \in Runs, NEW a \in Activation, NEW e \in Events,
         a.pc # "idle", a.pc # "ending", e.run = r, e.kind \in Announced[a.pc],
         e.kind \in {"before_tool", "after_tool"} => e.call \in Calls,
         act' = [act EXCEPT ![r] = a], Publish(r, e)
  PROVE  /\ act'[r] = a
         /\ bus' \in [Runs -> [event : Events, left : UNION {Remaining(k) : k \in Kind}]]
         /\ \A q \in Runs \ {r} : bus'[q] = bus[q]
         /\ bus'[r].event = e
         /\ bus'[r].left # <<>> /\ ~Told(r)'
         /\ BusInv(r)' /\ StoreInv(r)'
<1>1. act'[r] = a
  BY DEF Types
<1>2. /\ bus' \in [Runs -> [event : Events, left : UNION {Remaining(k) : k \in Kind}]]
      /\ \A q \in Runs \ {r} : bus'[q] = bus[q]
      /\ bus'[r].event = e
      /\ bus'[r].left \in Remaining(e.kind)
      /\ bus'[r].left # <<>> /\ ~Told(r)'
  BY Published
<1>3. BusInv(r)'
  BY <1>1, <1>2 DEF BusInv
<1>4. StoreInv(r)'
  BY <1>1 DEF StoreInv
<1> QED
  BY <1>1, <1>2, <1>3, <1>4

\* The activation moves on to a, and publishes nothing.
LEMMA MovesOn ==
  ASSUME Types, NEW r \in Runs, NEW a \in Activation, BusInv(r),
         a.pc # "idle", a.pc # "ending", bus[r].left = <<>>,
         act' = [act EXCEPT ![r] = a], UNCHANGED bus
  PROVE  /\ act'[r] = a
         /\ bus' \in [Runs -> [event : Events, left : UNION {Remaining(k) : k \in Kind}]]
         /\ \A q \in Runs \ {r} : bus'[q] = bus[q]
         /\ bus'[r].left = <<>> /\ Told(r) /\ Told(r)'
         /\ BusInv(r)' /\ StoreInv(r)'
<1>1. act'[r] = a
  BY DEF Types
<1>2. /\ bus' \in [Runs -> [event : Events, left : UNION {Remaining(k) : k \in Kind}]]
      /\ \A q \in Runs \ {r} : bus'[q] = bus[q]
      /\ bus'[r] = bus[r]
  BY DEF Types
<1>3. Told(r) /\ Told(r)'
  BY <1>2 DEF Told
<1>4. BusInv(r)'
  BY <1>1, <1>2 DEF BusInv
<1>5. StoreInv(r)'
  BY <1>1 DEF StoreInv
<1> QED
  BY <1>1, <1>2, <1>3, <1>4, <1>5

\* A step of the Run's own code, up to the parts of the invariant that it can disturb.
LEMMA OwnStepKeeps ==
  ASSUME IInv, NEW r \in Runs, NEW a \in Activation, act[r].pc # "idle",
         act' = [act EXCEPT ![r] = a],
         bus' \in [Runs -> [event : Events, left : UNION {Remaining(k) : k \in Kind}]],
         \A q \in Runs \ {r} : bus'[q] = bus[q],
         OwnStep(r), RunInv(r)'
  PROVE  IInv'
<1>1. Types /\ UNCHANGED <<row, token, stop, silent, starts, faults>> /\ Rest
  BY DEF IInv, OwnStep
<1>2. /\ row' \in [Runs -> Status]
      /\ \A q \in Runs \ {r} :
             row'[q] = row[q] \/ (act[q].pc = "idle" /\ row[q] = "running")
      /\ silent \subseteq silent' /\ silent' \subseteq silent \union {r}
      /\ token' \in BOOLEAN /\ stop' \in BOOLEAN
      /\ starts' \in [Runs -> 0..MaxActivations] /\ faults' \in 0..MaxFaults
  BY <1>1 DEF Types
<1> QED
  BY <1>1, <1>2, OneRun

-----------------------------------------------------------------------------
(* AgentHarness.run, resume and respond_approvals.                         *)

LEMMA StartNewKeeps == ASSUME IInv, NEW r \in Runs, StartNew(r) PROVE IInv'
<1> DEFINE a == [NoActivation EXCEPT !.pc = "starting"]
           e == Signal("before_start", r)
<1>1. Types /\ RunInv(r)
  BY DEF IInv
<1>2. /\ a \in Activation
      /\ a.pc = "starting" /\ a.running = {} /\ a.todo = {} /\ a.results = {}
      /\ a.cut = FALSE /\ a.zone = "outside"
  <2>1. 0 \in 0..MaxTurns
    BY BoundsAssumption
  <2> QED
    BY <2>1 DEF Activation, NoActivation
<1>3. e \in Events /\ e.kind = "before_start" /\ e.run = r
  BY Signals DEF Kind
<1>4. act' = [act EXCEPT ![r] = a] /\ Publish(r, e)
  BY DEF StartNew
<1>5. /\ act[r].pc = "idle" /\ export.life = "open" /\ starts[r] < MaxActivations
      /\ starts' = [starts EXCEPT ![r] = @ + 1] /\ token' \in BOOLEAN
      /\ row' = [row EXCEPT ![r] = "running"]
      /\ UNCHANGED <<stop, silent, faults>> /\ Rest
  BY <1>1 DEF StartNew, Types
<1> HIDE DEF a, e
<1>6. e.kind \in Announced[a.pc]
  BY <1>2, <1>3 DEF Announced
<1>7. /\ act'[r] = a
      /\ bus' \in [Runs -> [event : Events, left : UNION {Remaining(k) : k \in Kind}]]
      /\ \A q \in Runs \ {r} : bus'[q] = bus[q]
      /\ bus'[r].left # <<>> /\ ~Told(r)'
      /\ BusInv(r)' /\ StoreInv(r)'
  BY <1>1, <1>2, <1>3, <1>4, <1>6, Announces
<1>8. BatchInv(r)' /\ ZoneInv(r)' /\ TraceInv(r)'
  BY <1>2, <1>7 DEF BatchInv, ZoneInv, TraceInv
<1>9. SpanInv(r)'
  BY <1>1, <1>2, <1>5, <1>7 DEF RunInv, SpanInv, Ended, Holds, Rest
<1>10. /\ starts' \in [Runs -> 0..MaxActivations] /\ row' \in [Runs -> Status]
       /\ \A q \in Runs \ {r} : row'[q] = row[q]
  BY <1>1, <1>5, BoundsAssumption DEF Types, Status
<1> QED
  BY <1>1, <1>2, <1>4, <1>5, <1>7, <1>8, <1>9, <1>10, OneRun DEF RunInv, Types

LEMMA RunStartsKeeps == ASSUME IInv, NEW r \in Runs, RunStarts(r) PROVE IInv'
<1> DEFINE a == [act[r] EXCEPT !.pc = "prepared"]
           e == Signal("run_started", r)
<1>1. Types /\ RunInv(r)
  BY DEF IInv
<1>2. act[r] \in Activation /\ act[r].pc = "starting" /\ bus[r].left = <<>>
  BY <1>1 DEF Types, RunStarts, Acts
<1>3. /\ a \in Activation
      /\ a.pc = "prepared" /\ a.running = act[r].running /\ a.todo = act[r].todo
      /\ a.results = act[r].results /\ a.cut = act[r].cut /\ a.zone = act[r].zone
  BY <1>2 DEF Activation
<1>4. e \in Events /\ e.kind = "run_started" /\ e.run = r
  BY Signals DEF Kind
<1>5. act' = [act EXCEPT ![r] = a] /\ Publish(r, e) /\ OwnStep(r)
  BY DEF RunStarts
<1> HIDE DEF a, e
<1>6. e.kind \in Announced[a.pc]
  BY <1>3, <1>4 DEF Announced
<1>7. /\ act'[r] = a
      /\ bus' \in [Runs -> [event : Events, left : UNION {Remaining(k) : k \in Kind}]]
      /\ \A q \in Runs \ {r} : bus'[q] = bus[q]
      /\ BusInv(r)' /\ StoreInv(r)'
  BY <1>1, <1>3, <1>4, <1>5, <1>6, Announces
<1>8. Told(r)
  BY <1>2, Queue
<1>9. BatchInv(r)' /\ ZoneInv(r)'
  BY <1>1, <1>2, <1>3, <1>7 DEF RunInv, BatchInv, ZoneInv
<1>10. TraceInv(r)' /\ SpanInv(r)'
  BY <1>1, <1>2, <1>3, <1>5, <1>7, <1>8
     DEF RunInv, BatchInv, TraceInv, SpanInv, Ended, TurnOpen, GenerationOpen, ToolOpen,
         OwnStep, Rest
<1> QED
  BY <1>2, <1>3, <1>5, <1>7, <1>9, <1>10, OwnStepKeeps DEF RunInv

LEMMA ResumeKeeps == ASSUME IInv, NEW r \in Runs, Resume(r) PROVE IInv'
<1> DEFINE a == [NoActivation EXCEPT !.pc = "resuming", !.turns = act[r].turns,
                     !.pending = IF row[r] = "waiting_for_approval" THEN act[r].pending
                                 ELSE {}]
           e == Signal("before_resume", r)
<1>1. Types /\ RunInv(r)
  BY DEF IInv
<1>2. act[r] \in Activation /\ act[r].pc = "idle"
  BY <1>1 DEF Types, Resume, Active
<1>3. /\ a \in Activation
      /\ a.pc = "resuming" /\ a.running = {} /\ a.todo = {} /\ a.results = {}
      /\ a.cut = FALSE /\ a.zone = "outside"
  BY <1>2 DEF Activation, NoActivation
<1>4. e \in Events /\ e.kind = "before_resume" /\ e.run = r
  BY Signals DEF Kind
<1>5. act' = [act EXCEPT ![r] = a] /\ Publish(r, e)
  BY DEF Resume
<1>6. /\ export.life = "open" /\ starts[r] < MaxActivations
      /\ starts' = [starts EXCEPT ![r] = @ + 1] /\ token' \in BOOLEAN
      /\ UNCHANGED <<row, stop, silent, faults>> /\ Rest
  BY DEF Resume
<1> HIDE DEF a, e
<1>7. e.kind \in Announced[a.pc]
  BY <1>3, <1>4 DEF Announced
<1>8. /\ act'[r] = a
      /\ bus' \in [Runs -> [event : Events, left : UNION {Remaining(k) : k \in Kind}]]
      /\ \A q \in Runs \ {r} : bus'[q] = bus[q]
      /\ bus'[r].left # <<>> /\ ~Told(r)'
      /\ BusInv(r)' /\ StoreInv(r)'
  BY <1>1, <1>3, <1>4, <1>5, <1>7, Announces
<1>9. BatchInv(r)' /\ ZoneInv(r)' /\ TraceInv(r)'
  BY <1>3, <1>8 DEF BatchInv, ZoneInv, TraceInv
<1>10. SpanInv(r)'
  BY <1>1, <1>2, <1>3, <1>6, <1>8 DEF RunInv, SpanInv, Ended, Holds, Rest
<1>11. starts' \in [Runs -> 0..MaxActivations]
  BY <1>1, <1>6, BoundsAssumption DEF Types
<1> QED
  BY <1>1, <1>2, <1>3, <1>5, <1>6, <1>8, <1>9, <1>10, <1>11, OneRun DEF RunInv, Types

LEMMA PreparedKeeps ==
  ASSUME IInv, NEW r \in Runs, NEW verdicts \in SUBSET Calls, Prepared(r, verdicts)
  PROVE  IInv'
<1> DEFINE a == [act[r] EXCEPT
                     !.pc = IF act[r].pending = {} THEN "prepared"
                            ELSE IF verdicts = {} THEN "fold" ELSE "open",
                     !.todo = verdicts, !.pending = act[r].pending \ verdicts]
<1>1. Types /\ RunInv(r)
  BY DEF IInv
<1>2. /\ act[r] \in Activation /\ act[r].pc = "resuming" /\ bus[r].left = <<>>
      /\ verdicts \subseteq act[r].pending
  BY <1>1 DEF Types, Prepared, Acts
<1>3. /\ a \in Activation
      /\ a.pc \in {"prepared", "fold", "open"}
      /\ a.pc # "open" => a.todo = {}
      /\ a.running = act[r].running
      /\ a.results = act[r].results /\ a.cut = act[r].cut /\ a.zone = act[r].zone
  BY <1>2 DEF Activation
<1>4. /\ act' = [act EXCEPT ![r] = a] /\ UNCHANGED bus
      /\ row' = [row EXCEPT ![r] = "running"]
      /\ UNCHANGED <<token, stop, silent, starts, faults>> /\ Rest
  BY DEF Prepared
<1> HIDE DEF a
<1>5. /\ act'[r] = a
      /\ bus' \in [Runs -> [event : Events, left : UNION {Remaining(k) : k \in Kind}]]
      /\ \A q \in Runs \ {r} : bus'[q] = bus[q]
      /\ bus'[r].left = <<>> /\ Told(r) /\ Told(r)'
      /\ BusInv(r)' /\ StoreInv(r)'
  BY <1>1, <1>2, <1>3, <1>4, MovesOn DEF RunInv
<1>6. BatchInv(r)' /\ ZoneInv(r)'
  BY <1>1, <1>2, <1>3, <1>5 DEF RunInv, BatchInv, ZoneInv, UntoldTool, Untold
<1>7. TraceInv(r)' /\ SpanInv(r)'
  BY <1>1, <1>2, <1>3, <1>4, <1>5
     DEF RunInv, BatchInv, TraceInv, SpanInv, Ended, TurnOpen, GenerationOpen, ToolOpen, Rest
<1>8. row' \in [Runs -> Status] /\ \A q \in Runs \ {r} : row'[q] = row[q]
  BY <1>1, <1>4 DEF Types, Status
<1> QED
  BY <1>1, <1>2, <1>3, <1>4, <1>5, <1>6, <1>7, <1>8, OneRun DEF RunInv, Types

LEMMA ConflictsKeeps == ASSUME IInv, NEW r \in Runs, Conflicts(r) PROVE IInv'
<1>1. Types
  BY DEF IInv
<1>2. act[r].pc # "idle" /\ Escapes(r) /\ UNCHANGED <<row, token, starts>> /\ Rest
  BY DEF Conflicts, Acts
<1>3. faults' \in 0..MaxFaults
  BY <1>1, BoundsAssumption DEF Conflicts, Fault, Types
<1> QED
  BY <1>1, <1>2, <1>3, EscapesKeeps DEF Types

LEMMA EnterLoopKeeps == ASSUME IInv, NEW r \in Runs, EnterLoop(r) PROVE IInv'
<1> DEFINE a == [act[r] EXCEPT !.pc = "top", !.zone = "loop"]
<1>1. Types /\ RunInv(r)
  BY DEF IInv
<1>2. act[r] \in Activation /\ act[r].pc = "prepared" /\ bus[r].left = <<>>
  BY <1>1 DEF Types, EnterLoop, Acts
<1>3. /\ a \in Activation
      /\ a.pc = "top" /\ a.running = act[r].running /\ a.todo = act[r].todo
      /\ a.results = act[r].results /\ a.cut = act[r].cut /\ a.zone = "loop"
  BY <1>2 DEF Activation
<1>4. act' = [act EXCEPT ![r] = a] /\ UNCHANGED bus /\ OwnStep(r)
  BY DEF EnterLoop
<1> HIDE DEF a
<1>5. /\ act'[r] = a
      /\ bus' \in [Runs -> [event : Events, left : UNION {Remaining(k) : k \in Kind}]]
      /\ \A q \in Runs \ {r} : bus'[q] = bus[q]
      /\ Told(r) /\ BusInv(r)' /\ StoreInv(r)'
  BY <1>1, <1>2, <1>3, <1>4, MovesOn DEF RunInv
<1>6. BatchInv(r)' /\ ZoneInv(r)'
  BY <1>1, <1>2, <1>3, <1>5 DEF RunInv, BatchInv, ZoneInv
<1>7. TraceInv(r)' /\ SpanInv(r)'
  BY <1>1, <1>2, <1>3, <1>4, <1>5
     DEF RunInv, BatchInv, TraceInv, SpanInv, Ended, TurnOpen, GenerationOpen, ToolOpen,
         OwnStep, Rest
<1> QED
  BY <1>2, <1>3, <1>4, <1>5, <1>6, <1>7, OwnStepKeeps DEF RunInv

-----------------------------------------------------------------------------
(* AgentLoop.advance and the batches.                                      *)

LEMMA FinishOwn ==
  ASSUME IInv, NEW r \in Runs, NEW status \in Outcomes,
         NEW zone \in {"outside", "loop", "except"},
         act[r].pc # "idle", Finish(r, status, zone), OwnStep(r)
  PROVE  IInv'
<1>1. /\ UNCHANGED <<row, silent>> /\ Rest
      /\ token' \in BOOLEAN /\ stop' \in BOOLEAN
      /\ starts' \in [Runs -> 0..MaxActivations] /\ faults' \in 0..MaxFaults
  BY DEF OwnStep, IInv, Types
<1> QED
  BY <1>1, FinishKeeps

\* A step within the loop that announces e, and touches no more of the batch.
LEMMA LoopAnnounces ==
  ASSUME IInv, NEW r \in Runs, NEW a \in Activation, NEW e \in Events,
         bus[r].left = <<>>, act' = [act EXCEPT ![r] = a], Publish(r, e), OwnStep(r),
         e.run = r, e.kind \in Announced[a.pc],
         e.kind \in {"before_tool", "after_tool"} => e.call \in Calls,
         a.running = act[r].running, a.todo = act[r].todo, a.results = act[r].results,
         a.cut = act[r].cut, a.zone = act[r].zone,
         a.pc = "model" => a.turns < MaxTurns,
         \/ /\ act[r].pc = "top" /\ a.pc = "shaping" /\ a.turns < MaxTurns
         \/ act[r].pc = "shaping" /\ a.pc = "model"
         \/ act[r].pc = "model" /\ a.pc = "model" /\ e.kind # "before_model"
         \/ act[r].pc = "model" /\ a.pc = "decide"
         \/ act[r].pc = "decide" /\ a.pc = "complete"
         \/ /\ act[r].pc = "fold" /\ a.pc = "top" /\ act[r].zone = "loop"
            /\ act[r].results = {} /\ ~act[r].cut
  PROVE  IInv'
<1>1. Types /\ RunInv(r) /\ Told(r)
  BY Queue DEF IInv
<1> a.pc \notin {"idle", "ending"}
  OBVIOUS
<1>2. /\ act'[r] = a
      /\ bus' \in [Runs -> [event : Events, left : UNION {Remaining(k) : k \in Kind}]]
      /\ \A q \in Runs \ {r} : bus'[q] = bus[q]
      /\ bus'[r].event = e /\ ~Told(r)'
      /\ BusInv(r)' /\ StoreInv(r)'
  <2>1. act'[r] = a
    BY <1>1 DEF Types
  <2>2. /\ bus' \in [Runs -> [event : Events, left : UNION {Remaining(k) : k \in Kind}]]
        /\ \A q \in Runs \ {r} : bus'[q] = bus[q]
        /\ bus'[r].event = e /\ ~Told(r)'
    BY <1>1, Published
  <2>3. BusInv(r)' /\ StoreInv(r)'
    BY <1>1, Announces
  <2> QED
    BY <2>1, <2>2, <2>3
<1>3. UNCHANGED <<tables, silent>>
  BY DEF OwnStep, Rest
<1>4. BatchInv(r)' /\ ZoneInv(r)'
  BY <1>1, <1>2 DEF RunInv, BatchInv, ZoneInv
<1>5. TraceInv(r)'
  BY <1>1, <1>2, <1>3 DEF RunInv, TraceInv
<1>6. SpanInv(r)'
  BY <1>1, <1>2, <1>3
     DEF RunInv, BatchInv, ZoneInv, SpanInv, Ended, TurnOpen, GenerationOpen, ToolOpen,
         Untold, UntoldTool
<1> QED
  BY <1>2, <1>4, <1>5, <1>6, OwnStepKeeps DEF RunInv

LEMMA TopKeeps == ASSUME IInv, NEW r \in Runs, Top(r) PROVE IInv'
<1>1. Types /\ OwnStep(r) /\ act[r].pc = "top" /\ bus[r].left = <<>> /\ act[r] \in Activation
  BY DEF IInv, Types, Top, Acts
<1>2. ASSUME NEW status \in {"paused_limit", "cancelled"}, Finish(r, status, "loop")
      PROVE  IInv'
  BY <1>1, <1>2, FinishOwn DEF Outcomes
<1>3. CASE /\ act[r].turns < MaxTurns
           /\ act' = [act EXCEPT ![r].pc = "shaping"] /\ Publish(r, Signal("turn_started", r))
  <2> DEFINE a == [act[r] EXCEPT !.pc = "shaping"]
             e == Signal("turn_started", r)
  <2>1. /\ a \in Activation
        /\ a.pc = "shaping" /\ a.running = act[r].running /\ a.todo = act[r].todo
        /\ a.results = act[r].results /\ a.cut = act[r].cut /\ a.zone = act[r].zone
        /\ a.turns = act[r].turns
    BY <1>1 DEF Activation
  <2>2. e \in Events /\ e.kind = "turn_started" /\ e.run = r
    BY Signals DEF Kind
  <2>3. act' = [act EXCEPT ![r] = a] /\ Publish(r, e)
    BY <1>3
  <2> HIDE DEF a, e
  <2>4. e.kind \in Announced[a.pc]
    BY <2>1, <2>2 DEF Announced
  <2> QED
    BY <1>1, <1>3, <2>1, <2>2, <2>3, <2>4, LoopAnnounces
<1> QED
  BY <1>2, <1>3 DEF Top

LEMMA ShapeKeeps == ASSUME IInv, NEW r \in Runs, Shape(r) PROVE IInv'
<1> DEFINE a == [act[r] EXCEPT !.pc = "model"]
           e == Signal("before_model", r)
<1>1. /\ OwnStep(r) /\ act[r].pc = "shaping" /\ bus[r].left = <<>> /\ act[r] \in Activation
      /\ act[r].turns < MaxTurns
  BY DEF IInv, Types, RunInv, BatchInv, Shape, Acts
<1>2. /\ a \in Activation
      /\ a.pc = "model" /\ a.running = act[r].running /\ a.todo = act[r].todo
      /\ a.results = act[r].results /\ a.cut = act[r].cut /\ a.zone = act[r].zone
      /\ a.turns = act[r].turns
  BY <1>1 DEF Activation
<1>3. e \in Events /\ e.kind = "before_model" /\ e.run = r
  BY Signals DEF Kind
<1>4. act' = [act EXCEPT ![r] = a] /\ Publish(r, e)
  BY DEF Shape
<1> HIDE DEF a, e
<1>5. e.kind \in Announced[a.pc]
  BY <1>2, <1>3 DEF Announced
<1> QED
  BY <1>1, <1>2, <1>3, <1>4, <1>5, LoopAnnounces

LEMMA ChunkKeeps ==
  ASSUME IInv, NEW r \in Runs, NEW kind, Chunk(r, kind)
  PROVE  IInv'
<1> DEFINE e == Signal(kind, r)
<1>1. /\ OwnStep(r) /\ act[r].pc = "model" /\ bus[r].left = <<>> /\ act[r] \in Activation
      /\ act[r].turns < MaxTurns /\ kind \in {"model_chunk", "notice"}
  BY DEF IInv, Types, RunInv, BatchInv, Chunk, Wakes, Acts
<1>2. e \in Events /\ e.kind = kind /\ e.run = r
  BY <1>1, Signals DEF Kind
<1>3. act' = [act EXCEPT ![r] = act[r]] /\ Publish(r, e)
  BY DEF Chunk, IInv, Types
<1> HIDE DEF e
<1>4. e.kind \in Announced[act[r].pc]
  BY <1>1, <1>2 DEF Announced
<1> QED
  BY <1>1, <1>2, <1>3, <1>4, LoopAnnounces

LEMMA RespondKeeps ==
  ASSUME IInv, NEW r \in Runs, NEW calls \in SUBSET Calls, Respond(r, calls)
  PROVE  IInv'
<1> DEFINE a == [act[r] EXCEPT !.pc = "decide", !.turns = act[r].turns + 1, !.calls = calls]
           e == Signal("after_model", r)
<1>1. /\ OwnStep(r) /\ act[r].pc = "model" /\ bus[r].left = <<>> /\ act[r] \in Activation
      /\ act[r].turns < MaxTurns
  BY DEF IInv, Types, RunInv, BatchInv, Respond, Wakes, Acts
<1>2. /\ a \in Activation
      /\ a.pc = "decide" /\ a.running = act[r].running /\ a.todo = act[r].todo
      /\ a.results = act[r].results /\ a.cut = act[r].cut /\ a.zone = act[r].zone
  <2>1. act[r].turns + 1 \in 0..MaxTurns
    BY <1>1, BoundsAssumption DEF Activation
  <2> QED
    BY <1>1, <2>1 DEF Activation
<1>3. e \in Events /\ e.kind = "after_model" /\ e.run = r
  BY Signals DEF Kind
<1>4. act' = [act EXCEPT ![r] = a] /\ Publish(r, e)
  BY DEF Respond
<1> HIDE DEF a, e
<1>5. e.kind \in Announced[a.pc]
  BY <1>2, <1>3 DEF Announced
<1> QED
  BY <1>1, <1>2, <1>3, <1>4, <1>5, LoopAnnounces

LEMMA ModelFailsKeeps == ASSUME IInv, NEW r \in Runs, ModelFails(r) PROVE IInv'
<1>1. /\ act[r].pc # "idle" /\ Finish(r, "failed", "except")
      /\ UNCHANGED <<row, token, stop, silent, starts>> /\ Rest
  BY DEF ModelFails, Wakes, Acts
<1>2. faults' \in 0..MaxFaults
  BY BoundsAssumption DEF ModelFails, Fault, IInv, Types
<1> QED
  BY <1>1, <1>2, FinishKeeps DEF IInv, Types, Outcomes

LEMMA ModelCancelledKeeps == ASSUME IInv, NEW r \in Runs, ModelCancelled(r) PROVE IInv'
<1>1. act[r].pc # "idle" /\ Finish(r, "cancelled", "loop") /\ OwnStep(r)
  BY DEF ModelCancelled, Wakes, Acts
<1> QED
  BY <1>1, FinishOwn DEF Outcomes

LEMMA CompleteKeeps == ASSUME IInv, NEW r \in Runs, Complete(r) PROVE IInv'
<1>1. act[r].pc # "idle" /\ Finish(r, "completed", "loop") /\ OwnStep(r)
  BY DEF Complete, Acts
<1> QED
  BY <1>1, FinishOwn DEF Outcomes

LEMMA DecideKeeps ==
  ASSUME IInv, NEW r \in Runs, NEW asked \in SUBSET Calls, Decide(r, asked)
  PROVE  IInv'
<1>1. /\ Types /\ RunInv(r) /\ OwnStep(r) /\ act[r].pc = "decide" /\ bus[r].left = <<>>
      /\ act[r] \in Activation /\ asked \subseteq act[r].calls
  BY DEF IInv, Types, Decide, Acts
<1>2. CASE Finish(r, "cancelled", "loop")
  BY <1>1, <1>2, FinishOwn DEF Outcomes
<1>3. CASE act' = [act EXCEPT ![r].pc = "complete"] /\ Publish(r, Signal("turn_ended", r))
  <2> DEFINE a == [act[r] EXCEPT !.pc = "complete"]
             e == Signal("turn_ended", r)
  <2>1. /\ a \in Activation
        /\ a.pc = "complete" /\ a.running = act[r].running /\ a.todo = act[r].todo
        /\ a.results = act[r].results /\ a.cut = act[r].cut /\ a.zone = act[r].zone
    BY <1>1 DEF Activation
  <2>2. e \in Events /\ e.kind = "turn_ended" /\ e.run = r
    BY Signals DEF Kind
  <2>3. act' = [act EXCEPT ![r] = a] /\ Publish(r, e)
    BY <1>3
  <2> HIDE DEF a, e
  <2>4. e.kind \in Announced[a.pc]
    BY <2>1, <2>2 DEF Announced
  <2> QED
    BY <1>1, <2>1, <2>2, <2>3, <2>4, LoopAnnounces
<1>4. CASE /\ act' = [act EXCEPT ![r] =
                 [act[r] EXCEPT !.pc = IF asked = act[r].calls THEN "fold" ELSE "open",
                                !.calls = {}, !.pending = asked,
                                !.todo = act[r].calls \ asked]]
           /\ UNCHANGED bus
  <2> DEFINE a == [act[r] EXCEPT !.pc = IF asked = act[r].calls THEN "fold" ELSE "open",
                                 !.calls = {}, !.pending = asked,
                                 !.todo = act[r].calls \ asked]
  <2>1. /\ a \in Activation
        /\ a.pc \in {"fold", "open"} /\ a.running = act[r].running
        /\ a.pc = "fold" => a.todo = {}
        /\ a.results = act[r].results /\ a.cut = act[r].cut /\ a.zone = act[r].zone
    BY <1>1 DEF Activation
  <2>2. act' = [act EXCEPT ![r] = a]
    BY <1>4
  <2> HIDE DEF a
  <2>3. /\ act'[r] = a
        /\ bus' \in [Runs -> [event : Events, left : UNION {Remaining(k) : k \in Kind}]]
        /\ \A q \in Runs \ {r} : bus'[q] = bus[q]
        /\ bus'[r].left = <<>> /\ Told(r) /\ Told(r)'
        /\ BusInv(r)' /\ StoreInv(r)'
    BY <1>1, <1>4, <2>1, <2>2, MovesOn DEF RunInv
  <2>4. UNCHANGED <<tables, silent>>
    BY <1>1 DEF OwnStep, Rest
  <2>5. BatchInv(r)' /\ ZoneInv(r)'
    BY <1>1, <2>1, <2>3 DEF RunInv, BatchInv, ZoneInv, UntoldTool, Untold
  <2>6. TraceInv(r)' /\ SpanInv(r)'
    BY <1>1, <2>1, <2>3, <2>4
       DEF RunInv, BatchInv, ZoneInv, TraceInv, SpanInv, Ended, TurnOpen, GenerationOpen,
           ToolOpen
  <2> QED
    BY <1>1, <2>1, <2>2, <2>3, <2>5, <2>6, OwnStepKeeps DEF RunInv
<1> QED
  BY <1>2, <1>3, <1>4 DEF Decide

LEMMA OpenKeeps == ASSUME IInv, NEW r \in Runs, Open(r) PROVE IInv'
<1>1. /\ Types /\ RunInv(r) /\ OwnStep(r) /\ act[r].pc = "open" /\ bus[r].left = <<>>
      /\ act[r] \in Activation
  BY DEF IInv, Types, Open, Acts
<1>2. UNCHANGED <<tables, silent>> /\ Told(r)
  BY <1>1, Queue DEF OwnStep, Rest
<1>3. CASE act[r].todo # {}
  <2>1. PICK c \in act[r].todo : c = First(act[r].todo)
    <3>1. act[r].todo \in SUBSET Nat
      BY <1>1, BoundsAssumption DEF Activation
    <3> QED
      BY <1>3, <3>1, FirstIsOne
  <2> DEFINE a == [act[r] EXCEPT !.todo = act[r].todo \ {c},
                                 !.running = act[r].running \union {c}]
             e == ToolSignal("before_tool", r, c)
  <2>2. act' = [act EXCEPT ![r] = a] /\ Publish(r, e)
    BY <1>3, <2>1 DEF Open
  <2>3. e \in Events /\ e.kind = "before_tool" /\ e.run = r /\ e.call = c /\ c \in Calls
    BY <1>1, Signals DEF Kind, Activation
  <2>4. /\ a \in Activation
        /\ a.pc = "open" /\ a.running = act[r].running \union {c}
        /\ a.todo = act[r].todo \ {c}
        /\ a.results = act[r].results /\ a.cut = act[r].cut /\ a.zone = act[r].zone
    BY <1>1, <2>3 DEF Activation
  <2> HIDE DEF a, e
  <2>5. e.kind \in Announced[a.pc]
    BY <2>3, <2>4 DEF Announced
  <2>6. /\ act'[r] = a
        /\ bus' \in [Runs -> [event : Events, left : UNION {Remaining(k) : k \in Kind}]]
        /\ \A q \in Runs \ {r} : bus'[q] = bus[q]
        /\ bus'[r].event = e /\ ~Told(r)'
        /\ BusInv(r)' /\ StoreInv(r)'
    <3>1. /\ Types /\ a \in Activation /\ e \in Events
          /\ a.pc # "idle" /\ a.pc # "ending" /\ e.run = r
          /\ e.kind \in {"before_tool", "after_tool"} => e.call \in Calls
      BY <1>1, <2>3, <2>4
    <3>2. act'[r] = a
      BY <2>2, <3>1 DEF Types
    <3>3. /\ bus' \in [Runs -> [event : Events, left : UNION {Remaining(k) : k \in Kind}]]
          /\ \A q \in Runs \ {r} : bus'[q] = bus[q]
          /\ bus'[r].event = e /\ ~Told(r)'
      BY <2>2, <3>1, Published
    <3>4. BusInv(r)' /\ StoreInv(r)'
      BY <2>2, <2>5, <3>1, Announces
    <3> QED
      BY <3>2, <3>3, <3>4
  <2>7. BatchInv(r)' /\ ZoneInv(r)'
    BY <1>1, <2>1, <2>3, <2>4, <2>6
       DEF RunInv, BatchInv, ZoneInv, UntoldTool, Untold
  <2>8. TraceInv(r)'
    <3>1. \A d \in act[r].running : <<r, d>> \in tables.tools
      BY <1>1, <1>2 DEF RunInv, TraceInv, UntoldTool, Untold
    <3>2. UntoldTool(r, "before_tool", c)'
      BY <2>3, <2>6 DEF UntoldTool, Untold
    <3> QED
      BY <1>1, <1>2, <2>4, <2>6, <3>1, <3>2 DEF RunInv, TraceInv
  <2>9. SpanInv(r)'
    BY <1>1, <1>2, <2>1, <2>3, <2>4, <2>6
       DEF RunInv, BatchInv, SpanInv, Ended, TurnOpen, GenerationOpen, ToolOpen,
           UntoldTool, Untold
  <2> QED
    BY <1>1, <2>2, <2>4, <2>6, <2>7, <2>8, <2>9, OwnStepKeeps DEF RunInv
<1>4. CASE act[r].todo = {}
  <2> DEFINE a == [act[r] EXCEPT !.pc = "tools"]
  <2>1. /\ a \in Activation
        /\ a.pc = "tools" /\ a.running = act[r].running /\ a.todo = act[r].todo
        /\ a.results = act[r].results /\ a.cut = act[r].cut /\ a.zone = act[r].zone
    BY <1>1 DEF Activation
  <2>2. act' = [act EXCEPT ![r] = a] /\ UNCHANGED bus
    BY <1>4 DEF Open
  <2> HIDE DEF a
  <2>3. /\ act'[r] = a
        /\ bus' \in [Runs -> [event : Events, left : UNION {Remaining(k) : k \in Kind}]]
        /\ \A q \in Runs \ {r} : bus'[q] = bus[q]
        /\ bus'[r].left = <<>> /\ Told(r)'
        /\ BusInv(r)' /\ StoreInv(r)'
    BY <1>1, <2>1, <2>2, MovesOn DEF RunInv
  <2>4. BatchInv(r)' /\ ZoneInv(r)'
    BY <1>1, <1>4, <2>1, <2>3 DEF RunInv, BatchInv, ZoneInv
  <2>5. TraceInv(r)' /\ SpanInv(r)'
    BY <1>1, <1>2, <2>1, <2>3
       DEF RunInv, BatchInv, TraceInv, SpanInv, Ended, TurnOpen, GenerationOpen, ToolOpen,
           UntoldTool, Untold
  <2> QED
    BY <1>1, <2>1, <2>2, <2>3, <2>4, <2>5, OwnStepKeeps DEF RunInv
<1> QED
  BY <1>3, <1>4

LEMMA ToolEndsKeeps ==
  ASSUME IInv, NEW r \in Runs, NEW c \in Calls, ToolEnds(r, c)
  PROVE  IInv'
<1> DEFINE run == act[r].running \ {c}
           ended == [act[r] EXCEPT !.running = run, !.results = act[r].results \union {c}]
           cut == [act[r] EXCEPT !.running = run, !.cut = TRUE]
<1>1. /\ Types /\ RunInv(r) /\ OwnStep(r) /\ act[r].pc = "tools" /\ bus[r].left = <<>>
      /\ act[r] \in Activation
  BY DEF IInv, Types, ToolEnds, Wakes, Acts
<1>2. UNCHANGED <<tables, silent, bus>> /\ Told(r)
  BY <1>1, Queue DEF OwnStep, Rest, ToolEnds
<1>3. ASSUME NEW a \in Activation, act' = [act EXCEPT ![r] = a],
             a.pc = "tools", a.todo = act[r].todo, a.zone = act[r].zone,
             a.running = act[r].running \ {c},
             \/ a.results = act[r].results \union {c}
             \/ a.results = act[r].results /\ a.cut,
             act[r].cut => a.cut
      PROVE  IInv'
  <2>1. /\ act'[r] = a
        /\ bus' \in [Runs -> [event : Events, left : UNION {Remaining(k) : k \in Kind}]]
        /\ \A q \in Runs \ {r} : bus'[q] = bus[q]
        /\ bus'[r].left = <<>> /\ Told(r)'
        /\ BusInv(r)' /\ StoreInv(r)'
    BY <1>1, <1>2, <1>3, MovesOn DEF RunInv
  <2>2. BatchInv(r)' /\ ZoneInv(r)'
    BY <1>1, <1>3, <2>1 DEF RunInv, BatchInv, ZoneInv
  <2>3. TraceInv(r)'
    BY <1>1, <1>2, <1>3, <2>1 DEF RunInv, TraceInv, UntoldTool, Untold
  <2>4. SpanInv(r)'
    BY <1>1, <1>2, <1>3, <2>1
       DEF RunInv, SpanInv, Ended, TurnOpen, GenerationOpen, ToolOpen, UntoldTool, Untold
  <2> QED
    BY <1>1, <1>3, <2>1, <2>2, <2>3, <2>4, OwnStepKeeps DEF RunInv
<1>4. /\ ended \in Activation
      /\ ended.pc = "tools" /\ ended.todo = act[r].todo /\ ended.zone = act[r].zone
      /\ ended.running = act[r].running \ {c} /\ ended.cut = act[r].cut
      /\ ended.results = act[r].results \union {c}
  BY <1>1 DEF Activation
<1>5. /\ cut \in Activation
      /\ cut.pc = "tools" /\ cut.todo = act[r].todo /\ cut.zone = act[r].zone
      /\ cut.running = act[r].running \ {c} /\ cut.cut /\ cut.results = act[r].results
  BY <1>1 DEF Activation
<1>6. act' = [act EXCEPT ![r] = ended] \/ act' = [act EXCEPT ![r] = cut]
  BY DEF ToolEnds
<1> HIDE DEF ended, cut
<1> QED
  BY <1>3, <1>4, <1>5, <1>6

LEMMA ResolvedKeeps == ASSUME IInv, NEW r \in Runs, Resolved(r) PROVE IInv'
<1> DEFINE a == [act[r] EXCEPT !.pc = "fold"]
<1>1. /\ Types /\ RunInv(r) /\ OwnStep(r) /\ act[r].pc = "tools" /\ bus[r].left = <<>>
      /\ act[r] \in Activation /\ act[r].running = {}
  BY DEF IInv, Types, Resolved, Wakes, Acts
<1>2. UNCHANGED <<tables, silent, bus>> /\ Told(r)
  BY <1>1, Queue DEF OwnStep, Rest, Resolved
<1>3. /\ a \in Activation
      /\ a.pc = "fold" /\ a.running = act[r].running /\ a.todo = act[r].todo
      /\ a.results = act[r].results /\ a.cut = act[r].cut /\ a.zone = act[r].zone
  BY <1>1 DEF Activation
<1>4. act' = [act EXCEPT ![r] = a]
  BY DEF Resolved
<1> HIDE DEF a
<1>5. /\ act'[r] = a
      /\ bus' \in [Runs -> [event : Events, left : UNION {Remaining(k) : k \in Kind}]]
      /\ \A q \in Runs \ {r} : bus'[q] = bus[q]
      /\ bus'[r].left = <<>> /\ Told(r)'
      /\ BusInv(r)' /\ StoreInv(r)'
  BY <1>1, <1>2, <1>3, <1>4, MovesOn DEF RunInv
<1>6. BatchInv(r)' /\ ZoneInv(r)'
  BY <1>1, <1>3, <1>5 DEF RunInv, BatchInv, ZoneInv
<1>7. TraceInv(r)' /\ SpanInv(r)'
  BY <1>1, <1>2, <1>3, <1>5
     DEF RunInv, TraceInv, SpanInv, Ended, TurnOpen, GenerationOpen, ToolOpen, UntoldTool,
         Untold
<1> QED
  BY <1>1, <1>3, <1>4, <1>5, <1>6, <1>7, OwnStepKeeps DEF RunInv

LEMMA FoldKeeps == ASSUME IInv, NEW r \in Runs, Fold(r) PROVE IInv'
<1>1. /\ Types /\ RunInv(r) /\ OwnStep(r) /\ act[r].pc = "fold" /\ bus[r].left = <<>>
      /\ act[r] \in Activation /\ act[r].zone \in {"outside", "loop"}
  BY DEF IInv, Types, RunInv, ZoneInv, Activation, Fold, Acts
<1>2. UNCHANGED <<tables, silent>> /\ Told(r)
  BY <1>1, Queue DEF OwnStep, Rest
<1>3. ASSUME NEW status \in {"cancelled", "waiting_for_approval"},
             Finish(r, status, act[r].zone)
      PROVE  IInv'
  <2>1. /\ status \in Outcomes /\ act[r].zone \in {"outside", "loop", "except"}
        /\ act[r].pc # "idle"
    BY <1>1 DEF Outcomes
  <2> QED
    BY <1>1, <1>3, <2>1, FinishOwn
<1>4. CASE act[r].results # {}
  <2>1. PICK c \in act[r].results : c = First(act[r].results)
    <3>1. act[r].results \in SUBSET Nat
      BY <1>1, BoundsAssumption DEF Activation
    <3> QED
      BY <1>4, <3>1, FirstIsOne
  <2> DEFINE a == [act[r] EXCEPT !.results = act[r].results \ {c}]
             e == ToolSignal("after_tool", r, c)
  <2>2. act' = [act EXCEPT ![r] = a] /\ Publish(r, e)
    BY <1>4, <2>1 DEF Fold
  <2>3. e \in Events /\ e.kind = "after_tool" /\ e.run = r /\ e.call = c /\ c \in Calls
    BY <1>1, Signals DEF Kind, Activation
  <2>4. /\ a \in Activation
        /\ a.pc = "fold" /\ a.running = act[r].running /\ a.todo = act[r].todo
        /\ a.results = act[r].results \ {c} /\ a.cut = act[r].cut /\ a.zone = act[r].zone
    BY <1>1, <2>3 DEF Activation
  <2> HIDE DEF a, e
  <2>5. e.kind \in Announced[a.pc]
    BY <2>3, <2>4 DEF Announced
  <2>6. /\ act'[r] = a
        /\ bus' \in [Runs -> [event : Events, left : UNION {Remaining(k) : k \in Kind}]]
        /\ \A q \in Runs \ {r} : bus'[q] = bus[q]
        /\ bus'[r].event = e /\ ~Told(r)'
        /\ BusInv(r)' /\ StoreInv(r)'
    <3>1. /\ Types /\ a \in Activation /\ e \in Events
          /\ a.pc # "idle" /\ a.pc # "ending" /\ e.run = r
          /\ e.kind \in {"before_tool", "after_tool"} => e.call \in Calls
      BY <1>1, <2>3, <2>4
    <3>2. act'[r] = a
      BY <2>2, <3>1 DEF Types
    <3>3. /\ bus' \in [Runs -> [event : Events, left : UNION {Remaining(k) : k \in Kind}]]
          /\ \A q \in Runs \ {r} : bus'[q] = bus[q]
          /\ bus'[r].event = e /\ ~Told(r)'
      BY <2>2, <3>1, Published
    <3>4. BusInv(r)' /\ StoreInv(r)'
      BY <2>2, <2>5, <3>1, Announces
    <3> QED
      BY <3>2, <3>3, <3>4
  <2>7. BatchInv(r)' /\ ZoneInv(r)'
    BY <1>1, <2>4, <2>6 DEF RunInv, BatchInv, ZoneInv
  <2>8. TraceInv(r)'
    BY <1>1, <1>2, <2>4, <2>6 DEF RunInv, TraceInv
  <2>9. SpanInv(r)'
    BY <1>1, <1>2, <2>1, <2>3, <2>4, <2>6
       DEF RunInv, SpanInv, Ended, TurnOpen, GenerationOpen, ToolOpen, UntoldTool, Untold
  <2> QED
    BY <1>1, <2>2, <2>4, <2>6, <2>7, <2>8, <2>9, OwnStepKeeps DEF RunInv
<1>5. CASE /\ act[r].results = {} /\ ~act[r].cut /\ act[r].zone = "loop"
           /\ act' = [act EXCEPT ![r].pc = "top"]
           /\ Publish(r, Signal("turn_ended", r))
  <2> DEFINE a == [act[r] EXCEPT !.pc = "top"]
             e == Signal("turn_ended", r)
  <2>1. /\ a \in Activation
        /\ a.pc = "top" /\ a.running = act[r].running /\ a.todo = act[r].todo
        /\ a.results = act[r].results /\ a.cut = act[r].cut /\ a.zone = act[r].zone
    BY <1>1 DEF Activation
  <2>2. e \in Events /\ e.kind = "turn_ended" /\ e.run = r
    BY Signals DEF Kind
  <2>3. act' = [act EXCEPT ![r] = a] /\ Publish(r, e)
    BY <1>5
  <2> HIDE DEF a, e
  <2>4. e.kind \in Announced[a.pc]
    BY <2>1, <2>2 DEF Announced
  <2> QED
    BY <1>1, <1>5, <2>1, <2>2, <2>3, <2>4, LoopAnnounces
<1>6. CASE /\ act[r].results = {} /\ ~act[r].cut /\ act[r].zone = "outside"
           /\ act' = [act EXCEPT ![r].pc = "prepared"] /\ UNCHANGED bus
  <2> DEFINE a == [act[r] EXCEPT !.pc = "prepared"]
  <2>1. /\ a \in Activation
        /\ a.pc = "prepared" /\ a.running = act[r].running /\ a.todo = act[r].todo
        /\ a.results = act[r].results /\ a.cut = act[r].cut /\ a.zone = act[r].zone
    BY <1>1 DEF Activation
  <2>2. act' = [act EXCEPT ![r] = a]
    BY <1>6
  <2> HIDE DEF a
  <2>3. /\ act'[r] = a
        /\ bus' \in [Runs -> [event : Events, left : UNION {Remaining(k) : k \in Kind}]]
        /\ \A q \in Runs \ {r} : bus'[q] = bus[q]
        /\ bus'[r].left = <<>> /\ Told(r)'
        /\ BusInv(r)' /\ StoreInv(r)'
    BY <1>1, <1>6, <2>1, <2>2, MovesOn DEF RunInv
  <2>4. BatchInv(r)' /\ ZoneInv(r)'
    BY <1>1, <1>6, <2>1, <2>3 DEF RunInv, BatchInv, ZoneInv
  <2>5. TraceInv(r)' /\ SpanInv(r)'
    BY <1>1, <1>2, <1>6, <2>1, <2>3
       DEF RunInv, BatchInv, TraceInv, SpanInv, Ended, TurnOpen, GenerationOpen, ToolOpen,
           UntoldTool, Untold
  <2> QED
    BY <1>1, <2>1, <2>2, <2>3, <2>4, <2>5, OwnStepKeeps DEF RunInv
<1> QED
  BY <1>3, <1>4, <1>5, <1>6 DEF Fold

LEMMA ReturnKeeps == ASSUME IInv, NEW r \in Runs, Return(r) PROVE IInv'
<1> DEFINE a == [NoActivation EXCEPT
                     !.turns = act[r].turns,
                     !.pending = IF bus[r].event.status = "waiting_for_approval"
                                 THEN act[r].pending ELSE {},
                     !.result = bus[r].event.status]
<1>1. /\ Types /\ RunInv(r) /\ act[r].pc = "ending" /\ bus[r].left = <<>>
      /\ act[r] \in Activation
  BY DEF IInv, Types, Return, Acts
<1>2. Told(r) /\ ~Unsaved(r)
  BY <1>1, Queue
<1>3. bus[r].event.status \in Outcomes
  BY <1>1 DEF RunInv, BusInv
<1>4. /\ a \in Activation
      /\ a.pc = "idle" /\ a.running = {} /\ a.todo = {} /\ a.results = {}
      /\ a.cut = FALSE /\ a.zone = "outside" /\ a.result = bus[r].event.status
  <2>1. bus[r].event.status \in Status
    BY <1>3 DEF Outcomes, Status
  <2> QED
    BY <1>1, <2>1 DEF Activation, NoActivation
<1>5. /\ act' = [act EXCEPT ![r] = a]
      /\ UNCHANGED <<row, bus, token, silent, starts, faults>> /\ Rest
  BY DEF Return
<1> HIDE DEF a
<1>6. /\ act'[r] = a
      /\ bus' \in [Runs -> [event : Events, left : UNION {Remaining(k) : k \in Kind}]]
      /\ bus' = bus /\ bus'[r].left = <<>>
  BY <1>1, <1>5 DEF Types
<1>7. BusInv(r)' /\ BatchInv(r)' /\ ZoneInv(r)' /\ TraceInv(r)'
  BY <1>1, <1>4, <1>6 DEF RunInv, BusInv, BatchInv, ZoneInv, TraceInv
<1>8. StoreInv(r)'
  BY <1>1, <1>2, <1>3, <1>4, <1>5, <1>6 DEF RunInv, StoreInv, Rest
<1>9. SpanInv(r)'
  BY <1>1, <1>2, <1>4, <1>5, <1>6 DEF RunInv, SpanInv, Ended, Holds, Rest
<1>10. stop' \in BOOLEAN
  BY DEF Return
<1> QED
  BY <1>1, <1>4, <1>5, <1>6, <1>7, <1>8, <1>9, <1>10, OneRun DEF RunInv, Types

-----------------------------------------------------------------------------
(* EventHub.broadcast.                                                     *)

\* A Run that has a Handler to call is active, and where its last signal was sent.
LEMMA Delivering ==
  ASSUME IInv, NEW r \in Runs, NEW handler, CanDeliver(r, handler)
  PROVE  /\ Types /\ RunInv(r) /\ act[r] \in Activation /\ bus[r].event \in Events
         /\ bus[r].left # <<>> /\ bus[r].event.run = r
         /\ bus[r].event.kind \in Announced[act[r].pc]
         /\ act[r].pc # "idle" /\ export.life = "open"
<1>1. Types /\ RunInv(r) /\ ExportInv /\ bus[r].left # <<>>
  BY DEF IInv, CanDeliver
<1>2. act[r] \in Activation /\ bus[r].event \in Events
  BY <1>1 DEF Types
<1>3. bus[r].event.run = r /\ bus[r].event.kind \in Announced[act[r].pc]
  BY <1>1 DEF RunInv, BusInv
<1>4. act[r].pc # "idle"
  BY <1>3 DEF Announced
<1> QED
  BY <1>1, <1>2, <1>3, <1>4 DEF ExportInv, Active

LEMMA SavesKeeps == ASSUME IInv, NEW r \in Runs, Saves(r) PROVE IInv'
<1> DEFINE w == CASE bus[r].event.kind = "run_started" -> "running"
                  [] bus[r].event.kind = "terminal" -> bus[r].event.status
                  [] OTHER -> row[r]
<1>1. CanDeliver(r, "checkpoint") /\ Delivered(r)
  BY DEF Saves
<1>2. /\ Types /\ RunInv(r) /\ act[r] \in Activation /\ bus[r].event \in Events
      /\ bus[r].left # <<>> /\ bus[r].event.run = r
      /\ bus[r].event.kind \in Announced[act[r].pc]
      /\ act[r].pc # "idle"
  BY <1>1, Delivering
<1>3. /\ bus' \in [Runs -> [event : Events, left : UNION {Remaining(k) : k \in Kind}]]
      /\ \A q \in Runs \ {r} : bus'[q] = bus[q]
      /\ bus'[r].event = bus[r].event
      /\ bus'[r].left \in Remaining(bus[r].event.kind)
      /\ Unsaved(r) /\ ~Unsaved(r)' /\ ~Told(r) /\ ~Told(r)'
      /\ bus'[r].left # <<>>
  BY <1>1, <1>2, DeliveredOne DEF RunInv
<1>4. row' = [row EXCEPT ![r] = w] /\ UNCHANGED <<act, token, stop, silent, starts, faults>> /\ Rest
  BY DEF Saves
<1>5. /\ bus[r].event.kind = "terminal" <=> act[r].pc = "ending"
      /\ bus[r].event.kind = "terminal" => bus[r].event.status \in Outcomes
  BY <1>2 DEF RunInv, BusInv, Announced, Activation
<1>6. w \in Status /\ (bus[r].event.kind = "terminal" => w = bus[r].event.status)
  BY <1>2, <1>5 DEF Status, Outcomes, Types
<1> HIDE DEF w
<1>7. row' \in [Runs -> Status] /\ row'[r] = w /\ \A q \in Runs \ {r} : row'[q] = row[q]
  BY <1>2, <1>4, <1>6 DEF Types
<1>8. BusInv(r)' /\ BatchInv(r)' /\ ZoneInv(r)'
  BY <1>2, <1>3, <1>4 DEF RunInv, BusInv, BatchInv, ZoneInv, UntoldTool, Untold
<1>9. StoreInv(r)'
  BY <1>2, <1>3, <1>4, <1>5, <1>6, <1>7 DEF StoreInv
<1>10. TraceInv(r)' /\ SpanInv(r)'
  BY <1>2, <1>3, <1>4
     DEF RunInv, TraceInv, SpanInv, Ended, TurnOpen, GenerationOpen, ToolOpen, UntoldTool,
         Untold, Rest, Holds
<1>11. act' = [act EXCEPT ![r] = act[r]]
  BY <1>2, <1>4 DEF Types
<1> QED
  BY <1>2, <1>3, <1>4, <1>7, <1>8, <1>9, <1>10, <1>11, OneRun DEF RunInv, Types

LEMMA ObservesKeeps ==
  ASSUME IInv, NEW r \in Runs, NEW handler \in {"extra", "compaction"}, Observes(r, handler)
  PROVE  IInv'
<1>1. CanDeliver(r, handler) /\ Delivered(r) /\ UNCHANGED act /\ OwnStep(r)
  BY DEF Observes
<1>2. /\ Types /\ RunInv(r) /\ act[r] \in Activation /\ bus[r].event \in Events
      /\ bus[r].left # <<>> /\ bus[r].event.run = r
      /\ bus[r].event.kind \in Announced[act[r].pc]
      /\ act[r].pc # "idle"
  BY <1>1, Delivering
<1>3. /\ bus' \in [Runs -> [event : Events, left : UNION {Remaining(k) : k \in Kind}]]
      /\ \A q \in Runs \ {r} : bus'[q] = bus[q]
      /\ bus'[r].event = bus[r].event
      /\ bus'[r].left \in Remaining(bus[r].event.kind)
      /\ ~Unsaved(r) /\ ~Unsaved(r)' /\ (Told(r)' <=> Told(r))
      /\ bus'[r].left = <<>> => bus[r].event.kind = "before_model"
  BY <1>1, <1>2, DeliveredOne DEF RunInv
<1>4. row' = row /\ UNCHANGED <<tables, seen, silent>>
  BY <1>1 DEF OwnStep, Rest
<1>5. BusInv(r)' /\ BatchInv(r)' /\ ZoneInv(r)'
  BY <1>1, <1>2, <1>3 DEF RunInv, BusInv, BatchInv, ZoneInv, UntoldTool, Untold
<1>6. StoreInv(r)'
  BY <1>1, <1>2, <1>3, <1>4 DEF RunInv, BusInv, StoreInv
<1>7. TraceInv(r)' /\ SpanInv(r)'
  BY <1>1, <1>2, <1>3, <1>4
     DEF RunInv, TraceInv, SpanInv, Ended, TurnOpen, GenerationOpen, ToolOpen, UntoldTool,
         Untold, Holds
<1>8. act' = [act EXCEPT ![r] = act[r]]
  BY <1>1, <1>2 DEF Types
<1> QED
  BY <1>1, <1>2, <1>3, <1>5, <1>6, <1>7, <1>8, OwnStepKeeps DEF RunInv

\* An exception in a Handler: advance fails the Run, or it escapes.
LEMMA RaisesKeeps ==
  ASSUME IInv, NEW r \in Runs, NEW handler, NEW kind, Raises(r, handler, kind)
  PROVE  IInv'
<1>1. /\ CanDeliver(r, handler) /\ Fault(kind)
      /\ UNCHANGED <<row, token, starts>> /\ Rest
  BY DEF Raises
<1>2. Types /\ act[r].pc # "idle"
  BY <1>1, Delivering
<1>3. faults' \in 0..MaxFaults
  BY <1>1, <1>2, BoundsAssumption DEF Fault, Types
<1>4. CASE Finish(r, "failed", "except") /\ UNCHANGED <<silent, stop>>
  BY <1>1, <1>2, <1>3, <1>4, FinishKeeps DEF Types, Outcomes
<1>5. CASE Escapes(r)
  BY <1>1, <1>2, <1>3, <1>5, EscapesKeeps DEF Types
<1> QED
  BY <1>4, <1>5 DEF Raises

-----------------------------------------------------------------------------
(* Cancellation, and the end of the session.                               *)

LEMMA InterruptedKeeps == ASSUME IInv, NEW r \in Runs, Interrupted(r) PROVE IInv'
<1>1. /\ Types /\ act[r].pc # "idle" /\ UNCHANGED <<token, starts, faults>> /\ Rest
  BY DEF IInv, Interrupted, Active
<1>2. CASE Finish(r, "cancelled", "except") /\ UNCHANGED <<row, silent, stop>>
  BY <1>1, <1>2, FinishKeeps DEF Types, Outcomes
<1>3. CASE /\ Escapes(r)
           /\ IF Active = {r}
              THEN \E sealed \in Sealed(r) :
                      row' = [q \in Runs |-> IF q \in sealed /\ row[q] = "running"
                                             THEN "cancelled" ELSE row[q]]
              ELSE UNCHANGED row
  <2>1. CASE UNCHANGED row
    BY <1>1, <1>3, <2>1, EscapesKeeps DEF Types
  <2>2. ASSUME NEW sealed \in Sealed(r),
               row' = [q \in Runs |-> IF q \in sealed /\ row[q] = "running"
                                      THEN "cancelled" ELSE row[q]]
        PROVE  IInv'
    <3>1. \A q \in sealed : q # r => q \in Runs \ Active
      BY DEF Sealed
    <3>2. \A q \in Runs \ Active : act[q].pc = "idle"
      BY DEF Active
    <3>3. \A q \in Runs \ {r} :
              row'[q] = row[q] \/ (act[q].pc = "idle" /\ row[q] = "running")
      BY <2>2, <3>1, <3>2
    <3>4. row' \in [Runs -> Status]
      BY <1>1, <2>2 DEF Types, Status
    <3> QED
      BY <1>1, <1>3, <3>3, <3>4, EscapesKeeps DEF Types
  <2> QED
    BY <1>3, <2>1, <2>2
<1> QED
  BY <1>2, <1>3 DEF Interrupted

\* Steps that have nothing to do with what a Run or the LangfuseHandler holds.
LEMMA Unrelated ==
  ASSUME IInv, UNCHANGED <<row, act, bus, tables, seen, silent>>,
         token' \in BOOLEAN, stop' \in BOOLEAN, export' \in Export, ExportInv',
         UNCHANGED <<starts, faults>>
  PROVE  IInv'
<1>1. Types'
  BY DEF IInv, Types
<1>2. ASSUME NEW q \in Runs PROVE RunInv(q)'
  <2>1. RunInv(q) /\ Types
    BY DEF IInv
  <2> QED
    BY <2>1, Elsewhere
<1> QED
  BY <1>1, <1>2 DEF IInv

LEMMA SessionKeeps ==
  ASSUME IInv, Cancel \/ StopWorker \/ FlushEnds \/ Close \/ Drained
  PROVE  IInv'
<1>1. Types /\ ExportInv /\ export \in Export
  BY DEF IInv, Types
<1>2. CASE Cancel \/ StopWorker
  <2>1. /\ UNCHANGED <<row, act, bus, tables, seen, silent, export, starts, faults>>
        /\ token' \in BOOLEAN /\ stop' \in BOOLEAN
    BY <1>1, <1>2 DEF Cancel, StopWorker, Rest, Types
  <2>2. ExportInv'
    BY <1>1, <2>1 DEF ExportInv, Active
  <2> QED
    BY <1>1, <2>1, <2>2, Unrelated
<1>3. CASE FlushEnds \/ Close \/ Drained
  <2>1. /\ UNCHANGED <<row, act, bus, token, stop, tables, seen, silent, starts, faults>>
        /\ token' \in BOOLEAN /\ stop' \in BOOLEAN
    BY <1>1, <1>3 DEF FlushEnds, Close, Drained, Types
  <2>2. Active' = Active
    BY <2>1 DEF Active
  <2>3. export' \in Export /\ ExportInv'
    <3>1. CASE FlushEnds
      BY <1>1, <2>2, <3>1 DEF FlushEnds, Export, ExportInv
    <3>2. CASE Close
      BY <1>1, <2>2, <3>2 DEF Close, Export, ExportInv
    <3>3. CASE Drained
      BY <1>1, <2>2, <3>3 DEF Drained, Export, ExportInv
    <3> QED
      BY <1>3, <3>1, <3>2, <3>3
  <2> QED
    BY <2>1, <2>3, Unrelated
<1> QED
  BY <1>2, <1>3

-----------------------------------------------------------------------------
(* LangfuseHandler.                                                        *)

\* What a signal k of the Run r, for its call c, makes of the tables t.
After(t, u, k, r, c) ==
    /\ k \in {"before_start", "run_started", "before_resume"} =>
           /\ u.traces = t.traces \union {r} /\ u.turns = t.turns
           /\ u.generations = t.generations /\ u.texts = t.texts
           /\ u.tools = t.tools /\ u.lost = t.lost
    /\ k = "turn_started" =>
           /\ u.traces = t.traces
           /\ u.turns \subseteq t.turns \union {r} /\ t.turns \subseteq u.turns
           /\ u.generations = t.generations /\ u.texts = t.texts /\ u.tools = t.tools
           /\ u.lost = t.lost \/ (u.lost = t.lost \union {r} /\ r \in t.turns)
    /\ k = "turn_ended" =>
           /\ u.traces = t.traces /\ u.turns = t.turns \ {r}
           /\ u.generations = t.generations /\ u.texts = t.texts
           /\ u.tools = t.tools /\ u.lost = t.lost
    /\ k = "before_model" =>
           /\ u.traces = t.traces \union {r} /\ u.turns = t.turns
           /\ u.generations = t.generations \union {r} /\ u.texts = t.texts
           /\ u.tools = t.tools
           /\ u.lost = t.lost \/ (u.lost = t.lost \union {r} /\ r \in t.generations)
    /\ k = "model_chunk" =>
           /\ u.traces = t.traces /\ u.turns = t.turns
           /\ u.generations = t.generations /\ u.texts = t.texts \union {r}
           /\ u.tools = t.tools /\ u.lost = t.lost
    /\ k = "after_model" =>
           /\ u.traces = t.traces /\ u.turns = t.turns
           /\ u.generations = t.generations \ {r} /\ u.texts = t.texts \ {r}
           /\ u.tools = t.tools /\ u.lost = t.lost
    /\ k = "before_tool" =>
           /\ u.traces = t.traces /\ u.turns = t.turns
           /\ u.generations = t.generations /\ u.texts = t.texts
           /\ u.tools \subseteq t.tools \union {<<r, c>>} /\ t.tools \subseteq u.tools
           /\ r \in t.traces => <<r, c>> \in u.tools
           /\ u.lost = t.lost \/ (u.lost = t.lost \union {r} /\ <<r, c>> \in t.tools)
    /\ k = "after_tool" =>
           /\ u.traces = t.traces /\ u.turns = t.turns
           /\ u.generations = t.generations /\ u.texts = t.texts
           /\ u.tools = t.tools \ {<<r, c>>} /\ u.lost = t.lost
    /\ k = "terminal" =>
           /\ u.traces = t.traces \ {r} /\ u.turns = t.turns \ {r}
           /\ u.generations = t.generations \ {r} /\ u.texts = t.texts \ {r}
           /\ u.tools = t.tools \ ({r} \X Calls) /\ u.lost = t.lost
    /\ k = "notice" => u = t

LEMMA TablesAfter ==
  ASSUME NEW t \in Tables, NEW e \in Events,
         e.kind \in {"before_tool", "after_tool"} => e.call \in Calls
  PROVE  OnEvent(t, e) \in Tables /\ After(t, OnEvent(t, e), e.kind, e.run, e.call)
<1> DEFINE u == OnEvent(t, e)
<1>1. /\ t.traces \subseteq Runs /\ t.turns \subseteq Runs /\ t.generations \subseteq Runs
      /\ t.texts \subseteq Runs /\ t.lost \subseteq Runs /\ t.tools \subseteq Runs \X Calls
      /\ e.run \in Runs
      /\ e.kind \in Kind
  BY DEF Tables, Events
<1>2. CASE e.kind \in {"before_start", "run_started", "before_resume"}
  <2>1. u = [t EXCEPT !.traces = @ \union {e.run}]
    BY <1>2 DEF OnEvent
  <2> HIDE DEF u
  <2> QED
    BY <1>1, <1>2, <2>1 DEF Tables, u, After
<1>3. CASE e.kind = "turn_started"
  <2>1. u = OpenTurn(t, e.run)
    BY <1>3 DEF OnEvent
  <2> DEFINE l == Lose(t, e.run, e.run \in t.turns)
             v == [t EXCEPT !.turns = @ \union {e.run}, !.lost = l]
  <2>2. /\ l \subseteq Runs
        /\ l = t.lost \/ (l = t.lost \union {e.run} /\ e.run \in t.turns)
    BY <1>1 DEF Lose
  <2>3. u = t \/ u = v
    BY <2>1 DEF OpenTurn
  <2> HIDE DEF u, l
  <2>4. /\ v \in Tables /\ v.traces = t.traces /\ v.turns = t.turns \union {e.run}
        /\ v.generations = t.generations /\ v.texts = t.texts /\ v.tools = t.tools
        /\ v.lost = l
    BY <1>1, <2>2 DEF Tables
  <2> HIDE DEF v
  <2>5. /\ u \in Tables
        /\ u.traces = t.traces /\ u.turns \subseteq t.turns \union {e.run}
        /\ t.turns \subseteq u.turns
        /\ u.generations = t.generations /\ u.texts = t.texts
        /\ u.tools = t.tools
        /\ u.lost = t.lost \/ (u.lost = t.lost \union {e.run} /\ e.run \in t.turns)
    BY <2>2, <2>3, <2>4
  <2> QED
    BY <1>3, <2>5 DEF u, After
<1>4. CASE e.kind = "turn_ended"
  <2>1. u = [t EXCEPT !.turns = @ \ {e.run}]
    BY <1>4 DEF OnEvent
  <2> HIDE DEF u
  <2> QED
    BY <1>1, <1>4, <2>1 DEF Tables, u, After
<1>5. CASE e.kind = "before_model"
  <2>1. u = OpenGeneration(t, e.run)
    BY <1>5 DEF OnEvent
  <2> DEFINE l == Lose(t, e.run, e.run \in t.generations)
  <2>2. /\ l \subseteq Runs
        /\ l = t.lost \/ (l = t.lost \union {e.run} /\ e.run \in t.generations)
    BY <1>1 DEF Lose
  <2>3. u = [t EXCEPT !.traces = @ \union {e.run}, !.generations = @ \union {e.run},
                      !.lost = l]
    BY <2>1 DEF OpenGeneration
  <2> HIDE DEF u, l
  <2>4. /\ u \in Tables
        /\ u.traces = t.traces \union {e.run} /\ u.turns = t.turns
        /\ u.generations = t.generations \union {e.run} /\ u.texts = t.texts
        /\ u.tools = t.tools /\ u.lost = l
    BY <1>1, <2>2, <2>3 DEF Tables
  <2> QED
    BY <1>5, <2>2, <2>4 DEF u, After
<1>6. CASE e.kind = "model_chunk"
  <2>1. u = [t EXCEPT !.texts = @ \union {e.run}]
    BY <1>6 DEF OnEvent
  <2> HIDE DEF u
  <2> QED
    BY <1>1, <1>6, <2>1 DEF Tables, u, After
<1>7. CASE e.kind = "after_model"
  <2>1. u = [t EXCEPT !.generations = @ \ {e.run}, !.texts = @ \ {e.run}]
    BY <1>7 DEF OnEvent
  <2> HIDE DEF u
  <2> QED
    BY <1>1, <1>7, <2>1, ZenonT(60) DEF Tables, u, After
<1>8. CASE e.kind = "before_tool"
  <2>1. u = OpenTool(t, e.run, e.call)
    BY <1>8 DEF OnEvent
  <2> DEFINE l == Lose(t, e.run, <<e.run, e.call>> \in t.tools)
             v == [t EXCEPT !.tools = @ \union {<<e.run, e.call>>}, !.lost = l]
  <2>2. /\ l \subseteq Runs
        /\ l = t.lost \/ (l = t.lost \union {e.run} /\ <<e.run, e.call>> \in t.tools)
    BY <1>1 DEF Lose
  <2>3. (e.run \in t.traces /\ u = v) \/ (e.run \notin t.traces /\ u = t)
    BY <2>1 DEF OpenTool, Key
  <2>4. t.tools \union {<<e.run, e.call>>} \subseteq Runs \X Calls
    BY <1>1, <1>8
  <2> HIDE DEF u, l
  <2>5. /\ v \in Tables /\ v.traces = t.traces /\ v.turns = t.turns
        /\ v.generations = t.generations /\ v.texts = t.texts
        /\ v.tools = t.tools \union {<<e.run, e.call>>}
        /\ v.lost = l
    BY <1>1, <2>2, <2>4 DEF Tables
  <2> HIDE DEF v
  <2>6. /\ u \in Tables
        /\ u.traces = t.traces /\ u.turns = t.turns
        /\ u.generations = t.generations /\ u.texts = t.texts
        /\ u.tools \subseteq t.tools \union {<<e.run, e.call>>} /\ t.tools \subseteq u.tools
        /\ e.run \in t.traces => <<e.run, e.call>> \in u.tools
        /\ u.lost = t.lost \/ (u.lost = t.lost \union {e.run} /\ <<e.run, e.call>> \in t.tools)
    BY <2>2, <2>3, <2>5
  <2> QED
    BY <1>8, <2>6 DEF u, After
<1>9. CASE e.kind = "after_tool"
  <2>1. u = [t EXCEPT !.tools = @ \ {<<e.run, e.call>>}]
    BY <1>9 DEF OnEvent, Key
  <2> HIDE DEF u
  <2> QED
    BY <1>1, <1>9, <2>1 DEF Tables, u, After
<1>10. CASE e.kind = "terminal"
  <2>1. u = CleanupRun(t, e.run)
    BY <1>10 DEF OnEvent
  <2> DEFINE P == {e.run} \X Calls
  <2>2. u = [t EXCEPT !.traces = @ \ {e.run}, !.turns = @ \ {e.run},
                      !.generations = @ \ {e.run}, !.texts = @ \ {e.run}, !.tools = @ \ P]
    BY <2>1 DEF CleanupRun
  <2> HIDE DEF u, P, After
  <2>3. /\ u \in Tables
        /\ u.traces = t.traces \ {e.run} /\ u.turns = t.turns \ {e.run}
        /\ u.generations = t.generations \ {e.run} /\ u.texts = t.texts \ {e.run}
        /\ u.tools = t.tools \ P /\ u.lost = t.lost
    BY <1>1, <2>2 DEF Tables
  <2> QED
    BY <1>10, <2>3 DEF u, P, After
<1>11. CASE e.kind = "notice"
  <2>1. u = t
    BY <1>11 DEF OnEvent
  <2> HIDE DEF u
  <2> QED
    BY <1>11, <2>1 DEF u, After
<1> QED
  BY <1>1, <1>2, <1>3, <1>4, <1>5, <1>6, <1>7, <1>8, <1>9, <1>10, <1>11 DEF Kind

\* It leaves what is filed under another Run alone.
LEMMA OtherRunsKept ==
  ASSUME NEW t \in Tables, NEW u \in Tables, NEW k \in Kind, NEW r \in Runs, NEW c,
         After(t, u, k, r, c), NEW q \in Runs \ {r}
  PROVE  /\ q \in t.traces <=> q \in u.traces
         /\ q \in t.turns <=> q \in u.turns
         /\ q \in t.generations <=> q \in u.generations
         /\ q \in t.texts <=> q \in u.texts
         /\ \A d \in Calls : <<q, d>> \in t.tools <=> <<q, d>> \in u.tools
<1>1. CASE k \in {"before_start", "run_started", "before_resume", "turn_started",
                  "turn_ended", "before_model", "model_chunk", "after_model", "notice"}
  BY <1>1 DEF After
<1>2. CASE k \in {"before_tool", "after_tool"}
  BY <1>2 DEF After
<1>3. CASE k = "terminal"
  <2>1. \A d \in Calls : <<q, d>> \notin {r} \X Calls
    OBVIOUS
  <2> QED
    BY <1>3, <2>1 DEF After
<1> QED
  BY <1>1, <1>2, <1>3 DEF Kind

\* The LangfuseHandler is told of a signal: the facts that the steps below start from.
LEMMA Telling ==
  ASSUME IInv, NEW r \in Runs, Traces(r)
  PROVE  LET e == bus[r].event
         IN  /\ Types /\ RunInv(r) /\ act[r] \in Activation /\ e \in Events
             /\ e.run = r /\ e.kind \in Announced[act[r].pc]
             /\ act[r].pc # "idle" /\ export.life = "open"
             /\ bus' \in [Runs -> [event : Events, left : UNION {Remaining(k) : k \in Kind}]]
             /\ \A q \in Runs \ {r} : bus'[q] = bus[q]
             /\ bus'[r].event = e /\ bus'[r].left \in Remaining(e.kind)
             /\ ~Unsaved(r) /\ ~Unsaved(r)' /\ ~Told(r) /\ Told(r)'
             /\ tables \in Tables /\ tables' \in Tables
             /\ After(tables, tables', e.kind, r, e.call)
             /\ e.kind \in {"before_tool", "after_tool"} => e.call \in Calls
<1> DEFINE e == bus[r].event
<1>1. CanDeliver(r, "langfuse") /\ Delivered(r) /\ tables' = OnEvent(tables, e)
  BY DEF Traces
<1>2. /\ Types /\ RunInv(r) /\ act[r] \in Activation /\ e \in Events
      /\ bus[r].left # <<>> /\ e.run = r /\ e.kind \in Announced[act[r].pc]
      /\ act[r].pc # "idle" /\ export.life = "open"
  BY <1>1, Delivering
<1>3. /\ bus' \in [Runs -> [event : Events, left : UNION {Remaining(k) : k \in Kind}]]
      /\ \A q \in Runs \ {r} : bus'[q] = bus[q]
      /\ bus'[r].event = e /\ bus'[r].left \in Remaining(e.kind)
      /\ ~Unsaved(r) /\ ~Unsaved(r)' /\ ~Told(r) /\ Told(r)'
  BY <1>1, <1>2, DeliveredOne DEF RunInv
<1>4. e.kind \in {"before_tool", "after_tool"} => e.call \in Calls
  BY <1>2 DEF RunInv, BusInv
<1>5. tables \in Tables
  BY <1>2 DEF Types
<1> HIDE DEF e
<1>6. tables' \in Tables /\ After(tables, tables', e.kind, r, e.call)
  BY <1>1, <1>2, <1>4, <1>5, TablesAfter
<1> QED
  BY <1>2, <1>3, <1>4, <1>5, <1>6 DEF e

LEMMA TracesKeeps == ASSUME IInv, NEW r \in Runs, Traces(r) PROVE IInv'
<1> DEFINE e == bus[r].event
           k == e.kind
           c == e.call
           final == k = "terminal"
<1>1. /\ Types /\ RunInv(r) /\ act[r] \in Activation /\ e \in Events
      /\ e.run = r /\ k \in Announced[act[r].pc]
      /\ act[r].pc # "idle" /\ export.life = "open"
      /\ tables \in Tables /\ tables' \in Tables
      /\ k \in {"before_tool", "after_tool"} => c \in Calls
  BY Telling
<1>2. /\ bus' \in [Runs -> [event : Events, left : UNION {Remaining(j) : j \in Kind}]]
      /\ \A q \in Runs \ {r} : bus'[q] = bus[q]
      /\ bus'[r].event = e /\ bus'[r].left \in Remaining(k)
      /\ ~Unsaved(r) /\ ~Unsaved(r)' /\ ~Told(r) /\ Told(r)'
  BY Telling
<1>3. After(tables, tables', k, r, c)
  BY Telling
<1>4. /\ export' = IF final THEN Scheduled(export)
                   ELSE [export EXCEPT !.queued = @ \/ Ends(tables, e)]
      /\ seen' = IF final THEN [seen EXCEPT ![r] = e.status] ELSE seen
      /\ silent' = IF final THEN silent \ {r} ELSE silent
      /\ UNCHANGED <<row, act, token, stop, starts, faults>>
  BY DEF Traces
<1>5. final => act[r].pc = "ending" /\ e.status \in Outcomes
  BY <1>1 DEF RunInv, BusInv, Announced, Activation
<1>6. k \in Kind
  BY <1>1 DEF Events
<1> HIDE DEF e, k, c, final
<1>7. seen' \in [Runs -> Status] /\ \A q \in Runs \ {r} : seen'[q] = seen[q]
  BY <1>1, <1>4, <1>5 DEF Types, Outcomes, Status
<1>8. export' \in Export /\ export'.life = "open"
  <2>1. export \in Export
    BY <1>1 DEF Types
  <2>2. CASE final
    BY <1>1, <1>4, <2>1, <2>2 DEF Scheduled, Export
  <2>3. CASE ~final
    <3>1. (export.queued \/ Ends(tables, e)) \in BOOLEAN
      OBVIOUS
    <3> QED
      BY <1>1, <1>4, <2>1, <2>3, <3>1 DEF Export
  <2> QED
    BY <2>2, <2>3
<1>9. Types'
  BY <1>1, <1>2, <1>4, <1>7, <1>8 DEF Types
<1>10. ExportInv'
  BY <1>8 DEF ExportInv
<1>11. ASSUME NEW q \in Runs \ {r} PROVE RunInv(q)'
  <2>1. RunInv(q)
    BY DEF IInv
  <2>2. q \in silent <=> q \in silent'
    BY <1>4
  <2>3. /\ q \in tables.traces <=> q \in tables'.traces
        /\ q \in tables.turns <=> q \in tables'.turns
        /\ q \in tables.generations <=> q \in tables'.generations
        /\ q \in tables.texts <=> q \in tables'.texts
        /\ \A d \in Calls : <<q, d>> \in tables.tools <=> <<q, d>> \in tables'.tools
    BY <1>1, <1>3, <1>6, OtherRunsKept
  <2> QED
    BY <1>1, <1>2, <1>4, <1>7, <2>1, <2>2, <2>3, Elsewhere
<1>12. BusInv(r)' /\ BatchInv(r)' /\ ZoneInv(r)'
  BY <1>1, <1>2, <1>4, <1>5
     DEF RunInv, BusInv, BatchInv, ZoneInv, UntoldTool, Untold, e, k, c
<1>13. StoreInv(r)'
  BY <1>1, <1>2, <1>4, <1>5 DEF RunInv, BusInv, StoreInv, Types, e, k, final
<1>14. /\ act'[r] = act[r] /\ act[r].running \subseteq Calls
       /\ ~final => (r \in silent' <=> r \in silent)
  BY <1>1, <1>4 DEF Activation
<1>15. \A j, d : Untold(r, j) = (j = k) /\ ~Untold(r, j)'
                 /\ UntoldTool(r, j, d) = (j = k /\ d = c) /\ ~UntoldTool(r, j, d)'
  BY <1>2 DEF Untold, UntoldTool, e, k, c
<1>16. TraceInv(r)' /\ SpanInv(r)'
  <2>1. CASE k \in {"before_start", "run_started", "before_resume"}
    <3>1. act[r].pc \in {"starting", "prepared", "resuming"}
      BY <1>1, <2>1 DEF Announced, Activation
    <3>2. TraceInv(r)'
      BY <1>1, <1>2, <1>3, <1>14, <1>15, <2>1, <3>1 DEF RunInv, TraceInv, After
    <3>3. SpanInv(r)'
      BY <1>1, <1>2, <1>3, <1>14, <1>15, <2>1, <3>1
         DEF RunInv, BatchInv, ZoneInv, SpanInv, Ended, TurnOpen, GenerationOpen, ToolOpen, Holds,
             After, final
    <3> QED
      BY <3>2, <3>3
  <2>2. CASE k = "turn_started"
    <3>1. act[r].pc = "shaping"
      BY <1>1, <2>2 DEF Announced, Activation
    <3>2. TraceInv(r)'
      BY <1>1, <1>2, <1>3, <1>14, <1>15, <2>2, <3>1 DEF RunInv, TraceInv, After
    <3>3. SpanInv(r)'
      BY <1>1, <1>2, <1>3, <1>14, <1>15, <2>2, <3>1
         DEF RunInv, BatchInv, ZoneInv, SpanInv, Ended, TurnOpen, GenerationOpen, ToolOpen, Holds,
             After, final
    <3> QED
      BY <3>2, <3>3
  <2>3. CASE k = "turn_ended"
    <3>1. act[r].pc \in {"top", "complete"}
      BY <1>1, <2>3 DEF Announced, Activation
    <3>2. TraceInv(r)'
      BY <1>1, <1>2, <1>3, <1>14, <1>15, <2>3, <3>1 DEF RunInv, TraceInv, After
    <3>3. SpanInv(r)'
      BY <1>1, <1>2, <1>3, <1>14, <1>15, <2>3, <3>1
         DEF RunInv, BatchInv, ZoneInv, SpanInv, Ended, TurnOpen, GenerationOpen, ToolOpen, Holds,
             After, final
    <3> QED
      BY <3>2, <3>3
  <2>4. CASE k = "before_model"
    <3>1. act[r].pc = "model"
      BY <1>1, <2>4 DEF Announced, Activation
    <3>2. TraceInv(r)'
      BY <1>1, <1>2, <1>3, <1>14, <1>15, <2>4, <3>1 DEF RunInv, TraceInv, After
    <3>3. SpanInv(r)'
      BY <1>1, <1>2, <1>3, <1>14, <1>15, <2>4, <3>1
         DEF RunInv, BatchInv, ZoneInv, SpanInv, Ended, TurnOpen, GenerationOpen, ToolOpen, Holds,
             After, final
    <3> QED
      BY <3>2, <3>3
  <2>5. CASE k = "model_chunk"
    <3>1. act[r].pc = "model"
      BY <1>1, <2>5 DEF Announced, Activation
    <3>2. TraceInv(r)'
      BY <1>1, <1>2, <1>3, <1>14, <1>15, <2>5, <3>1 DEF RunInv, TraceInv, After
    <3>3. SpanInv(r)'
      BY <1>1, <1>2, <1>3, <1>14, <1>15, <2>5, <3>1
         DEF RunInv, BatchInv, ZoneInv, SpanInv, Ended, TurnOpen, GenerationOpen, ToolOpen, Holds,
             After, final
    <3> QED
      BY <3>2, <3>3
  <2>6. CASE k = "after_model"
    <3>1. act[r].pc = "decide"
      BY <1>1, <2>6 DEF Announced, Activation
    <3>2. TraceInv(r)'
      BY <1>1, <1>2, <1>3, <1>14, <1>15, <2>6, <3>1 DEF RunInv, TraceInv, After
    <3>3. SpanInv(r)'
      BY <1>1, <1>2, <1>3, <1>14, <1>15, <2>6, <3>1
         DEF RunInv, BatchInv, ZoneInv, SpanInv, Ended, TurnOpen, GenerationOpen, ToolOpen, Holds,
             After, final
    <3> QED
      BY <3>2, <3>3
  <2>7. CASE k = "before_tool"
    <3>1. act[r].pc = "open"
      BY <1>1, <2>7 DEF Announced, Activation
    <3>2. TraceInv(r)'
      BY <1>1, <1>2, <1>3, <1>14, <1>15, <2>7, <3>1 DEF RunInv, TraceInv, After
    <3>3. SpanInv(r)'
      BY <1>1, <1>2, <1>3, <1>14, <1>15, <2>7, <3>1, ZenonT(60)
         DEF RunInv, BatchInv, ZoneInv, SpanInv, Ended, TurnOpen, GenerationOpen, ToolOpen, Holds,
             After, final
    <3> QED
      BY <3>2, <3>3
  <2>8. CASE k = "after_tool"
    <3>1. act[r].pc = "fold"
      BY <1>1, <2>8 DEF Announced, Activation
    <3>2. TraceInv(r)'
      BY <1>1, <1>2, <1>3, <1>14, <1>15, <2>8, <3>1 DEF RunInv, TraceInv, After
    <3>3. SpanInv(r)'
      BY <1>1, <1>2, <1>3, <1>14, <1>15, <2>8, <3>1
         DEF RunInv, BatchInv, ZoneInv, SpanInv, Ended, TurnOpen, GenerationOpen, ToolOpen, Holds,
             After, final
    <3> QED
      BY <3>2, <3>3
  <2>9. CASE k = "terminal"
    <3>1. act[r].pc = "ending"
      BY <1>1, <2>9 DEF Announced, Activation
    <3>2. TraceInv(r)'
      BY <1>1, <1>2, <1>3, <1>14, <1>15, <2>9, <3>1 DEF RunInv, TraceInv, After
    <3>3. SpanInv(r)'
      BY <1>1, <1>2, <1>3, <1>14, <1>15, <2>9, <3>1
         DEF RunInv, BatchInv, ZoneInv, SpanInv, Ended, TurnOpen, GenerationOpen, ToolOpen, Holds,
             After, final
    <3> QED
      BY <3>2, <3>3
  <2>10. CASE k = "notice"
    <3>1. act[r].pc = "model"
      BY <1>1, <2>10 DEF Announced, Activation
    <3>2. TraceInv(r)'
      BY <1>1, <1>2, <1>3, <1>14, <1>15, <2>10, <3>1 DEF RunInv, TraceInv, After
    <3>3. SpanInv(r)'
      BY <1>1, <1>2, <1>3, <1>14, <1>15, <2>10, <3>1
         DEF RunInv, BatchInv, ZoneInv, SpanInv, Ended, TurnOpen, GenerationOpen, ToolOpen, Holds,
             After, final
    <3> QED
      BY <3>2, <3>3
  <2> QED
    BY <1>6, <2>1, <2>2, <2>3, <2>4, <2>5, <2>6, <2>7, <2>8, <2>9, <2>10 DEF Kind
<1> QED
  BY <1>9, <1>10, <1>11, <1>12, <1>13, <1>16 DEF IInv, RunInv

-----------------------------------------------------------------------------
(* The invariant, and what follows from it.                                *)

LEMMA InitEstablishes == Init => IInv
<1> SUFFICES ASSUME Init PROVE IInv
  OBVIOUS
<1>1. ASSUME NEW r \in Runs
      PROVE  /\ Quiet.event \in Events /\ Quiet.left = <<>>
             /\ Quiet.event.kind = "notice"
             /\ <<>> \in UNION {Remaining(k) : k \in Kind}
             /\ <<>> \in Remaining("notice")
  <2>1. (CHOOSE q \in Runs : TRUE) \in Runs
    OBVIOUS
  <2>2. "notice" \in Kind
    BY DEF Kind
  <2>3. Signal("notice", CHOOSE q \in Runs : TRUE) \in Events
    BY <2>1, <2>2, Signals
  <2>4. Signal("notice", CHOOSE q \in Runs : TRUE).kind = "notice"
    BY <2>1, <2>2, Signals
  <2>5. <<>> \in Remaining("notice")
    BY DEF Remaining, Durable
  <2> QED
    BY <2>2, <2>3, <2>4, <2>5 DEF Quiet
<1>2. NoActivation \in Activation
  <2>1. 0 \in 0..MaxTurns
    BY BoundsAssumption
  <2> QED
    BY <2>1 DEF NoActivation, Activation
<1>3. bus \in [Runs -> [event : Events, left : UNION {Remaining(k) : k \in Kind}]]
  <2> DEFINE Q == UNION {Remaining(k) : k \in Kind}
  <2>1. bus = [r \in Runs |-> [event |-> Quiet.event, left |-> <<>>]]
    BY DEF Init, Quiet
  <2>2. ASSUME NEW r \in Runs PROVE [event |-> Quiet.event, left |-> <<>>] \in [event : Events, left : Q]
    <3>1. Quiet.event \in Events /\ <<>> \in Q
      BY <1>1
    <3> HIDE DEF Q
    <3> QED
      BY <3>1
  <2> HIDE DEF Q
  <2>3. bus \in [Runs -> [event : Events, left : Q]]
    BY <2>1, <2>2
  <2> QED
    BY <2>3 DEF Q
<1>4. Types
  <2>1. tables \in Tables /\ export \in Export
    BY DEF Init, NoTables, Tables, Export
  <2>2. 0 \in 0..MaxActivations /\ 0 \in 0..MaxFaults
    BY BoundsAssumption
  <2> QED
    BY <1>2, <1>3, <2>1, <2>2 DEF Init, Types, Status
<1>5. ExportInv
  BY DEF Init, ExportInv
<1>6. ASSUME NEW r \in Runs PROVE RunInv(r)
  <2>1. act[r] = NoActivation /\ bus[r] = Quiet /\ tables = NoTables
    BY DEF Init
  <2>2. bus[r].left = <<>> /\ bus[r].left \in Remaining(bus[r].event.kind) /\ Told(r)
    BY <1>1, <2>1 DEF Told
  <2>3. /\ act[r].pc = "idle" /\ act[r].zone = "outside" /\ act[r].result = "none"
        /\ act[r].running = {} /\ act[r].todo = {} /\ act[r].results = {} /\ ~act[r].cut
    BY <2>1 DEF NoActivation
  <2>4. BusInv(r) /\ BatchInv(r) /\ ZoneInv(r) /\ StoreInv(r) /\ TraceInv(r)
    BY <2>2, <2>3 DEF BusInv, BatchInv, ZoneInv, StoreInv, TraceInv
  <2>5. SpanInv(r)
    BY <2>1 DEF SpanInv, NoTables, Holds
  <2> QED
    BY <2>4, <2>5 DEF RunInv
<1> QED
  BY <1>4, <1>5, <1>6 DEF IInv

LEMMA StutterKeeps == ASSUME IInv, UNCHANGED vars PROVE IInv'
<1>1. /\ UNCHANGED <<row, act, bus, tables, seen, silent, token, stop, export, starts, faults>>
      /\ Types /\ ExportInv
  BY DEF vars, IInv
<1>2. ExportInv' /\ token' \in BOOLEAN /\ stop' \in BOOLEAN /\ export' \in Export
  BY <1>1 DEF ExportInv, Active, Types
<1> QED
  BY <1>1, <1>2, Unrelated

LEMMA NextKeeps == IInv /\ [Next]_vars => IInv'
<1> SUFFICES ASSUME IInv, [Next]_vars PROVE IInv'
  OBVIOUS
<1>1. ASSUME NEW r \in Runs, HarnessStep(r) PROVE IInv'
  BY <1>1, StartNewKeeps, RunStartsKeeps, ResumeKeeps, PreparedKeeps, ConflictsKeeps,
     EnterLoopKeeps DEF HarnessStep
<1>2. ASSUME NEW r \in Runs, LoopStep(r) PROVE IInv'
  <2>1. ASSUME NEW kind, Chunk(r, kind) PROVE IInv'
    BY <2>1, ChunkKeeps
  <2>2. ASSUME NEW calls \in SUBSET Calls, Respond(r, calls) PROVE IInv'
    BY <2>2, RespondKeeps
  <2>3. ASSUME NEW asked \in SUBSET Calls, Decide(r, asked) PROVE IInv'
    BY <2>3, DecideKeeps
  <2>4. ASSUME NEW c \in Calls, ToolEnds(r, c) PROVE IInv'
    BY <2>4, ToolEndsKeeps
  <2>5. CASE Top(r) \/ Shape(r) \/ ModelFails(r) \/ ModelCancelled(r) \/ Complete(r)
    BY <2>5, TopKeeps, ShapeKeeps, ModelFailsKeeps, ModelCancelledKeeps, CompleteKeeps
  <2>6. CASE Open(r) \/ Resolved(r) \/ Fold(r) \/ Return(r)
    BY <2>6, OpenKeeps, ResolvedKeeps, FoldKeeps, ReturnKeeps
  <2> QED
    BY <1>2, <2>1, <2>2, <2>3, <2>4, <2>5, <2>6 DEF LoopStep
<1>3. ASSUME NEW r \in Runs, HubStep(r) PROVE IInv'
  <2>1. CASE Saves(r) \/ Traces(r)
    BY <2>1, SavesKeeps, TracesKeeps
  <2>2. ASSUME NEW handler \in {"extra", "compaction"}, Observes(r, handler) PROVE IInv'
    BY <2>2, ObservesKeeps
  <2>3. ASSUME NEW handler, NEW kind, Raises(r, handler, kind) PROVE IInv'
    BY <2>3, RaisesKeeps
  <2> QED
    BY <1>3, <2>1, <2>2, <2>3 DEF HubStep
<1>4. ASSUME NEW r \in Runs, Interrupted(r) PROVE IInv'
  BY <1>4, InterruptedKeeps
<1>5. CASE Cancel \/ StopWorker \/ FlushEnds \/ Close \/ Drained
  BY <1>5, SessionKeeps
<1>6. CASE UNCHANGED vars
  BY <1>6, StutterKeeps
<1> QED
  BY <1>1, <1>2, <1>3, <1>4, <1>5, <1>6 DEF Next

\* The inductive invariant holds of every behaviour: the Runs of a session, their
\* broadcasts, the store and the LangfuseHandler's tables stay in step.
THEOREM Invariance == Spec => []IInv
<1>1. Init => IInv
  BY InitEstablishes
<1>2. IInv /\ [Next]_vars => IInv'
  BY NextKeeps
<1> QED
  BY <1>1, <1>2, PTL DEF Spec

\* Whoever is told that a Run has halted finds that status in the store, and the caller,
\* the store and the observers agree on how it has ended, whatever a Handler, the model
\* or the user did (EventHub.broadcast, RunEmitter.finish_*).
THEOREM Agreement == Spec => []ObserversAgree
<1>1. ASSUME IInv PROVE ObserversAgree
  <2>1. Types /\ \A r \in Runs : RunInv(r)
    BY <1>1 DEF IInv
  <2>2. ASSUME NEW r \in Runs
        PROVE  /\ bus[r].event.kind \in Kind
               /\ act[r].pc = "idle" => bus[r].left = <<>> /\ act[r].running = {}
    <3>1. RunInv(r) /\ bus[r].event \in Events
      BY <2>1 DEF Types
    <3>2. act[r].pc = "idle" => Announced[act[r].pc] = {}
      BY DEF Announced
    <3> QED
      BY <3>1, <3>2 DEF RunInv, BusInv, BatchInv, Events
  <2>3. TypeOK
    BY <2>1, <2>2 DEF TypeOK, Types
  <2>4. SavedBeforeSeen
    <3> SUFFICES ASSUME NEW r \in Runs, bus[r].event.kind = "terminal", bus[r].left # <<>>,
                        Head(bus[r].left) # "checkpoint"
                 PROVE  row[r] = bus[r].event.status
      BY DEF SavedBeforeSeen
    <3>1. act[r].pc = "ending"
      <4>1. act[r] \in Activation /\ "terminal" \in Announced[act[r].pc]
        BY <2>1 DEF RunInv, BusInv, Types
      <4> QED
        BY <4>1 DEF Announced, Activation
    <3>2. ~Unsaved(r)
      BY Tails DEF Unsaved
    <3> QED
      BY <2>1, <3>1, <3>2 DEF RunInv, StoreInv
  <2>5. OutcomeAgrees
    BY <2>1 DEF OutcomeAgrees, RunInv, StoreInv
  <2> QED
    BY <2>3, <2>4, <2>5 DEF ObserversAgree
<1> QED
  BY <1>1, Invariance, PTL

\* A Run that ends with its terminal event leaves no observation open, its end leaves
\* those of the other Runs alone, and a closed session has handed over all that ended
\* (LangfuseHandler._cleanup_run, _schedule_flush and aclose).
THEOREM TracesEndWithRuns == Spec => []TracesEnd
<1>1. ASSUME IInv PROVE TracesEnd
  <2>1. ExportInv /\ \A r \in Runs : RunInv(r)
    BY <1>1 DEF IInv
  <2>2. ASSUME NEW r \in Runs
        PROVE  /\ act[r].pc = "idle" /\ r \notin silent => ~Holds(tables, r)
               /\ act[r].pc = "tools" => \A c \in act[r].running : <<r, c>> \in tables.tools
    <3>1. RunInv(r)
      BY <2>1
    <3>2. act[r].pc = "tools" => Told(r)
      BY <3>1 DEF RunInv, BusInv, Announced, Told
    <3> QED
      BY <3>1, <3>2 DEF RunInv, SpanInv, Ended, TraceInv, UntoldTool, Untold
  <2>3. FlushedAtClose
    BY <2>1 DEF ExportInv, FlushedAtClose
  <2> QED
    BY <2>2, <2>3 DEF TracesEnd, SpansEndWithTheRun
<1> QED
  BY <1>1, Invariance, PTL

\* An open observation is replaced, and then never ended, only in a Run whose last
\* activation ended without its terminal event (LangfuseHandler.on_turn_started,
\* on_before_model and on_before_tool).
THEOREM LossNeedsSilence == Spec => LostOnlyAfterSilence
<1>1. ASSUME IInv, [Next]_vars PROVE (tables'.lost \ tables.lost) \subseteq silent
  <2>1. CASE UNCHANGED tables
    BY <2>1
  <2>2. ASSUME NEW r \in Runs, Traces(r)
        PROVE  (tables'.lost \ tables.lost) \subseteq silent
    <3> DEFINE k == bus[r].event.kind
               c == bus[r].event.call
    <3>1. /\ RunInv(r) /\ act[r] \in Activation /\ k \in Announced[act[r].pc]
          /\ ~Told(r)
          /\ k \in {"before_tool", "after_tool"} => c \in Calls
      BY <1>1, <2>2, Telling
    <3>2. After(tables, tables', k, r, c) /\ k \in Kind
      BY <1>1, <2>2, Telling DEF Events
    <3> SUFFICES ASSUME r \notin silent PROVE tables'.lost = tables.lost
      BY <3>2 DEF After, Kind
    <3>3. /\ k = "turn_started" => act[r].pc = "shaping"
          /\ k = "before_model" => act[r].pc = "model"
          /\ k = "before_tool" => act[r].pc = "open"
      BY <3>1 DEF Announced, Activation
    <3>4. k = "turn_started" => r \notin tables.turns
      BY <3>1, <3>3 DEF RunInv, SpanInv, TurnOpen
    <3>5. k = "before_model" => r \notin tables.generations
      BY <3>1, <3>3 DEF RunInv, SpanInv, GenerationOpen, Untold
    <3>6. k = "before_tool" => <<r, c>> \notin tables.tools
      BY <3>1, <3>3 DEF RunInv, BatchInv, SpanInv, ToolOpen, UntoldTool, Untold
    <3> HIDE DEF k, c
    <3> QED
      BY <3>2, <3>4, <3>5, <3>6 DEF After, Kind
  <2>3. CASE UNCHANGED vars
    BY <2>3 DEF vars
  <2>4. ASSUME NEW r \in Runs, HarnessStep(r) PROVE UNCHANGED tables
    BY <2>4 DEF HarnessStep, StartNew, RunStarts, Resume, Prepared, Conflicts, EnterLoop,
                OwnStep, Rest
  <2>5. ASSUME NEW r \in Runs, LoopStep(r) PROVE UNCHANGED tables
    BY <2>5 DEF LoopStep, Top, Shape, Chunk, Respond, ModelFails, ModelCancelled, Decide,
                Complete, Open, ToolEnds, Resolved, Fold, Return, OwnStep, Rest
  <2>6. ASSUME NEW r \in Runs, HubStep(r) PROVE UNCHANGED tables \/ Traces(r)
    BY <2>6 DEF HubStep, Saves, Observes, Raises, OwnStep, Rest
  <2>7. ASSUME NEW r \in Runs, Interrupted(r) PROVE UNCHANGED tables
    BY <2>7 DEF Interrupted, Rest
  <2>8. CASE Cancel \/ StopWorker \/ FlushEnds \/ Close \/ Drained
    BY <2>8 DEF Cancel, StopWorker, FlushEnds, Close, Drained, Rest
  <2> QED
    BY <1>1, <2>1, <2>2, <2>3, <2>4, <2>5, <2>6, <2>7, <2>8 DEF Next
<1>2. IInv /\ [Next]_vars => [(tables'.lost \ tables.lost) \subseteq silent]_vars
  BY <1>1
<1> QED
  BY <1>2, Invariance, PTL DEF Spec, LostOnlyAfterSilence
============================================================================
