---------------------------- MODULE TuiAppProofs ----------------------------
(***************************************************************************)
(* What is proved of TuiApp, for any Runs, calls, batches and bounds.      *)
(***************************************************************************)
EXTENDS TuiAppInv, FiniteSetTheorems, WellFoundedInduction, TLAPS

(***************************************************************************)
(* Queues: what taking the first message, or adding some, does to the      *)
(* kinds in a queue and to their order.                                    *)
(***************************************************************************)
LEMMA TailOf ==
  ASSUME NEW S, NEW q \in Seq(S), q # <<>>
  PROVE  /\ Tail(q) \in Seq(S) /\ Head(q) \in S /\ Head(q) = q[1] /\ 1 \in 1..Len(q)
         /\ Len(Tail(q)) = Len(q) - 1
         /\ \A i \in 1..Len(Tail(q)) : i + 1 \in 1..Len(q) /\ Tail(q)[i] = q[i + 1]
  OBVIOUS

\* The first message is taken: what held of the kinds still holds.
LEMMA TailKinds ==
  ASSUME NEW q \in Seq(Message), q # <<>>
  PROVE  /\ \A K : Lacks(q, K) => Lacks(Tail(q), K)
         /\ \A K : Once(q, K) => Once(Tail(q), K)
         /\ \A K, L : InFront(q, K, L) => InFront(Tail(q), K, L)
         /\ Ordered(q) => Ordered(Tail(q))
         /\ RunPicked(Tail(q)) => RunPicked(q)
         /\ \A r : HaltOf(Tail(q), r) => HaltOf(q, r)
         /\ \A h : TrueBatches(q, h) => TrueBatches(Tail(q), h)
         /\ \A c : AnswersTo(q, c) => AnswersTo(Tail(q), c)
<1>t. /\ \A i \in 1..Len(Tail(q)) : i + 1 \in 1..Len(q) /\ Tail(q)[i] = q[i + 1]
      /\ Len(Tail(q)) \in Nat /\ Len(q) \in Nat
  <2>1. Tail(q) \in Seq(Message)
    OBVIOUS
  <2> QED
    BY <2>1, TailOf
<1>1. \A K : Lacks(q, K) => Lacks(Tail(q), K)
  BY <1>t DEF Lacks
<1>2. ASSUME NEW K, Once(q, K) PROVE Once(Tail(q), K)
  <2> SUFFICES ASSUME NEW i \in 1..Len(Tail(q)), NEW j \in 1..Len(Tail(q)),
                      Tail(q)[i].kind \in K, Tail(q)[j].kind \in K
               PROVE  i = j
    BY DEF Once
  <2>1. i + 1 = j + 1
    BY <1>t, <1>2 DEF Once
  <2> QED
    BY <2>1, <1>t
<1>3. ASSUME NEW K, NEW L, InFront(q, K, L) PROVE InFront(Tail(q), K, L)
  <2> SUFFICES ASSUME NEW i \in 1..Len(Tail(q)), NEW j \in 1..Len(Tail(q)),
                      Tail(q)[i].kind \in K, Tail(q)[j].kind \in L
               PROVE  i < j
    BY DEF InFront
  <2>1. i + 1 < j + 1
    BY <1>t, <1>3 DEF InFront
  <2> QED
    BY <2>1, <1>t
<1>4. Ordered(q) => Ordered(Tail(q))
  BY <1>2, <1>3 DEF Ordered
<1>5. RunPicked(Tail(q)) => RunPicked(q)
  BY <1>t DEF RunPicked
<1>6. \A r : HaltOf(Tail(q), r) => HaltOf(q, r)
  BY <1>t DEF HaltOf
<1>7. \A h : TrueBatches(q, h) => TrueBatches(Tail(q), h)
  BY <1>t DEF TrueBatches
<1>8. \A c : AnswersTo(q, c) => AnswersTo(Tail(q), c)
  BY <1>t DEF AnswersTo
<1> QED
  BY <1>1, <1>2, <1>3, <1>4, <1>5, <1>6, <1>7, <1>8

\* What the kind of the first message says of those behind it.
LEMMA HeadKinds ==
  ASSUME NEW q \in Seq(Message), q # <<>>
  PROVE  /\ \A K : Head(q).kind \in K => ~Lacks(q, K)
         /\ \A K : Once(q, K) /\ Head(q).kind \in K => Lacks(Tail(q), K)
         /\ \A K, L : InFront(q, K, L) /\ Head(q).kind \in L => Lacks(q, K)
         /\ \A K : Head(q).kind \notin K /\ ~Lacks(q, K) => ~Lacks(Tail(q), K)
         /\ \A r : HaltOf(q, r) => \/ Head(q).kind = "approval" /\ Head(q).run = r
                                   \/ HaltOf(Tail(q), r)
<1>t. /\ \A i \in 1..Len(Tail(q)) : i + 1 \in 1..Len(q) /\ Tail(q)[i] = q[i + 1]
      /\ Len(Tail(q)) = Len(q) - 1 /\ Len(Tail(q)) \in Nat /\ Len(q) \in Nat
      /\ Head(q) = q[1] /\ 1 \in 1..Len(q)
  <2>1. Tail(q) \in Seq(Message)
    OBVIOUS
  <2> QED
    BY <2>1, TailOf
<1>1. \A K : Head(q).kind \in K => ~Lacks(q, K)
  BY <1>t DEF Lacks
<1>2. ASSUME NEW K, Once(q, K), Head(q).kind \in K PROVE Lacks(Tail(q), K)
  <2> SUFFICES ASSUME NEW i \in 1..Len(Tail(q)), Tail(q)[i].kind \in K PROVE FALSE
    BY DEF Lacks
  <2>1. i + 1 = 1
    BY <1>t, <1>2 DEF Once
  <2> QED
    BY <2>1, <1>t
<1>3. ASSUME NEW K, NEW L, InFront(q, K, L), Head(q).kind \in L PROVE Lacks(q, K)
  <2> SUFFICES ASSUME NEW i \in 1..Len(q), q[i].kind \in K PROVE FALSE
    BY DEF Lacks
  <2>1. i < 1
    BY <1>t, <1>3 DEF InFront
  <2> QED
    BY <2>1, <1>t
<1>u. \A i \in 1..Len(q) : i # 1 => i - 1 \in 1..Len(Tail(q)) /\ q[i] = Tail(q)[i - 1]
  <2> TAKE i \in 1..Len(q)
  <2> HAVE i # 1
  <2>1. i - 1 \in 1..Len(Tail(q)) /\ (i - 1) + 1 = i
    BY <1>t
  <2> QED
    BY <2>1, <1>t
<1>4. \A K : Head(q).kind \notin K /\ ~Lacks(q, K) => ~Lacks(Tail(q), K)
  BY <1>t, <1>u DEF Lacks
<1>5. \A r : HaltOf(q, r) => \/ Head(q).kind = "approval" /\ Head(q).run = r
                             \/ HaltOf(Tail(q), r)
  BY <1>t, <1>u DEF HaltOf
<1> QED
  BY <1>1, <1>2, <1>3, <1>4, <1>5

\* Messages s come behind those of q.
LEMMA Behind ==
  ASSUME NEW q \in Seq(Message), NEW s \in Seq(Message)
  PROVE  /\ q \o s \in Seq(Message)
         /\ \A K : Lacks(q \o s, K) <=> Lacks(q, K) /\ Lacks(s, K)
         /\ \A K : Once(q, K) /\ Once(s, K) /\ (Lacks(q, K) \/ Lacks(s, K)) => Once(q \o s, K)
         /\ \A K, L : InFront(q, K, L) /\ InFront(s, K, L) /\ (Lacks(s, K) \/ Lacks(q, L))
                      => InFront(q \o s, K, L)
         /\ RunPicked(q \o s) <=> RunPicked(q) \/ RunPicked(s)
         /\ \A r : HaltOf(q \o s, r) <=> HaltOf(q, r) \/ HaltOf(s, r)
         /\ \A h : TrueBatches(q \o s, h) <=> TrueBatches(q, h) /\ TrueBatches(s, h)
         /\ \A c : AnswersTo(q \o s, c) <=> AnswersTo(q, c) /\ AnswersTo(s, c)
<1> DEFINE p == q \o s
<1>p. p \in Seq(Message) /\ Len(p) = Len(q) + Len(s) /\ Len(q) \in Nat /\ Len(s) \in Nat
  OBVIOUS
<1>q. \A i \in 1..Len(q) : i \in 1..Len(p) /\ p[i] = q[i]
  OBVIOUS
<1>s. \A i \in 1..Len(s) : i + Len(q) \in 1..Len(p) /\ p[i + Len(q)] = s[i]
  OBVIOUS
<1> HIDE DEF p
<1>a. \A i \in 1..Len(p) :
         \/ i \in 1..Len(q) /\ p[i] = q[i]
         \/ i - Len(q) \in 1..Len(s) /\ p[i] = s[i - Len(q)]
  <2> TAKE i \in 1..Len(p)
  <2>1. CASE i <= Len(q)
    BY <2>1, <1>p, <1>q
  <2>2. CASE ~(i <= Len(q))
    <3>1. i - Len(q) \in 1..Len(s) /\ (i - Len(q)) + Len(q) = i
      BY <2>2, <1>p
    <3> QED
      BY <3>1, <1>s
  <2> QED
    BY <2>1, <2>2
<1>1. \A K : Lacks(p, K) <=> Lacks(q, K) /\ Lacks(s, K)
  BY <1>q, <1>s, <1>a DEF Lacks
<1>2. ASSUME NEW K, Once(q, K), Once(s, K), Lacks(q, K) \/ Lacks(s, K) PROVE Once(p, K)
  <2> SUFFICES ASSUME NEW i \in 1..Len(p), NEW j \in 1..Len(p), p[i].kind \in K, p[j].kind \in K
               PROVE  i = j
    BY DEF Once
  <2>1. CASE Lacks(s, K)
    <3>1. i \in 1..Len(q) /\ p[i] = q[i] /\ j \in 1..Len(q) /\ p[j] = q[j]
      BY <2>1, <1>a DEF Lacks
    <3> QED
      BY <3>1, <1>2 DEF Once
  <2>2. CASE Lacks(q, K)
    <3>1. /\ i - Len(q) \in 1..Len(s) /\ p[i] = s[i - Len(q)]
          /\ j - Len(q) \in 1..Len(s) /\ p[j] = s[j - Len(q)]
      BY <2>2, <1>a DEF Lacks
    <3>2. i - Len(q) = j - Len(q)
      BY <3>1, <1>2 DEF Once
    <3> QED
      BY <3>2, <1>p
  <2> QED
    BY <2>1, <2>2, <1>2
<1>3. ASSUME NEW K, NEW L, InFront(q, K, L), InFront(s, K, L), Lacks(s, K) \/ Lacks(q, L)
      PROVE  InFront(p, K, L)
  <2> SUFFICES ASSUME NEW i \in 1..Len(p), NEW j \in 1..Len(p), p[i].kind \in K, p[j].kind \in L
               PROVE  i < j
    BY DEF InFront
  <2>1. CASE Lacks(s, K)
    <3>1. i \in 1..Len(q) /\ p[i] = q[i]
      BY <2>1, <1>a DEF Lacks
    <3>2. CASE j \in 1..Len(q) /\ p[j] = q[j]
      BY <3>1, <3>2, <1>3 DEF InFront
    <3>3. CASE j - Len(q) \in 1..Len(s)
      BY <3>1, <3>3, <1>p
    <3> QED
      BY <3>2, <3>3, <1>a
  <2>2. CASE Lacks(q, L)
    <3>1. j - Len(q) \in 1..Len(s) /\ p[j] = s[j - Len(q)]
      BY <2>2, <1>a DEF Lacks
    <3>2. CASE i - Len(q) \in 1..Len(s) /\ p[i] = s[i - Len(q)]
      <4>1. i - Len(q) < j - Len(q)
        BY <3>1, <3>2, <1>3 DEF InFront
      <4> QED
        BY <4>1, <1>p
    <3>3. CASE i \in 1..Len(q)
      BY <3>1, <3>3, <1>p
    <3> QED
      BY <3>2, <3>3, <1>a
  <2> QED
    BY <2>1, <2>2, <1>3
<1>5. RunPicked(p) <=> RunPicked(q) \/ RunPicked(s)
  <2>1. RunPicked(q) => RunPicked(p)
    BY <1>q DEF RunPicked
  <2>2. RunPicked(s) => RunPicked(p)
    <3> HAVE RunPicked(s)
    <3>1. PICK i \in 1..Len(s) : s[i].kind \in Picks /\ s[i].run # None
      BY DEF RunPicked
    <3>2. i + Len(q) \in 1..Len(p) /\ p[i + Len(q)] = s[i]
      BY <1>s
    <3> QED
      BY <3>1, <3>2 DEF RunPicked
  <2>3. RunPicked(p) => RunPicked(q) \/ RunPicked(s)
    <3> HAVE RunPicked(p)
    <3>1. PICK i \in 1..Len(p) : p[i].kind \in Picks /\ p[i].run # None
      BY DEF RunPicked
    <3> QED
      BY <3>1, <1>a DEF RunPicked
  <2> QED
    BY <2>1, <2>2, <2>3
<1>6. ASSUME NEW r PROVE HaltOf(p, r) <=> HaltOf(q, r) \/ HaltOf(s, r)
  <2>1. HaltOf(q, r) => HaltOf(p, r)
    BY <1>q DEF HaltOf
  <2>2. HaltOf(s, r) => HaltOf(p, r)
    <3> HAVE HaltOf(s, r)
    <3>1. PICK i \in 1..Len(s) : s[i].kind = "approval" /\ s[i].run = r
      BY DEF HaltOf
    <3>2. i + Len(q) \in 1..Len(p) /\ p[i + Len(q)] = s[i]
      BY <1>s
    <3> QED
      BY <3>1, <3>2 DEF HaltOf
  <2>3. HaltOf(p, r) => HaltOf(q, r) \/ HaltOf(s, r)
    <3> HAVE HaltOf(p, r)
    <3>1. PICK i \in 1..Len(p) : p[i].kind = "approval" /\ p[i].run = r
      BY DEF HaltOf
    <3> QED
      BY <3>1, <1>a DEF HaltOf
  <2> QED
    BY <2>1, <2>2, <2>3
<1>7. ASSUME NEW h PROVE TrueBatches(p, h) <=> TrueBatches(q, h) /\ TrueBatches(s, h)
  <2>1. TrueBatches(p, h) => TrueBatches(q, h)
    BY <1>q DEF TrueBatches
  <2>2. TrueBatches(p, h) => TrueBatches(s, h)
    <3> SUFFICES ASSUME TrueBatches(p, h), NEW i \in 1..Len(s) PROVE s[i].kind = "approval" => s[i].arg = h[s[i].run]
      BY DEF TrueBatches
    <3>1. i + Len(q) \in 1..Len(p) /\ p[i + Len(q)] = s[i]
      BY <1>s
    <3>2. p[i + Len(q)].kind = "approval" => p[i + Len(q)].arg = h[p[i + Len(q)].run]
      BY <3>1 DEF TrueBatches
    <3> QED
      BY <3>1, <3>2
  <2>3. TrueBatches(q, h) /\ TrueBatches(s, h) => TrueBatches(p, h)
    BY <1>a DEF TrueBatches
  <2> QED
    BY <2>1, <2>2, <2>3
<1>8. ASSUME NEW c PROVE AnswersTo(p, c) <=> AnswersTo(q, c) /\ AnswersTo(s, c)
  <2>1. AnswersTo(p, c) => AnswersTo(q, c)
    BY <1>q DEF AnswersTo
  <2>2. AnswersTo(p, c) => AnswersTo(s, c)
    <3> SUFFICES ASSUME AnswersTo(p, c), NEW i \in 1..Len(s) PROVE s[i].kind = "option" => s[i].arg.call = c
      BY DEF AnswersTo
    <3>1. i + Len(q) \in 1..Len(p) /\ p[i + Len(q)] = s[i]
      BY <1>s
    <3>2. p[i + Len(q)].kind = "option" => p[i + Len(q)].arg.call = c
      BY <3>1 DEF AnswersTo
    <3> QED
      BY <3>1, <3>2
  <2>3. AnswersTo(q, c) /\ AnswersTo(s, c) => AnswersTo(p, c)
    BY <1>a DEF AnswersTo
  <2> QED
    BY <2>1, <2>2, <2>3
<1> QED
  BY <1>p, <1>1, <1>2, <1>3, <1>5, <1>6, <1>7, <1>8 DEF p

\* A queue of one message, and of none.
LEMMA OneMessage ==
  ASSUME NEW m
  PROVE  /\ \A K : Lacks(<<m>>, K) <=> m.kind \notin K
         /\ \A K : Once(<<m>>, K)
         /\ \A K, L : m.kind \notin K \/ m.kind \notin L => InFront(<<m>>, K, L)
         /\ RunPicked(<<m>>) <=> m.kind \in Picks /\ m.run # None
         /\ \A r : HaltOf(<<m>>, r) <=> m.kind = "approval" /\ m.run = r
         /\ \A h : TrueBatches(<<m>>, h) <=> (m.kind = "approval" => m.arg = h[m.run])
         /\ \A c : AnswersTo(<<m>>, c) <=> (m.kind = "option" => m.arg.call = c)
<1> DEFINE q == <<m>>
<1>q. q[1] = m /\ \A i : i \in 1..Len(q) <=> i = 1
  OBVIOUS
<1> HIDE DEF q
<1> QED
  BY <1>q DEF q, Lacks, Once, InFront, RunPicked, HaltOf, TrueBatches, AnswersTo

LEMMA NoMessage ==
  /\ \A K : Lacks(<<>>, K) /\ Once(<<>>, K)
  /\ \A K, L : InFront(<<>>, K, L)
  /\ ~RunPicked(<<>>)
  /\ \A r : ~HaltOf(<<>>, r)
  /\ \A h : TrueBatches(<<>>, h)
  /\ \A c : AnswersTo(<<>>, c)
  BY DEF Lacks, Once, InFront, RunPicked, HaltOf, TrueBatches, AnswersTo

LEMMA AppendBehind ==
  ASSUME NEW q \in Seq(Message), NEW m \in Message
  PROVE  Append(q, m) = q \o <<m>> /\ <<m>> \in Seq(Message)
  OBVIOUS

\* A message in a queue that lacks its kind, and Lacks of fewer kinds.
LEMMA FewerKinds == ASSUME NEW q, NEW K, NEW L, K \subseteq L, Lacks(q, L) PROVE Lacks(q, K)
  BY DEF Lacks

(***************************************************************************)
(* The approval menu.                                                      *)
(***************************************************************************)
LEMMA Least ==
  ASSUME NEW S \in SUBSET Nat, S # {}
  PROVE  LET x == CHOOSE i \in S : \A j \in S : i <= j
         IN  x \in S /\ \A j \in S : x <= j
<1> DEFINE R == {ss \in Nat \X Nat : ss[1] < ss[2]}
<1>1. IsWellFoundedOn(R, Nat)
  BY NatLessThanWellFounded, Zenon DEF OpToRel
<1> HIDE DEF R
<1>2. PICK x \in S : \A y \in S : ~(<<y, x>> \in R)
  BY <1>1, WFMin, Zenon
<1>3. \A y \in S : ~(y < x)
  BY <1>2 DEF R
<1>4. \A y \in S : x <= y
  BY <1>3
<1> QED
  BY <1>4, Zenon

LEMMA VerdictsOf ==
  ASSUME NEW v
  PROVE  v \in UNION {[cs -> Verdict] : cs \in SUBSET Calls}
         <=> DOMAIN v \subseteq Calls /\ v \in [DOMAIN v -> Verdict]
  OBVIOUS

LEMMA NoVerdictsType ==
  NoVerdicts \in UNION {[cs -> Verdict] : cs \in SUBSET Calls} /\ DOMAIN NoVerdicts = {}
<1>1. DOMAIN NoVerdicts = {} /\ NoVerdicts \in [{} -> Verdict]
  BY DEF NoVerdicts
<1> QED
  BY <1>1, VerdictsOf

LEMMA DecideType ==
  ASSUME NEW v \in UNION {[cs -> Verdict] : cs \in SUBSET Calls}, NEW cs \in SUBSET Calls,
         NEW d \in Verdict
  PROVE  /\ Decide(v, cs, d) \in UNION {[ds -> Verdict] : ds \in SUBSET Calls}
         /\ DOMAIN Decide(v, cs, d) = DOMAIN v \union cs
         /\ \A c \in DOMAIN v \union cs :
              Decide(v, cs, d)[c] = IF c \in cs THEN d ELSE v[c]
<1> DEFINE e == Decide(v, cs, d)
<1>1. DOMAIN v \subseteq Calls /\ v \in [DOMAIN v -> Verdict]
  BY VerdictsOf
<1>2. /\ DOMAIN e = DOMAIN v \union cs
      /\ \A c \in DOMAIN v \union cs : e[c] = IF c \in cs THEN d ELSE v[c]
      /\ e \in [DOMAIN v \union cs -> Verdict]
  BY <1>1 DEF Decide
<1>3. DOMAIN e \subseteq Calls /\ e \in [DOMAIN e -> Verdict]
  BY <1>1, <1>2
<1> HIDE DEF e
<1>4. e \in UNION {[ds -> Verdict] : ds \in SUBSET Calls}
  BY <1>3, VerdictsOf
<1> QED
  BY <1>2, <1>4 DEF e

\* The cursor moves on to the first call that is not decided.
Advanced(m, n) ==
    /\ n \in Batch
    /\ n.run = m.run /\ n.calls = m.calls /\ n.verdicts = m.verdicts /\ n.deny = m.deny
    /\ n.pos \in m.pos..Len(m.calls) + 1 /\ n.pos \in 1..Len(m.calls) + 1
    /\ \A i \in m.pos..n.pos - 1 : m.calls[i] \in DOMAIN m.verdicts
    /\ n.pos <= Len(m.calls) => m.calls[n.pos] \notin DOMAIN m.verdicts
    /\ n.shown = (n.pos <= Len(m.calls) \/ m.shown)

LEMMA Shows ==
  ASSUME NEW m \in Batch, m.pos \in 1..Len(m.calls) + 1
  PROVE  Advanced(m, ShowCurrent(m))
<1> SUFFICES ASSUME NEW n, n = ShowCurrent(m) PROVE Advanced(m, n)
  OBVIOUS
<1> DEFINE L == Len(m.calls)
           next == {i \in m.pos..L : m.calls[i] \notin DOMAIN m.verdicts}
           x == CHOOSE i \in next : \A j \in next : i <= j
           k == IF next = {} THEN L + 1 ELSE x
<1>b. /\ m.calls \in Seq(Calls) /\ L \in Nat /\ m.pos \in Nat \ {0} /\ m.shown \in BOOLEAN
      /\ m = [run |-> m.run, calls |-> m.calls, pos |-> m.pos, verdicts |-> m.verdicts,
              deny |-> m.deny, shown |-> m.shown]
  BY DEF Batch
<1>1. n = [m EXCEPT !.pos = k, !.shown = k <= L \/ m.shown]
  BY <1>b DEF ShowCurrent, SkipDecided, Batch
<1>2. k \in m.pos..L + 1 /\ (\A i \in m.pos..k - 1 : m.calls[i] \in DOMAIN m.verdicts)
      /\ (k <= L => m.calls[k] \notin DOMAIN m.verdicts)
  <2>1. CASE next = {}
    <3>1. k = L + 1
      BY <2>1
    <3>2. \A i \in m.pos..L : m.calls[i] \in DOMAIN m.verdicts
      BY <2>1
    <3> HIDE DEF k, next
    <3>3. \A i \in m.pos..k - 1 : m.calls[i] \in DOMAIN m.verdicts
      BY <3>1, <3>2, <1>b
    <3> QED
      BY <3>1, <3>3, <1>b
  <2>2. CASE next # {}
    <3>1. k = x
      BY <2>2
    <3>2. next \in SUBSET Nat
      BY <1>b
    <3> HIDE DEF next
    <3>3. x \in next /\ \A j \in next : x <= j
      BY <2>2, <3>2, Least
    <3> HIDE DEF x, k
    <3>4. x \in m.pos..L /\ m.calls[x] \notin DOMAIN m.verdicts
      BY <3>3 DEF next
    <3>5. ASSUME NEW i \in m.pos..x - 1 PROVE m.calls[i] \in DOMAIN m.verdicts
      <4>1. i \in m.pos..L /\ ~(x <= i)
        BY <3>4, <1>b
      <4>2. i \notin next
        BY <4>1, <3>3
      <4> QED
        BY <4>1, <4>2 DEF next
    <3> HIDE DEF L
    <3> QED
      BY <3>1, <3>4, <3>5, <1>b
  <2> QED
    BY <2>1, <2>2
<1> HIDE DEF k, L
<1>3. k \in Nat \ {0} /\ k \in 1..L + 1
  BY <1>2, <1>b
<1>4. (k <= L \/ m.shown) \in BOOLEAN
  BY <1>2, <1>b
<1>5. /\ n \in Batch
      /\ n.run = m.run /\ n.calls = m.calls /\ n.verdicts = m.verdicts /\ n.deny = m.deny
      /\ n.pos = k /\ n.shown = (k <= L \/ m.shown)
  BY <1>1, <1>3, <1>4 DEF Batch
<1> QED
  BY <1>2, <1>3, <1>5 DEF L, Advanced

LEMMA NoBatchType ==
  /\ NoBatch \in Batch /\ NoBatch.run = None /\ NoBatch.pos = 1 /\ NoBatch.calls = <<>>
  /\ NoBatch.verdicts = NoVerdicts /\ NoBatch.deny = FALSE /\ NoBatch.shown = FALSE
  BY NoVerdictsType DEF Batch, NoBatch

\* A new batch.
Begun(r, calls, n) ==
    /\ n \in Batch
    /\ n.run = r /\ n.calls = calls /\ n.verdicts = NoVerdicts /\ n.deny = FALSE
    /\ n.pos \in 1..Len(calls) + 1
    /\ \A i \in 1..n.pos - 1 : calls[i] \in DOMAIN NoVerdicts
    /\ n.pos <= Len(calls) => calls[n.pos] \notin DOMAIN NoVerdicts
    /\ n.shown = (n.pos <= Len(calls))

LEMMA Begins ==
  ASSUME NEW r \in Runs, NEW calls \in Seq(Calls)
  PROVE  Begun(r, calls, Begin(r, calls))
<1> SUFFICES ASSUME NEW n, n = Begin(r, calls) PROVE Begun(r, calls, n)
  OBVIOUS
<1> DEFINE m == [NoBatch EXCEPT !.run = r, !.calls = calls]
<1>1. /\ m \in Batch /\ m.pos = 1 /\ m.calls = calls /\ m.run = r
      /\ m.verdicts = NoVerdicts /\ m.deny = FALSE /\ m.shown = FALSE
  BY NoBatchType DEF Batch
<1>2. n = ShowCurrent(m) /\ Len(calls) \in Nat
  BY DEF Begin
<1> HIDE DEF m
<1>3. m.pos \in 1..Len(m.calls) + 1
  BY <1>1, <1>2
<1>4. Advanced(m, n)
  BY <1>1, <1>2, <1>3, Shows
<1> QED
  BY <1>1, <1>2, <1>4 DEF Advanced, Begun

\* What an answer does: the calls of cs are decided, and the cursor moves on.
Decided(m, cs, d) ==
    ShowCurrent([m EXCEPT !.verdicts = Decide(m.verdicts, cs, d), !.deny = FALSE])

DecidedOK(m, cs, d, n) ==
    /\ n \in Batch
    /\ n.run = m.run /\ n.calls = m.calls /\ n.deny = FALSE
    /\ n.verdicts = Decide(m.verdicts, cs, d) /\ cs \subseteq Calls
    /\ n.pos \in m.pos..Len(m.calls) + 1 /\ n.pos \in 1..Len(m.calls) + 1
    /\ \A i \in m.pos..n.pos - 1 : m.calls[i] \in DOMAIN n.verdicts
    /\ n.pos <= Len(m.calls) => m.calls[n.pos] \notin DOMAIN n.verdicts

LEMMA Decides ==
  ASSUME NEW m \in Batch, m.pos \in 1..Len(m.calls), NEW cs, cs \subseteq Ahead(m),
         NEW d \in Verdict
  PROVE  DecidedOK(m, cs, d, Decided(m, cs, d))
<1> SUFFICES ASSUME NEW n, n = Decided(m, cs, d) PROVE DecidedOK(m, cs, d, n)
  OBVIOUS
<1> DEFINE v == Decide(m.verdicts, cs, d)
           k == [m EXCEPT !.verdicts = v, !.deny = FALSE]
<1>1. /\ m.calls \in Seq(Calls) /\ m.pos \in Nat /\ Len(m.calls) \in Nat
      /\ m.verdicts \in UNION {[ds -> Verdict] : ds \in SUBSET Calls}
  BY DEF Batch
<1>2. cs \subseteq Calls
  BY <1>1 DEF Ahead
<1>3. v \in UNION {[ds -> Verdict] : ds \in SUBSET Calls}
  BY <1>1, <1>2, DecideType
<1> HIDE DEF v
<1>4. /\ k \in Batch /\ k.run = m.run /\ k.calls = m.calls /\ k.pos = m.pos /\ k.verdicts = v
      /\ k.deny = FALSE
  BY <1>3 DEF Batch
<1>5. n = ShowCurrent(k)
  BY DEF Decided, v
<1> HIDE DEF k
<1>6. Advanced(k, n)
  BY <1>1, <1>4, <1>5, Shows
<1> QED
  BY <1>2, <1>4, <1>6 DEF Advanced, DecidedOK, v

\* The answers given with one more.
LEMMA DenialKept ==
  ASSUME NEW v, NEW said0, FollowsAnswers(v, said0), NEW e \in Answer,
         e.action = "deny" => e.call \notin DOMAIN v
  PROVE  FollowsAnswers(v, said0 \union {e})
<1>1. ASSUME NEW c \in DOMAIN v
      PROVE  [call |-> c, action |-> "deny"] \in said0 \union {e}
             => [call |-> c, action |-> "deny"] \in said0
  BY DEF Answer
<1> QED
  BY <1>1, Zenon DEF FollowsAnswers

\* An approval of the calls cs, none of which was denied, by an answer that covers them.
LEMMA ApprovalFollows ==
  ASSUME NEW v \in UNION {[cs -> Verdict] : cs \in SUBSET Calls}, NEW answers,
         NEW cs \in SUBSET Calls, FollowsAnswers(v, answers),
         \A c \in cs : /\ [call |-> c, action |-> "deny"] \notin answers
                       /\ \/ [call |-> c, action |-> "approve"] \in answers
                          \/ \E s \in answers : \/ s.action = "allow_all"
                                                \/ /\ s.action = "allow_tool"
                                                   /\ ToolName[s.call] = ToolName[c]
  PROVE  FollowsAnswers(Decide(v, cs, "approve"), answers)
<1> DEFINE d == Decide(v, cs, "approve")
<1>1. /\ DOMAIN d = DOMAIN v \union cs
      /\ \A c \in DOMAIN v \union cs : d[c] = IF c \in cs THEN "approve" ELSE v[c]
  BY DecideType DEF Verdict
<1> HIDE DEF d
<1>2. FollowsAnswers(d, answers)
  BY <1>1, Zenon DEF FollowsAnswers
<1> QED
  BY <1>2 DEF d

\* What the answer e, to the call at the cursor, makes of a batch.
LEMMA Records ==
  ASSUME NEW m \in Batch, m.pos \in 1..Len(m.calls), NEW d \in Verdict
  PROVE  /\ Record(m, d) = Decided(m, {Current(m)}, d)
         /\ Current(m) = m.calls[m.pos] /\ Current(m) \in Ahead(m) /\ Current(m) \in Calls
<1>1. m.calls \in Seq(Calls) /\ Len(m.calls) \in Nat /\ m.pos \in Nat
  BY DEF Batch
<1>2. Current(m) = m.calls[m.pos] /\ m.pos \in m.pos..Len(m.calls)
  BY <1>1 DEF Current
<1>3. Current(m) \in Ahead(m)
  BY <1>2 DEF Ahead
<1> QED
  BY <1>1, <1>2, <1>3 DEF Record, Decided

LEMMA AllowsTool ==
  ASSUME NEW m \in Batch, m.pos \in 1..Len(m.calls), m.deny = FALSE
  PROVE  LET same == {c \in Ahead(m) : ToolName[c] = ToolName[Current(m)]}
         IN  AllowTool(m) = Decided(m, same, "approve")
<1> DEFINE same == {c \in Ahead(m) : ToolName[c] = ToolName[Current(m)]}
           v == Decide(m.verdicts, same, "approve")
<1> HIDE DEF v
<1>1. [m EXCEPT !.verdicts = v] = [m EXCEPT !.verdicts = v, !.deny = FALSE]
  BY DEF Batch
<1> QED
  BY <1>1 DEF AllowTool, Decided, v

LEMMA AllowsAll ==
  ASSUME NEW m \in Batch, m.pos \in 1..Len(m.calls), m.deny = FALSE
  PROVE  AllowAll(m) = Decided(m, Ahead(m), "approve")
<1> DEFINE v == Decide(m.verdicts, Ahead(m), "approve")
<1> HIDE DEF v
<1>1. [m EXCEPT !.verdicts = v] = [m EXCEPT !.verdicts = v, !.deny = FALSE]
  BY DEF Batch
<1> QED
  BY <1>1 DEF AllowAll, Decided, v

\* Whatever the answer, the batch stays one, with the same calls.
Applied(m, a, n) ==
    /\ n \in Batch /\ n.run = m.run /\ n.calls = m.calls
    /\ n.pos \in 1..Len(m.calls) + 1
    /\ a = "deny_reason" => n.deny = TRUE /\ n.pos <= Len(m.calls) /\ n.shown = FALSE
    /\ a # "deny_reason" => n.deny = FALSE

LEMMA Applies ==
  ASSUME NEW m \in Batch, m.pos \in 1..Len(m.calls), m.deny = FALSE, NEW a \in Action
  PROVE  Applied(m, a, Apply(m, a))
<1> SUFFICES ASSUME NEW n, n = Apply(m, a) PROVE Applied(m, a, n)
  OBVIOUS
<1>t. m.pos \in Nat /\ Len(m.calls) \in Nat
  BY DEF Batch
<1>1. CASE a \in Verdict
  <2>1. n = Record(m, a) /\ a # "deny_reason"
    BY <1>1 DEF Apply, Verdict
  <2>2. n = Decided(m, {Current(m)}, a) /\ {Current(m)} \subseteq Ahead(m)
    BY <2>1, <1>1, Records
  <2>3. DecidedOK(m, {Current(m)}, a, n)
    BY <1>1, <2>2, Decides
  <2> QED
    BY <2>1, <2>3 DEF DecidedOK, Applied
<1>2. CASE a = "allow_tool"
  <2> DEFINE same == {c \in Ahead(m) : ToolName[c] = ToolName[Current(m)]}
  <2>1. n = AllowTool(m)
    BY <1>2 DEF Apply, Verdict
  <2>2. n = Decided(m, same, "approve") /\ same \subseteq Ahead(m)
    BY <2>1, AllowsTool
  <2> HIDE DEF same
  <2>3. DecidedOK(m, same, "approve", n)
    BY <2>2, Decides DEF Verdict
  <2> QED
    BY <1>2, <2>3 DEF DecidedOK, Applied
<1>3. CASE a = "allow_all"
  <2>1. n = AllowAll(m)
    BY <1>3 DEF Apply, Verdict
  <2>2. n = Decided(m, Ahead(m), "approve") /\ Ahead(m) \subseteq Ahead(m)
    BY <2>1, AllowsAll
  <2>3. DecidedOK(m, Ahead(m), "approve", n)
    BY <2>2, Decides DEF Verdict
  <2> QED
    BY <1>3, <2>3 DEF DecidedOK, Applied
<1>4. CASE a = "deny_reason"
  <2>1. n = [m EXCEPT !.deny = TRUE, !.shown = FALSE]
    BY <1>4 DEF Apply, Verdict, DenyReason
  <2>2. /\ n \in Batch /\ n.run = m.run /\ n.calls = m.calls /\ n.pos = m.pos
        /\ n.deny = TRUE /\ n.shown = FALSE
    BY <2>1 DEF Batch
  <2> QED
    BY <1>4, <1>t, <2>2 DEF Applied
<1> QED
  BY <1>1, <1>2, <1>3, <1>4 DEF Action, Verdict

\* The part of BatchOK that every decision keeps.
CursorOK(m, cs, n) ==
    /\ \A i \in 1..Len(n.calls) : i < n.pos => n.calls[i] \in DOMAIN n.verdicts
    /\ DOMAIN n.verdicts = DOMAIN m.verdicts \union cs
    /\ DOMAIN n.verdicts \subseteq {n.calls[i] : i \in 1..Len(n.calls)}
    /\ n.pos <= Len(n.calls) => n.calls[n.pos] \notin DOMAIN n.verdicts
    /\ n.calls = m.calls /\ m.pos <= n.pos
    /\ Current(m) \in cs => m.pos < n.pos

LEMMA CursorKept ==
  ASSUME NEW m \in Batch, m.pos \in 1..Len(m.calls), NEW cs, cs \subseteq Ahead(m),
         NEW d \in Verdict, NEW n, DecidedOK(m, cs, d, n), NEW answers, BatchOK(m, answers)
  PROVE  CursorOK(m, cs, n)
<1>t. /\ m.calls \in Seq(Calls) /\ Len(m.calls) \in Nat /\ m.pos \in Nat /\ n.pos \in Nat
      /\ m.verdicts \in UNION {[ds -> Verdict] : ds \in SUBSET Calls}
      /\ cs \in SUBSET Calls /\ n.calls = m.calls /\ m.pos <= n.pos
  BY DEF Batch, DecidedOK
<1>1. n.verdicts = Decide(m.verdicts, cs, d)
  BY DEF DecidedOK
<1>2. DOMAIN n.verdicts = DOMAIN m.verdicts \union cs
  <2>1. DOMAIN Decide(m.verdicts, cs, d) = DOMAIN m.verdicts \union cs
    BY <1>t, DecideType
  <2> QED
    BY <1>1, <2>1
<1>3. ASSUME NEW i \in 1..Len(m.calls), i < n.pos PROVE m.calls[i] \in DOMAIN n.verdicts
  <2>1. CASE i < m.pos
    BY <2>1, <1>2 DEF BatchOK
  <2>2. CASE ~(i < m.pos)
    <3>1. i \in m.pos..n.pos - 1
      BY <2>2, <1>3, <1>t
    <3> QED
      BY <3>1 DEF DecidedOK
  <2> QED
    BY <2>1, <2>2
<1>4. cs \subseteq {m.calls[i] : i \in 1..Len(m.calls)}
  BY <1>t DEF Ahead
<1>5. DOMAIN n.verdicts \subseteq {m.calls[i] : i \in 1..Len(m.calls)}
  BY <1>2, <1>4 DEF BatchOK
<1>6. n.pos <= Len(m.calls) => m.calls[n.pos] \notin DOMAIN n.verdicts
  BY DEF DecidedOK
<1>7. ASSUME Current(m) \in cs PROVE m.pos < n.pos
  <2>1. m.calls[m.pos] \in DOMAIN n.verdicts
    BY <1>7, <1>2, <1>t DEF Current
  <2>2. n.pos # m.pos
    BY <2>1, <1>6, <1>t
  <2> QED
    BY <2>2, <1>t
<1> QED
  BY <1>t, <1>2, <1>3, <1>5, <1>6, <1>7 DEF CursorOK

\* The call at the cursor is denied.
LEMMA DenialFollows ==
  ASSUME NEW m \in Batch, m.pos \in 1..Len(m.calls), NEW n,
         DecidedOK(m, {Current(m)}, "deny", n),
         NEW answers, BatchOK(m, answers), NEW e \in Answer,
         e.call = Current(m), e.action = "deny"
  PROVE  BatchOK(n, answers \union {e})
<1>r. Current(m) = m.calls[m.pos] /\ Current(m) \in Ahead(m) /\ Current(m) \in Calls
      /\ "deny" \in Verdict
  BY Records DEF Verdict
<1>k. /\ \A i \in 1..Len(n.calls) : i < n.pos => n.calls[i] \in DOMAIN n.verdicts
      /\ DOMAIN n.verdicts = DOMAIN m.verdicts \union {Current(m)}
      /\ DOMAIN n.verdicts \subseteq {n.calls[i] : i \in 1..Len(n.calls)}
      /\ n.pos <= Len(n.calls) => n.calls[n.pos] \notin DOMAIN n.verdicts
      /\ n.calls = m.calls /\ m.pos <= n.pos /\ m.pos < n.pos
  <2>1. {Current(m)} \subseteq Ahead(m)
    BY <1>r
  <2>2. CursorOK(m, {Current(m)}, n)
    BY <1>r, <2>1, CursorKept
  <2> QED
    BY <2>2 DEF CursorOK
<1>t. /\ Len(m.calls) \in Nat /\ m.pos \in Nat /\ n.pos \in Nat
      /\ m.verdicts \in UNION {[ds -> Verdict] : ds \in SUBSET Calls}
  BY DEF Batch, DecidedOK
<1>1. /\ \A c \in DOMAIN m.verdicts : n.verdicts[c] = IF c = Current(m) THEN "deny" ELSE m.verdicts[c]
      /\ n.verdicts[Current(m)] = "deny"
  <2>1. n.verdicts = Decide(m.verdicts, {Current(m)}, "deny")
    BY DEF DecidedOK
  <2> DEFINE v == Decide(m.verdicts, {Current(m)}, "deny")
  <2>2. \A c \in DOMAIN m.verdicts \union {Current(m)} :
          v[c] = IF c \in {Current(m)} THEN "deny" ELSE m.verdicts[c]
    <3>1. {Current(m)} \in SUBSET Calls
      BY <1>r
    <3> QED
      BY Zenon DEF Decide
  <2> HIDE DEF v
  <2>3. n.verdicts = v
    BY <2>1 DEF v
  <2> QED
    BY <2>2, <2>3
<1>2. Current(m) \notin DOMAIN m.verdicts
  BY <1>r, <1>t DEF BatchOK
<1>3. FollowsAnswers(m.verdicts, answers)
  BY DEF BatchOK
<1>4. FollowsAnswers(m.verdicts, answers \union {e})
  BY <1>2, <1>3, DenialKept
<1>5. FollowsAnswers(n.verdicts, answers \union {e})
  <2>1. e = [call |-> Current(m), action |-> "deny"]
    BY DEF Answer
  <2>2. \A c \in DOMAIN n.verdicts :
          \/ c = Current(m)
          \/ c \in DOMAIN m.verdicts /\ n.verdicts[c] = m.verdicts[c]
    <3> TAKE c \in DOMAIN n.verdicts
    <3>1. c = Current(m) \/ c \in DOMAIN m.verdicts
      BY <1>k
    <3>2. CASE c \in DOMAIN m.verdicts
      <4>1. c # Current(m)
        BY <3>2, <1>2
      <4> QED
        BY <3>2, <4>1, <1>1
    <3> QED
      BY <3>1, <3>2
  <2>3. [call |-> Current(m), action |-> "deny"] \in answers \union {e}
    BY <2>1
  <2> QED
    BY <2>2, <2>3, <1>1, <1>4, ZenonT(30) DEF FollowsAnswers
<1>6. ASSUME NEW s \in answers \union {e}, s.action = "deny"
      PROVE  \E i \in 1..Len(n.calls) : i < n.pos /\ n.calls[i] = s.call
  <2>1. CASE s = e
    BY <2>1, <1>k, <1>r
  <2>2. CASE s \in answers
    <3>1. PICK i \in 1..Len(m.calls) : i < m.pos /\ m.calls[i] = s.call
      BY <2>2, <1>6 DEF BatchOK
    <3>2. i < n.pos
      BY <3>1, <1>k, <1>t
    <3> QED
      BY <3>1, <3>2, <1>k
  <2> QED
    BY <2>1, <2>2
<1> QED
  BY <1>k, <1>5, <1>6 DEF BatchOK

\* Calls from the cursor on are approved, by an answer that covers them.
LEMMA ApprovalKeeps ==
  ASSUME NEW m \in Batch, m.pos \in 1..Len(m.calls), Distinct(m.calls),
         NEW cs, cs \subseteq Ahead(m), NEW n, DecidedOK(m, cs, "approve", n),
         NEW answers, BatchOK(m, answers), NEW e \in Answer,
         \/ e.action = "approve" /\ cs = {e.call}
         \/ e.action = "allow_all"
         \/ e.action = "allow_tool" /\ \A c \in cs : ToolName[e.call] = ToolName[c]
  PROVE  BatchOK(n, answers \union {e})
<1>r. "approve" \in Verdict
  BY DEF Verdict
<1>k. /\ \A i \in 1..Len(n.calls) : i < n.pos => n.calls[i] \in DOMAIN n.verdicts
      /\ DOMAIN n.verdicts \subseteq {n.calls[i] : i \in 1..Len(n.calls)}
      /\ n.pos <= Len(n.calls) => n.calls[n.pos] \notin DOMAIN n.verdicts
      /\ n.calls = m.calls /\ m.pos <= n.pos
  <2>1. CursorOK(m, cs, n)
    BY <1>r, CursorKept
  <2> QED
    BY <2>1 DEF CursorOK
<1>t. /\ m.calls \in Seq(Calls) /\ Len(m.calls) \in Nat /\ m.pos \in Nat /\ n.pos \in Nat
      /\ m.verdicts \in UNION {[ds -> Verdict] : ds \in SUBSET Calls} /\ cs \in SUBSET Calls
  BY DEF Batch, DecidedOK
<1>e. e.action # "deny"
  OBVIOUS
<1>1. FollowsAnswers(m.verdicts, answers)
  BY DEF BatchOK
<1>2. FollowsAnswers(m.verdicts, answers \union {e})
  BY <1>1, <1>e, DenialKept
<1>3. ASSUME NEW c \in cs PROVE [call |-> c, action |-> "deny"] \notin answers \union {e}
  <2>1. PICK j \in m.pos..Len(m.calls) : m.calls[j] = c
    BY DEF Ahead
  <2>2. ASSUME [call |-> c, action |-> "deny"] \in answers PROVE FALSE
    <3>1. PICK i \in 1..Len(m.calls) : i < m.pos /\ m.calls[i] = c
      BY <2>2 DEF BatchOK
    <3>2. j \in 1..Len(m.calls) /\ i # j
      BY <2>1, <3>1, <1>t
    <3> QED
      BY <2>1, <3>1, <3>2 DEF Distinct
  <2>3. [call |-> c, action |-> "deny"] # e
    BY <1>e
  <2> QED
    BY <2>2, <2>3
<1>4. ASSUME NEW c \in cs
      PROVE  \/ [call |-> c, action |-> "approve"] \in answers \union {e}
             \/ \E s \in answers \union {e} : \/ s.action = "allow_all"
                                              \/ /\ s.action = "allow_tool"
                                                 /\ ToolName[s.call] = ToolName[c]
  <2>1. CASE e.action = "approve" /\ cs = {e.call}
    <3>1. e = [call |-> c, action |-> "approve"]
      BY <2>1 DEF Answer
    <3> QED
      BY <3>1
  <2>2. CASE e.action = "allow_all"
    BY <2>2
  <2>3. CASE e.action = "allow_tool" /\ \A x \in cs : ToolName[e.call] = ToolName[x]
    BY <2>3
  <2> QED
    BY <2>1, <2>2, <2>3
<1>5. FollowsAnswers(n.verdicts, answers \union {e})
  <2>1. n.verdicts = Decide(m.verdicts, cs, "approve")
    BY DEF DecidedOK
  <2>2. \A c \in cs : /\ [call |-> c, action |-> "deny"] \notin answers \union {e}
                      /\ \/ [call |-> c, action |-> "approve"] \in answers \union {e}
                         \/ \E s \in answers \union {e} : \/ s.action = "allow_all"
                                                          \/ /\ s.action = "allow_tool"
                                                             /\ ToolName[s.call] = ToolName[c]
    BY <1>3, <1>4
  <2>3. FollowsAnswers(Decide(m.verdicts, cs, "approve"), answers \union {e})
    <3> DEFINE as == answers \union {e}
    <3>1. FollowsAnswers(m.verdicts, as)
      BY <1>2
    <3>2. \A c \in cs : /\ [call |-> c, action |-> "deny"] \notin as
                        /\ \/ [call |-> c, action |-> "approve"] \in as
                           \/ \E s \in as : \/ s.action = "allow_all"
                                            \/ /\ s.action = "allow_tool"
                                               /\ ToolName[s.call] = ToolName[c]
      BY <2>2, Zenon
    <3> HIDE DEF as
    <3>3. FollowsAnswers(Decide(m.verdicts, cs, "approve"), as)
      BY <1>t, <3>1, <3>2, ApprovalFollows, Zenon
    <3> QED
      BY <3>3 DEF as
  <2> QED
    BY <2>1, <2>3
<1>6. ASSUME NEW s \in answers \union {e}, s.action = "deny"
      PROVE  \E i \in 1..Len(n.calls) : i < n.pos /\ n.calls[i] = s.call
  <2>1. s \in answers
    BY <1>6, <1>e
  <2>2. PICK i \in 1..Len(m.calls) : i < m.pos /\ m.calls[i] = s.call
    BY <2>1, <1>6 DEF BatchOK
  <2>3. i < n.pos
    BY <2>2, <1>k, <1>t
  <2> QED
    BY <2>2, <2>3, <1>k
<1> QED
  BY <1>k, <1>5, <1>6 DEF BatchOK

\* Whatever the answer to the call at the cursor, the batch follows the answers.
LEMMA AnswerFollows ==
  ASSUME NEW m \in Batch, m.pos \in 1..Len(m.calls), m.deny = FALSE, Distinct(m.calls),
         NEW answers, BatchOK(m, answers), NEW e \in Answer, e.call = Current(m)
  PROVE  BatchOK(Apply(m, e.action), answers \union {e})
<1> SUFFICES ASSUME NEW n, n = Apply(m, e.action) PROVE BatchOK(n, answers \union {e})
  OBVIOUS
<1>1. CASE e.action \in Verdict
  <2>1. n = Record(m, e.action)
    BY <1>1 DEF Apply, Verdict
  <2>2. n = Decided(m, {Current(m)}, e.action) /\ {Current(m)} \subseteq Ahead(m)
    BY <2>1, <1>1, Records
  <2>3. DecidedOK(m, {Current(m)}, e.action, n)
    BY <1>1, <2>2, Decides
  <2>4. CASE e.action = "deny"
    BY <2>3, <2>4, DenialFollows
  <2>5. CASE e.action = "approve"
    BY <2>2, <2>3, <2>5, ApprovalKeeps
  <2> QED
    BY <1>1, <2>4, <2>5 DEF Verdict
<1>2. CASE e.action = "allow_tool"
  <2> DEFINE same == {c \in Ahead(m) : ToolName[c] = ToolName[Current(m)]}
  <2>1. n = AllowTool(m)
    BY <1>2 DEF Apply, Verdict
  <2>2. n = Decided(m, same, "approve") /\ same \subseteq Ahead(m)
    BY <2>1, AllowsTool
  <2>3. \A c \in same : ToolName[e.call] = ToolName[c]
    OBVIOUS
  <2> HIDE DEF same
  <2>4. DecidedOK(m, same, "approve", n)
    BY <2>2, Decides DEF Verdict
  <2> QED
    BY <1>2, <2>2, <2>3, <2>4, ApprovalKeeps
<1>3. CASE e.action = "allow_all"
  <2>1. n = AllowAll(m)
    BY <1>3 DEF Apply, Verdict
  <2>2. n = Decided(m, Ahead(m), "approve") /\ Ahead(m) \subseteq Ahead(m)
    BY <2>1, AllowsAll
  <2>3. DecidedOK(m, Ahead(m), "approve", n)
    BY <2>2, Decides DEF Verdict
  <2> QED
    BY <1>3, <2>2, <2>3, ApprovalKeeps
<1>4. CASE e.action = "deny_reason"
  <2>1. n = [m EXCEPT !.deny = TRUE, !.shown = FALSE]
    BY <1>4 DEF Apply, Verdict, DenyReason
  <2>2. n.calls = m.calls /\ n.pos = m.pos /\ n.verdicts = m.verdicts
    BY <2>1 DEF Batch
  <2>3. FollowsAnswers(n.verdicts, answers \union {e})
    <3>1. FollowsAnswers(m.verdicts, answers) /\ e.action # "deny"
      BY <1>4 DEF BatchOK
    <3> QED
      BY <2>2, <3>1, DenialKept
  <2>4. \A s \in answers \union {e} : s.action = "deny" => s \in answers
    BY <1>4
  <2> QED
    BY <2>2, <2>3, <2>4 DEF BatchOK
<1> QED
  BY <1>1, <1>2, <1>3, <1>4 DEF Answer, Action, Verdict

(***************************************************************************)
(* Types of the parts that the actions are built from.                     *)
(***************************************************************************)
LEMMA MessageFacts ==
  ASSUME NEW m \in Message
  PROVE  /\ m.run \in Runs \union {None}
         /\ m.kind = "approval" => m.run \in Runs /\ m.arg \in Seq(Calls)
         /\ m.kind \in {"tool", "result"} => m.arg \in Calls
         /\ m.kind = "option" => m.arg \in Answer
  BY DEF Message, Picks

LEMMA MessageTypes ==
  /\ \A r \in Runs \union {None} :
       \A k \in {"thinking", "text", "compaction", "finished", "error", "escape", "exit"} :
         Msg(k, r, None) \in Message
  /\ \A r \in Runs \union {None}, k \in Picks : Msg(k, r, None) \in Message
  /\ \A r \in Runs, b \in Seq(Calls) : Msg("approval", r, b) \in Message
  /\ \A r \in Runs, c \in Calls, k \in {"tool", "result"} : Msg(k, r, c) \in Message
  /\ \A t \in Acts : Msg("submit", None, t) \in Message
  /\ \A e \in Answer : Msg("option", None, e) \in Message
  BY DEF Message, Msg

LEMMA Fields ==
  ASSUME NEW k, NEW r, NEW a
  PROVE  Msg(k, r, a).kind = k /\ Msg(k, r, a).run = r /\ Msg(k, r, a).arg = a
  BY DEF Msg

\* What is posted is the message or nothing.
LEMMA Posted ==
  ASSUME NEW p, NEW r, NEW m
  PROVE  /\ Post(p, r, m) = <<m>> \/ Post(p, r, m) = <<>>
         /\ p = r \/ p = None => Post(p, r, m) = <<m>>
         /\ p # r /\ p # None => Post(p, r, m) = <<>>
         /\ m \in Message => Post(p, r, m) \in Seq(Message)
  BY DEF Post, IsActive

LEMMA UnbornType ==
  /\ Unborn \in Worker /\ Unborn.cancel = FALSE /\ Unborn.token = FALSE /\ Unborn.open = {}
  /\ Unborn.nested = FALSE /\ Unborn.entered = FALSE /\ Unborn.pc = "unborn" /\ Unborn.events = 0
  /\ Unborn.kind = "none" /\ Unborn.run = None
  BY TuiAssumption, NoVerdictsType DEF Worker, Unborn

\* The view of the conversation after each of its operations.
LEMMA ViewOps ==
  ASSUME NEW v \in View, NEW c \in Calls
  PROVE  /\ OnThinking(v) \in View /\ OnThinking(v).compacting = v.compacting
         /\ OnText(v) \in View /\ OnText(v).compacting = v.compacting
         /\ OnToolCall(v, c) \in View /\ OnToolCall(v, c).compacting = v.compacting
         /\ FinalizeToolCall(v, c) \in View /\ FinalizeToolCall(v, c).compacting = v.compacting
<1>1. v = [phase |-> v.phase, tools |-> v.tools, spin |-> v.spin, compacting |-> v.compacting]
      /\ v.phase \in Phase /\ v.tools \in SUBSET Calls /\ v.spin \in BOOLEAN
      /\ v.compacting \in BOOLEAN
  BY DEF View
<1>2. OnThinking(v) \in View /\ OnThinking(v).compacting = v.compacting
  BY DEF OnThinking, View, Phase
<1>3. OnText(v) \in View /\ OnText(v).compacting = v.compacting
  BY DEF OnText, View, Phase
<1>4. OnToolCall(v, c) \in View /\ OnToolCall(v, c).compacting = v.compacting
  BY DEF OnToolCall, ClosePhase, View, Phase
<1>5. FinalizeToolCall(v, c) \in View /\ FinalizeToolCall(v, c).compacting = v.compacting
  <2> DEFINE live == v.tools \ {c}
             s == v.spin /\ live # {}
  <2>1. FinalizeToolCall(v, c) = [v EXCEPT !.tools = live, !.spin = s]
    BY DEF FinalizeToolCall, View
  <2>2. live \in SUBSET Calls /\ s \in BOOLEAN
    BY <1>1
  <2> HIDE DEF live, s
  <2> QED
    BY <2>1, <2>2 DEF View
<1> QED
  BY <1>2, <1>3, <1>4, <1>5

LEMMA ViewClosings ==
  ASSUME NEW v \in View
  PROVE  /\ ClosePhase(v) \in View /\ ClosePhase(v).phase = "none" /\ ClosePhase(v).tools = v.tools
         /\ ClosePhase(v).spin = v.spin /\ ClosePhase(v).compacting = v.compacting
         /\ StartCompaction(v) \in View /\ StartCompaction(v).phase = "none"
         /\ StartCompaction(v).tools = v.tools /\ StartCompaction(v).spin = v.spin
         /\ SettleCompaction(v) \in View /\ SettleCompaction(v).phase = v.phase
         /\ SettleCompaction(v).tools = v.tools /\ SettleCompaction(v).spin = v.spin
         /\ SettleCompaction(v).compacting = FALSE
         /\ Finish(v) \in View /\ Finish(v).phase = "none" /\ Finish(v).tools = {}
         /\ Finish(v).spin = FALSE /\ Finish(v).compacting = FALSE
<1>1. /\ ClosePhase(v) \in View /\ ClosePhase(v).phase = "none" /\ ClosePhase(v).tools = v.tools
      /\ ClosePhase(v).spin = v.spin /\ ClosePhase(v).compacting = v.compacting
  BY DEF ClosePhase, View, Phase
<1>2. /\ StartCompaction(v) \in View /\ StartCompaction(v).phase = "none"
      /\ StartCompaction(v).tools = v.tools /\ StartCompaction(v).spin = v.spin
  BY DEF StartCompaction, ClosePhase, View, Phase
<1>3. /\ SettleCompaction(v) \in View /\ SettleCompaction(v).phase = v.phase
      /\ SettleCompaction(v).tools = v.tools /\ SettleCompaction(v).spin = v.spin
      /\ SettleCompaction(v).compacting = FALSE
  BY DEF SettleCompaction, View, Phase
<1>4. /\ Finish(v) \in View /\ Finish(v).phase = "none" /\ Finish(v).tools = {}
      /\ Finish(v).spin = FALSE /\ Finish(v).compacting = FALSE
  BY DEF Finish, SettleCompaction, ClosePhase, View, Phase
<1> QED
  BY <1>1, <1>2, <1>3, <1>4

LEMMA FreshViewType == FreshView \in View
  BY DEF FreshView, View, Phase

(***************************************************************************)
(* One holder of the foreground, step by step.  The lemmas of this part    *)
(* say what kinds of steps there are, and that each keeps Held.            *)
(***************************************************************************)
\* Every message is one that a worker shows of its Run.
AllParts(s) == \A i \in 1..Len(s) : s[i].kind \in Parts

LEMMA PartsLack ==
  ASSUME NEW s, AllParts(s)
  PROVE  /\ Lacks(s, Closing) /\ Lacks(s, Picks) /\ Lacks(s, {"submit"}) /\ Lacks(s, {"option"})
         /\ Lacks(s, {"finished"}) /\ Lacks(s, {"escape"}) /\ Lacks(s, {"compaction"})
  BY DEF AllParts, Lacks, Parts, Closing, Picks

LEMMA LackingIsOrdered ==
  ASSUME NEW q, NEW K, Lacks(q, K)
  PROVE  /\ Once(q, K)
         /\ \A L : InFront(q, K, L) /\ InFront(q, L, K)
  BY DEF Lacks, Once, InFront

LEMMA LacksOption == ASSUME NEW q, Lacks(q, {"option"}) PROVE \A c : AnswersTo(q, c)
  BY DEF Lacks, AnswersTo

LEMMA LacksPick == ASSUME NEW q, Lacks(q, Picks) PROVE ~RunPicked(q)
  BY DEF Lacks, RunPicked

LEMMA LacksClosing ==
  ASSUME NEW q, Lacks(q, Closing)
  PROVE  /\ Lacks(q, {"finished"}) /\ Lacks(q, {"error"}) /\ Lacks(q, {"finished", "error"})
         /\ \A r : ~HaltOf(q, r)
         /\ \A h : TrueBatches(q, h)
  BY DEF Lacks, HaltOf, TrueBatches, Closing

LEMMA OrderedParts ==
  ASSUME NEW q \in Seq(Message), NEW s \in Seq(Message), AllParts(s), Ordered(q), Lacks(q, Closing)
  PROVE  Ordered(q \o s)
<1>1. Lacks(s, Closing) /\ Lacks(s, Picks) /\ Lacks(s, {"submit"}) /\ Lacks(s, {"option"})
      /\ Lacks(s, {"finished"})
  BY PartsLack
<1>2. /\ Once(s, Closing) /\ Once(s, {"submit"}) /\ Once(s, {"option"})
      /\ InFront(s, Picks, {"submit"}) /\ InFront(s, Closing, {"submit"})
      /\ InFront(s, {"submit"}, {"option"}) /\ InFront(s, Parts, {"finished"})
  BY <1>1, LackingIsOrdered
<1>3. Lacks(q, {"finished"})
  BY LacksClosing
<1> QED
  BY <1>1, <1>2, <1>3, Behind DEF Ordered

\* The first message is taken, and nothing else that Held is about changes.
LEMMA HeldDropped ==
  ASSUME queue \in Seq(Message), queue # <<>>, Held, queue' = Tail(queue),
         app'.input = app.input, app'.picker = app.picker, app'.launch = app.launch,
         menu' = menu, worker' = worker, active' = active,
         fg' = fg \/ \A u \in Workers : ~Alive(u)
  PROVE  Held'
<1>q. /\ \A K : Lacks(queue, K) => Lacks(queue', K)
      /\ Ordered(queue) => Ordered(queue')
      /\ \A K : Once(queue, K) => Once(queue', K)
      /\ \A K, L : InFront(queue, K, L) => InFront(queue', K, L)
      /\ RunPicked(queue') => RunPicked(queue)
  BY TailKinds
<1>1. \A w \in Workers : Alive(w)' => WorkerHolds(w)'
  BY <1>q DEF Held, WorkerHolds, Alive, Driving, Pending
<1>2. ~Lacks(queue', Closing) => ClosingHolds'
  BY <1>q DEF Held, ClosingHolds, Pending
<1>3. Pending' => BatchHolds'
  BY <1>q DEF Held, BatchHolds, Pending
<1>4. app'.picker # "none" => PickerHolds'
  BY <1>q DEF Held, PickerHolds
<1>5. app'.launch = "none"
  BY DEF Held
<1>6. ~Lacks(queue', {"option"}) \/ menu'.shown \/ menu'.deny => Pending'
  BY <1>q DEF Held, Pending
<1>7. RunPicked(queue') => RunPickHolds'
  BY <1>q DEF Held, RunPickHolds
<1>8. Ordered(queue')
  BY <1>q DEF Held
<1> QED
  BY <1>1, <1>2, <1>3, <1>4, <1>5, <1>6, <1>7, <1>8 DEF Held

\* A worker does a step of its Run, and is alive before and after.
LEMMA HeldWorking ==
  ASSUME NEW w \in Workers, NEW s \in Seq(Message), queue \in Seq(Message), Held,
         Alive(w), AllParts(s), queue' = queue \o s, app' = app, menu' = menu, fg'.busy,
         \A u \in Workers : u # w => worker'[u] = worker[u],
         Driving(w)' => /\ fg'.token = w /\ active' # None
                        /\ worker'[w].pc = "approving" => fg'.run = worker'[w].run
                        /\ worker'[w].pc = "advancing" /\ worker'[w].cancel => worker'[w].token
  PROVE  Held'
<1>w. WorkerHolds(w)
  BY DEF Held
<1>s. /\ Lacks(s, Closing) /\ Lacks(s, Picks) /\ Lacks(s, {"submit"}) /\ Lacks(s, {"option"})
  BY PartsLack
<1>q. /\ Lacks(queue', Closing) /\ Lacks(queue', Picks)
      /\ Lacks(queue', {"submit"}) /\ Lacks(queue', {"option"})
  BY <1>w, <1>s, Behind DEF WorkerHolds
<1>1. \A u \in Workers : Alive(u)' => WorkerHolds(u)'
  <2> SUFFICES ASSUME NEW u \in Workers, Alive(u)' PROVE WorkerHolds(u)'
    OBVIOUS
  <2>1. \A v \in Workers : Alive(v)' => v = w
    BY <1>w DEF WorkerHolds, Alive
  <2>2. u = w
    BY <2>1
  <2> QED
    BY <1>w, <1>q, <2>1, <2>2 DEF WorkerHolds, Pending
<1>2. ~Pending' /\ app'.picker = "none" /\ app'.launch = "none"
  BY <1>w DEF WorkerHolds, Pending
<1>3. ~menu'.shown /\ ~menu'.deny
  BY <1>w DEF WorkerHolds, Held
<1>4. Ordered(queue')
  BY <1>w, OrderedParts DEF Held, WorkerHolds
<1>5. ~RunPicked(queue')
  BY <1>q, LacksPick
<1> QED
  BY <1>1, <1>2, <1>3, <1>4, <1>5, <1>q DEF Held

\* A worker leaves; what it posts last closes it.
LEMMA HeldLeaving ==
  ASSUME NEW w \in Workers, NEW s \in Seq(Message), queue \in Seq(Message), Held,
         Alive(w), s = <<>> \/ (\E m \in Message : s = <<m>> /\ m.kind \in Closing),
         queue' = queue \o s, app' = app, menu' = menu,
         \A u \in Workers : u # w => worker'[u] = worker[u], worker'[w].pc = "gone"
  PROVE  Held'
<1>w. WorkerHolds(w)
  BY DEF Held
<1>s. /\ Lacks(s, Picks) /\ Lacks(s, {"submit"}) /\ Lacks(s, {"option"}) /\ Lacks(s, Parts)
      /\ Once(s, Closing)
  BY OneMessage, NoMessage, ZenonT(30) DEF Picks, Closing, Parts
<1>q. /\ Lacks(queue', Picks) /\ Lacks(queue', {"submit"}) /\ Lacks(queue', {"option"})
  BY <1>w, <1>s, Behind DEF WorkerHolds
<1>1. \A u \in Workers : ~Alive(u)'
  BY <1>w DEF WorkerHolds, Alive
<1>2. ~Pending' /\ app'.picker = "none" /\ app'.launch = "none" /\ ~app'.input
  BY <1>w DEF WorkerHolds, Pending
<1>3. ~menu'.shown /\ ~menu'.deny
  BY <1>w DEF WorkerHolds, Held
<1>4. Ordered(queue')
  <2>1. /\ Once(s, {"submit"}) /\ Once(s, {"option"})
        /\ InFront(s, Picks, {"submit"}) /\ InFront(s, Closing, {"submit"})
        /\ InFront(s, {"submit"}, {"option"}) /\ InFront(s, Parts, {"finished"})
    BY <1>s, LackingIsOrdered
  <2>2. Lacks(queue, Closing) /\ Lacks(queue, {"submit"}) /\ Ordered(queue)
    BY <1>w DEF WorkerHolds, Held
  <2> QED
    BY <1>s, <2>1, <2>2, Behind DEF Ordered
<1>5. ~RunPicked(queue')
  BY <1>q, LacksPick
<1> QED
  BY <1>1, <1>2, <1>3, <1>4, <1>5, <1>q DEF Held, ClosingHolds

\* A worker is started: nobody held the foreground, or whoever did handed it over.
LEMMA HeldStarting ==
  ASSUME NEW w \in Workers, \A u \in Workers : ~Alive(u),
         \A u \in Workers : u # w => worker'[u] = worker[u], ~Driving(w)',
         Lacks(queue', Closing), Lacks(queue', Picks),
         Lacks(queue', {"submit"}), Lacks(queue', {"option"}), Ordered(queue'),
         fg'.busy, ~app'.input, app'.picker = "none", app'.launch = "none",
         menu'.run = None, ~menu'.shown, ~menu'.deny
  PROVE  Held'
<1>1. \A u \in Workers : Alive(u)' => u = w
  BY DEF Alive
<1>2. ~Pending'
  BY DEF Pending
<1>3. \A u \in Workers : Alive(u)' => WorkerHolds(u)'
  BY <1>1, <1>2 DEF WorkerHolds
<1>4. ~RunPicked(queue')
  BY LacksPick
<1> QED
  BY <1>2, <1>3, <1>4 DEF Held

\* The token and the cancellation are all that changes of the workers.
Flagged ==
    /\ worker' \in [Workers -> Worker]
    /\ \A u \in Workers :
         /\ worker'[u].kind = worker[u].kind /\ worker'[u].run = worker[u].run
         /\ worker'[u].pc = worker[u].pc /\ worker'[u].verdicts = worker[u].verdicts
         /\ worker'[u].entered = worker[u].entered
         /\ worker[u].token => worker'[u].token
         /\ worker'[u].cancel => worker[u].cancel \/ u # fg.token \/ worker'[u].token

LEMMA HeldFlagged ==
  ASSUME Held, app.launch = "none", app'.launch = "none", app'.input = app.input,
         app'.picker = app.picker, menu' = menu, fg' = fg, active' = active, Flagged,
         \A K \in {Closing, Picks, {"submit"}, {"option"}, {"finished", "error"}} :
            Lacks(queue, K) => Lacks(queue', K),
         Once(queue, Picks) => Once(queue', Picks),
         InFront(queue, Picks, {"escape"}) => InFront(queue', Picks, {"escape"}),
         Ordered(queue'), RunPicked(queue') => RunPicked(queue)
  PROVE  Held'
<1>q. /\ Lacks(queue, Closing) => Lacks(queue', Closing)
      /\ Lacks(queue, Picks) => Lacks(queue', Picks)
      /\ Lacks(queue, {"submit"}) => Lacks(queue', {"submit"})
      /\ Lacks(queue, {"option"}) => Lacks(queue', {"option"})
      /\ Lacks(queue, {"finished", "error"}) => Lacks(queue', {"finished", "error"})
  OBVIOUS
<1>1. ASSUME NEW w \in Workers, Alive(w)' PROVE WorkerHolds(w)'
  <2>1. Alive(w) /\ \A u \in Workers : Alive(u)' => Alive(u)
    BY <1>1 DEF Alive, Flagged
  <2>2. WorkerHolds(w)
    BY <2>1 DEF Held
  <2>3. /\ \A u \in Workers : Alive(u)' => u = w
        /\ fg'.busy /\ ~app'.input /\ app'.picker = "none" /\ app'.launch = "none" /\ ~Pending'
        /\ Lacks(queue', Closing) /\ Lacks(queue', Picks)
        /\ Lacks(queue', {"submit"}) /\ Lacks(queue', {"option"})
    BY <2>1, <2>2, <1>q DEF WorkerHolds, Pending
  <2>4. ASSUME Driving(w)'
        PROVE  /\ fg'.token = w /\ active' # None
               /\ worker'[w].pc = "approving" => fg'.run = worker'[w].run
               /\ worker'[w].pc = "advancing" /\ worker'[w].cancel => worker'[w].token
    <3>1. Driving(w)
      BY <2>4 DEF Driving, Flagged
    <3> QED
      BY <3>1, <2>2 DEF WorkerHolds, Flagged
  <2> QED
    BY <2>3, <2>4 DEF WorkerHolds
<1>2. ~Lacks(queue', Closing) => ClosingHolds'
  BY <1>q DEF Held, ClosingHolds, Pending
<1>3. Pending' => BatchHolds'
  BY <1>q DEF Held, BatchHolds, Pending
<1>4. app'.picker # "none" => PickerHolds'
  BY <1>q DEF Held, PickerHolds
<1>6. ~Lacks(queue', {"option"}) \/ menu'.shown \/ menu'.deny => Pending'
  BY <1>q DEF Held, Pending
<1>7. RunPicked(queue') => RunPickHolds'
  BY DEF Held, RunPickHolds
<1> QED
  BY <1>1, <1>2, <1>3, <1>4, <1>6, <1>7 DEF Held

(***************************************************************************)
(* The operations that several actions share.                              *)
(***************************************************************************)
\* The facts that say what the type of a part of the state is.
LEMMA Types ==
  ASSUME Typed
  PROVE  /\ app \in App /\ view \in View /\ active \in Runs \union {None}
         /\ fg \in [busy : BOOLEAN, run : Runs \union {None}, token : Workers \union {NoWorker}]
         /\ sd \in [requested : BOOLEAN, done : BOOLEAN, attached : Workers \union {NoWorker}]
         /\ worker \in [Workers -> Worker]
         /\ row \in [Runs -> {"absent", "running", "waiting_for_approval", "completed",
                              "failed", "cancelled"}]
         /\ acts \in 0..MaxActs /\ said \subseteq Answer
         /\ astray \subseteq {"configuring", "refused", "approving", "compacting"}
         /\ menu \in Batch /\ menu.pos \in 1..Len(menu.calls) + 1
         /\ halted \in [Runs -> Seq(Calls)] /\ closings \in [Workers -> Nat]
         /\ queue \in Seq(Message)
  BY DEF Typed, TypeOK, Answer

\* The worker w has been started (or is gone at once), and the application shows it.
Started(w, a, k, r, vs) ==
    /\ w \in Workers /\ worker[w].pc = "unborn"
    /\ worker' \in [Workers -> Worker] /\ \A u \in Workers : u # w => worker'[u] = worker[u]
    /\ worker'[w].kind = k /\ worker'[w].run = r /\ worker'[w].verdicts = vs
    /\ ~worker'[w].entered
    /\ worker'[w].pc = IF sd.requested THEN "gone"
                       ELSE IF k = "compact" THEN "compacting" ELSE "configuring"
    /\ app' \in App /\ app'.worker = w /\ ~app'.input /\ app'.bar = "working"
    /\ app'.picker = a.picker /\ app'.launch = a.launch
    /\ sd' \in [requested : BOOLEAN, done : BOOLEAN, attached : Workers \union {NoWorker}]
    /\ sd'.requested = sd.requested
    /\ view' \in View /\ view'.phase = "none" /\ view'.tools = view.tools /\ view'.spin = view.spin
    /\ k # "compact" => view'.compacting = view.compacting

LEMMA Starts ==
  ASSUME Typed, NEW a \in App, NEW k \in {"start", "continue", "approve", "compact"},
         NEW r \in Runs \union {None}, NEW prompted \in BOOLEAN,
         NEW vs \in UNION {[cs -> Verdict] : cs \in SUBSET Calls},
         Start(a, k, r, prompted, vs)
  PROVE  \E w \in Workers : Started(w, a, k, r, vs)
<1>t. /\ view \in View /\ worker \in [Workers -> Worker]
      /\ sd \in [requested : BOOLEAN, done : BOOLEAN, attached : Workers \union {NoWorker}]
  BY Types
<1> DEFINE first == IF sd.requested THEN "gone"
                    ELSE IF k = "compact" THEN "compacting" ELSE "configuring"
           born == [Unborn EXCEPT !.kind = k, !.run = r, !.pc = first,
                                  !.prompt = prompted, !.verdicts = vs]
<1>1. PICK w \in Workers :
        /\ worker[w].pc = "unborn"
        /\ worker' = [worker EXCEPT ![w] = born]
        /\ sd' = IF sd.requested THEN sd ELSE [sd EXCEPT !.attached = w]
        /\ app' = [a EXCEPT !.worker = w, !.input = FALSE, !.bar = "working"]
        /\ view' = IF first = "compacting" THEN StartCompaction(view) ELSE ClosePhase(view)
  BY Zenon DEF Start, Newborn
<1>f. first \in {"gone", "compacting", "configuring"} /\ (k # "compact" => first # "compacting")
  OBVIOUS
<1>2. /\ born \in Worker /\ born.kind = k /\ born.run = r /\ born.pc = first
      /\ born.verdicts = vs /\ born.entered = FALSE
  <2> HIDE DEF first
  <2> QED
    BY <1>f, UnbornType, ZenonT(30) DEF Worker
<1> HIDE DEF born
<1>3. /\ worker' \in [Workers -> Worker] /\ worker'[w] = born
      /\ \A u \in Workers : u # w => worker'[u] = worker[u]
  BY <1>1, <1>2, <1>t
<1>4. /\ app' \in App /\ app'.worker = w /\ app'.input = FALSE /\ app'.bar = "working"
      /\ app'.picker = a.picker /\ app'.launch = a.launch
  BY <1>1 DEF App
<1>5. /\ sd' \in [requested : BOOLEAN, done : BOOLEAN, attached : Workers \union {NoWorker}]
      /\ sd'.requested = sd.requested
  BY <1>1, <1>t
<1>6. /\ view' \in View /\ view'.phase = "none" /\ view'.tools = view.tools /\ view'.spin = view.spin
      /\ k # "compact" => view'.compacting = view.compacting
  <2> HIDE DEF first
  <2> QED
    BY <1>1, <1>f, <1>t, ViewClosings
<1> QED
  BY <1>1, <1>2, <1>3, <1>4, <1>5, <1>6 DEF Started, first

\* A worker that did not change.
LEMMA SameWorker ==
  ASSUME NEW u \in Workers, worker'[u] = worker[u]
  PROVE  /\ Alive(u)' <=> Alive(u)
         /\ Driving(u)' <=> Driving(u)
         /\ WorkerOK(u) => WorkerOK(u)'
  BY DEF Alive, Driving, WorkerOK

LEMMA StartedOK ==
  ASSUME Typed, NEW w \in Workers, NEW a,
         NEW k \in {"start", "continue", "approve", "compact"},
         NEW r \in Runs \union {None}, NEW vs, k # "start" => r \in Runs,
         Started(w, a, k, r, vs)
  PROVE  \A u \in Workers : WorkerOK(u)'
<1>1. ASSUME NEW u \in Workers, u # w PROVE WorkerOK(u)'
  <2>1. worker'[u] = worker[u] /\ WorkerOK(u)
    BY <1>1 DEF Started, Typed
  <2> QED
    BY <2>1, SameWorker
<1>2. WorkerOK(w)'
  BY DEF WorkerOK, Started, Alive
<1> QED
  BY <1>1, <1>2

\* The Run in flight is cancelled: its token before the Task.
LEMMA CancelRunFlags ==
  ASSUME Typed, NEW task, worker' = CancelRun(task)
  PROVE  Flagged
<1>t. worker \in [Workers -> Worker]
  BY Types
<1> DEFINE t(u) == worker[u].token \/ u = fg.token
           c(u) == worker[u].cancel \/ (u = task /\ Alive(u))
<1>1. ASSUME NEW u \in Workers
      PROVE  worker'[u] = [worker[u] EXCEPT !.token = t(u), !.cancel = c(u)]
  BY <1>t DEF CancelRun, Worker
<1>2. worker' = [u \in Workers |-> worker'[u]]
  BY DEF CancelRun
<1>3. \A u \in Workers : t(u) \in BOOLEAN /\ c(u) \in BOOLEAN /\ worker[u] \in Worker
  BY <1>t DEF Worker
<1>4. ASSUME NEW u \in Workers
      PROVE  /\ worker'[u] \in Worker
             /\ worker'[u].kind = worker[u].kind /\ worker'[u].run = worker[u].run
             /\ worker'[u].pc = worker[u].pc /\ worker'[u].verdicts = worker[u].verdicts
             /\ worker'[u].entered = worker[u].entered
             /\ worker'[u].token = t(u) /\ worker'[u].cancel = c(u)
  <2> DEFINE x == worker[u]
             b == t(u)
             d == c(u)
  <2>1. x \in Worker /\ b \in BOOLEAN /\ d \in BOOLEAN /\ worker'[u] = [x EXCEPT !.token = b, !.cancel = d]
    BY <1>1, <1>3
  <2> HIDE DEF x, b, d
  <2>2. LET y == [x EXCEPT !.token = b, !.cancel = d] IN
        /\ y \in Worker /\ y.kind = x.kind /\ y.run = x.run /\ y.pc = x.pc
        /\ y.verdicts = x.verdicts /\ y.entered = x.entered /\ y.token = b /\ y.cancel = d
    BY <2>1 DEF Worker
  <2> QED
    BY <2>1, <2>2 DEF x, b, d
<1>5. \A u \in Workers : /\ worker[u].token => worker'[u].token
                         /\ worker'[u].cancel => worker[u].cancel \/ u # fg.token \/ worker'[u].token
  BY <1>4
<1>6. worker' \in [Workers -> Worker]
  BY <1>2, <1>4
<1> QED
  BY <1>4, <1>5, <1>6 DEF Flagged

LEMMA FlaggedOK ==
  ASSUME Flagged, \A u \in Workers : WorkerOK(u)
  PROVE  /\ \A u \in Workers : WorkerOK(u)'
         /\ \A u \in Workers : (Alive(u)' <=> Alive(u)) /\ (Driving(u)' <=> Driving(u))
  BY DEF Flagged, WorkerOK, Alive, Driving

\* Shutdown is asked for: flags of the workers, and the row of the Run in flight.
LEMMA ShutdownRequested ==
  ASSUME Typed, RequestShutdown
  PROVE  /\ Flagged /\ sd'.requested = TRUE
         /\ sd' \in [requested : BOOLEAN, done : BOOLEAN, attached : Workers \union {NoWorker}]
         /\ row' \in [Runs -> {"absent", "running", "waiting_for_approval", "completed",
                               "failed", "cancelled"}]
         /\ \A r \in Runs : row'[r] = row[r] \/ row'[r] = "cancelled"
<1>t. /\ sd \in [requested : BOOLEAN, done : BOOLEAN, attached : Workers \union {NoWorker}]
      /\ worker \in [Workers -> Worker]
      /\ row \in [Runs -> {"absent", "running", "waiting_for_approval", "completed",
                           "failed", "cancelled"}]
  BY Types
<1>1. CASE sd.done
  <2>1. sd' = [sd EXCEPT !.requested = TRUE] /\ worker' = worker /\ row' = row
    BY <1>1 DEF RequestShutdown
  <2>2. Flagged
    BY <1>t, <2>1 DEF Flagged
  <2> QED
    BY <1>t, <2>1, <2>2
<1>2. CASE ~sd.done
  <2>1. /\ sd' = [requested |-> TRUE, done |-> TRUE, attached |-> NoWorker]
        /\ worker' = CancelRun(sd.attached)
        /\ row' = [r \in Runs |-> IF r = fg.run /\ row[r] = "running" THEN "cancelled" ELSE row[r]]
    BY <1>2 DEF RequestShutdown
  <2>2. Flagged
    BY <2>1, CancelRunFlags
  <2>3. /\ row' \in [Runs -> {"absent", "running", "waiting_for_approval", "completed",
                              "failed", "cancelled"}]
        /\ \A r \in Runs : row'[r] = row[r] \/ row'[r] = "cancelled"
    BY <1>t, <2>1
  <2> QED
    BY <2>1, <2>2, <2>3
<1> QED
  BY <1>1, <1>2

\* A worker sends what does not close it, or one message that does.
LEMMA Sends ==
  ASSUME Typed, NEW w \in Workers, NEW s \in Seq(Message), Send(w, s)
  PROVE  /\ queue' = queue \o s /\ queue' \in Seq(Message)
         /\ closings' \in [Workers -> Nat]
         /\ \A u \in Workers : u # w => closings'[u] = closings[u]
         /\ Lacks(s, Closing) => closings'[w] = closings[w]
         /\ (\E m : s = <<m>> /\ m.kind \in Closing) => closings'[w] = closings[w] + 1
<1>t. queue \in Seq(Message) /\ closings \in [Workers -> Nat]
  BY Types
<1> DEFINE C == {i \in 1..Len(s) : s[i].kind \in Closing}
           n == Cardinality(C)
<1>1. queue' = queue \o s /\ closings' = [closings EXCEPT ![w] = closings[w] + n]
  BY <1>t DEF Send
<1>2. n \in Nat
  <2>1. IsFiniteSet(1..Len(s)) /\ C \subseteq 1..Len(s)
    <3>1. Len(s) \in Nat
      OBVIOUS
    <3> QED
      BY <3>1, FS_Interval
  <2> QED
    BY <2>1, FS_Subset, FS_CardinalityType
<1>3. Lacks(s, Closing) => n = 0
  <2>1. Lacks(s, Closing) => C = {}
    BY DEF Lacks
  <2> QED
    BY <2>1, FS_EmptySet
<1>4. (\E m : s = <<m>> /\ m.kind \in Closing) => n = 1
  <2>1. (\E m : s = <<m>> /\ m.kind \in Closing) => C = {1}
    OBVIOUS
  <2> QED
    BY <2>1, FS_Singleton
<1> HIDE DEF n
<1> QED
  BY <1>t, <1>1, <1>2, <1>3, <1>4, Behind

\* A worker returns.
LEMMA Goes ==
  ASSUME Typed, NEW w \in Workers, Gone(w)
  PROVE  /\ worker' \in [Workers -> Worker] /\ \A u \in Workers : u # w => worker'[u] = worker[u]
         /\ worker'[w].pc = "gone" /\ worker'[w].kind = worker[w].kind
         /\ worker'[w].run = worker[w].run /\ worker'[w].entered = worker[w].entered
         /\ worker'[w].verdicts = worker[w].verdicts
         /\ \A u \in Workers : WorkerOK(u)'
<1>t. worker \in [Workers -> Worker] /\ \A u \in Workers : WorkerOK(u)
  BY Types DEF Typed
<1> DEFINE x == [worker[w] EXCEPT !.pc = "gone", !.open = {}, !.nested = FALSE]
<1>1. worker' = [worker EXCEPT ![w] = x]
  BY <1>t DEF Gone
<1>2. /\ x \in Worker /\ x.pc = "gone" /\ x.kind = worker[w].kind /\ x.run = worker[w].run
      /\ x.entered = worker[w].entered /\ x.verdicts = worker[w].verdicts
  <2> DEFINE y == worker[w]
  <2>1. y \in Worker
    BY <1>t
  <2> HIDE DEF y
  <2>2. LET z == [y EXCEPT !.pc = "gone", !.open = {}, !.nested = FALSE] IN
        /\ z \in Worker /\ z.pc = "gone" /\ z.kind = y.kind /\ z.run = y.run
        /\ z.entered = y.entered /\ z.verdicts = y.verdicts
    BY <2>1 DEF Worker
  <2> QED
    BY <2>2 DEF y
<1> HIDE DEF x
<1>3. /\ worker' \in [Workers -> Worker] /\ worker'[w] = x
      /\ \A u \in Workers : u # w => worker'[u] = worker[u]
  BY <1>t, <1>1, <1>2
<1>4. WorkerOK(w)'
  BY <1>t, <1>2, <1>3 DEF WorkerOK, Alive
<1>5. \A u \in Workers : WorkerOK(u)'
  BY <1>t, <1>3, <1>4, SameWorker
<1> QED
  BY <1>2, <1>3, <1>5

(***************************************************************************)
(* The batch and its answers, by kinds of steps.                           *)
(***************************************************************************)
LEMMA NothingDecided == ASSUME NEW answers PROVE FollowsAnswers(NoVerdicts, answers)
  BY DEF FollowsAnswers, NoVerdicts

\* Neither the batch nor the answers change.
LEMMA AnsweredFrame ==
  ASSUME Answered, menu' = menu, said' = said, halted' = halted,
         \A u \in Workers : /\ worker'[u].kind = worker[u].kind /\ worker'[u].pc = worker[u].pc
                            /\ worker'[u].run = worker[u].run
                            /\ worker'[u].verdicts = worker[u].verdicts,
         TrueBatches(queue', halted), AnswersTo(queue', Current(menu)),
         ~Lacks(queue', {"option"}) => menu.shown
  PROVE  Answered'
<1>1. VerdictsAreTheUsers'
  BY DEF Answered, VerdictsAreTheUsers
<1> QED
  BY <1>1 DEF Answered, Pending

\* A worker does a step: no batch waits, and it is no longer on its way to one.
LEMMA AnsweredByWorker ==
  ASSUME NEW w \in Workers, NEW s \in Seq(Message), queue \in Seq(Message), Held, Answered,
         Alive(w), Lacks(s, {"option"}), TrueBatches(s, halted'),
         \A r \in Runs : Distinct(halted'[r]),
         queue' = queue \o s, menu' = menu, said' = said,
         \A u \in Workers : u # w => worker'[u] = worker[u], worker'[w].pc # "configuring"
  PROVE  Answered'
<1>w. WorkerHolds(w)
  BY DEF Held
<1>1. TrueBatches(queue', halted') /\ Lacks(queue', {"option"})
  <2>1. TrueBatches(queue, halted') /\ Lacks(queue, {"option"})
    BY <1>w, LacksClosing DEF WorkerHolds
  <2> QED
    BY <2>1, Behind
<1>2. \A c : AnswersTo(queue', c)
  BY <1>1, LacksOption
<1>3. VerdictsAreTheUsers'
  <2>1. \A u \in Workers : worker'[u].pc # "configuring"
    BY <1>w DEF WorkerHolds, Alive
  <2> QED
    BY <2>1 DEF VerdictsAreTheUsers, Answered
<1>4. ~Pending' /\ ~Pending
  BY <1>w DEF WorkerHolds, Pending
<1> QED
  BY <1>1, <1>2, <1>3, <1>4 DEF Answered

\* A worker is started; to approve, it takes the verdicts of the batch.
LEMMA AnsweredStarting ==
  ASSUME Answered, \A u \in Workers : ~Alive(u), halted' = halted,
         NEW w, NEW a, NEW k, NEW r, NEW vs, Started(w, a, k, r, vs),
         Lacks(queue', Closing), Lacks(queue', {"option"}),
         menu'.run = None, menu'.verdicts = NoVerdicts, ~menu'.shown, ~menu'.deny,
         k = "approve" => /\ FollowsAnswers(vs, said')
                          /\ DOMAIN vs = {halted[r][i] : i \in 1..Len(halted[r])}
  PROVE  Answered'
<1>1. /\ \A c : AnswersTo(queue', c)
      /\ TrueBatches(queue', halted')
  BY LacksOption, LacksClosing
<1>2. FollowsAnswers(menu'.verdicts, said')
  BY NothingDecided
<1>3. ASSUME NEW u \in Workers, worker'[u].kind = "approve", worker'[u].pc = "configuring"
      PROVE  /\ FollowsAnswers(worker'[u].verdicts, said')
             /\ DOMAIN worker'[u].verdicts =
                  {halted'[worker'[u].run][i] : i \in 1..Len(halted'[worker'[u].run])}
  <2>1. u = w
    BY <1>3 DEF Started, Alive
  <2>2. worker'[u].verdicts = vs /\ worker'[u].run = r /\ k = "approve"
    BY <1>3, <2>1 DEF Started
  <2> QED
    BY <2>2
<1>4. VerdictsAreTheUsers'
  BY <1>2, <1>3 DEF VerdictsAreTheUsers
<1> QED
  BY <1>1, <1>4 DEF Answered, Pending

(***************************************************************************)
(* The stored Runs, by kinds of steps.                                     *)
(***************************************************************************)
\* The workers go on as they are.
LEMMA DrivenFrame ==
  ASSUME Typed, Driven,
         \A u \in Workers : /\ worker'[u].pc = worker[u].pc /\ worker'[u].run = worker[u].run
                            /\ worker'[u].entered = worker[u].entered,
         \A r \in Runs : row'[r] = row[r] \/ row'[r] # "running"
  PROVE  Driven'
<1> SUFFICES ASSUME NEW w \in Workers, worker'[w].entered, row'[worker'[w].run] = "running"
             PROVE  \E u \in Workers : Driving(u)' /\ worker'[u].run = worker'[w].run
  BY DEF Driven
<1>1. worker[w].entered /\ worker[w].run \in Runs /\ worker'[w].run = worker[w].run
  BY DEF Typed, WorkerOK
<1>2. row[worker[w].run] = "running"
  BY <1>1
<1>3. PICK u \in Workers : Driving(u) /\ worker[u].run = worker[w].run
  BY <1>1, <1>2 DEF Driven
<1>4. Driving(u)' /\ worker'[u].run = worker'[w].run
  BY <1>1, <1>3 DEF Driving
<1> QED
  BY <1>4

LEMMA DrivenStarting ==
  ASSUME Typed, Driven, \A u \in Workers : ~Alive(u), row' = row,
         NEW w, NEW a, NEW k, NEW r, NEW vs, Started(w, a, k, r, vs)
  PROVE  Driven'
<1>1. \A u \in Workers : ~Driving(u)
  BY DEF Driving, Alive
<1>2. \A u \in Workers : ~(worker[u].entered /\ row[worker[u].run] = "running")
  BY <1>1 DEF Driven
<1>3. \A u \in Workers : ~(worker'[u].entered /\ row'[worker'[u].run] = "running")
  BY <1>2 DEF Started
<1> QED
  BY <1>3 DEF Driven

\* The one worker does a step: it goes on driving its Run or leaves it not RUNNING.
LEMMA DrivenByWorker ==
  ASSUME NEW w \in Workers, Driven,
         \A u \in Workers : u # w => worker'[u] = worker[u],
         \A u \in Workers : worker'[u].entered => worker'[u].run \in Runs,
         \A r \in Runs : row'[r] = "running" =>
            row[r] = "running" \/ (Driving(w)' /\ r = worker'[w].run),
         Driving(w) => /\ worker'[w].run = worker[w].run
                       /\ Driving(w)' \/ row'[worker[w].run] # "running",
         worker'[w].entered =>
            Driving(w)' \/ (worker[w].entered /\ worker'[w].run = worker[w].run)
  PROVE  Driven'
<1> SUFFICES ASSUME NEW u \in Workers, worker'[u].entered, row'[worker'[u].run] = "running"
             PROVE  \E d \in Workers : Driving(d)' /\ worker'[d].run = worker'[u].run
  BY DEF Driven
<1>1. CASE Driving(w)' /\ worker'[u].run = worker'[w].run
  BY <1>1
<1>2. CASE ~(Driving(w)' /\ worker'[u].run = worker'[w].run)
  <2>1. worker[u].entered /\ worker'[u].run = worker[u].run /\ worker'[u].run \in Runs
    BY <1>2
  <2>2. row[worker[u].run] = "running"
    BY <1>2, <2>1
  <2>3. PICK d \in Workers : Driving(d) /\ worker[d].run = worker[u].run
    BY <2>1, <2>2 DEF Driven
  <2>4. CASE d = w
    BY <1>2, <2>1, <2>3, <2>4
  <2>5. CASE d # w
    BY <2>1, <2>3, <2>5, SameWorker
  <2> QED
    BY <2>4, <2>5
<1> QED
  BY <1>1, <1>2

(***************************************************************************)
(* What is left behind, by kinds of steps.                                 *)
(***************************************************************************)
\* The workers go on as they are, and nothing that matters is taken from the queue.
LEMMA LeftFrame ==
  ASSUME Left, closings' = closings, astray' = astray,
         \A u \in Workers : /\ worker'[u].pc = worker[u].pc /\ worker'[u].run = worker[u].run
                            /\ worker'[u].kind = worker[u].kind,
         ~sd'.requested =>
            /\ sd' = sd /\ active' = active /\ menu' = menu /\ fg'.busy = fg.busy
            /\ app'.input = app.input /\ app'.picker = app.picker /\ app'.worker = app.worker
            /\ app'.bar = app.bar \/ fg.busy
            /\ Lacks(queue', Closing) => Lacks(queue, Closing)
            /\ HaltOf(queue, active) => HaltOf(queue', active)
            /\ Lacks(queue', {"finished"}) => Lacks(queue, {"finished"})
            /\ Lacks(queue, Parts) => Lacks(queue', Parts) /\ (Quiet => Quiet')
            /\ view'.compacting => /\ view.compacting
                                   /\ ~Lacks(queue, {"compaction"}) => ~Lacks(queue', {"compaction"})
  PROVE  Left'
<1>1. \A u \in Workers : closings'[u] <= 1 /\ (worker'[u].pc # "gone" => closings'[u] = 0)
  BY DEF Left
<1>2. ASSUME astray' = {}, ~sd'.requested PROVE Undisturbed'
  <2>0. Undisturbed
    BY <1>2 DEF Left
  <2>1. \A u \in Workers : (Alive(u)' <=> Alive(u)) /\ (Driving(u)' <=> Driving(u))
    BY DEF Alive, Driving
  <2>2. Engaged => Engaged'
    BY <1>2, <2>1 DEF Engaged, Pending
  <2>3. Presented => Presented'
    BY <1>2, <2>1 DEF Presented, Pending
  <2>4. fg'.busy => \E w \in Workers : Alive(w)'
    BY <1>2, <2>0, <2>1 DEF Undisturbed
  <2>5. app'.input \/ app'.picker # "none" \/ Engaged'
    BY <1>2, <2>0, <2>2 DEF Undisturbed
  <2>6. Engaged' \/ (app'.bar = "ready" /\ app'.worker = NoWorker /\ sd'.attached = NoWorker)
    <3>1. fg.busy => Engaged
      BY <2>0 DEF Undisturbed, Engaged
    <3> QED
      BY <1>2, <2>0, <2>2, <3>1 DEF Undisturbed
  <2>7. active' # None => Presented'
    BY <1>2, <2>0, <2>3 DEF Undisturbed
  <2>8. \A w \in Workers : Driving(w)' => active' = worker'[w].run
    BY <1>2, <2>0, <2>1 DEF Undisturbed
  <2>9. active' = None /\ Lacks(queue', {"finished"}) => Quiet' /\ Lacks(queue', Parts)
    BY <1>2, <2>0 DEF Undisturbed
  <2>10. view'.compacting => \/ ~Lacks(queue', {"compaction"})
                             \/ \E w \in Workers : worker'[w].pc = "compacting"
    BY <1>2, <2>0 DEF Undisturbed
  <2>11. \A w \in Workers : worker'[w].pc = "gone" /\ worker'[w].kind # "compact" => closings'[w] = 1
    BY <2>0 DEF Undisturbed
  <2> QED
    BY <2>4, <2>5, <2>6, <2>7, <2>8, <2>9, <2>10, <2>11 DEF Undisturbed
<1> QED
  BY <1>1, <1>2 DEF Left

\* A worker does a step of the Run it drives, which is the one presented.
LEMMA LeftWorking ==
  ASSUME NEW w \in Workers, NEW s \in Seq(Message), queue \in Seq(Message), Held, Left,
         Alive(w), worker[w].pc # "compacting", AllParts(s), queue' = queue \o s, closings' = closings,
         astray' = astray, sd' = sd, app' = app, menu' = menu, view' = view,
         \A u \in Workers : u # w => worker'[u] = worker[u],
         Driving(w)', active' # None, Undisturbed => active' = worker'[w].run
  PROVE  Left'
<1>w. WorkerHolds(w)
  BY DEF Held
<1>a. Alive(w)' /\ worker'[w].pc # "gone"
  BY DEF Driving, Alive
<1>1. \A u \in Workers : closings'[u] <= 1 /\ (worker'[u].pc # "gone" => closings'[u] = 0)
  BY DEF Left, Alive
<1>2. ASSUME astray' = {}, ~sd'.requested PROVE Undisturbed'
  <2>0. Undisturbed /\ active' = worker'[w].run
    BY <1>2 DEF Left
  <2>1. Engaged' /\ Presented'
    BY <1>a, <2>0 DEF Engaged, Presented
  <2>2. \A u \in Workers : Driving(u)' => u = w
    BY <1>w DEF WorkerHolds, Driving, Alive
  <2>3. view'.compacting => ~Lacks(queue', {"compaction"})
    <3>1. \A u \in Workers : worker[u].pc # "compacting"
      BY <1>w DEF WorkerHolds, Alive
    <3>2. view.compacting => ~Lacks(queue, {"compaction"})
      BY <2>0, <3>1 DEF Undisturbed
    <3> QED
      BY <3>2, Behind
  <2>4. \A u \in Workers : worker'[u].pc = "gone" /\ worker'[u].kind # "compact" => closings'[u] = 1
    BY <1>a, <2>0 DEF Undisturbed
  <2> QED
    BY <1>a, <2>0, <2>1, <2>2, <2>3, <2>4 DEF Undisturbed
<1> QED
  BY <1>1, <1>2 DEF Left

\* A worker leaves, and its last message says so, if it did not go astray.
LEMMA LeftLeaving ==
  ASSUME NEW w \in Workers, NEW s \in Seq(Message), queue \in Seq(Message), Held, Left,
         closings \in [Workers -> Nat],
         Alive(w), worker[w].pc # "compacting",
         s = <<>> \/ (\E m : s = <<m>> /\ m.kind \in Closing),
         queue' = queue \o s, astray \subseteq astray', sd' = sd, app' = app, menu' = menu,
         view' = view,
         \A u \in Workers : u # w => worker'[u] = worker[u], worker'[w].pc = "gone",
         \A u \in Workers : u # w => closings'[u] = closings[u],
         Lacks(s, Closing) => closings'[w] = closings[w],
         (\E m : s = <<m>> /\ m.kind \in Closing) => closings'[w] = closings[w] + 1,
         Undisturbed /\ astray' = {} =>
            /\ ~fg'.busy
            /\ \E m : /\ s = <<m>> /\ m.kind \in Closing
                      /\ active' # None => m.kind = "approval" /\ m.run = active'
                      /\ active' = None => m.kind = "finished" \/ active = None
  PROVE  Left'
<1>w. WorkerHolds(w)
  BY DEF Held
<1>0. closings[w] = 0
  BY DEF Left, Alive
<1>1. \A u \in Workers : closings'[u] <= 1 /\ (worker'[u].pc # "gone" => closings'[u] = 0)
  <2>1. closings'[w] <= 1
    <3>1. CASE s = <<>>
      BY <3>1, <1>0, NoMessage
    <3>2. CASE \E m : s = <<m>> /\ m.kind \in Closing
      BY <3>2, <1>0
    <3> QED
      BY <3>1, <3>2
  <2> QED
    BY <2>1 DEF Left
<1>2. ASSUME astray' = {}, ~sd'.requested PROVE Undisturbed'
  <2>0. Undisturbed
    BY <1>2 DEF Left
  <2>1. PICK m : /\ s = <<m>> /\ m.kind \in Closing
                 /\ active' # None => m.kind = "approval" /\ m.run = active'
                 /\ active' = None => m.kind = "finished" \/ active = None
    BY <1>2, <2>0
  <2>2. ~Lacks(queue', Closing) /\ Engaged'
    <3>1. ~Lacks(s, Closing)
      BY <2>1, OneMessage
    <3> QED
      BY <3>1, Behind DEF Engaged
  <2>3. active' # None => Presented'
    <3> HAVE active' # None
    <3>1. HaltOf(s, active')
      BY <2>1, OneMessage
    <3>2. HaltOf(queue', active')
      BY <3>1, Behind
    <3> QED
      BY <3>2 DEF Presented
  <2>4. \A u \in Workers : ~Driving(u)'
    BY <1>w DEF WorkerHolds, Driving, Alive
  <2>5. ASSUME active' = None, Lacks(queue', {"finished"}) PROVE Quiet' /\ Lacks(queue', Parts)
    <3>1. Lacks(queue, {"finished"}) /\ Lacks(s, {"finished"})
      BY <2>5, Behind
    <3>2. active = None
      BY <2>1, <2>5, <3>1, OneMessage
    <3>3. Quiet /\ Lacks(queue, Parts)
      BY <2>0, <3>1, <3>2 DEF Undisturbed
    <3>4. Lacks(s, Parts)
      BY <2>1, OneMessage DEF Parts, Closing
    <3> QED
      BY <3>3, <3>4, Behind DEF Quiet
  <2>6. view'.compacting => ~Lacks(queue', {"compaction"})
    <3>1. \A u \in Workers : worker[u].pc # "compacting"
      BY <1>w DEF WorkerHolds, Alive
    <3>2. view.compacting => ~Lacks(queue, {"compaction"})
      BY <2>0, <3>1 DEF Undisturbed
    <3> QED
      BY <3>2, Behind
  <2>7. \A u \in Workers : worker'[u].pc = "gone" /\ worker'[u].kind # "compact" => closings'[u] = 1
    BY <1>0, <2>0, <2>1 DEF Undisturbed
  <2>8. ~fg'.busy
    BY <1>2, <2>0
  <2> QED
    BY <2>2, <2>3, <2>4, <2>5, <2>6, <2>7, <2>8 DEF Undisturbed
<1> QED
  BY <1>1, <1>2 DEF Left

\* A worker is started: what was presented before is what it approves.
LEMMA LeftStarting ==
  ASSUME Left, \A u \in Workers : ~Alive(u), closings' = closings, astray' = astray, active' = active,
         NEW w, NEW a, NEW k \in {"start", "continue", "approve", "compact"}, NEW r, NEW vs,
         Started(w, a, k, r, vs),
         Lacks(queue, {"finished"}), Lacks(queue, Parts) => Lacks(queue', Parts),
         ~Lacks(queue, {"compaction"}) => ~Lacks(queue', {"compaction"}),
         Undisturbed /\ active # None => k = "approve" /\ r = active
  PROVE  Left'
<1>1. \A u \in Workers : closings'[u] <= 1 /\ (worker'[u].pc # "gone" => closings'[u] = 0)
  BY DEF Left, Started
<1>2. ASSUME astray' = {}, ~sd'.requested PROVE Undisturbed'
  <2>0. Undisturbed /\ ~sd.requested
    BY <1>2 DEF Left, Started
  <2>1. worker'[w].pc = (IF k = "compact" THEN "compacting" ELSE "configuring") /\ w \in Workers
    BY <2>0 DEF Started
  <2>2. Alive(w)' /\ Engaged'
    BY <2>1 DEF Alive, Engaged
  <2>3. active' # None => Presented'
    BY <2>0, <2>2 DEF Presented, Started
  <2>4. \A u \in Workers : ~Driving(u)'
    BY <2>1 DEF Driving, Alive, Started
  <2>5. active' = None => Quiet' /\ Lacks(queue', Parts)
    BY <2>0 DEF Undisturbed, Quiet, Started
  <2>6. view'.compacting => \/ ~Lacks(queue', {"compaction"})
                            \/ \E u \in Workers : worker'[u].pc = "compacting"
    <3>1. CASE k = "compact"
      BY <2>1, <3>1
    <3>2. CASE k # "compact"
      <4>1. view'.compacting = view.compacting
        BY <3>2 DEF Started
      <4>2. view.compacting => ~Lacks(queue, {"compaction"})
        BY <2>0 DEF Undisturbed, Alive
      <4> QED
        BY <4>1, <4>2
    <3> QED
      BY <3>1, <3>2
  <2>7. \A u \in Workers : worker'[u].pc = "gone" /\ worker'[u].kind # "compact" => closings'[u] = 1
    BY <2>0, <2>1 DEF Undisturbed, Started
  <2> QED
    <3>1. \E u \in Workers : Alive(u)'
      BY <2>1, <2>2
    <3>2. \A u \in Workers : Driving(u)' => active' = worker'[u].run
      BY <2>4
    <3> QED
      BY <3>1, <3>2, <2>2, <2>3, <2>5, <2>6, <2>7 DEF Undisturbed
<1> QED
  BY <1>1, <1>2 DEF Left

(***************************************************************************)
(* The actions.  Each keeps the invariant, part by part.                   *)
(***************************************************************************)
LEMMA StillTyped ==
  ASSUME app' \in App, view' \in View, active' \in Runs \union {None},
         fg' \in [busy : BOOLEAN, run : Runs \union {None}, token : Workers \union {NoWorker}],
         sd' \in [requested : BOOLEAN, done : BOOLEAN, attached : Workers \union {NoWorker}],
         worker' \in [Workers -> Worker], \A u \in Workers : WorkerOK(u)',
         row' \in [Runs -> {"absent", "running", "waiting_for_approval", "completed",
                            "failed", "cancelled"}],
         acts' \in 0..MaxActs, said' \subseteq Answer,
         astray' \subseteq {"configuring", "refused", "approving", "compacting"},
         menu' \in Batch, menu'.pos \in 1..Len(menu'.calls) + 1,
         halted' \in [Runs -> Seq(Calls)], closings' \in [Workers -> Nat],
         queue' \in Seq(Message)
  PROVE  Typed'
<1>1. menu'.run \in Runs \union {None} /\ DOMAIN menu'.verdicts \subseteq Calls
  <2>1. ASSUME NEW m \in Batch
        PROVE  m.run \in Runs \union {None}
               /\ m.verdicts \in UNION {[cs -> Verdict] : cs \in SUBSET Calls}
    BY DEF Batch
  <2> QED
    BY <2>1, VerdictsOf
<1>2. TypeOK'
  BY <1>1 DEF TypeOK, Answer
<1> QED
  BY <1>2 DEF Typed

LEMMA WorkersKept ==
  ASSUME Typed, worker' = worker
  PROVE  /\ worker' \in [Workers -> Worker]
         /\ \A u \in Workers : WorkerOK(u)'
         /\ \A u \in Workers : (Alive(u)' <=> Alive(u)) /\ (Driving(u)' <=> Driving(u))
<1>1. \A u \in Workers : WorkerOK(u)
  BY DEF Typed
<1>2. \A u \in Workers : WorkerOK(u)'
  BY <1>1 DEF WorkerOK, Alive
<1> QED
  BY <1>2, Types DEF Alive, Driving

\* What shows that no worker is alive.
LEMMA Vacant ==
  ASSUME Held,
         \/ ~fg.busy \/ app.input \/ app.picker # "none" \/ app.launch # "none" \/ Pending
         \/ ~Lacks(queue, Closing) \/ ~Lacks(queue, Picks)
         \/ ~Lacks(queue, {"submit"}) \/ ~Lacks(queue, {"option"})
  PROVE  \A u \in Workers : ~Alive(u)
  BY DEF Held, WorkerHolds

\* What the first message says of the queue.
LEMMA Handled ==
  ASSUME Typed, NEW k, Handle(k)
  PROVE  /\ queue \in Seq(Message) /\ queue # <<>> /\ Head(queue) \in Message
         /\ Tail(queue) \in Seq(Message)
         /\ Head(queue).kind = k /\ app.launch = "none" /\ ~app.exited
         /\ \A K : k \in K => ~Lacks(queue, K)
  BY Types, TailOf, HeadKinds DEF Handle

\* A message that changes no more than the screen and the Run at hand.
LEMMA Dropped ==
  ASSUME TuiInv, queue # <<>>, queue' = Tail(queue), Head(queue).kind \notin Closing,
         app' \in App, app'.input = app.input, app'.picker = app.picker,
         app'.launch = app.launch, app'.worker = app.worker, app'.bar = app.bar,
         fg' \in [busy : BOOLEAN, run : Runs \union {None}, token : Workers \union {NoWorker}],
         fg'.busy = fg.busy, fg' = fg \/ \A u \in Workers : ~Alive(u),
         UNCHANGED <<menu, active, sd, worker, row, halted, acts, said, closings, astray>>,
         view' \in View, Lacks(queue, Parts) /\ Quiet => Quiet',
         view'.compacting => view.compacting /\ Head(queue).kind # "compaction"
  PROVE  TuiInv'
<1>i. Typed /\ Held /\ Answered /\ Left /\ Driven
  BY DEF TuiInv
<1>t. queue \in Seq(Message)
  BY <1>i, Types
<1>w. \A u \in Workers : WorkerOK(u)'
  BY <1>i, WorkersKept
<1>1. Typed'
  <2>1. Tail(queue) \in Seq(Message)
    BY <1>t, TailOf
  <2> QED
    BY <1>i, <1>w, <2>1, Types, StillTyped
<1>2. Held'
  BY <1>i, <1>t, HeldDropped
<1>3. Answered'
  <2>1. TrueBatches(queue, halted) /\ AnswersTo(queue, Current(menu))
        /\ (~Lacks(queue, {"option"}) => menu.shown)
    BY <1>i DEF Answered
  <2>2. TrueBatches(queue', halted) /\ AnswersTo(queue', Current(menu))
        /\ (~Lacks(queue', {"option"}) => menu.shown)
    BY <2>1, <1>t, TailKinds
  <2> QED
    BY <1>i, <2>2, AnsweredFrame
<1>4. Left'
  <2>1. /\ Lacks(queue', Closing) => Lacks(queue, Closing)
        /\ HaltOf(queue, active) => HaltOf(queue', active)
        /\ Lacks(queue', {"finished"}) => Lacks(queue, {"finished"})
        /\ Lacks(queue, Parts) => Lacks(queue', Parts)
        /\ Head(queue).kind # "compaction" =>
             (~Lacks(queue, {"compaction"}) => ~Lacks(queue', {"compaction"}))
    BY <1>t, TailKinds, HeadKinds DEF Closing
  <2> QED
    BY <1>i, <2>1, LeftFrame
<1>5. Driven'
  BY <1>i, DrivenFrame
<1> QED
  BY <1>1, <1>2, <1>3, <1>4, <1>5 DEF TuiInv

\* Keys that the application does not answer: nothing but the queue changes.
LEMMA Unanswered ==
  ASSUME TuiInv, queue # <<>>, queue' = Tail(queue), Head(queue).kind \in {"submit", "option", "escape"},
         UNCHANGED <<app, menu, view, active, fg, sd, worker, row, halted, acts, said,
                     closings, astray>>
  PROVE  TuiInv'
<1>1. Typed
  BY DEF TuiInv
<1> QED
  BY <1>1, Types, Dropped DEF Quiet, Closing

LEMMA IgnoredStep == ASSUME TuiInv, OnIgnored PROVE TuiInv'
<1>1. Typed /\ Handle("submit")
  BY DEF TuiInv, OnIgnored
<1>2. queue # <<>> /\ Head(queue).kind = "submit"
  BY <1>1, Handled
<1> QED
  BY <1>2, Unanswered DEF OnIgnored

LEMMA ClearStep == ASSUME TuiInv, OnClear PROVE TuiInv'
<1>1. Typed /\ Held /\ Handle("submit")
  BY DEF TuiInv, OnClear
<1>2. queue # <<>> /\ Head(queue).kind = "submit"
  BY <1>1, Handled
<1>3. \A u \in Workers : ~Alive(u)
  BY <1>1, Vacant DEF OnClear, Idle
<1>4. /\ fg' \in [busy : BOOLEAN, run : Runs \union {None}, token : Workers \union {NoWorker}]
      /\ fg'.busy = fg.busy
  BY <1>1, Types DEF OnClear
<1> QED
  BY <1>1, <1>2, <1>3, <1>4, Types, Dropped DEF OnClear, Closing, Quiet

LEMMA ExitStep == ASSUME TuiInv, OnExit PROVE TuiInv'
<1>1. Typed /\ Handle("exit")
  BY DEF TuiInv, OnExit
<1>2. queue # <<>> /\ Head(queue).kind = "exit"
  BY <1>1, Handled
<1>3. /\ app' \in App /\ app'.input = app.input /\ app'.picker = app.picker
      /\ app'.launch = app.launch /\ app'.worker = app.worker /\ app'.bar = app.bar
  BY <1>1, Types DEF OnExit, App
<1> QED
  BY <1>1, <1>2, <1>3, Types, Dropped DEF OnExit, Closing, Quiet

LEMMA ShownStep == ASSUME TuiInv, OnShown PROVE TuiInv'
<1>1. Typed
  BY DEF TuiInv
<1>2. PICK k \in {"thinking", "text", "tool", "result", "compaction"} :
        /\ Handle(k)
        /\ k = "thinking" => view' = OnThinking(view)
        /\ k = "text" => view' = OnText(view)
        /\ k = "tool" => view' = OnToolCall(view, Head(queue).arg)
        /\ k = "result" => view' = FinalizeToolCall(view, Head(queue).arg)
        /\ k = "compaction" => view' = SettleCompaction(view)
  <2>1. \/ Handle("thinking") /\ view' = OnThinking(view)
        \/ Handle("text") /\ view' = OnText(view)
        \/ Handle("tool") /\ view' = OnToolCall(view, Head(queue).arg)
        \/ Handle("result") /\ view' = FinalizeToolCall(view, Head(queue).arg)
        \/ Handle("compaction") /\ view' = SettleCompaction(view)
    BY DEF OnShown
  <2> QED
    BY <2>1
<1>3. /\ queue # <<>> /\ Head(queue).kind = k /\ Head(queue) \in Message
      /\ k \in Parts => ~Lacks(queue, Parts)
  BY <1>1, <1>2, Handled
<1>4. k \in {"tool", "result"} => Head(queue).arg \in Calls
  BY <1>3, MessageFacts
<1>5. /\ view' \in View /\ (k # "compaction" => view'.compacting = view.compacting)
      /\ k = "compaction" => view'.compacting = FALSE /\ (Quiet => Quiet')
  <2>1. view \in View
    BY <1>1, Types
  <2>2. CASE k \in {"thinking", "text"}
    BY <1>2, <2>1, <2>2 DEF OnThinking, OnText, View, Phase
  <2>3. CASE k \in {"tool", "result"}
    BY <1>2, <1>4, <2>1, <2>3, ViewOps
  <2>4. CASE k = "compaction"
    <3>1. /\ view' \in View /\ view'.phase = view.phase /\ view'.tools = view.tools
          /\ view'.spin = view.spin /\ view'.compacting = FALSE
      <4>1. view' = SettleCompaction(view)
        BY <1>2, <2>4
      <4> QED
        BY <2>1, <4>1, ViewClosings
    <3> QED
      BY <2>4, <3>1 DEF Quiet
  <2> QED
    BY <2>2, <2>3, <2>4
<1>6. Lacks(queue, Parts) /\ Quiet => Quiet'
  BY <1>3, <1>5 DEF Parts
<1>7. view'.compacting => view.compacting /\ Head(queue).kind # "compaction"
  BY <1>3, <1>5
<1> QED
  BY <1>1, <1>3, <1>5, <1>6, <1>7, Types, Dropped DEF OnShown, Closing

\* What the user does comes behind what waits.
LEMMA KeyBehind ==
  ASSUME Typed, NEW m \in Message, UserDoes(m),
         m.kind \in {"submit", "option", "escape", "pick_run", "pick_mcp"}
  PROVE  /\ queue' \in Seq(Message)
         /\ \A K : Lacks(queue', K) <=> Lacks(queue, K) /\ m.kind \notin K
         /\ \A K : Once(queue, K) /\ (Lacks(queue, K) \/ m.kind \notin K) => Once(queue', K)
         /\ \A K, L : InFront(queue, K, L) /\ (m.kind \notin K \/ m.kind \notin L)
                      /\ (m.kind \notin K \/ Lacks(queue, L)) => InFront(queue', K, L)
         /\ RunPicked(queue') => RunPicked(queue) \/ m.kind \in Picks
         /\ \A r : HaltOf(queue', r) <=> HaltOf(queue, r)
         /\ TrueBatches(queue', halted) <=> TrueBatches(queue, halted)
         /\ \A c : AnswersTo(queue', c) <=> AnswersTo(queue, c) /\ (m.kind = "option" => m.arg.call = c)
<1> DEFINE s == <<m>>
<1>1. queue \in Seq(Message) /\ queue' = queue \o s /\ s \in Seq(Message)
  BY Types, AppendBehind DEF UserDoes
<1>2. /\ \A K : Lacks(s, K) <=> m.kind \notin K
      /\ \A K : Once(s, K)
      /\ \A K, L : m.kind \notin K \/ m.kind \notin L => InFront(s, K, L)
      /\ RunPicked(s) => m.kind \in Picks
      /\ \A r : ~HaltOf(s, r)
      /\ \A h : TrueBatches(s, h)
      /\ \A c : AnswersTo(s, c) <=> (m.kind = "option" => m.arg.call = c)
  BY OneMessage
<1> HIDE DEF s
<1> QED
  BY <1>1, <1>2, Behind

LEMMA KeyAppended ==
  ASSUME TuiAssumption, TuiInv, NEW m \in Message, UserDoes(m), Held',
         m.kind \in {"submit", "option", "escape", "pick_run", "pick_mcp"},
         m.kind = "option" => m.arg.call = Current(menu) /\ menu.shown
  PROVE  TuiInv'
<1>i. Typed /\ Held /\ Answered /\ Left /\ Driven
  BY DEF TuiInv
<1>u. UNCHANGED <<app, menu, view, active, fg, sd, worker, row, halted, said, closings, astray>>
  BY DEF UserDoes
<1>1. Typed'
  <2>1. acts' \in 0..MaxActs
    BY <1>i, Types, TuiAssumption DEF UserDoes, Ready
  <2>2. \A u \in Workers : WorkerOK(u)'
    BY <1>i, <1>u, WorkersKept
  <2>3. queue' \in Seq(Message)
    BY <1>i, KeyBehind
  <2> QED
    BY <1>i, <1>u, <2>1, <2>2, <2>3, Types, StillTyped
<1>3. Answered'
  <2>1. TrueBatches(queue', halted) /\ AnswersTo(queue', Current(menu))
        /\ (~Lacks(queue', {"option"}) => menu.shown)
    BY <1>i, KeyBehind DEF Answered
  <2> QED
    BY <1>i, <1>u, <2>1, AnsweredFrame
<1>4. Left'
  <2>1. /\ Lacks(queue', Closing) => Lacks(queue, Closing)
        /\ HaltOf(queue, active) => HaltOf(queue', active)
        /\ Lacks(queue', {"finished"}) => Lacks(queue, {"finished"})
        /\ Lacks(queue, Parts) => Lacks(queue', Parts)
        /\ ~Lacks(queue, {"compaction"}) => ~Lacks(queue', {"compaction"})
    BY <1>i, KeyBehind DEF Parts
  <2>2. Quiet => Quiet'
    BY <1>u DEF Quiet
  <2> QED
    BY <1>i, <1>u, <2>1, <2>2, LeftFrame
<1>5. Driven'
  BY <1>i, <1>u, DrivenFrame
<1> QED
  BY <1>1, <1>3, <1>4, <1>5 DEF TuiInv

LEMMA TypeStep == ASSUME TuiAssumption, TuiInv, TypeLine PROVE TuiInv'
<1>i. Typed /\ Held
  BY DEF TuiInv
<1>1. PICK t \in Acts : UserDoes(Msg("submit", None, t))
  BY DEF TypeLine
<1> DEFINE m == Msg("submit", None, t)
<1>2. m \in Message /\ m.kind = "submit" /\ UserDoes(m)
  BY <1>1, MessageTypes, Fields
<1> HIDE DEF m
<1>3. app.input /\ Lacks(queue, {"submit"}) /\ app.launch = "none"
  BY <1>1 DEF TypeLine, Lacks, UserDoes, Ready
<1>4. Held'
  <2>u. UNCHANGED <<app, menu, fg, worker, active>>
    BY <1>2 DEF UserDoes
  <2>q. /\ Lacks(queue', Closing) <=> Lacks(queue, Closing)
        /\ Lacks(queue', Picks) <=> Lacks(queue, Picks)
        /\ Lacks(queue', {"option"}) <=> Lacks(queue, {"option"})
        /\ Lacks(queue', {"finished", "error"}) <=> Lacks(queue, {"finished", "error"})
        /\ RunPicked(queue') => RunPicked(queue)
    BY <1>i, <1>2, KeyBehind DEF Closing, Picks
  <2>0. app.picker = "none" /\ ~RunPicked(queue) /\ Lacks(queue, {"option"})
    BY <1>i, <1>3 DEF Held, PickerHolds, RunPickHolds, BatchHolds
  <2>1. \A u \in Workers : ~Alive(u)'
    BY <1>i, <1>3, <2>u, Vacant, WorkersKept
  <2>2. ~Lacks(queue', Closing) => ClosingHolds'
    BY <1>i, <2>u, <2>q DEF Held, ClosingHolds, Pending
  <2>3. Pending' => BatchHolds'
    BY <1>i, <2>u, <2>q DEF Held, BatchHolds, Pending
  <2>4. Ordered(queue')
    <3>1. Ordered(queue)
      BY <1>i DEF Held
    <3>2. /\ m.kind \notin Closing /\ m.kind \notin Picks /\ m.kind \notin Parts
          /\ m.kind \notin {"option"} /\ m.kind \notin {"finished"}
      BY <1>2 DEF Closing, Picks, Parts
    <3> QED
      BY <1>i, <1>2, <1>3, <2>0, <3>1, <3>2, KeyBehind DEF Ordered
  <2>5. ~Lacks(queue', {"option"}) \/ menu'.shown \/ menu'.deny => Pending'
    BY <1>i, <2>u, <2>q DEF Held, Pending
  <2> QED
    BY <1>3, <2>u, <2>q, <2>0, <2>1, <2>2, <2>3, <2>4, <2>5 DEF Held
<1> QED
  BY <1>2, <1>4, KeyAppended

LEMMA EscapeKeyStep == ASSUME TuiAssumption, TuiInv, PressEscape PROVE TuiInv'
<1>i. Typed /\ Held
  BY DEF TuiInv
<1> DEFINE m == Msg("escape", None, None)
<1>2. m \in Message /\ m.kind = "escape" /\ UserDoes(m)
  BY MessageTypes, Fields DEF PressEscape
<1> HIDE DEF m
<1>4. Held'
  <2>u. UNCHANGED <<app, menu, fg, worker, active>>
    BY <1>2 DEF UserDoes
  <2>q. /\ Lacks(queue', Closing) <=> Lacks(queue, Closing)
        /\ Lacks(queue', Picks) <=> Lacks(queue, Picks)
        /\ Lacks(queue', {"option"}) <=> Lacks(queue, {"option"})
        /\ Lacks(queue', {"submit"}) <=> Lacks(queue, {"submit"})
        /\ Lacks(queue', {"finished", "error"}) <=> Lacks(queue, {"finished", "error"})
        /\ RunPicked(queue') => RunPicked(queue)
    BY <1>i, <1>2, KeyBehind DEF Closing, Picks
  <2>k. /\ m.kind \notin Closing /\ m.kind \notin Picks /\ m.kind \notin Parts
        /\ m.kind \notin {"option"} /\ m.kind \notin {"submit"} /\ m.kind \notin {"finished"}
    BY <1>2 DEF Closing, Picks, Parts
  <2>1. ASSUME NEW u \in Workers, Alive(u)' PROVE WorkerHolds(u)'
    <3>1. WorkerHolds(u)
      BY <1>i, <2>u, <2>1, WorkersKept DEF Held
    <3> QED
      BY <3>1, <2>u, <2>q DEF WorkerHolds, Pending, Alive, Driving
  <2>2. ~Lacks(queue', Closing) => ClosingHolds'
    BY <1>i, <2>u, <2>q DEF Held, ClosingHolds, Pending
  <2>3. Pending' => BatchHolds'
    BY <1>i, <2>u, <2>q DEF Held, BatchHolds, Pending
  <2>4. app'.picker # "none" => PickerHolds'
    BY <1>i, <2>u, <2>q DEF Held, PickerHolds
  <2>5. app'.launch = "none"
    BY <1>2, <2>u DEF UserDoes, Ready
  <2>6. ~Lacks(queue', {"option"}) \/ menu'.shown \/ menu'.deny => Pending'
    BY <1>i, <2>u, <2>q DEF Held, Pending
  <2>7. RunPicked(queue') => RunPickHolds'
    <3>1. Once(queue, Picks) => Once(queue', Picks)
      BY <1>i, <1>2, <2>k, KeyBehind
    <3>2. InFront(queue, Picks, {"escape"}) => InFront(queue', Picks, {"escape"})
      BY <1>i, <1>2, <2>k, KeyBehind
    <3> QED
      BY <1>i, <2>u, <2>q, <3>1, <3>2 DEF Held, RunPickHolds
  <2>8. Ordered(queue')
    <3>1. Ordered(queue)
      BY <1>i DEF Held
    <3> QED
      BY <1>i, <1>2, <2>k, <3>1, KeyBehind DEF Ordered
  <2> QED
    BY <2>1, <2>2, <2>3, <2>4, <2>5, <2>6, <2>7, <2>8 DEF Held
<1> QED
  BY <1>2, <1>4, KeyAppended

LEMMA OptionKeyStep == ASSUME TuiAssumption, TuiInv, PickOption PROVE TuiInv'
<1>i. Typed /\ Held
  BY DEF TuiInv
<1>c. Current(menu) \in Calls
  <2>1. /\ menu.calls \in Seq(Calls) /\ menu.pos \in 1..Len(menu.calls) + 1
        /\ menu.pos <= Len(menu.calls)
    BY <1>i, Types DEF Batch, TuiInv, Answered, PickOption
  <2> QED
    BY <2>1 DEF Current
<1>1. PICK a \in Action : UserDoes(Msg("option", None, [call |-> Current(menu), action |-> a]))
  BY DEF PickOption
<1> DEFINE e == [call |-> Current(menu), action |-> a]
           m == Msg("option", None, e)
<1>2. m \in Message /\ m.kind = "option" /\ UserDoes(m) /\ m.arg.call = Current(menu)
  <2>1. e \in Answer /\ e.call = Current(menu)
    BY <1>c DEF Answer
  <2> HIDE DEF e
  <2> QED
    BY <1>1, <2>1, MessageTypes, Fields DEF e
<1> HIDE DEF m
<1>3. menu.shown /\ ~menu.deny /\ Lacks(queue, {"option"}) /\ app.launch = "none"
  BY <1>1 DEF PickOption, Lacks, UserDoes, Ready
<1>4. Held'
  <2>u. UNCHANGED <<app, menu, fg, worker, active>>
    BY <1>2 DEF UserDoes
  <2>0. Pending /\ BatchHolds /\ Lacks(queue, Closing) /\ Lacks(queue, Picks)
    BY <1>i, <1>3 DEF Held, ClosingHolds, BatchHolds
  <2>k. /\ m.kind \notin Closing /\ m.kind \notin Picks /\ m.kind \notin Parts
        /\ m.kind \notin {"submit"} /\ m.kind \notin {"finished"}
    BY <1>2 DEF Closing, Picks, Parts
  <2>q. Lacks(queue', Closing) /\ Lacks(queue', Picks)
    BY <1>i, <1>2, <2>0, <2>k, KeyBehind
  <2>1. \A u \in Workers : ~Alive(u)'
    BY <1>i, <2>0, <2>u, Vacant, WorkersKept
  <2>2. Pending' /\ BatchHolds'
    BY <2>0, <1>3, <2>u, <2>q DEF BatchHolds, Pending
  <2>3. app'.picker = "none" /\ app'.launch = "none" /\ ~RunPicked(queue')
    BY <2>0, <2>u, <2>q, LacksPick DEF BatchHolds
  <2>4. Ordered(queue')
    <3>1. Ordered(queue)
      BY <1>i DEF Held
    <3> QED
      BY <1>i, <1>2, <1>3, <2>k, <3>1, KeyBehind DEF Ordered
  <2> QED
    BY <2>q, <2>1, <2>2, <2>3, <2>4 DEF Held
<1> QED
  BY <1>2, <1>3, <1>4, KeyAppended

LEMMA PickerKeyStep == ASSUME TuiAssumption, TuiInv, ConfirmPicker PROVE TuiInv'
<1>i. Typed /\ Held
  BY DEF TuiInv
<1>1. PICK k \in Picks, r \in Runs \union {None} : app.picker # "none" /\ UserDoes(Msg(k, r, None))
  BY DEF ConfirmPicker, Picks
<1> DEFINE m == Msg(k, r, None)
<1>2. m \in Message /\ m.kind \in Picks /\ UserDoes(m)
  BY <1>1, MessageTypes, Fields
<1> HIDE DEF m
<1>3. Lacks(queue, Picks) /\ Lacks(queue, {"escape"}) /\ app.picker # "none"
  BY <1>1 DEF ConfirmPicker, Lacks, Picks
<1>4. Held'
  <2>u. UNCHANGED <<app, menu, fg, worker, active>>
    BY <1>2 DEF UserDoes
  <2>0. PickerHolds /\ ~Pending /\ Lacks(queue, Closing)
    BY <1>i, <1>3 DEF Held, ClosingHolds, BatchHolds
  <2>k. /\ m.kind \notin Closing /\ m.kind \notin Parts
        /\ m.kind \notin {"submit"} /\ m.kind \notin {"option"} /\ m.kind \notin {"finished"}
        /\ m.kind \notin {"escape"}
    BY <1>2 DEF Closing, Picks, Parts
  <2>q. Lacks(queue', Closing) /\ Lacks(queue', {"submit"}) /\ Lacks(queue', {"option"})
    BY <1>i, <1>2, <2>0, <2>k, KeyBehind DEF Picks, PickerHolds
  <2>1. \A u \in Workers : ~Alive(u)'
    BY <1>i, <1>3, <2>u, Vacant, WorkersKept
  <2>2. ~Pending' /\ PickerHolds' /\ app'.launch = "none" /\ ~menu'.shown /\ ~menu'.deny
    BY <1>i, <2>0, <2>u, <2>q DEF Held, PickerHolds, Pending
  <2>3. RunPickHolds'
    <3>1. Once(queue, Picks) /\ InFront(queue, Picks, {"escape"})
      BY <1>3, LackingIsOrdered
    <3>2. Once(queue', Picks)
      BY <1>i, <1>2, <1>3, <3>1, KeyBehind DEF Picks
    <3>3. InFront(queue', Picks, {"escape"})
      BY <1>i, <1>2, <1>3, <2>k, <3>1, KeyBehind DEF Picks
    <3> QED
      BY <1>3, <2>u, <3>2, <3>3 DEF RunPickHolds
  <2>4. Ordered(queue')
    <3>1. Ordered(queue)
      BY <1>i DEF Held
    <3> QED
      BY <1>i, <1>2, <2>0, <2>k, <3>1, KeyBehind DEF Ordered, PickerHolds, Picks
  <2> QED
    BY <2>q, <2>1, <2>2, <2>3, <2>4 DEF Held
<1> QED
  <2>1. m.kind \in {"pick_run", "pick_mcp"}
    BY <1>2 DEF Picks
  <2> QED
    BY <1>2, <1>4, <2>1, KeyAppended

\* Nobody holds the foreground once q is what is left of the queue.
Vacated(q) ==
    /\ \A u \in Workers : ~Alive(u)
    /\ q \in Seq(Message) /\ Lacks(queue, Closing) /\ Ordered(q)
    /\ Lacks(q, Closing) /\ Lacks(q, Picks) /\ Lacks(q, {"submit"}) /\ Lacks(q, {"option"})
    /\ Lacks(queue, Parts) => Lacks(q, Parts)
    /\ ~Lacks(queue, {"compaction"}) => ~Lacks(q, {"compaction"})

\* A line is taken, and no menu is shown.
LEMMA LineTaken ==
  ASSUME Typed, Held, Handle("submit"), Pending => menu.deny
  PROVE  Vacated(Tail(queue))
<1>1. /\ queue \in Seq(Message) /\ queue # <<>> /\ Head(queue).kind = "submit"
      /\ Tail(queue) \in Seq(Message) /\ ~Lacks(queue, {"submit"})
  BY Handled
<1>2. \A u \in Workers : ~Alive(u)
  BY <1>1, Vacant
<1>3. Ordered(queue)
  BY DEF Held
<1>4. Lacks(queue, Closing) /\ Lacks(queue, Picks) /\ Lacks(Tail(queue), {"submit"})
  BY <1>1, <1>3, HeadKinds DEF Ordered
<1>5. Lacks(queue, {"option"})
  BY DEF Held, BatchHolds
<1>6. ~Lacks(queue, {"compaction"}) => ~Lacks(Tail(queue), {"compaction"})
  BY <1>1, HeadKinds
<1> QED
  BY <1>1, <1>2, <1>3, <1>4, <1>5, <1>6, TailKinds DEF Vacated

\* A key in the menu is taken.
LEMMA OptionTaken ==
  ASSUME Typed, Held, Handle("option")
  PROVE  Vacated(Tail(queue)) /\ Pending
<1>1. /\ queue \in Seq(Message) /\ queue # <<>> /\ Head(queue).kind = "option"
      /\ Tail(queue) \in Seq(Message) /\ ~Lacks(queue, {"option"})
  BY Handled
<1>2. (\A u \in Workers : ~Alive(u)) /\ Pending
  BY <1>1, Vacant DEF Held
<1>3. Ordered(queue)
  BY DEF Held
<1>4. Lacks(queue, {"submit"}) /\ Lacks(Tail(queue), {"option"})
  BY <1>1, <1>3, HeadKinds DEF Ordered
<1>5. Lacks(queue, Closing) /\ Lacks(queue, Picks)
  BY <1>2 DEF Held, BatchHolds, ClosingHolds
<1>6. ~Lacks(queue, {"compaction"}) => ~Lacks(Tail(queue), {"compaction"})
  BY <1>1, HeadKinds
<1> QED
  BY <1>1, <1>2, <1>3, <1>4, <1>5, <1>6, TailKinds DEF Vacated

\* A Run has been picked.
LEMMA PickTaken ==
  ASSUME Typed, Held, NEW k \in Picks, Handle(k), Head(queue).run # None
  PROVE  Vacated(Tail(queue)) /\ ~Pending
<1>1. /\ queue \in Seq(Message) /\ queue # <<>> /\ Head(queue).kind \in Picks
      /\ Tail(queue) \in Seq(Message) /\ ~Lacks(queue, Picks)
  BY Handled
<1>2. RunPicked(queue)
  BY <1>1, TailOf DEF RunPicked
<1>3. RunPickHolds /\ PickerHolds /\ Ordered(queue)
  BY <1>2 DEF Held, RunPickHolds
<1>4. (\A u \in Workers : ~Alive(u)) /\ ~Pending /\ Lacks(queue, Closing)
  BY <1>1, Vacant DEF Held, BatchHolds, ClosingHolds
<1>5. Lacks(Tail(queue), Picks)
  BY <1>1, <1>3, HeadKinds DEF RunPickHolds
<1>6. ~Lacks(queue, {"compaction"}) => ~Lacks(Tail(queue), {"compaction"})
  BY <1>1, HeadKinds DEF Picks
<1> QED
  BY <1>1, <1>3, <1>4, <1>5, <1>6, TailKinds DEF Vacated, PickerHolds

\* A worker is started.
LEMMA StartStep ==
  ASSUME TuiInv, NEW a \in App, NEW k \in {"start", "continue", "approve", "compact"},
         NEW r \in Runs \union {None}, NEW prompted \in BOOLEAN, k # "start" => r \in Runs,
         NEW vs \in UNION {[cs -> Verdict] : cs \in SUBSET Calls},
         Start(a, k, r, prompted, vs), a.picker = "none", a.launch = "none",
         fg' \in [busy : BOOLEAN, run : Runs \union {None}, token : Workers \union {NoWorker}],
         fg'.busy, Vacated(queue'), menu' = NoBatch \/ (menu' = menu /\ ~Pending),
         said' \subseteq Answer, UNCHANGED <<active, row, halted, acts, closings, astray>>,
         k = "approve" => /\ FollowsAnswers(vs, said')
                          /\ DOMAIN vs = {halted[r][i] : i \in 1..Len(halted[r])},
         Pending => k = "approve" /\ r = menu.run
  PROVE  TuiInv'
<1>i. Typed /\ Held /\ Answered /\ Left /\ Driven
  BY DEF TuiInv
<1>1. PICK w \in Workers : Started(w, a, k, r, vs)
  BY <1>i, Starts
<1>2. /\ menu' \in Batch /\ menu'.pos \in 1..Len(menu'.calls) + 1
      /\ menu'.run = None /\ menu'.verdicts = NoVerdicts /\ ~menu'.shown /\ ~menu'.deny
  <2>1. CASE menu' = NoBatch
    BY <2>1, NoBatchType
  <2>2. CASE menu' = menu /\ ~Pending
    BY <1>i, <2>2, Types DEF Held, Answered, Pending
  <2> QED
    BY <2>1, <2>2
<1>3. Typed'
  <2>1. \A u \in Workers : WorkerOK(u)'
    BY <1>i, <1>1, StartedOK, ZenonT(30)
  <2>2. app' \in App /\ view' \in View /\ worker' \in [Workers -> Worker]
        /\ sd' \in [requested : BOOLEAN, done : BOOLEAN, attached : Workers \union {NoWorker}]
    BY <1>1 DEF Started
  <2>3. queue' \in Seq(Message)
    BY DEF Vacated
  <2> QED
    BY <1>i, <1>2, <2>1, <2>2, <2>3, Types, StillTyped
<1>4. Held'
  <2>1. /\ \A u \in Workers : u # w => worker'[u] = worker[u]
        /\ ~Driving(w)' /\ ~app'.input /\ app'.picker = "none" /\ app'.launch = "none"
    BY <1>1 DEF Started, Driving
  <2> QED
    BY <1>2, <2>1, HeldStarting DEF Vacated
<1>5. Answered'
  BY <1>i, <1>1, <1>2, AnsweredStarting DEF Vacated
<1>6. Left'
  <2>1. Undisturbed /\ active # None => k = "approve" /\ r = active
    <3>1. \A s : ~HaltOf(queue, s)
      BY LacksClosing DEF Vacated
    <3> QED
      BY <3>1 DEF Undisturbed, Presented, Vacated
  <2>2. Lacks(queue, {"finished"})
    BY LacksClosing DEF Vacated
  <2>3. /\ \A u \in Workers : ~Alive(u)
        /\ Lacks(queue, Parts) => Lacks(queue', Parts)
        /\ ~Lacks(queue, {"compaction"}) => ~Lacks(queue', {"compaction"})
    BY DEF Vacated
  <2> QED
    BY <1>i, <1>1, <2>1, <2>2, <2>3, LeftStarting
<1>7. Driven'
  BY <1>i, <1>1, DrivenStarting DEF Vacated
<1> QED
  BY <1>3, <1>4, <1>5, <1>6, <1>7 DEF TuiInv

\* Of the Run at hand, a worker that starts says no more than that it is busy.
LEMMA TaskStep == ASSUME TuiInv, OnTask PROVE TuiInv'
<1>i. Typed /\ Held
  BY DEF TuiInv
<1>t. /\ app \in App
      /\ fg \in [busy : BOOLEAN, run : Runs \union {None}, token : Workers \union {NoWorker}]
  BY <1>i, Types
<1>1. ~Pending /\ Handle("submit")
  BY DEF OnTask, Idle
<1>2. Vacated(queue')
  BY <1>i, <1>1, LineTaken DEF OnTask
<1>3. app.picker = "none" /\ app.launch = "none"
  BY <1>i, <1>1, Handled DEF Held, PickerHolds
<1>4. PICK k \in {"start", "continue"} :
        Start(app, k, fg.run, TRUE, NoVerdicts) /\ (k # "start" => fg.run # None)
  BY DEF OnTask, StartRun
<1>5. /\ fg' \in [busy : BOOLEAN, run : Runs \union {None}, token : Workers \union {NoWorker}]
      /\ fg'.busy
  BY <1>t DEF OnTask, StartRun
<1>6. said' \subseteq Answer /\ menu' = menu
      /\ UNCHANGED <<active, row, halted, acts, closings, astray>>
  BY <1>i, Types DEF OnTask
<1>7. /\ k \in {"start", "continue", "approve", "compact"} /\ k # "approve"
      /\ fg.run \in Runs \union {None} /\ (k # "start" => fg.run \in Runs)
  BY <1>t, <1>4
<1> QED
  BY <1>t, <1>1, <1>2, <1>3, <1>4, <1>5, <1>6, <1>7, NoVerdictsType, StartStep

LEMMA CompactStep == ASSUME TuiInv, OnCompact PROVE TuiInv'
<1>i. Typed /\ Held
  BY DEF TuiInv
<1>t. /\ app \in App /\ view \in View
      /\ fg \in [busy : BOOLEAN, run : Runs \union {None}, token : Workers \union {NoWorker}]
  BY <1>i, Types
<1>1. ~Pending /\ Handle("submit") /\ queue' = Tail(queue)
  BY DEF OnCompact, Idle
<1>6. said' \subseteq Answer /\ said' = said /\ menu' = menu
      /\ UNCHANGED <<active, row, halted, acts, closings, astray>>
  BY <1>i, Types DEF OnCompact
<1>2. CASE fg.run = None
  <2>1. view' = ClosePhase(view) /\ UNCHANGED <<app, fg, sd, worker>>
    BY <1>2 DEF OnCompact
  <2>2. /\ view' \in View /\ view'.phase = "none" /\ view'.tools = view.tools
        /\ view'.spin = view.spin /\ view'.compacting = view.compacting
    BY <1>t, <2>1, ViewClosings
  <2>3. queue # <<>> /\ Head(queue).kind = "submit"
    BY <1>i, <1>1, Handled
  <2>4. Lacks(queue, Parts) /\ Quiet => Quiet'
    BY <2>2 DEF Quiet
  <2>5. Head(queue).kind \notin Closing /\ Head(queue).kind # "compaction"
    BY <2>3 DEF Closing
  <2> QED
    BY <1>t, <1>1, <1>6, <2>1, <2>2, <2>3, <2>4, <2>5, Dropped
<1>3. CASE fg.run # None
  <2>1. Start(app, "compact", fg.run, FALSE, NoVerdicts) /\ fg' = [fg EXCEPT !.busy = TRUE]
    BY <1>3 DEF OnCompact
  <2>2. /\ fg' \in [busy : BOOLEAN, run : Runs \union {None}, token : Workers \union {NoWorker}]
        /\ fg'.busy
    BY <1>t, <2>1
  <2>3. Vacated(queue')
    BY <1>i, <1>1, LineTaken
  <2>4. app.picker = "none" /\ app.launch = "none"
    BY <1>i, <1>1, Handled DEF Held, PickerHolds
  <2> QED
    BY <1>t, <1>1, <1>3, <1>6, <2>1, <2>2, <2>3, <2>4, NoVerdictsType, StartStep
<1> QED
  BY <1>2, <1>3

\* A Run that waits is attached: its batch is what the user is asked about next.
LEMMA AttachHalted ==
  ASSUME TuiInv, NEW r \in Runs, NEW q, Vacated(q), ~Pending,
         queue' = q \o <<Msg("approval", r, halted[r])>>,
         app' \in App, app'.picker = "none", app'.launch = "none",
         fg' \in [busy : BOOLEAN, run : Runs \union {None}, token : Workers \union {NoWorker}],
         fg'.busy = fg.busy,
         UNCHANGED <<menu, view, active, sd, worker, row, halted, acts, said, closings, astray>>
  PROVE  TuiInv'
<1>i. Typed /\ Held /\ Answered /\ Left /\ Driven
  BY DEF TuiInv
<1> DEFINE m == Msg("approval", r, halted[r])
           s == <<m>>
<1>m. m \in Message /\ m.kind = "approval" /\ m.run = r /\ m.arg = halted[r]
  BY <1>i, Types, MessageTypes, Fields
<1>a. queue' = q \o s
  OBVIOUS
<1> HIDE DEF m
<1>s. /\ s \in Seq(Message) /\ queue' = q \o s
      /\ \A K : Lacks(s, K) <=> m.kind \notin K
      /\ \A K : Once(s, K)
      /\ \A K, L : m.kind \notin K \/ m.kind \notin L => InFront(s, K, L)
      /\ \A h : TrueBatches(s, h) <=> (m.kind = "approval" => m.arg = h[m.run])
  <2>1. s \in Seq(Message)
    BY <1>m
  <2>2. /\ \A K : Lacks(s, K) <=> m.kind \notin K
        /\ \A K : Once(s, K)
        /\ \A K, L : m.kind \notin K \/ m.kind \notin L => InFront(s, K, L)
        /\ \A h : TrueBatches(s, h) <=> (m.kind = "approval" => m.arg = h[m.run])
    BY OneMessage
  <2> HIDE DEF s
  <2> QED
    BY <1>a, <2>1, <2>2
<1> HIDE DEF s
<1>q. /\ q \in Seq(Message) /\ Lacks(queue, Closing) /\ Ordered(q)
      /\ Lacks(q, Closing) /\ Lacks(q, Picks) /\ Lacks(q, {"submit"}) /\ Lacks(q, {"option"})
      /\ Lacks(q, {"finished", "error"})
  BY LacksClosing DEF Vacated
<1>k. /\ m.kind \notin Picks /\ m.kind \notin {"submit"} /\ m.kind \notin {"option"}
      /\ m.kind \notin Parts /\ m.kind \notin {"finished", "error"} /\ m.kind \in Closing
      /\ m.kind \notin {"finished"} /\ m.kind \notin {"compaction"}
  BY <1>m DEF Picks, Parts, Closing
<1>b. /\ queue' \in Seq(Message)
      /\ Lacks(queue', Picks) /\ Lacks(queue', {"option"}) /\ Lacks(queue', {"finished", "error"})
      /\ ~Lacks(queue', Closing)
  BY <1>s, <1>q, <1>k, Behind
<1>w. \A u \in Workers : WorkerOK(u)' /\ ~Alive(u)' /\ ~Alive(u) /\ ~Driving(u)'
  BY <1>i, WorkersKept DEF Vacated, Driving, Alive
<1>1. Typed'
  BY <1>i, <1>w, <1>b, Types, StillTyped
<1>2. Held'
  <2>1. Ordered(queue')
    <3>1. /\ Once(q, Closing) /\ Once(q, {"submit"}) /\ Once(q, {"option"})
          /\ InFront(q, Picks, {"submit"}) /\ InFront(q, Closing, {"submit"})
          /\ InFront(q, {"submit"}, {"option"}) /\ InFront(q, Parts, {"finished"})
      BY <1>q DEF Ordered
    <3>2. /\ Once(s, Closing) /\ Once(s, {"submit"}) /\ Once(s, {"option"})
          /\ InFront(s, Picks, {"submit"}) /\ InFront(s, Closing, {"submit"})
          /\ InFront(s, {"submit"}, {"option"}) /\ InFront(s, Parts, {"finished"})
      BY <1>s, <1>k
    <3>3. Lacks(s, Picks) /\ Lacks(s, {"submit"}) /\ Lacks(s, {"option"}) /\ Lacks(s, Parts)
      BY <1>s, <1>k
    <3> QED
      BY <1>s, <1>q, <3>1, <3>2, <3>3, Behind DEF Ordered
  <2>2. ~menu'.shown /\ ~menu'.deny /\ ~Pending'
    BY <1>i DEF Held, Pending
  <2>3. ~RunPicked(queue')
    BY <1>b, LacksPick
  <2>4. ClosingHolds'
    BY <1>b, <2>2 DEF ClosingHolds
  <2> QED
    BY <1>w, <1>b, <2>1, <2>2, <2>3, <2>4 DEF Held
<1>3. Answered'
  <2>1. TrueBatches(q, halted)
    BY <1>q, LacksClosing
  <2>2. TrueBatches(queue', halted)
    BY <1>s, <1>m, <1>q, <2>1, Behind
  <2> QED
    BY <1>i, <1>b, <2>2, LacksOption, AnsweredFrame
<1>4. Left'
  <2>1. ASSUME astray' = {}, ~sd'.requested PROVE Undisturbed'
    <3>0. Undisturbed /\ ~Engaged
      BY <1>i, <1>q, <1>w, <2>1 DEF Left, Engaged
    <3>1. ~fg'.busy
      BY <1>w, <3>0 DEF Undisturbed
    <3>2. Engaged'
      BY <1>b DEF Engaged
    <3>3. active = None
      BY <1>q, <1>w, <3>0, LacksClosing DEF Undisturbed, Presented, Engaged
    <3>4. Quiet /\ Lacks(queue, Parts)
      BY <1>q, <3>0, <3>3, LacksClosing DEF Undisturbed
    <3>5. Quiet' /\ Lacks(queue', Parts)
      <4>1. Lacks(q, Parts)
        BY <3>4 DEF Vacated
      <4> QED
        BY <1>s, <1>q, <1>k, <3>4, <4>1, Behind DEF Quiet
    <3>6. view'.compacting => ~Lacks(queue', {"compaction"})
      <4>1. view.compacting => ~Lacks(q, {"compaction"})
        BY <1>w, <3>0 DEF Undisturbed, Vacated, Alive
      <4> QED
        BY <1>s, <1>q, <4>1, Behind
    <3>7. \A u \in Workers : worker'[u].pc = "gone" /\ worker'[u].kind # "compact" => closings'[u] = 1
      BY <3>0 DEF Undisturbed
    <3> QED
      BY <1>w, <3>1, <3>2, <3>3, <3>5, <3>6, <3>7 DEF Undisturbed
  <2> QED
    BY <1>i, <2>1 DEF Left
<1>5. Driven'
  BY <1>i, DrivenFrame
<1> QED
  BY <1>1, <1>2, <1>3, <1>4, <1>5 DEF TuiInv

\* Nothing but the Run at hand changes when it is attached from the command line.
LEMMA LaunchStep == ASSUME TuiAssumption, TuiInv, ApplyLaunch PROVE TuiInv'
<1> DEFINE a == [app EXCEPT !.launch = "none"]
<1>i. Typed /\ Held /\ Answered /\ Left /\ Driven
  BY DEF TuiInv
<1>t. /\ app \in App /\ OldRun \in Runs
      /\ fg \in [busy : BOOLEAN, run : Runs \union {None}, token : Workers \union {NoWorker}]
  BY <1>i, Types, TuiAssumption
<1>0. app.launch # "none" /\ queue = <<>> /\ app.picker = "none" /\ ~Pending
  BY <1>i DEF ApplyLaunch, Held, PickerHolds, BatchHolds
<1>a. /\ a \in App /\ a.picker = "none" /\ a.launch = "none" /\ a.input = app.input
      /\ a.worker = app.worker /\ a.bar = app.bar
  BY <1>t, <1>0 DEF App
<1>v. Vacated(queue)
  <2>1. \A u \in Workers : ~Alive(u)
    BY <1>i, <1>0, Vacant
  <2>2. Ordered(<<>>)
    BY NoMessage DEF Ordered
  <2> QED
    BY <1>0, <2>1, <2>2, NoMessage DEF Vacated
<1>6. said' \subseteq Answer /\ said' = said /\ menu' = menu
      /\ UNCHANGED <<active, row, halted, acts, closings, astray>>
  BY <1>i, Types DEF ApplyLaunch
<1>c. \/ StartRun(a) /\ queue' = queue
      \/ \E b \in BOOLEAN : Attach(a, OldRun, b)
  BY DEF ApplyLaunch
<1> HIDE DEF a
<1>1. CASE StartRun(a) /\ queue' = queue
  <2>1. PICK k \in {"start", "continue"} :
          Start(a, k, fg.run, TRUE, NoVerdicts) /\ (k # "start" => fg.run # None)
    BY <1>1 DEF StartRun
  <2>2. /\ fg' \in [busy : BOOLEAN, run : Runs \union {None}, token : Workers \union {NoWorker}]
        /\ fg'.busy
    BY <1>t, <1>1 DEF StartRun
  <2>3. /\ k \in {"start", "continue", "approve", "compact"} /\ k # "approve"
        /\ fg.run \in Runs \union {None} /\ (k # "start" => fg.run \in Runs)
    BY <1>t, <2>1
  <2>4. Vacated(queue')
    BY <1>1, <1>v
  <2> QED
    BY <1>0, <1>a, <1>6, <2>1, <2>2, <2>3, <2>4, NoVerdictsType, StartStep, ZenonT(30)
<1>2. ASSUME NEW b \in BOOLEAN, Attach(a, OldRun, b) PROVE TuiInv'
  <2>1. CASE row[OldRun] = "waiting_for_approval"
    <3>1. /\ queue' = queue \o <<Msg("approval", OldRun, halted[OldRun])>>
          /\ fg' = [fg EXCEPT !.run = OldRun] /\ app' = a /\ UNCHANGED <<view, sd, worker>>
      BY <1>0, <1>2, <2>1 DEF Attach
    <3>2. /\ fg' \in [busy : BOOLEAN, run : Runs \union {None}, token : Workers \union {NoWorker}]
          /\ fg'.busy = fg.busy
      BY <1>t, <3>1
    <3> QED
      BY <1>t, <1>0, <1>a, <1>v, <1>6, <3>1, <3>2, AttachHalted
  <2>2. CASE row[OldRun] # "waiting_for_approval" /\ b
    <3>1. /\ Start(a, "continue", OldRun, FALSE, NoVerdicts)
          /\ fg' = [fg EXCEPT !.run = OldRun, !.busy = TRUE] /\ queue' = queue
      BY <1>0, <1>2, <2>2 DEF Attach
    <3>2. /\ fg' \in [busy : BOOLEAN, run : Runs \union {None}, token : Workers \union {NoWorker}]
          /\ fg'.busy
      BY <1>t, <3>1
    <3>3. Vacated(queue')
      BY <1>v, <3>1
    <3> QED
      BY <1>t, <1>0, <1>a, <1>6, <3>1, <3>2, <3>3, NoVerdictsType, StartStep
  <2>3. CASE row[OldRun] # "waiting_for_approval" /\ ~b
    <3>1. /\ fg' = [fg EXCEPT !.run = OldRun] /\ app' = a /\ queue' = queue
          /\ UNCHANGED <<view, sd, worker>>
      BY <1>0, <1>2, <2>3 DEF Attach
    <3>2. /\ fg' \in [busy : BOOLEAN, run : Runs \union {None}, token : Workers \union {NoWorker}]
          /\ fg'.busy = fg.busy
      BY <1>t, <3>1
    <3>w. \A u \in Workers : WorkerOK(u)' /\ ~Alive(u)'
      BY <1>i, <1>v, <3>1, WorkersKept DEF Vacated
    <3>3. Typed'
      BY <1>i, <1>a, <1>6, <3>1, <3>2, <3>w, Types, StillTyped
    <3>4. Held'
      <4>1. /\ Lacks(queue', Closing) /\ Lacks(queue', {"option"}) /\ ~RunPicked(queue')
            /\ Ordered(queue')
        BY <1>v, <3>1, LacksPick DEF Vacated
      <4>2. ~Pending' /\ ~menu'.shown /\ ~menu'.deny
        BY <1>i, <1>0, <1>6 DEF Held, Pending
      <4> QED
        BY <1>a, <3>1, <3>w, <4>1, <4>2 DEF Held
    <3>5. Answered'
      <4>1. /\ TrueBatches(queue', halted) /\ AnswersTo(queue', Current(menu))
            /\ ~Lacks(queue', {"option"}) => menu.shown
        BY <1>i, <3>1 DEF Answered
      <4> QED
        BY <1>i, <1>6, <3>1, <4>1, AnsweredFrame
    <3>6. Left'
      <4>1. /\ sd' = sd /\ active' = active /\ menu' = menu /\ fg'.busy = fg.busy
            /\ app'.input = app.input /\ app'.picker = app.picker /\ app'.worker = app.worker
            /\ app'.bar = app.bar /\ queue' = queue /\ view' = view /\ (Quiet => Quiet')
        BY <1>0, <1>a, <1>6, <3>1, <3>2 DEF Quiet
      <4> QED
        BY <1>i, <1>6, <3>1, <4>1, LeftFrame
    <3>7. Driven'
      BY <1>i, <1>6, <3>1, DrivenFrame
    <3> QED
      BY <3>3, <3>4, <3>5, <3>6, <3>7 DEF TuiInv
  <2> QED
    BY <2>1, <2>2, <2>3
<1> QED
  BY <1>c, <1>1, <1>2

LEMMA PickedStep == ASSUME TuiInv, OnPicked PROVE TuiInv'
<1> DEFINE r == Head(queue).run
           a == [app EXCEPT !.picker = "none", !.input = TRUE]
<1>i. Typed /\ Held /\ Answered /\ Left /\ Driven
  BY DEF TuiInv
<1>t. /\ app \in App
      /\ fg \in [busy : BOOLEAN, run : Runs \union {None}, token : Workers \union {NoWorker}]
  BY <1>i, Types
<1>k. PICK k \in Picks : Handle(k)
  BY DEF OnPicked, Picks
<1>h. /\ queue \in Seq(Message) /\ queue # <<>> /\ Head(queue) \in Message
      /\ Tail(queue) \in Seq(Message) /\ Head(queue).kind \in Picks
      /\ app.launch = "none" /\ ~Lacks(queue, Picks)
  BY <1>i, <1>k, Handled
<1>r. r \in Runs \union {None}
  BY <1>h, MessageFacts
<1>a. /\ a \in App /\ a.picker = "none" /\ a.launch = "none" /\ a.input
      /\ a.worker = app.worker /\ a.bar = app.bar
  BY <1>t, <1>h DEF App
<1>6. said' \subseteq Answer /\ said' = said /\ menu' = menu
      /\ UNCHANGED <<active, row, halted, acts, closings, astray>>
  BY <1>i, Types DEF OnPicked
<1>c. /\ r # None => Attach(a, r, TRUE)
      /\ r = None => app' = a /\ queue' = Tail(queue) /\ UNCHANGED <<view, fg, sd, worker>>
  BY DEF OnPicked
<1> HIDE DEF r, a
<1>1. CASE r # None
  <2>0. Vacated(Tail(queue)) /\ ~Pending /\ r \in Runs
    BY <1>i, <1>k, <1>r, <1>1, PickTaken DEF r
  <2>1. CASE row[r] = "waiting_for_approval"
    <3>1. /\ queue' = Tail(queue) \o <<Msg("approval", r, halted[r])>>
          /\ fg' = [fg EXCEPT !.run = r] /\ app' = a /\ UNCHANGED <<view, sd, worker>>
      BY <1>h, <1>c, <1>1, <2>1 DEF Attach
    <3>2. /\ fg' \in [busy : BOOLEAN, run : Runs \union {None}, token : Workers \union {NoWorker}]
          /\ fg'.busy = fg.busy
      BY <1>t, <1>r, <3>1
    <3> QED
      BY <1>a, <1>6, <2>0, <3>1, <3>2, AttachHalted
  <2>2. CASE row[r] # "waiting_for_approval"
    <3>1. /\ Start(a, "continue", r, FALSE, NoVerdicts)
          /\ fg' = [fg EXCEPT !.run = r, !.busy = TRUE] /\ queue' = Tail(queue)
      BY <1>h, <1>c, <1>1, <2>2 DEF Attach
    <3>2. /\ fg' \in [busy : BOOLEAN, run : Runs \union {None}, token : Workers \union {NoWorker}]
          /\ fg'.busy
      BY <1>t, <1>r, <3>1
    <3>3. Vacated(queue')
      BY <2>0, <3>1
    <3> QED
      BY <1>a, <1>6, <2>0, <3>1, <3>2, <3>3, NoVerdictsType, StartStep
  <2> QED
    BY <2>1, <2>2
<1>2. CASE r = None
  <2>1. app' = a /\ queue' = Tail(queue) /\ UNCHANGED <<view, fg, sd, worker>>
    BY <1>c, <1>2
  <2>2. /\ \A u \in Workers : ~Alive(u)
        /\ Lacks(queue, Closing) /\ ~Pending
    BY <1>i, <1>h, Vacant DEF Held, ClosingHolds, BatchHolds
  <2>w. \A u \in Workers : WorkerOK(u)' /\ ~Alive(u)'
    BY <1>i, <2>1, <2>2, WorkersKept
  <2>3. Typed'
    BY <1>i, <1>h, <1>a, <1>6, <2>1, <2>w, Types, StillTyped
  <2>4. Held'
    <3>1. ~RunPicked(queue')
      <4>1. ASSUME RunPicked(queue) PROVE Lacks(Tail(queue), Picks)
        BY <1>i, <1>h, <4>1, HeadKinds DEF Held, RunPickHolds
      <4> QED
        BY <1>h, <2>1, <4>1, LacksPick, TailKinds
    <3>2. ~menu'.shown /\ ~menu'.deny /\ ~Pending' /\ Lacks(queue, {"option"})
      BY <1>i, <1>6, <2>2 DEF Held, Pending
    <3>3. Lacks(queue', Closing) /\ Lacks(queue', {"option"}) /\ Ordered(queue')
      BY <1>i, <1>h, <2>1, <2>2, <3>2, TailKinds DEF Held
    <3> QED
      BY <1>a, <2>1, <2>w, <3>1, <3>2, <3>3 DEF Held
  <2>5. Answered'
    <3>1. /\ TrueBatches(queue', halted) /\ AnswersTo(queue', Current(menu))
          /\ ~Lacks(queue', {"option"}) => menu.shown
      BY <1>i, <1>h, <2>1, TailKinds DEF Answered
    <3> QED
      BY <1>i, <1>6, <2>1, <3>1, AnsweredFrame
  <2>6. Left'
    <3>1. ASSUME astray' = {}, ~sd'.requested PROVE Undisturbed'
      <4>0. Undisturbed /\ ~Engaged
        BY <1>i, <1>6, <2>1, <2>2, <3>1 DEF Left, Engaged
      <4>1. ~fg'.busy /\ app'.input /\ app'.bar = "ready" /\ app'.worker = NoWorker
            /\ sd'.attached = NoWorker
        BY <1>a, <2>1, <2>2, <4>0 DEF Undisturbed
      <4>2. active = None
        BY <2>2, <4>0, LacksClosing DEF Undisturbed, Presented
      <4>3. Quiet' /\ Lacks(queue', Parts) /\ active' = None
        BY <1>h, <1>6, <2>1, <2>2, <4>0, <4>2, LacksClosing, TailKinds DEF Undisturbed, Quiet
      <4>4. view'.compacting => ~Lacks(queue', {"compaction"})
        <5>1. view.compacting => ~Lacks(queue, {"compaction"})
          BY <2>2, <4>0 DEF Undisturbed, Alive
        <5> QED
          BY <1>h, <2>1, <5>1, HeadKinds DEF Picks
      <4>5. \A u \in Workers : worker'[u].pc = "gone" /\ worker'[u].kind # "compact" => closings'[u] = 1
        BY <1>6, <2>1, <4>0 DEF Undisturbed
      <4>6. \A u \in Workers : ~Driving(u)'
        BY <2>w DEF Driving, Alive
      <4> QED
        BY <4>1, <4>3, <4>4, <4>5, <4>6 DEF Undisturbed
    <3> QED
      BY <1>i, <1>6, <2>1, <3>1 DEF Left
  <2>7. Driven'
    BY <1>i, <1>6, <2>1, DrivenFrame
  <2> QED
    BY <2>3, <2>4, <2>5, <2>6, <2>7 DEF TuiInv
<1> QED
  BY <1>1, <1>2

\* An answer has been recorded in n: the next call is shown, or the verdicts go to a worker.
LEMMA SettleStep ==
  ASSUME TuiInv, Vacated(queue'), Pending, NEW n \in Batch,
         n.run = menu.run, n.calls = menu.calls, n.pos \in 1..Len(n.calls) + 1,
         Settle(n), said' \subseteq Answer, BatchOK(n, said'),
         UNCHANGED <<active, row, halted, acts, closings, astray>>
  PROVE  TuiInv'
<1>i. Typed /\ Held /\ Answered /\ Left /\ Driven
  BY DEF TuiInv
<1>t. /\ app \in App /\ menu.run \in Runs /\ halted[menu.run] = menu.calls
      /\ fg \in [busy : BOOLEAN, run : Runs \union {None}, token : Workers \union {NoWorker}]
      /\ n.calls \in Seq(Calls) /\ n.verdicts \in UNION {[cs -> Verdict] : cs \in SUBSET Calls}
      /\ n.pos \in Nat /\ Len(n.calls) \in Nat
  BY <1>i, Types DEF Pending, Answered, Batch
<1>0. app.picker = "none" /\ app.launch = "none"
  BY <1>i DEF Held, BatchHolds
<1>1. CASE IsDecided(n)
  <2>1. /\ menu' = NoBatch /\ Start(app, "approve", n.run, FALSE, n.verdicts)
        /\ fg' = [fg EXCEPT !.busy = TRUE]
    BY <1>1 DEF Settle
  <2>2. FollowsAnswers(n.verdicts, said')
    BY DEF BatchOK
  <2>3. DOMAIN n.verdicts = {halted[n.run][i] : i \in 1..Len(halted[n.run])}
    <3>1. \A i \in 1..Len(n.calls) : n.calls[i] \in DOMAIN n.verdicts
      BY <1>t, <1>1 DEF BatchOK, IsDecided
    <3>2. DOMAIN n.verdicts = {n.calls[i] : i \in 1..Len(n.calls)}
      BY <3>1 DEF BatchOK
    <3> QED
      BY <1>t, <3>2
  <2>4. /\ fg' \in [busy : BOOLEAN, run : Runs \union {None}, token : Workers \union {NoWorker}]
        /\ fg'.busy
    BY <1>t, <2>1
  <2> QED
    BY <1>t, <1>0, <2>1, <2>2, <2>3, <2>4, StartStep
<1>2. CASE ~IsDecided(n)
  <2>1. /\ menu' = n /\ app' = [app EXCEPT !.input = n.deny]
        /\ UNCHANGED <<view, sd, worker, fg>>
    BY <1>2 DEF Settle
  <2>2. /\ app' \in App /\ app'.input = n.deny /\ app'.picker = "none" /\ app'.launch = "none"
        /\ app'.worker = app.worker /\ app'.bar = app.bar
    <3>1. n.deny \in BOOLEAN
      BY DEF Batch
    <3> QED
      BY <1>t, <1>0, <2>1, <3>1 DEF App
  <2>3. n.pos <= Len(n.calls) /\ Pending'
    BY <1>t, <1>2, <2>1 DEF IsDecided, Pending
  <2>w. \A u \in Workers : WorkerOK(u)' /\ ~Alive(u)' /\ ~Driving(u)'
    BY <1>i, <2>1, WorkersKept DEF Vacated, Driving, Alive
  <2>q. /\ queue' \in Seq(Message) /\ Ordered(queue') /\ ~RunPicked(queue')
        /\ Lacks(queue', Closing) /\ Lacks(queue', Picks) /\ Lacks(queue', {"option"})
    BY LacksPick DEF Vacated
  <2>4. Typed'
    BY <1>i, <2>1, <2>2, <2>w, <2>q, Types, StillTyped
  <2>5. Held'
    <3>1. BatchHolds'
      BY <2>1, <2>2, <2>q DEF BatchHolds
    <3> QED
      BY <2>2, <2>3, <2>w, <2>q, <3>1 DEF Held
  <2>6. Answered'
    <3>1. FollowsAnswers(menu'.verdicts, said') /\ BatchOK(menu', said')
      BY <2>1 DEF BatchOK
    <3>2. VerdictsAreTheUsers'
      BY <2>w, <3>1 DEF VerdictsAreTheUsers, Alive
    <3>3. menu'.calls = halted'[menu'.run]
      BY <1>t, <2>1
    <3>4. TrueBatches(queue', halted')
      BY <2>q, LacksClosing
    <3>5. AnswersTo(queue', Current(menu)')
      BY <2>q, LacksOption
    <3>6. \A r \in Runs : Distinct(halted'[r])
      BY <1>i DEF Answered
    <3> QED
      BY <2>1, <2>3, <2>q, <3>1, <3>2, <3>3, <3>4, <3>5, <3>6 DEF Answered
  <2>7. Left'
    <3>1. ASSUME astray' = {}, ~sd'.requested PROVE Undisturbed'
      <4>0. Undisturbed
        BY <1>i, <2>1, <3>1 DEF Left
      <4>1. ~fg'.busy /\ Engaged'
        BY <2>1, <2>3, <4>0 DEF Undisturbed, Vacated, Engaged
      <4>2. active' # None => Presented'
        <5>1. ASSUME active # None PROVE menu.run = active
          BY <4>0, <5>1, LacksClosing DEF Undisturbed, Presented, Vacated
        <5> QED
          BY <2>1, <2>3, <5>1 DEF Presented
      <4>3. active' = None => Quiet' /\ Lacks(queue', Parts)
        BY <2>1, <4>0, LacksClosing DEF Undisturbed, Vacated, Quiet
      <4>4. view'.compacting => ~Lacks(queue', {"compaction"})
        BY <2>1, <4>0 DEF Undisturbed, Vacated, Alive
      <4>5. \A u \in Workers : worker'[u].pc = "gone" /\ worker'[u].kind # "compact" => closings'[u] = 1
        BY <2>1, <4>0 DEF Undisturbed
      <4> QED
        BY <2>w, <4>1, <4>2, <4>3, <4>4, <4>5 DEF Undisturbed
    <3> QED
      BY <1>i, <2>1, <3>1 DEF Left
  <2>8. Driven'
    BY <1>i, <2>1, DrivenFrame
  <2> QED
    BY <2>4, <2>5, <2>6, <2>7, <2>8 DEF TuiInv
<1> QED
  BY <1>1, <1>2

LEMMA OptionStep == ASSUME TuiInv, OnOption PROVE TuiInv'
<1> DEFINE e == Head(queue).arg
           n == Apply(menu, e.action)
<1>i. Typed /\ Held /\ Answered
  BY DEF TuiInv
<1>h. /\ queue \in Seq(Message) /\ queue # <<>> /\ Head(queue) \in Message
      /\ Head(queue).kind = "option" /\ ~Lacks(queue, {"option"}) /\ queue' = Tail(queue)
  BY <1>i, Handled DEF OnOption
<1>v. Vacated(queue') /\ Pending
  BY <1>i, OptionTaken DEF OnOption
<1>e. e \in Answer /\ e.call = Current(menu)
  <2>1. e.call = Current(menu)
    BY <1>i, <1>h, TailOf DEF Answered, AnswersTo
  <2> QED
    BY <1>h, <2>1, MessageFacts
<1>1. said' = said \union {e} /\ Settle(n)
      /\ UNCHANGED <<active, row, halted, acts, closings, astray>>
  BY <1>v DEF OnOption
<1> HIDE DEF e
<1>m. /\ menu \in Batch /\ menu.pos \in 1..Len(menu.calls) /\ menu.deny = FALSE
      /\ Distinct(menu.calls) /\ BatchOK(menu, said)
  <2>1. /\ menu.run \in Runs /\ menu.calls = halted[menu.run] /\ menu.shown
        /\ menu.pos <= Len(menu.calls)
    BY <1>i, <1>h, <1>v, Types DEF Answered, Pending, Batch
  <2>2. menu \in Batch /\ menu.deny = FALSE
    BY <1>i, <1>h, <1>v, Types DEF Held, BatchHolds, Batch
  <2>3. menu.pos \in 1..Len(menu.calls) + 1 /\ Len(menu.calls) \in Nat
    BY <1>i, Types DEF Batch
  <2> QED
    BY <1>i, <1>v, <2>1, <2>2, <2>3 DEF Answered
<1>n. Applied(menu, e.action, n) /\ BatchOK(n, said \union {e})
  BY <1>m, <1>e, Applies, AnswerFollows DEF Answer
<1> HIDE DEF n
<1>s. said' \subseteq Answer
  BY <1>i, <1>1, <1>e, Types
<1> QED
  BY <1>v, <1>1, <1>n, <1>s, SettleStep DEF Applied

LEMMA ReasonStep == ASSUME TuiInv, OnReason PROVE TuiInv'
<1> DEFINE e == [call |-> Current(menu), action |-> "deny"]
           n == Record(menu, "deny")
<1>i. Typed /\ Held /\ Answered
  BY DEF TuiInv
<1>h. /\ queue \in Seq(Message) /\ queue # <<>> /\ Head(queue).kind = "submit"
      /\ queue' = Tail(queue) /\ Handle("submit") /\ Pending
  BY <1>i, Handled DEF OnReason
<1>1. CASE ~menu.deny
  <2>1. UNCHANGED <<app, menu, view, active, fg, sd, worker, row, halted, acts, said,
                     closings, astray>>
    BY <1>1 DEF OnReason
  <2> QED
    BY <1>h, <2>1, Unanswered
<1>2. CASE menu.deny
  <2>1. /\ said' = said \union {e} /\ Settle(n)
        /\ UNCHANGED <<active, row, halted, acts, closings, astray>>
    BY <1>2 DEF OnReason
  <2>v. Vacated(queue')
    BY <1>i, <1>h, <1>2, LineTaken
  <2>m. menu \in Batch /\ menu.pos \in 1..Len(menu.calls) /\ BatchOK(menu, said)
    <3>1. menu.pos <= Len(menu.calls) /\ BatchOK(menu, said)
      BY <1>i, <1>h, <1>2 DEF Answered
    <3>2. menu \in Batch /\ menu.pos \in 1..Len(menu.calls) + 1 /\ Len(menu.calls) \in Nat
      BY <1>i, Types DEF Batch
    <3> QED
      BY <3>1, <3>2
  <2>c. Current(menu) \in Ahead(menu) /\ Current(menu) \in Calls /\ n = Decided(menu, {Current(menu)}, "deny")
    BY <2>m, Records DEF Verdict
  <2>n. DecidedOK(menu, {Current(menu)}, "deny", n)
    <3>1. {Current(menu)} \subseteq Ahead(menu) /\ "deny" \in Verdict
      BY <2>c DEF Verdict
    <3> QED
      BY <2>m, <2>c, <3>1, Decides
  <2>e. e \in Answer /\ e.call = Current(menu) /\ e.action = "deny"
    BY <2>c DEF Answer, Action
  <2> HIDE DEF n, e
  <2>b. BatchOK(n, said')
    BY <2>1, <2>m, <2>n, <2>e, DenialFollows
  <2>s. said' \subseteq Answer
    BY <1>i, <2>1, <2>e, Types
  <2>d. n \in Batch /\ n.run = menu.run /\ n.calls = menu.calls /\ n.pos \in 1..Len(n.calls) + 1
    BY <2>n DEF DecidedOK
  <2> QED
    BY <1>h, <2>v, <2>1, <2>b, <2>s, <2>d, SettleStep
<1> QED
  BY <1>1, <1>2

\* The user is asked about a batch.
LEMMA ApprovalStep == ASSUME TuiAssumption, TuiInv, OnApprovalRequired PROVE TuiInv'
<1> DEFINE e == Head(queue)
           n == Begin(e.run, e.arg)
<1>i. Typed /\ Held /\ Answered /\ Left /\ Driven
  BY DEF TuiInv
<1>t. /\ app \in App /\ view \in View
      /\ fg \in [busy : BOOLEAN, run : Runs \union {None}, token : Workers \union {NoWorker}]
  BY <1>i, Types
<1>h. /\ queue \in Seq(Message) /\ queue # <<>> /\ e \in Message /\ e.kind = "approval"
      /\ Tail(queue) \in Seq(Message) /\ ~Lacks(queue, Closing) /\ queue' = Tail(queue)
  BY <1>i, Handled DEF OnApprovalRequired, Closing
<1>e. e.run \in Runs /\ e.arg \in Seq(Calls) /\ e.arg = halted[e.run]
  <2>1. e.arg = halted[e.run]
    BY <1>i, <1>h, TailOf DEF Answered, TrueBatches
  <2> QED
    BY <1>h, <2>1, MessageFacts
<1>u. /\ said' = {} /\ menu' = n /\ view' = ClosePhase(view) /\ fg' = [fg EXCEPT !.busy = FALSE]
      /\ app' = [app EXCEPT !.input = FALSE]
      /\ UNCHANGED <<active, sd, worker, row, halted, acts, closings, astray>>
  BY DEF OnApprovalRequired
<1>n. Begun(e.run, e.arg, n)
  BY <1>e, Begins
<1> HIDE DEF e, n
<1>m. /\ menu' \in Batch /\ menu'.run = e.run /\ menu'.calls = e.arg /\ menu'.deny = FALSE
      /\ menu'.verdicts = NoVerdicts /\ menu'.pos \in 1..Len(menu'.calls) + 1 /\ Pending'
      /\ \A i \in 1..Len(menu'.calls) : i >= menu'.pos
      /\ menu'.shown => menu'.pos <= Len(menu'.calls)
  <2>1. e.run # None
    BY <1>e, TuiAssumption
  <2>2. \A i \in 1..n.pos - 1 : FALSE
    BY <1>n, NoVerdictsType DEF Begun
  <2>3. n.pos \in Nat /\ Len(e.arg) \in Nat
    BY <1>n, <1>e DEF Begun
  <2>4. \A i \in 1..Len(e.arg) : i >= n.pos
    BY <2>2, <2>3
  <2> QED
    BY <1>u, <1>n, <2>1, <2>4 DEF Begun, Pending
<1>p. /\ app' \in App /\ app'.input = FALSE /\ app'.picker = app.picker
      /\ app'.launch = app.launch
  BY <1>t, <1>u DEF App
<1>v. /\ view' \in View /\ view'.phase = "none" /\ view'.tools = view.tools
      /\ view'.spin = view.spin /\ view'.compacting = view.compacting
  BY <1>t, <1>u, ViewClosings
<1>f. /\ fg' \in [busy : BOOLEAN, run : Runs \union {None}, token : Workers \union {NoWorker}]
      /\ ~fg'.busy
  BY <1>t, <1>u
<1>c. /\ ClosingHolds /\ Ordered(queue) /\ Lacks(Tail(queue), Closing)
      /\ \A u \in Workers : ~Alive(u)
  <2>1. ClosingHolds /\ Ordered(queue) /\ \A u \in Workers : ~Alive(u)
    BY <1>i, <1>h, Vacant DEF Held
  <2> QED
    BY <1>h, <2>1, HeadKinds DEF Ordered, Closing, e
<1>w. \A u \in Workers : WorkerOK(u)' /\ ~Alive(u)' /\ ~Driving(u)'
  BY <1>i, <1>u, <1>c, WorkersKept DEF Driving, Alive
<1>q. /\ Ordered(queue') /\ Lacks(queue', Closing) /\ Lacks(queue', Picks)
      /\ Lacks(queue', {"option"})
  BY <1>h, <1>c, TailKinds DEF ClosingHolds
<1>1. Typed'
  BY <1>i, <1>h, <1>u, <1>m, <1>p, <1>v, <1>f, <1>w, Types, StillTyped
<1>2. Held'
  <2>1. BatchHolds' /\ ~RunPicked(queue')
    BY <1>c, <1>m, <1>p, <1>q, LacksPick DEF ClosingHolds, BatchHolds
  <2> QED
    BY <1>c, <1>m, <1>p, <1>q, <1>w, <2>1 DEF Held, ClosingHolds
<1>3. Answered'
  <2>1. FollowsAnswers(menu'.verdicts, said')
    BY <1>m, NothingDecided
  <2>2. BatchOK(menu', said')
    <3>1. menu'.pos \in Nat /\ Len(menu'.calls) \in Nat
      BY <1>m DEF Batch
    <3>2. \A i \in 1..Len(menu'.calls) : ~(i < menu'.pos)
      BY <1>m, <3>1
    <3>3. DOMAIN menu'.verdicts = {}
      BY <1>m, NoVerdictsType
    <3> QED
      BY <1>u, <2>1, <3>2, <3>3 DEF BatchOK
  <2>3. VerdictsAreTheUsers'
    BY <1>w, <2>1 DEF VerdictsAreTheUsers, Alive
  <2>4. TrueBatches(queue', halted') /\ AnswersTo(queue', Current(menu)')
    BY <1>q, LacksClosing, LacksOption
  <2>5. (\A r \in Runs : Distinct(halted'[r])) /\ menu'.calls = halted'[menu'.run]
    BY <1>i, <1>e, <1>u, <1>m DEF Answered
  <2> QED
    BY <1>m, <1>q, <2>2, <2>3, <2>4, <2>5 DEF Answered
<1>4. Left'
  <2>1. ASSUME astray' = {}, ~sd'.requested PROVE Undisturbed'
    <3>0. Undisturbed
      BY <1>i, <1>u, <2>1 DEF Left
    <3>1. Engaged'
      BY <1>m DEF Engaged
    <3>2. active' # None => Presented'
      <4>1. ASSUME active # None PROVE menu'.run = active
        <5>1. HaltOf(queue, active)
          BY <1>c, <3>0, <4>1 DEF Undisturbed, Presented, ClosingHolds
        <5>2. ~HaltOf(Tail(queue), active)
          BY <1>c, LacksClosing
        <5> QED
          BY <1>h, <1>m, <5>1, <5>2, HeadKinds DEF e
      <4> QED
        BY <1>u, <1>m, <4>1 DEF Presented
    <3>3. active' = None => Quiet' /\ Lacks(queue', Parts)
      <4>1. Lacks(queue, {"finished"})
        BY <1>h, <1>q, HeadKinds, LacksClosing DEF e
      <4> QED
        BY <1>h, <1>u, <1>v, <3>0, <4>1, TailKinds DEF Undisturbed, Quiet
    <3>4. view'.compacting => ~Lacks(queue', {"compaction"})
      <4>1. view.compacting => ~Lacks(queue, {"compaction"})
        BY <1>c, <3>0 DEF Undisturbed, Alive
      <4> QED
        BY <1>h, <1>v, <4>1, HeadKinds DEF e
    <3>5. \A u \in Workers : worker'[u].pc = "gone" /\ worker'[u].kind # "compact" => closings'[u] = 1
      BY <1>u, <3>0 DEF Undisturbed
    <3> QED
      BY <1>f, <1>w, <3>1, <3>2, <3>3, <3>4, <3>5 DEF Undisturbed
  <2> QED
    BY <1>i, <1>u, <2>1 DEF Left
<1>5. Driven'
  BY <1>i, <1>u, DrivenFrame
<1> QED
  BY <1>1, <1>2, <1>3, <1>4, <1>5 DEF TuiInv

\* The message that closes a worker is handled.
LEMMA ClosedStep == ASSUME TuiInv, OnRunClosed PROVE TuiInv'
<1>i. Typed /\ Held /\ Answered /\ Left /\ Driven
  BY DEF TuiInv
<1>t. /\ app \in App /\ view \in View
      /\ sd \in [requested : BOOLEAN, done : BOOLEAN, attached : Workers \union {NoWorker}]
  BY <1>i, Types
<1>k. PICK k \in {"finished", "error"} : Handle(k)
  BY DEF OnRunClosed
<1>h. /\ queue \in Seq(Message) /\ queue # <<>> /\ Head(queue).kind = k
      /\ Tail(queue) \in Seq(Message) /\ ~Lacks(queue, Closing) /\ queue' = Tail(queue)
  BY <1>i, <1>k, Handled DEF OnRunClosed, Closing
<1>u. /\ app' = Cleared /\ sd' = Detached
      /\ UNCHANGED <<menu, active, fg, worker, row, halted, acts, said, closings, astray>>
  BY DEF OnRunClosed
<1>p. /\ app' \in App /\ app'.input /\ app'.picker = app.picker /\ app'.launch = app.launch
      /\ app'.bar = "ready" /\ app'.worker = NoWorker
  BY <1>t, <1>u DEF Cleared, App
<1>s. /\ sd' \in [requested : BOOLEAN, done : BOOLEAN, attached : Workers \union {NoWorker}]
      /\ sd'.requested = sd.requested /\ sd'.attached = NoWorker
  BY <1>t, <1>u DEF Detached
<1>v. /\ view' \in View
      /\ k = "finished" => Quiet' /\ view'.compacting = FALSE
      /\ k = "error" => (Quiet => Quiet') /\ view'.compacting = view.compacting
  <2>1. CASE k = "finished"
    <3>1. view' = Finish(view)
      BY <1>h, <2>1 DEF OnRunClosed
    <3> QED
      BY <1>t, <2>1, <3>1, ViewClosings DEF Quiet
  <2>2. CASE k = "error"
    <3>1. view' = ClosePhase(view)
      BY <1>h, <2>2 DEF OnRunClosed
    <3> QED
      BY <1>t, <2>2, <3>1, ViewClosings DEF Quiet
  <2> QED
    BY <2>1, <2>2
<1>c. /\ ClosingHolds /\ Ordered(queue) /\ Lacks(Tail(queue), Closing)
      /\ \A u \in Workers : ~Alive(u)
  <2>1. ClosingHolds /\ Ordered(queue) /\ \A u \in Workers : ~Alive(u)
    BY <1>i, <1>h, Vacant DEF Held
  <2> QED
    BY <1>h, <2>1, HeadKinds DEF Ordered, Closing
<1>w. \A u \in Workers : WorkerOK(u)' /\ ~Alive(u)' /\ ~Driving(u)'
  BY <1>i, <1>u, <1>c, WorkersKept DEF Driving, Alive
<1>q. /\ Ordered(queue') /\ Lacks(queue', Closing) /\ Lacks(queue', Picks)
      /\ Lacks(queue', {"option"})
  BY <1>h, <1>c, TailKinds DEF ClosingHolds
<1>m. ~Pending' /\ ~menu'.shown /\ ~menu'.deny
  BY <1>i, <1>u, <1>c DEF Held, ClosingHolds, Pending
<1>1. Typed'
  BY <1>i, <1>h, <1>u, <1>p, <1>s, <1>v, <1>w, Types, StillTyped
<1>2. Held'
  <2>1. ~RunPicked(queue')
    BY <1>q, LacksPick
  <2> QED
    BY <1>c, <1>m, <1>p, <1>q, <1>w, <2>1 DEF Held, ClosingHolds
<1>3. Answered'
  <2>1. TrueBatches(queue', halted) /\ AnswersTo(queue', Current(menu))
    BY <1>q, LacksClosing, LacksOption
  <2> QED
    BY <1>i, <1>q, <1>u, <2>1, AnsweredFrame
<1>4. Left'
  <2>1. ASSUME astray' = {}, ~sd'.requested PROVE Undisturbed'
    <3>0. Undisturbed
      BY <1>i, <1>u, <1>s, <2>1 DEF Left
    <3>1. ~fg'.busy
      BY <1>c, <1>u, <3>0 DEF Undisturbed
    <3>2. active' = None
      <4>1. ASSUME active # None PROVE FALSE
        <5>1. HaltOf(queue, active)
          BY <1>c, <3>0, <4>1 DEF Undisturbed, Presented, ClosingHolds
        <5>2. ~HaltOf(Tail(queue), active)
          BY <1>c, LacksClosing
        <5> QED
          BY <1>h, <5>1, <5>2, HeadKinds
      <4> QED
        BY <1>u, <4>1
    <3>3. Quiet' /\ Lacks(queue', Parts)
      <4>1. CASE k = "finished"
        BY <1>h, <1>c, <1>v, <4>1, HeadKinds, TailKinds DEF Ordered
      <4>2. CASE k = "error"
        <5>1. Lacks(queue, {"finished"})
          BY <1>h, <1>q, <4>2, HeadKinds, LacksClosing
        <5> QED
          BY <1>h, <1>u, <1>v, <3>0, <3>2, <4>2, <5>1, TailKinds DEF Undisturbed
      <4> QED
        BY <4>1, <4>2
    <3>4. view'.compacting => ~Lacks(queue', {"compaction"})
      <4>1. view.compacting => ~Lacks(queue, {"compaction"})
        BY <1>c, <3>0 DEF Undisturbed, Alive
      <4> QED
        BY <1>h, <1>v, <4>1, HeadKinds
    <3>5. \A u \in Workers : worker'[u].pc = "gone" /\ worker'[u].kind # "compact" => closings'[u] = 1
      BY <1>u, <3>0 DEF Undisturbed
    <3> QED
      BY <1>p, <1>s, <1>w, <3>1, <3>2, <3>3, <3>4, <3>5 DEF Undisturbed
  <2> QED
    BY <1>i, <1>u, <1>s, <2>1 DEF Left
<1>5. Driven'
  BY <1>i, <1>u, DrivenFrame
<1> QED
  BY <1>1, <1>2, <1>3, <1>4, <1>5 DEF TuiInv

LEMMA PickerStep == ASSUME TuiInv, OnPicker PROVE TuiInv'
<1>i. Typed /\ Held /\ Answered /\ Left /\ Driven
  BY DEF TuiInv
<1>h. /\ queue \in Seq(Message) /\ queue # <<>> /\ Head(queue).kind = "submit"
      /\ queue' = Tail(queue) /\ app.launch = "none" /\ ~Pending /\ ~fg.busy
  BY <1>i, Handled DEF OnPicker, Idle
<1>v. Vacated(queue')
  BY <1>i, <1>h, LineTaken DEF OnPicker
<1>u. UNCHANGED <<menu, view, active, fg, sd, worker, row, halted, acts, said, closings, astray>>
  BY DEF OnPicker
<1>p. /\ app' \in App /\ ~app'.input /\ app'.picker # "none" /\ app'.launch = "none"
      /\ app'.worker = app.worker /\ app'.bar = app.bar
  <2>1. app \in App
    BY <1>i, Types
  <2> QED
    BY <1>h, <2>1 DEF OnPicker, App
<1>w. \A u \in Workers : WorkerOK(u)' /\ ~Alive(u)' /\ ~Driving(u)'
  BY <1>i, <1>u, <1>v, WorkersKept DEF Vacated, Driving, Alive
<1>1. Typed'
  BY <1>i, <1>u, <1>p, <1>v, <1>w, Types, StillTyped DEF Vacated
<1>2. Held'
  <2>1. ~RunPicked(queue') /\ PickerHolds'
    BY <1>p, <1>v, LacksPick DEF Vacated, PickerHolds
  <2>2. ~Pending' /\ ~menu'.shown /\ ~menu'.deny
    BY <1>i, <1>h, <1>u DEF Held, Pending
  <2> QED
    BY <1>p, <1>v, <1>w, <2>1, <2>2 DEF Held, Vacated
<1>3. Answered'
  <2>1. /\ TrueBatches(queue', halted) /\ AnswersTo(queue', Current(menu))
        /\ Lacks(queue', {"option"})
    BY <1>v, LacksClosing, LacksOption DEF Vacated
  <2> QED
    BY <1>i, <1>u, <2>1, AnsweredFrame
<1>4. Left'
  <2>1. ASSUME astray' = {}, ~sd'.requested PROVE Undisturbed'
    <3>0. Undisturbed /\ ~Engaged
      BY <1>i, <1>h, <1>u, <1>v, <2>1 DEF Left, Engaged, Vacated
    <3>1. active' = None
      BY <1>h, <1>u, <1>v, <3>0, LacksClosing DEF Undisturbed, Presented, Vacated
    <3>2. Quiet' /\ Lacks(queue', Parts)
      BY <1>u, <1>v, <3>0, <3>1, LacksClosing DEF Undisturbed, Vacated, Quiet
    <3>3. view'.compacting => ~Lacks(queue', {"compaction"})
      BY <1>u, <1>v, <3>0 DEF Undisturbed, Vacated, Alive
    <3>4. \A u \in Workers : worker'[u].pc = "gone" /\ worker'[u].kind # "compact" => closings'[u] = 1
      BY <1>u, <3>0 DEF Undisturbed
    <3>5. ~fg'.busy /\ app'.bar = "ready" /\ app'.worker = NoWorker /\ sd'.attached = NoWorker
      BY <1>h, <1>u, <1>p, <3>0 DEF Undisturbed
    <3> QED
      BY <1>p, <1>w, <3>1, <3>2, <3>3, <3>4, <3>5 DEF Undisturbed
  <2> QED
    BY <1>i, <1>u, <2>1 DEF Left
<1>5. Driven'
  BY <1>i, <1>u, DrivenFrame
<1> QED
  BY <1>1, <1>2, <1>3, <1>4, <1>5 DEF TuiInv


\* One message m comes behind q, which is what waits, or what is behind the first of it.
LEMMA OneBehind ==
  ASSUME queue \in Seq(Message), NEW q, q = queue \/ (queue # <<>> /\ q = Tail(queue)),
         NEW m \in Message, m.kind \notin {"submit", "option", "finished"},
         m.kind \notin Closing, m.kind \notin Parts, NEW p, p = Append(q, m)
  PROVE  /\ p \in Seq(Message) /\ q \in Seq(Message)
         /\ \A K : m.kind \notin K /\ Lacks(queue, K) => Lacks(p, K)
         /\ \A K : m.kind \notin K => (~Lacks(q, K) => ~Lacks(p, K))
         /\ \A K : m.kind \notin K /\ Once(queue, K) => Once(p, K)
         /\ \A K, L : m.kind \notin K /\ InFront(queue, K, L) => InFront(p, K, L)
         /\ RunPicked(p) => RunPicked(queue) \/ m.run # None
         /\ \A r : HaltOf(p, r) <=> HaltOf(q, r)
         /\ \A h : TrueBatches(queue, h) => TrueBatches(p, h)
         /\ \A c : AnswersTo(queue, c) => AnswersTo(p, c)
         /\ Ordered(queue) /\ (m.kind \notin Picks \/ Lacks(q, {"submit"})) => Ordered(p)
<1> DEFINE s == <<m>>
<1>1. q \in Seq(Message) /\ p = q \o s /\ s \in Seq(Message)
  <2>1. q \in Seq(Message)
    BY TailOf
  <2> QED
    BY <2>1, AppendBehind
<1>2. /\ \A K : Lacks(s, K) <=> m.kind \notin K
      /\ \A K : Once(s, K)
      /\ \A K, L : m.kind \notin K \/ m.kind \notin L => InFront(s, K, L)
      /\ RunPicked(s) => m.run # None
      /\ \A r : ~HaltOf(s, r)
      /\ \A h : TrueBatches(s, h)
      /\ \A c : AnswersTo(s, c)
  BY OneMessage DEF Closing
<1>3. /\ \A K : Lacks(queue, K) => Lacks(q, K)
      /\ \A K : Once(queue, K) => Once(q, K)
      /\ \A K, L : InFront(queue, K, L) => InFront(q, K, L)
      /\ Ordered(queue) => Ordered(q)
      /\ RunPicked(q) => RunPicked(queue)
      /\ \A h : TrueBatches(queue, h) => TrueBatches(q, h)
      /\ \A c : AnswersTo(queue, c) => AnswersTo(q, c)
  BY TailKinds
<1> HIDE DEF s
<1>4. \A K : m.kind \notin K => (Lacks(p, K) <=> Lacks(q, K))
  BY <1>1, <1>2, Behind
<1>5. \A K : m.kind \notin K /\ Once(q, K) => Once(p, K)
  BY <1>1, <1>2, Behind
<1>6. \A K, L : m.kind \notin K /\ InFront(q, K, L) => InFront(p, K, L)
  BY <1>1, <1>2, Behind
<1>7. /\ RunPicked(p) => RunPicked(queue) \/ m.run # None
      /\ \A r : HaltOf(p, r) <=> HaltOf(q, r)
      /\ \A h : TrueBatches(queue, h) => TrueBatches(p, h)
      /\ \A c : AnswersTo(queue, c) => AnswersTo(p, c)
  BY <1>1, <1>2, <1>3, Behind
<1>8. ASSUME Ordered(queue), m.kind \notin Picks \/ Lacks(q, {"submit"}) PROVE Ordered(p)
  <2>1. Ordered(q)
    BY <1>3, <1>8
  <2>2. Once(p, Closing) /\ Once(p, {"submit"}) /\ Once(p, {"option"})
    BY <1>5, <2>1 DEF Ordered
  <2>3. /\ InFront(p, Closing, {"submit"}) /\ InFront(p, {"submit"}, {"option"})
        /\ InFront(p, Parts, {"finished"})
    BY <1>6, <2>1 DEF Ordered
  <2>4. InFront(p, Picks, {"submit"})
    <3>1. CASE m.kind \notin Picks
      BY <1>6, <2>1, <3>1 DEF Ordered
    <3>2. CASE Lacks(q, {"submit"})
      <4>1. Lacks(p, {"submit"})
        BY <1>4, <3>2
      <4> QED
        BY <4>1, LackingIsOrdered
    <3> QED
      BY <1>8, <3>1, <3>2
  <2> QED
    BY <2>2, <2>3, <2>4 DEF Ordered
<1> QED
  BY <1>1, <1>3, <1>4, <1>5, <1>6, <1>7, <1>8

\* The workers are flagged, or left alone, and the foreground has the same holder.
LEMMA FlaggedStep ==
  ASSUME TuiInv, Held', Flagged, queue' \in Seq(Message),
         TrueBatches(queue, halted) => TrueBatches(queue', halted),
         \A c : AnswersTo(queue, c) => AnswersTo(queue', c),
         Lacks(queue, {"option"}) => Lacks(queue', {"option"}),
         app' \in App, app'.input = app.input, app'.picker = app.picker,
         app'.worker = app.worker, app'.bar = app.bar \/ fg.busy,
         sd' \in [requested : BOOLEAN, done : BOOLEAN, attached : Workers \union {NoWorker}],
         row' \in [Runs -> {"absent", "running", "waiting_for_approval", "completed",
                            "failed", "cancelled"}],
         \A r \in Runs : row'[r] = row[r] \/ row'[r] # "running",
         acts' \in 0..MaxActs,
         UNCHANGED <<menu, view, active, fg, halted, said, closings, astray>>,
         ~sd'.requested =>
            /\ sd' = sd
            /\ Lacks(queue', Closing) => Lacks(queue, Closing)
            /\ HaltOf(queue, active) => HaltOf(queue', active)
            /\ Lacks(queue', {"finished"}) => Lacks(queue, {"finished"})
            /\ Lacks(queue, Parts) => Lacks(queue', Parts)
            /\ ~Lacks(queue, {"compaction"}) => ~Lacks(queue', {"compaction"})
  PROVE  TuiInv'
<1>i. Typed /\ Held /\ Answered /\ Left /\ Driven
  BY DEF TuiInv
<1>w. \A u \in Workers : /\ WorkerOK(u)' /\ worker'[u].pc = worker[u].pc
                         /\ worker'[u].run = worker[u].run /\ worker'[u].kind = worker[u].kind
                         /\ worker'[u].entered = worker[u].entered
                         /\ worker'[u].verdicts = worker[u].verdicts
  BY <1>i, FlaggedOK DEF Typed, Flagged
<1>1. Typed'
  <2>1. worker' \in [Workers -> Worker]
    BY DEF Flagged
  <2> QED
    BY <1>i, <1>w, <2>1, Types, StillTyped
<1>2. Answered'
  <2>1. TrueBatches(queue', halted) /\ AnswersTo(queue', Current(menu))
        /\ (~Lacks(queue', {"option"}) => menu.shown)
    BY <1>i DEF Answered
  <2> QED
    BY <1>i, <1>w, <2>1, AnsweredFrame
<1>3. Left'
  <2>1. Quiet => Quiet'
    BY DEF Quiet
  <2> QED
    BY <1>i, <1>w, <2>1, LeftFrame
<1>4. Driven'
  BY <1>i, <1>w, DrivenFrame
<1> QED
  BY <1>1, <1>2, <1>3, <1>4 DEF TuiInv

\* Shutdown is asked for, by a line or by a signal.
LEMMA ShutdownStep ==
  ASSUME TuiInv, RequestShutdown, app.launch = "none",
         queue' = Append(queue, Msg("exit", None, None))
         \/ (queue # <<>> /\ queue' = Append(Tail(queue), Msg("exit", None, None))),
         acts' \in 0..MaxActs,
         UNCHANGED <<app, menu, view, active, fg, halted, said, closings, astray>>
  PROVE  TuiInv'
<1> DEFINE m == Msg("exit", None, None)
<1>i. Typed /\ Held
  BY DEF TuiInv
<1>1. PICK q : (q = queue \/ (queue # <<>> /\ q = Tail(queue))) /\ queue' = Append(q, m)
  OBVIOUS
<1>m. m \in Message /\ m.kind = "exit" /\ m.run = None
  BY MessageTypes, Fields
<1>t. queue \in Seq(Message) /\ app \in App
  BY <1>i, Types
<1> HIDE DEF m
<1>k. /\ m.kind \notin Closing /\ m.kind \notin Picks /\ m.kind \notin Parts
      /\ m.kind \notin {"submit", "option", "finished"} /\ m.kind \notin {"finished", "error"}
      /\ m.kind \notin {"submit"} /\ m.kind \notin {"option"}
  BY <1>m DEF Closing, Picks, Parts
<1>q. /\ queue' \in Seq(Message)
      /\ \A K : m.kind \notin K /\ Lacks(queue, K) => Lacks(queue', K)
      /\ \A K : m.kind \notin K /\ Once(queue, K) => Once(queue', K)
      /\ \A K, L : m.kind \notin K /\ InFront(queue, K, L) => InFront(queue', K, L)
      /\ RunPicked(queue') => RunPicked(queue)
      /\ \A h : TrueBatches(queue, h) => TrueBatches(queue', h)
      /\ \A c : AnswersTo(queue, c) => AnswersTo(queue', c)
      /\ Ordered(queue) => Ordered(queue')
  BY <1>1, <1>m, <1>t, <1>k, OneBehind
<1>2. /\ Flagged /\ sd'.requested = TRUE
      /\ sd' \in [requested : BOOLEAN, done : BOOLEAN, attached : Workers \union {NoWorker}]
      /\ row' \in [Runs -> {"absent", "running", "waiting_for_approval", "completed",
                            "failed", "cancelled"}]
      /\ \A r \in Runs : row'[r] = row[r] \/ row'[r] = "cancelled"
  BY <1>i, ShutdownRequested
<1>3. Held'
  <2>1. \A K \in {Closing, Picks, {"submit"}, {"option"}, {"finished", "error"}} : m.kind \notin K
    BY <1>k
  <2>2. \A K \in {Closing, Picks, {"submit"}, {"option"}, {"finished", "error"}} :
            Lacks(queue, K) => Lacks(queue', K)
    BY <1>q, <2>1
  <2>3. /\ Once(queue, Picks) => Once(queue', Picks)
        /\ InFront(queue, Picks, {"escape"}) => InFront(queue', Picks, {"escape"})
    BY <1>k, <1>q
  <2>4. Ordered(queue')
    BY <1>i, <1>q DEF Held
  <2> QED
    BY <1>i, <1>q, <1>2, <2>2, <2>3, <2>4, HeldFlagged
<1> QED
  BY <1>t, <1>k, <1>q, <1>2, <1>3, FlaggedStep

LEMMA ExitLineStep == ASSUME TuiInv, OnExitLine PROVE TuiInv'
<1>1. Typed
  BY DEF TuiInv
<1>2. queue # <<>> /\ app.launch = "none"
  BY <1>1, Handled DEF OnExitLine
<1>3. acts' \in 0..MaxActs
  BY <1>1, Types DEF OnExitLine
<1> QED
  BY <1>2, <1>3, ShutdownStep DEF OnExitLine

LEMMA SigintStep == ASSUME TuiAssumption, TuiInv, Sigint PROVE TuiInv'
<1>1. Typed
  BY DEF TuiInv
<1>2. acts' \in 0..MaxActs /\ app.launch = "none"
  BY <1>1, Types, TuiAssumption DEF Sigint, Ready
<1> QED
  BY <1>2, ShutdownStep DEF Sigint

LEMMA EscapeStep == ASSUME TuiInv, OnEscape PROVE TuiInv'
<1>i. Typed /\ Held
  BY DEF TuiInv
<1>t. /\ app \in App /\ worker \in [Workers -> Worker]
      /\ sd \in [requested : BOOLEAN, done : BOOLEAN, attached : Workers \union {NoWorker}]
      /\ row \in [Runs -> {"absent", "running", "waiting_for_approval", "completed",
                           "failed", "cancelled"}]
      /\ acts \in 0..MaxActs
  BY <1>i, Types
<1>h. /\ queue \in Seq(Message) /\ queue # <<>> /\ Head(queue).kind = "escape"
      /\ Tail(queue) \in Seq(Message) /\ app.launch = "none" /\ ~Lacks(queue, {"escape"})
  BY <1>i, Handled DEF OnEscape
<1>u. UNCHANGED <<menu, view, active, fg, sd, row, halted, acts, said, closings, astray>>
  BY DEF OnEscape
<1>s. worker' = worker => Flagged
  BY <1>t DEF Flagged
<1>k. /\ \A K : "escape" \notin K => (~Lacks(queue, K) => ~Lacks(Tail(queue), K))
      /\ \A r : HaltOf(queue, r) => HaltOf(Tail(queue), r)
      /\ "escape" \notin Closing /\ "escape" \notin {"finished"} /\ "escape" \notin {"compaction"}
  BY <1>h, HeadKinds DEF Closing
<1>1. CASE app.picker # "none"
  <2> DEFINE m == Msg(IF app.picker = "mcp" THEN "pick_mcp" ELSE "pick_run", None, None)
  <2>1. queue' = Append(Tail(queue), m) /\ app' = app /\ worker' = worker
    BY <1>1 DEF OnEscape
  <2>m. m \in Message /\ m.kind \in Picks /\ m.run = None
    BY MessageTypes, Fields DEF Picks
  <2> HIDE DEF m
  <2>k. /\ m.kind \notin Closing /\ m.kind \notin Parts
        /\ m.kind \notin {"submit", "option", "finished"} /\ m.kind \notin {"finished"}
        /\ m.kind \notin {"submit"} /\ m.kind \notin {"option"} /\ m.kind \notin {"compaction"}
    BY <2>m DEF Closing, Picks, Parts
  <2>2. /\ \A u \in Workers : ~Alive(u)
        /\ ~Pending /\ PickerHolds /\ Lacks(queue, Closing)
    BY <1>i, <1>1, Vacant DEF Held, ClosingHolds, BatchHolds
  <2>3. ~RunPicked(queue)
    <3>1. ASSUME InFront(queue, Picks, {"escape"}) PROVE Lacks(queue, Picks)
      BY <1>h, <3>1, HeadKinds
    <3> QED
      BY <1>i, <3>1, LacksPick DEF Held, RunPickHolds
  <2>4. Lacks(Tail(queue), {"submit"})
    BY <1>h, <2>2, TailKinds DEF PickerHolds
  <2>q. /\ queue' \in Seq(Message)
        /\ \A K : m.kind \notin K /\ Lacks(queue, K) => Lacks(queue', K)
        /\ \A K : m.kind \notin K => (~Lacks(Tail(queue), K) => ~Lacks(queue', K))
        /\ RunPicked(queue') => RunPicked(queue)
        /\ \A r : HaltOf(queue', r) <=> HaltOf(Tail(queue), r)
        /\ \A h : TrueBatches(queue, h) => TrueBatches(queue', h)
        /\ \A c : AnswersTo(queue, c) => AnswersTo(queue', c)
        /\ Ordered(queue) => Ordered(queue')
    BY <1>h, <2>1, <2>m, <2>k, <2>4, OneBehind
  <2>5. Held'
    <3>1. /\ Lacks(queue', Closing) /\ Lacks(queue', {"submit"}) /\ Lacks(queue', {"option"})
          /\ Ordered(queue')
      BY <1>i, <2>2, <2>k, <2>q DEF Held, PickerHolds
    <3>2. PickerHolds' /\ ~RunPicked(queue') /\ app'.launch = "none"
      BY <1>h, <2>1, <2>2, <2>3, <2>q, <3>1 DEF PickerHolds
    <3>3. ~Pending' /\ ~menu'.shown /\ ~menu'.deny /\ \A u \in Workers : ~Alive(u)'
      BY <1>i, <1>u, <2>1, <2>2, WorkersKept DEF Held, Pending
    <3> QED
      BY <3>1, <3>2, <3>3 DEF Held
  <2>6. /\ Lacks(queue', Closing) => Lacks(queue, Closing)
        /\ HaltOf(queue, active) => HaltOf(queue', active)
        /\ Lacks(queue', {"finished"}) => Lacks(queue, {"finished"})
        /\ Lacks(queue, Parts) => Lacks(queue', Parts)
        /\ ~Lacks(queue, {"compaction"}) => ~Lacks(queue', {"compaction"})
        /\ Lacks(queue, {"option"}) => Lacks(queue', {"option"})
    BY <1>k, <2>k, <2>q
  <2> QED
    BY <1>t, <1>u, <1>s, <2>1, <2>q, <2>5, <2>6, FlaggedStep
<1>2. CASE app.picker = "none" /\ ~fg.busy
  <2>1. queue' = Tail(queue) /\ UNCHANGED <<app, worker>>
    BY <1>2 DEF OnEscape
  <2> QED
    BY <1>h, <1>u, <2>1, Unanswered
<1>3. CASE app.picker = "none" /\ fg.busy
  <2>1. /\ queue' = Tail(queue) /\ app' = [app EXCEPT !.bar = "cancelling"]
        /\ worker' = CancelRun(app.worker)
    BY <1>3 DEF OnEscape
  <2>2. /\ app' \in App /\ app'.input = app.input /\ app'.picker = app.picker
        /\ app'.launch = app.launch /\ app'.worker = app.worker
    BY <1>t, <2>1 DEF App
  <2>3. Flagged
    BY <1>i, <2>1, CancelRunFlags
  <2>4. /\ \A K : Lacks(queue, K) => Lacks(queue', K)
        /\ \A K : Once(queue, K) => Once(queue', K)
        /\ \A K, L : InFront(queue, K, L) => InFront(queue', K, L)
        /\ Ordered(queue) => Ordered(queue')
        /\ RunPicked(queue') => RunPicked(queue)
        /\ \A h : TrueBatches(queue, h) => TrueBatches(queue', h)
        /\ \A c : AnswersTo(queue, c) => AnswersTo(queue', c)
    BY <1>h, <2>1, TailKinds
  <2>5. Held'
    <3>1. Ordered(queue')
      BY <1>i, <2>4 DEF Held
    <3> QED
      BY <1>i, <1>h, <1>u, <2>2, <2>3, <2>4, <3>1, HeldFlagged
  <2>6. /\ Lacks(queue', Closing) => Lacks(queue, Closing)
        /\ HaltOf(queue, active) => HaltOf(queue', active)
        /\ Lacks(queue', {"finished"}) => Lacks(queue, {"finished"})
        /\ ~Lacks(queue, {"compaction"}) => ~Lacks(queue', {"compaction"})
    BY <1>k, <2>1
  <2> QED
    BY <1>t, <1>h, <1>u, <1>3, <2>1, <2>2, <2>3, <2>4, <2>5, <2>6, FlaggedStep
<1> QED
  BY <1>1, <1>2, <1>3

\* Another session takes a Run that waits; what is shown here is as it was.
LEMMA ElsewhereStep ==
  ASSUME TuiInv, NEW r \in Runs, AnsweredElsewhere(r)
  PROVE  TuiInv'
<1>i. Typed /\ Held /\ Answered /\ Left /\ Driven
  BY DEF TuiInv
<1>u. UNCHANGED <<queue, app, menu, view, active, fg, sd, worker, halted, acts, said,
                  closings, astray>>
  BY DEF AnsweredElsewhere
<1>1. Typed'
  <2>1. \A u \in Workers : WorkerOK(u)'
    BY <1>i, <1>u, WorkersKept
  <2>2. row' \in [Runs -> {"absent", "running", "waiting_for_approval", "completed",
                           "failed", "cancelled"}]
    BY <1>i, Types DEF AnsweredElsewhere
  <2> QED
    BY <1>i, <1>u, <2>1, <2>2, Types, StillTyped
<1>2. Held'
  <2>1. ASSUME NEW w \in Workers, Alive(w)' PROVE WorkerHolds(w)'
    <3>1. WorkerHolds(w)
      BY <1>i, <1>u, <2>1 DEF Held, Alive
    <3> QED
      BY <1>u, <3>1 DEF WorkerHolds, Pending, Alive, Driving
  <2>2. /\ ~Lacks(queue', Closing) => ClosingHolds'
        /\ Pending' => BatchHolds'
        /\ app'.picker # "none" => PickerHolds'
        /\ app'.launch # "none" => queue' = <<>>
    BY <1>i, <1>u DEF Held, ClosingHolds, BatchHolds, PickerHolds, Pending
  <2>3. /\ ~Lacks(queue', {"option"}) \/ menu'.shown \/ menu'.deny => Pending'
        /\ RunPicked(queue') => RunPickHolds'
        /\ Ordered(queue')
    BY <1>i, <1>u DEF Held, RunPickHolds, Pending
  <2> QED
    BY <2>1, <2>2, <2>3 DEF Held
<1>3. Answered'
  <2>1. TrueBatches(queue', halted) /\ AnswersTo(queue', Current(menu))
        /\ (~Lacks(queue', {"option"}) => menu.shown)
    BY <1>i, <1>u DEF Answered
  <2> QED
    BY <1>i, <1>u, <2>1, AnsweredFrame
<1>4. Left'
  <2>1. Quiet => Quiet'
    BY <1>u DEF Quiet
  <2> QED
    BY <1>i, <1>u, <2>1, LeftFrame
<1>5. Driven'
  <2>1. \A s \in Runs : row'[s] = row[s] \/ row'[s] # "running"
    BY <1>i, Types DEF AnsweredElsewhere
  <2> QED
    BY <1>i, <1>u, <2>1, DrivenFrame
<1> QED
  BY <1>1, <1>2, <1>3, <1>4, <1>5 DEF TuiInv

\* A worker does a step of its Run.
LEMMA WorkingStep ==
  ASSUME TuiInv, NEW w \in Workers, NEW s \in Seq(Message), AllParts(s),
         worker[w].pc \in {"configuring", "approving", "advancing"},
         queue' = queue \o s, closings' = closings,
         worker' \in [Workers -> Worker], \A u \in Workers : u # w => worker'[u] = worker[u],
         WorkerOK(w)', Driving(w)', worker'[w].entered,
         Driving(w) => worker'[w].run = worker[w].run,
         active' \in Runs, None \notin Runs, Undisturbed => active' = worker'[w].run,
         fg' \in [busy : BOOLEAN, run : Runs \union {None}, token : Workers \union {NoWorker}],
         fg'.busy, fg'.token = w,
         worker'[w].pc = "approving" => fg'.run = worker'[w].run,
         worker'[w].pc = "advancing" /\ worker'[w].cancel => worker'[w].token,
         row' \in [Runs -> {"absent", "running", "waiting_for_approval", "completed",
                            "failed", "cancelled"}],
         \A r \in Runs : row'[r] = "running" => row[r] = "running" \/ r = worker'[w].run,
         UNCHANGED <<app, menu, view, sd, halted, acts, said, astray>>
  PROVE  TuiInv'
<1>i. Typed /\ Held /\ Answered /\ Left /\ Driven
  BY DEF TuiInv
<1>t. queue \in Seq(Message)
  BY <1>i, Types
<1>a. Alive(w) /\ worker[w].pc # "compacting"
  BY DEF Alive
<1>w. \A u \in Workers : WorkerOK(u)'
  <2>1. ASSUME NEW u \in Workers, u # w PROVE WorkerOK(u)'
    BY <1>i, <2>1, SameWorker DEF Typed
  <2> QED
    BY <2>1
<1>l. Lacks(s, Closing) /\ Lacks(s, {"option"})
  BY PartsLack
<1>1. Typed'
  <2>1. queue' \in Seq(Message)
    BY <1>t, Behind
  <2> QED
    BY <1>i, <1>w, <2>1, Types, StillTyped
<1>2. Held'
  BY <1>i, <1>t, <1>a, HeldWorking
<1>3. Answered'
  <2>1. TrueBatches(s, halted') /\ (\A r \in Runs : Distinct(halted'[r]))
    BY <1>i, <1>l, LacksClosing DEF Answered
  <2>2. worker'[w].pc # "configuring"
    BY DEF Driving
  <2> QED
    BY <1>i, <1>t, <1>a, <1>l, <2>1, <2>2, AnsweredByWorker
<1>4. Left'
  BY <1>i, <1>t, <1>a, LeftWorking
<1>5. Driven'
  <2>1. \A u \in Workers : worker'[u].entered => worker'[u].run \in Runs
    BY <1>w DEF WorkerOK
  <2> QED
    BY <1>i, <2>1, DrivenByWorker
<1> QED
  BY <1>1, <1>2, <1>3, <1>4, <1>5 DEF TuiInv

\* What is known of the one worker that is alive.
LEMMA OneWorker ==
  ASSUME TuiInv, TuiAssumption, NEW w \in Workers, Alive(w)
  PROVE  /\ Typed /\ Held /\ Answered /\ Left /\ Driven
         /\ WorkerHolds(w) /\ WorkerOK(w) /\ worker[w] \in Worker /\ w # NoWorker
         /\ worker \in [Workers -> Worker] /\ active \in Runs \union {None}
         /\ halted \in [Runs -> Seq(Calls)] /\ None \notin Runs
         /\ row \in [Runs -> {"absent", "running", "waiting_for_approval", "completed",
                              "failed", "cancelled"}]
         /\ fg \in [busy : BOOLEAN, run : Runs \union {None}, token : Workers \union {NoWorker}]
         /\ Driving(w) => active \in Runs /\ worker[w].run \in Runs
         /\ Undisturbed /\ Driving(w) => active = worker[w].run
         /\ Undisturbed /\ ~Driving(w) =>
              active = None \/ (worker[w].kind = "approve" /\ active = worker[w].run)
<1>1. Typed /\ Held /\ Answered /\ Left /\ Driven
  BY DEF TuiInv
<1>2. /\ worker \in [Workers -> Worker] /\ active \in Runs \union {None}
      /\ halted \in [Runs -> Seq(Calls)] /\ None \notin Runs
      /\ row \in [Runs -> {"absent", "running", "waiting_for_approval", "completed",
                           "failed", "cancelled"}]
      /\ fg \in [busy : BOOLEAN, run : Runs \union {None}, token : Workers \union {NoWorker}]
  BY <1>1, Types, TuiAssumption
<1>3. WorkerHolds(w) /\ WorkerOK(w) /\ w # NoWorker
  BY <1>1 DEF Held, Typed, Workers, NoWorker
<1>4. Driving(w) => active \in Runs /\ worker[w].run \in Runs
  BY <1>2, <1>3 DEF WorkerHolds, WorkerOK, Driving
<1>5. Undisturbed /\ Driving(w) => active = worker[w].run
  BY DEF Undisturbed
<1>6. ASSUME Undisturbed, ~Driving(w), active # None
      PROVE  worker[w].kind = "approve" /\ active = worker[w].run
  BY <1>3, <1>6, LacksClosing DEF Undisturbed, Presented, WorkerHolds
<1> QED
  BY <1>1, <1>2, <1>3, <1>4, <1>5, <1>6

LEMMA EnterStartStep ==
  ASSUME TuiAssumption, TuiInv, NEW w \in Workers, EnterStart(w)
  PROVE  TuiInv'
<1>0. worker[w].pc = "configuring" /\ worker[w].kind = "start" /\ worker[w].cancel = FALSE /\ Alive(w)
  <2>1. At(w, "configuring") /\ worker[w].kind = "start"
    BY DEF EnterStart
  <2>2. Alive(w)
    BY <2>1 DEF At, Alive
  <2> QED
    BY <2>1, <2>2, OneWorker DEF At, Worker
<1>i. /\ Typed /\ worker \in [Workers -> Worker] /\ worker[w] \in Worker
      /\ active \in Runs \union {None} /\ None \notin Runs
      /\ row \in [Runs -> {"absent", "running", "waiting_for_approval", "completed",
                           "failed", "cancelled"}]
      /\ fg \in [busy : BOOLEAN, run : Runs \union {None}, token : Workers \union {NoWorker}]
      /\ Undisturbed => active = None
  BY <1>0, OneWorker DEF Driving
<1>1. PICK r \in Runs :
        /\ row' = [row EXCEPT ![r] = "running"]
        /\ worker' = [worker EXCEPT ![w].run = r, ![w].pc = "advancing", ![w].entered = TRUE]
        /\ active' = OnStarted(active, r)
  BY DEF EnterStart
<1>2. /\ worker' \in [Workers -> Worker] /\ \A u \in Workers : u # w => worker'[u] = worker[u]
      /\ worker'[w].run = r /\ worker'[w].pc = "advancing" /\ worker'[w].entered
      /\ worker'[w].kind = "start" /\ worker'[w].cancel = FALSE
  <2>1. worker'[w] = [worker[w] EXCEPT !.run = r, !.pc = "advancing", !.entered = TRUE]
    BY <1>i, <1>1
  <2>2. \A u \in Workers : u # w => worker'[u] = worker[u]
    BY <1>i, <1>1
  <2>3. worker' = [u \in Workers |-> worker'[u]]
    BY <1>i, <1>1
  <2> DEFINE x == worker[w]
             y == [x EXCEPT !.run = r, !.pc = "advancing", !.entered = TRUE]
  <2>4. x \in Worker /\ worker'[w] = y
    BY <1>i, <2>1
  <2>5. x.kind = "start" /\ x.cancel = FALSE
    BY <1>0
  <2> HIDE DEF x
  <2>6. /\ y \in Worker /\ y.run = r /\ y.pc = "advancing" /\ y.entered = TRUE
        /\ y.kind = "start" /\ y.cancel = FALSE
    BY <2>4, <2>5 DEF Worker
  <2> HIDE DEF y
  <2>7. \A u \in Workers : worker'[u] \in Worker
    BY <1>i, <2>2, <2>4, <2>6
  <2> QED
    BY <2>2, <2>3, <2>4, <2>6, <2>7
<1>3. WorkerOK(w)' /\ Driving(w)'
  BY <1>2 DEF WorkerOK, Driving, Alive
<1>4. active' \in Runs /\ (Undisturbed => active' = worker'[w].run)
  BY <1>i, <1>1, <1>2 DEF OnStarted
<1>5. /\ fg' \in [busy : BOOLEAN, run : Runs \union {None}, token : Workers \union {NoWorker}]
      /\ fg'.busy /\ fg'.token = w
  BY <1>i DEF EnterStart
<1>6. /\ row' \in [Runs -> {"absent", "running", "waiting_for_approval", "completed",
                            "failed", "cancelled"}]
      /\ \A q \in Runs : row'[q] = "running" => row[q] = "running" \/ q = worker'[w].run
  BY <1>i, <1>1, <1>2
<1>7. <<>> \in Seq(Message) /\ AllParts(<<>>) /\ queue' = queue \o <<>> /\ ~Driving(w)
  BY <1>0, <1>i, Types DEF EnterStart, AllParts, Driving
<1>8. UNCHANGED <<app, menu, view, sd, halted, acts, said, closings, astray>>
  BY DEF EnterStart
<1> QED
  BY <1>0, <1>i, <1>2, <1>3, <1>4, <1>5, <1>6, <1>7, <1>8, WorkingStep, ZenonT(30)

\* The messages that show the calls of a batch.
LEMMA BatchParts ==
  ASSUME NEW r \in Runs, NEW b \in Seq(Calls), NEW k \in {"tool", "result"},
         NEW s, s = [i \in 1..Len(b) |-> Msg(k, r, b[i])]
  PROVE  s \in Seq(Message) /\ AllParts(s)
<1>1. \A i \in 1..Len(b) : b[i] \in Calls
  OBVIOUS
<1>2. \A i \in 1..Len(b) : Msg(k, r, b[i]) \in Message /\ Msg(k, r, b[i]).kind \in Parts
  BY <1>1, MessageTypes, Fields DEF Parts
<1> DEFINE f(i) == Msg(k, r, b[i])
<1>3. s = [i \in 1..Len(b) |-> f(i)] /\ \A i \in 1..Len(b) : f(i) \in Message /\ f(i).kind \in Parts
  BY <1>2
<1>4. Len(b) \in Nat
  OBVIOUS
<1> HIDE DEF f
<1>5. s \in Seq(Message) /\ Len(s) = Len(b)
  BY <1>3, <1>4
<1> QED
  BY <1>3, <1>5 DEF AllParts

LEMMA PartsAlone ==
  ASSUME NEW m \in Message, m.kind \in Parts, NEW s, s = <<m>> \/ s = <<>>
  PROVE  s \in Seq(Message) /\ AllParts(s)
<1>1. CASE s = <<m>>
  <2>1. s \in Seq(Message) /\ Len(s) = 1 /\ s[1] = m
    BY <1>1
  <2> QED
    BY <2>1 DEF AllParts
<1>2. CASE s = <<>>
  BY <1>2 DEF AllParts
<1> QED
  BY <1>1, <1>2

LEMMA PartsSent ==
  ASSUME Typed, NEW w \in Workers, NEW s \in Seq(Message), AllParts(s), Send(w, s)
  PROVE  queue' = queue \o s /\ closings' = closings
<1>1. Lacks(s, Closing)
  BY PartsLack
<1>2. /\ queue' = queue \o s /\ closings'[w] = closings[w]
      /\ \A u \in Workers : u # w => closings'[u] = closings[u]
  BY <1>1, Sends
<1>3. closings \in [Workers -> Nat] /\ closings' \in [Workers -> Nat]
  BY Sends, Types
<1> QED
  BY <1>2, <1>3

LEMMA EnterStoredStep ==
  ASSUME TuiAssumption, TuiInv, NEW w \in Workers, EnterStored(w)
  PROVE  TuiInv'
<1> DEFINE r == worker[w].run
<1>0. /\ worker[w].pc = "configuring" /\ worker[w].kind \in {"approve", "continue"}
      /\ ~worker[w].cancel /\ Alive(w)
  BY DEF EnterStored, At, Alive
<1>i. /\ Typed /\ worker \in [Workers -> Worker] /\ worker[w] \in Worker /\ WorkerOK(w)
      /\ None \notin Runs /\ halted \in [Runs -> Seq(Calls)]
      /\ row \in [Runs -> {"absent", "running", "waiting_for_approval", "completed",
                           "failed", "cancelled"}]
      /\ fg \in [busy : BOOLEAN, run : Runs \union {None}, token : Workers \union {NoWorker}]
  BY <1>0, OneWorker
<1>r. r \in Runs /\ ~Driving(w)
  BY <1>0, <1>i DEF WorkerOK, Driving
<1> DEFINE p == IF worker[w].kind = "approve" THEN "approving" ELSE "advancing"
           s == IF worker[w].kind = "approve"
                THEN [i \in 1..Len(halted[r]) |-> Msg("tool", r, halted[r][i])] ELSE <<>>
           x == worker[w]
           y == [x EXCEPT !.pc = p, !.open = DOMAIN x.verdicts, !.entered = TRUE]
<1>1. /\ worker' = [worker EXCEPT ![w] = y] /\ row' = [row EXCEPT ![r] = "running"]
      /\ active' = r /\ fg' = [busy |-> TRUE, run |-> r, token |-> w] /\ Send(w, s)
      /\ UNCHANGED <<app, menu, view, sd, halted, acts, said, astray>>
  BY <1>0, <1>i DEF EnterStored, OnResume
<1>y. /\ y \in Worker /\ y.run = r /\ y.pc = p /\ y.entered = TRUE /\ y.kind = x.kind
      /\ y.cancel = FALSE /\ p \in {"approving", "advancing"}
      /\ p = "approving" <=> x.kind = "approve"
  <2>1. x \in Worker /\ x.run = r /\ x.cancel = FALSE
    BY <1>0, <1>i DEF Worker
  <2>2. p \in {"approving", "advancing"} /\ (p = "approving" <=> x.kind = "approve")
    OBVIOUS
  <2>3. DOMAIN x.verdicts \subseteq Calls
    <3>1. x.verdicts \in UNION {[cs -> Verdict] : cs \in SUBSET Calls}
      BY <2>1 DEF Worker
    <3> QED
      BY <3>1, VerdictsOf
  <2> DEFINE o == DOMAIN x.verdicts
  <2> HIDE DEF p, x, r, o
  <2>4. LET z == [x EXCEPT !.pc = p, !.open = o, !.entered = TRUE] IN
        /\ z \in Worker /\ z.run = r /\ z.pc = p /\ z.entered = TRUE /\ z.kind = x.kind
        /\ z.cancel = FALSE
    BY <2>1, <2>2, <2>3 DEF Worker, o
  <2> QED
    BY <2>2, <2>4 DEF o
<1>k. x.kind \in {"approve", "continue"} /\ x.run = r
  BY <1>0
<1>s. s \in Seq(Message) /\ AllParts(s)
  <2>1. CASE worker[w].kind = "approve"
    BY <1>i, <1>r, <2>1, BatchParts
  <2>2. CASE worker[w].kind # "approve"
    BY <2>2 DEF AllParts
  <2> QED
    BY <2>1, <2>2
<1> HIDE DEF s, y, p
<1>2. /\ worker' \in [Workers -> Worker] /\ \A u \in Workers : u # w => worker'[u] = worker[u]
      /\ worker'[w] = y
  BY <1>i, <1>1, <1>y
<1>3. WorkerOK(w)' /\ Driving(w)'
  BY <1>y, <1>k, <1>r, <1>2 DEF WorkerOK, Driving, Alive
<1>4. queue' = queue \o s /\ closings' = closings
  BY <1>i, <1>1, <1>s, PartsSent
<1>5. /\ fg' \in [busy : BOOLEAN, run : Runs \union {None}, token : Workers \union {NoWorker}]
      /\ fg'.busy /\ fg'.token = w /\ fg'.run = r
  BY <1>1, <1>r
<1>6. /\ row' \in [Runs -> {"absent", "running", "waiting_for_approval", "completed",
                            "failed", "cancelled"}]
      /\ \A q \in Runs : row'[q] = "running" => row[q] = "running" \/ q = worker'[w].run
  BY <1>i, <1>1, <1>2, <1>y
<1> HIDE DEF x, r
<1>7. active' \in Runs /\ active' = worker'[w].run /\ worker'[w].entered /\ ~worker'[w].cancel
  BY <1>1, <1>2, <1>r, <1>y
<1> QED
  BY <1>0, <1>1, <1>2, <1>3, <1>4, <1>5, <1>6, <1>7, <1>i, <1>r, <1>s, <1>y, WorkingStep

\* A worker that drives its Run does a step, and its Run stays the one presented.
LEMMA DrivingStep ==
  ASSUME TuiAssumption, TuiInv, NEW w \in Workers, Driving(w), worker[w].cancel = FALSE,
         NEW s \in Seq(Message), AllParts(s), queue' = queue \o s, closings' = closings,
         NEW y \in Worker, worker' = [worker EXCEPT ![w] = y],
         y.run = worker[w].run, y.pc = "advancing", y.kind = worker[w].kind,
         y.entered = worker[w].entered, y.cancel = FALSE,
         active' = active, UNCHANGED <<app, menu, view, fg, sd, row, halted, acts, said, astray>>
  PROVE  TuiInv'
<1>0. Alive(w) /\ worker[w].pc \in {"configuring", "approving", "advancing"}
  BY DEF Driving, Alive
<1>i. /\ worker \in [Workers -> Worker] /\ None \notin Runs
      /\ WorkerHolds(w) /\ WorkerOK(w) /\ active \in Runs /\ worker[w].run \in Runs
      /\ Undisturbed => active = worker[w].run
      /\ row \in [Runs -> {"absent", "running", "waiting_for_approval", "completed",
                           "failed", "cancelled"}]
      /\ fg \in [busy : BOOLEAN, run : Runs \union {None}, token : Workers \union {NoWorker}]
  BY <1>0, OneWorker
<1>1. /\ worker' \in [Workers -> Worker] /\ \A u \in Workers : u # w => worker'[u] = worker[u]
      /\ worker'[w] = y
  BY <1>i
<1>2. WorkerOK(w)' /\ Driving(w)' /\ worker'[w].entered
  BY <1>i, <1>1 DEF WorkerOK, Driving, Alive
<1>3. fg.busy /\ fg.token = w
  BY <1>i DEF WorkerHolds
<1>4. /\ active' \in Runs /\ (Undisturbed => active' = worker'[w].run)
      /\ worker'[w].run = worker[w].run /\ worker'[w].pc = "advancing" /\ ~worker'[w].cancel
  BY <1>i, <1>1
<1> QED
  BY <1>0, <1>i, <1>1, <1>2, <1>3, <1>4, WorkingStep, ZenonT(30)

LEMMA AppliedStep ==
  ASSUME TuiAssumption, TuiInv, NEW w \in Workers, ApprovalsApplied(w)
  PROVE  TuiInv'
<1> DEFINE r == worker[w].run
           x == worker[w]
           y == [x EXCEPT !.pc = "advancing", !.open = {}]
           s == IF IsActive(active, r)
                THEN [i \in 1..Len(halted[r]) |-> Msg("result", r, halted[r][i])] ELSE <<>>
<1>0. Driving(w) /\ ~worker[w].cancel /\ Alive(w)
  BY DEF ApprovalsApplied, At, Driving, Alive
<1>i. /\ Typed /\ worker \in [Workers -> Worker] /\ x \in Worker
      /\ halted \in [Runs -> Seq(Calls)] /\ r \in Runs
  BY <1>0, OneWorker
<1>1. /\ worker' = [worker EXCEPT ![w] = y] /\ Send(w, s)
      /\ UNCHANGED <<app, menu, view, active, fg, sd, row, halted, acts, said, astray>>
  BY <1>i DEF ApprovalsApplied
<1>s. s \in Seq(Message) /\ AllParts(s)
  <2>1. CASE IsActive(active, r)
    BY <1>i, <2>1, BatchParts
  <2>2. CASE ~IsActive(active, r)
    BY <2>2 DEF AllParts
  <2> QED
    BY <2>1, <2>2
<1>c. x.cancel = FALSE
  BY <1>0, <1>i DEF Worker
<1> HIDE DEF s, x
<1>y. /\ y \in Worker /\ y.run = x.run /\ y.pc = "advancing" /\ y.kind = x.kind
      /\ y.entered = x.entered /\ y.cancel = FALSE
  BY <1>i, <1>c DEF Worker
<1> HIDE DEF y
<1>2. queue' = queue \o s /\ closings' = closings
  BY <1>i, <1>1, <1>s, PartsSent
<1> QED
  BY <1>0, <1>1, <1>2, <1>c, <1>s, <1>y, DrivingStep DEF x

\* What ShowEvent changes of the worker.
LEMMA ShowStep ==
  ASSUME TuiAssumption, TuiInv, NEW w \in Workers, ShowEvent(w)
  PROVE  TuiInv'
<1> DEFINE r == worker[w].run
           x == worker[w]
           y(e, o) == [x EXCEPT !.events = e, !.open = o]
<1>0. Driving(w) /\ ~worker[w].cancel /\ Alive(w) /\ worker[w].pc = "advancing"
      /\ worker[w].events < MaxEvents
  BY DEF ShowEvent, At, Driving, Alive
<1>i. Typed /\ worker \in [Workers -> Worker] /\ x \in Worker /\ r \in Runs /\ r # None
  BY <1>0, OneWorker
<1>x. /\ x.cancel = FALSE /\ x.open \subseteq Calls /\ x.events \in 0..MaxEvents
      /\ x.events + 1 \in 0..MaxEvents
  <2>1. x.cancel = FALSE /\ x.open \subseteq Calls /\ x.events \in 0..MaxEvents
    BY <1>0, <1>i DEF Worker
  <2> QED
    BY <1>0, <2>1, TuiAssumption
<1>1. PICK m \in Message, e \in 0..MaxEvents, o \in SUBSET Calls :
        /\ m.kind \in Parts /\ Send(w, Post(active, r, m))
        /\ worker' = [worker EXCEPT ![w] = y(e, o)]
  <2>1. CASE \E kind \in {"thinking", "text"} : Send(w, Post(active, r, Msg(kind, r, None)))
             /\ worker' = [worker EXCEPT ![w].events = @ + 1]
    <3>1. PICK kind \in {"thinking", "text"} : Send(w, Post(active, r, Msg(kind, r, None)))
             /\ worker' = [worker EXCEPT ![w].events = @ + 1]
      BY <2>1
    <3>2. Msg(kind, r, None) \in Message /\ Msg(kind, r, None).kind \in Parts
      BY <1>i, MessageTypes, Fields DEF Parts
    <3>3. worker' = [worker EXCEPT ![w] = y(x.events + 1, x.open)]
      BY <1>i, <3>1 DEF Worker
    <3>4. x.events + 1 \in 0..MaxEvents /\ x.open \in SUBSET Calls
      BY <1>x
    <3> HIDE DEF y, x
    <3> QED
      BY <3>1, <3>2, <3>3, <3>4
  <2>2. CASE \E c \in Calls \ worker[w].open :
             /\ Send(w, Post(active, r, Msg("tool", r, c)))
             /\ worker' = [worker EXCEPT ![w].events = @ + 1, ![w].open = @ \union {c}]
    <3>1. PICK c \in Calls :
             /\ Send(w, Post(active, r, Msg("tool", r, c)))
             /\ worker' = [worker EXCEPT ![w].events = @ + 1, ![w].open = @ \union {c}]
      BY <2>2
    <3>2. Msg("tool", r, c) \in Message /\ Msg("tool", r, c).kind \in Parts
      BY <1>i, MessageTypes, Fields DEF Parts
    <3>3. worker' = [worker EXCEPT ![w] = y(x.events + 1, x.open \union {c})]
      BY <1>i, <3>1 DEF Worker
    <3>4. x.events + 1 \in 0..MaxEvents /\ x.open \union {c} \in SUBSET Calls
      BY <1>x
    <3> HIDE DEF y, x
    <3> QED
      BY <3>1, <3>2, <3>3, <3>4
  <2>3. CASE \E c \in worker[w].open :
             /\ Send(w, Post(active, r, Msg("result", r, c)))
             /\ worker' = [worker EXCEPT ![w].open = @ \ {c}]
    <3>1. PICK c \in Calls :
             /\ Send(w, Post(active, r, Msg("result", r, c)))
             /\ worker' = [worker EXCEPT ![w].open = @ \ {c}]
      BY <1>x, <2>3
    <3>2. Msg("result", r, c) \in Message /\ Msg("result", r, c).kind \in Parts
      BY <1>i, MessageTypes, Fields DEF Parts
    <3>3. worker' = [worker EXCEPT ![w] = y(x.events, x.open \ {c})]
      BY <1>i, <3>1 DEF Worker
    <3>4. x.events \in 0..MaxEvents /\ x.open \ {c} \in SUBSET Calls
      BY <1>x
    <3> HIDE DEF y, x
    <3> QED
      BY <3>1, <3>2, <3>3, <3>4
  <2> QED
    BY <2>1, <2>2, <2>3 DEF ShowEvent
<1> DEFINE s == Post(active, r, m)
           z == y(e, o)
<1>s. s \in Seq(Message) /\ AllParts(s)
  BY <1>1, Posted, PartsAlone
<1>2. Send(w, s) /\ worker' = [worker EXCEPT ![w] = z]
      /\ UNCHANGED <<app, menu, view, active, fg, sd, row, halted, acts, said, astray>>
  BY <1>1 DEF ShowEvent
<1> HIDE DEF s, x
<1>z. /\ z \in Worker /\ z.run = x.run /\ z.pc = x.pc /\ z.kind = x.kind
      /\ z.entered = x.entered /\ z.cancel = FALSE
  BY <1>i, <1>x DEF Worker
<1> HIDE DEF z
<1>3. queue' = queue \o s /\ closings' = closings
  BY <1>i, <1>2, <1>s, PartsSent
<1> QED
  BY <1>0, <1>2, <1>3, <1>x, <1>s, <1>z, DrivingStep DEF x

LEMMA NestedStartsStep ==
  ASSUME TuiAssumption, TuiInv, NEW w \in Workers, NestedStarts(w)
  PROVE  TuiInv'
<1> DEFINE x == worker[w]
           y == [x EXCEPT !.nested = TRUE]
<1>0. Driving(w) /\ ~worker[w].cancel /\ Alive(w) /\ worker[w].pc = "advancing"
  BY DEF NestedStarts, At, Driving, Alive
<1>i. Typed /\ worker \in [Workers -> Worker] /\ x \in Worker /\ active \in Runs /\ active # None
  BY <1>0, OneWorker
<1>1. /\ worker' = [worker EXCEPT ![w] = y] /\ active' = active
      /\ UNCHANGED <<queue, app, menu, view, fg, sd, row, halted, acts, said, closings, astray>>
  BY <1>i DEF NestedStarts, OnStarted
<1>2. x.cancel = FALSE
  BY <1>0, <1>i DEF Worker
<1> HIDE DEF x
<1>y. /\ y \in Worker /\ y.run = x.run /\ y.pc = x.pc /\ y.kind = x.kind
      /\ y.entered = x.entered /\ y.cancel = FALSE
  BY <1>i, <1>2 DEF Worker
<1> HIDE DEF y
<1>q. <<>> \in Seq(Message) /\ AllParts(<<>>) /\ queue' = queue \o <<>>
  BY <1>i, <1>1, Types DEF AllParts
<1> QED
  BY <1>0, <1>1, <1>2, <1>q, <1>y, DrivingStep DEF x

\* The end of a nested Run is not shown: the Run above it is the one presented.
LEMMA NestedEndsStep ==
  ASSUME TuiAssumption, TuiInv, NEW w \in Workers, NestedEnds(w)
  PROVE  TuiInv'
<1> DEFINE x == worker[w]
           y == [x EXCEPT !.nested = FALSE]
<1>0. Driving(w) /\ ~worker[w].cancel /\ Alive(w) /\ worker[w].pc = "advancing"
  BY DEF NestedEnds, At, Driving, Alive
<1>i. /\ Typed /\ worker \in [Workers -> Worker] /\ x \in Worker
      /\ active # None /\ active # Nested
  BY <1>0, OneWorker, TuiAssumption
<1>1. /\ worker' = [worker EXCEPT ![w] = y] /\ active' = active /\ Send(w, <<>>)
      /\ UNCHANGED <<app, menu, view, fg, sd, row, halted, acts, said, astray>>
  BY <1>i DEF NestedEnds, OnTerminal, Post, IsActive
<1>2. x.cancel = FALSE
  BY <1>0, <1>i DEF Worker
<1> HIDE DEF x
<1>y. /\ y \in Worker /\ y.run = x.run /\ y.pc = x.pc /\ y.kind = x.kind
      /\ y.entered = x.entered /\ y.cancel = FALSE
  BY <1>i, <1>2 DEF Worker
<1> HIDE DEF y
<1>q. /\ <<>> \in Seq(Message) /\ AllParts(<<>>)
      /\ queue' = queue \o <<>> /\ closings' = closings
  <2>1. <<>> \in Seq(Message) /\ AllParts(<<>>)
    BY DEF AllParts
  <2> QED
    BY <1>i, <1>1, <2>1, PartsSent
<1> QED
  BY <1>0, <1>1, <1>2, <1>q, <1>y, DrivingStep DEF x

(***************************************************************************)
(* A worker leaves.                                                        *)
(***************************************************************************)
LEMMA LeavingStep ==
  ASSUME TuiAssumption, TuiInv, NEW w \in Workers, NEW s \in Seq(Message), Gone(w), Send(w, s),
         worker[w].pc \in {"configuring", "approving", "advancing"},
         s = <<>> \/ (\E m \in Message : s = <<m>> /\ m.kind \in Closing),
         halted' \in [Runs -> Seq(Calls)], \A r \in Runs : Distinct(halted'[r]),
         TrueBatches(s, halted'),
         active' \in Runs \union {None},
         fg' \in [busy : BOOLEAN, run : Runs \union {None}, token : Workers \union {NoWorker}],
         row' \in [Runs -> {"absent", "running", "waiting_for_approval", "completed",
                            "failed", "cancelled"}],
         \A r \in Runs : row'[r] = "running" => row[r] = "running",
         Driving(w) => row'[worker[w].run] # "running",
         astray' \subseteq {"configuring", "refused", "approving", "compacting"},
         astray \subseteq astray', UNCHANGED <<app, menu, view, sd, acts, said>>,
         Undisturbed /\ astray' = {} =>
            /\ ~fg'.busy
            /\ \E m : /\ s = <<m>> /\ m.kind \in Closing
                      /\ active' # None => m.kind = "approval" /\ m.run = active'
                      /\ active' = None => m.kind = "finished" \/ active = None
  PROVE  TuiInv'
<1>a. Alive(w) /\ worker[w].pc # "compacting"
  BY DEF Alive
<1>i. /\ Typed /\ Held /\ Answered /\ Left /\ Driven /\ WorkerOK(w)
      /\ queue \in Seq(Message) /\ closings \in [Workers -> Nat]
  BY <1>a, OneWorker, Types
<1>g. /\ worker' \in [Workers -> Worker] /\ \A u \in Workers : u # w => worker'[u] = worker[u]
      /\ worker'[w].pc = "gone" /\ worker'[w].kind = worker[w].kind
      /\ worker'[w].run = worker[w].run /\ worker'[w].entered = worker[w].entered
      /\ \A u \in Workers : WorkerOK(u)'
  BY <1>i, Goes
<1>s. /\ queue' = queue \o s /\ queue' \in Seq(Message)
      /\ closings' \in [Workers -> Nat]
      /\ \A u \in Workers : u # w => closings'[u] = closings[u]
      /\ Lacks(s, Closing) => closings'[w] = closings[w]
      /\ (\E m : s = <<m>> /\ m.kind \in Closing) => closings'[w] = closings[w] + 1
  BY <1>i, Sends, ZenonT(30)
<1>1. Typed'
  BY <1>i, <1>g, <1>s, Types, StillTyped
<1>2. Held'
  BY <1>i, <1>a, <1>g, <1>s, HeldLeaving
<1>3. Answered'
  <2>1. Lacks(s, {"option"})
    <3>1. CASE s = <<>>
      BY <3>1, NoMessage
    <3>2. ASSUME NEW m, s = <<m>>, m.kind \in Closing PROVE Lacks(s, {"option"})
      BY <3>2, OneMessage DEF Closing
    <3> QED
      BY <3>1, <3>2
  <2>2. worker'[w].pc # "configuring"
    BY <1>g
  <2> QED
    BY <1>i, <1>a, <1>g, <1>s, <2>1, <2>2, AnsweredByWorker
<1>4. Left'
  BY <1>i, <1>a, <1>g, <1>s, LeftLeaving
<1>5. Driven'
  <2>1. \A u \in Workers : worker'[u].entered => worker'[u].run \in Runs
    BY <1>g DEF WorkerOK
  <2> QED
    BY <1>i, <1>g, <2>1, DrivenByWorker
<1> QED
  BY <1>1, <1>2, <1>3, <1>4, <1>5 DEF TuiInv

\* A message that is no batch, alone or held back.
LEMMA NoBatchSent ==
  ASSUME NEW m \in Message, NEW s, s = <<m>> \/ s = <<>>, m.kind # "approval"
  PROVE  s \in Seq(Message) /\ \A h : TrueBatches(s, h)
<1>1. CASE s = <<m>>
  BY <1>1, OneMessage
<1>2. CASE s = <<>>
  BY <1>2, NoMessage
<1> QED
  BY <1>1, <1>2

LEMMA RefusedStep ==
  ASSUME TuiAssumption, TuiInv, NEW w \in Workers, EnterRefused(w)
  PROVE  TuiInv'
<1> DEFINE r == worker[w].run
           m == Msg("error", r, None)
           s == <<m>>
<1>0. worker[w].pc = "configuring" /\ worker[w].kind \in {"continue", "approve"} /\ Alive(w)
  BY DEF EnterRefused, At, Alive
<1>i. /\ Typed /\ Answered /\ WorkerOK(w) /\ ~Driving(w) /\ active \in Runs \union {None}
      /\ halted \in [Runs -> Seq(Calls)]
      /\ row \in [Runs -> {"absent", "running", "waiting_for_approval", "completed",
                           "failed", "cancelled"}]
      /\ astray \subseteq {"configuring", "refused", "approving", "compacting"}
  BY <1>0, OneWorker, Types DEF Driving
<1>r. r \in Runs
  BY <1>0, <1>i DEF WorkerOK
<1>m. m \in Message /\ m.kind = "error"
  BY <1>r, MessageTypes, Fields
<1>1. /\ Gone(w) /\ Send(w, s) /\ fg' = [busy |-> FALSE, run |-> r, token |-> NoWorker]
      /\ astray' = astray \union (IF active = None THEN {} ELSE {"refused"})
      /\ UNCHANGED <<app, menu, view, active, sd, row, halted, acts, said>>
  BY DEF EnterRefused
<1> HIDE DEF m
<1>2. /\ fg' \in [busy : BOOLEAN, run : Runs \union {None}, token : Workers \union {NoWorker}]
      /\ ~fg'.busy
  BY <1>1, <1>r
<1>3. /\ astray' \subseteq {"configuring", "refused", "approving", "compacting"}
      /\ astray \subseteq astray' /\ (astray' = {} => active = None)
  BY <1>1, <1>i
<1>4. /\ s \in Seq(Message) /\ s = <<m>> /\ m.kind \in Closing
      /\ TrueBatches(s, halted') /\ \A q \in Runs : Distinct(halted'[q])
  <2>1. s = <<m>> /\ m.kind \in Closing /\ m.kind # "approval"
    BY <1>m DEF Closing
  <2>2. s \in Seq(Message) /\ \A h : TrueBatches(s, h)
    BY <1>m, <2>1, NoBatchSent
  <2>3. \A q \in Runs : Distinct(halted'[q])
    BY <1>i, <1>1 DEF Answered
  <2> QED
    BY <2>1, <2>2, <2>3
<1> HIDE DEF s
<1> QED
  BY <1>0, <1>i, <1>m, <1>1, <1>2, <1>3, <1>4, LeavingStep

LEMMA NotResumableStep ==
  ASSUME TuiAssumption, TuiInv, NEW w \in Workers, NotResumable(w)
  PROVE  TuiInv'
<1> DEFINE r == worker[w].run
           m == Msg("error", r, None)
           s == <<m>>
<1>0. worker[w].pc = "configuring" /\ worker[w].kind = "approve" /\ Alive(w)
  BY DEF NotResumable, At, Alive
<1>i. /\ Typed /\ Answered /\ WorkerOK(w) /\ ~Driving(w) /\ active \in Runs \union {None}
      /\ halted \in [Runs -> Seq(Calls)]
      /\ row \in [Runs -> {"absent", "running", "waiting_for_approval", "completed",
                           "failed", "cancelled"}]
      /\ fg \in [busy : BOOLEAN, run : Runs \union {None}, token : Workers \union {NoWorker}]
      /\ astray \subseteq {"configuring", "refused", "approving", "compacting"}
  BY <1>0, OneWorker, Types DEF Driving
<1>r. r \in Runs
  BY <1>0, <1>i DEF WorkerOK
<1>m. m \in Message /\ m.kind = "error"
  BY <1>r, MessageTypes, Fields
<1>1. /\ Gone(w) /\ Send(w, s) /\ astray' = astray \union {"refused"}
      /\ UNCHANGED <<app, menu, view, active, fg, sd, row, halted, acts, said>>
  BY DEF NotResumable
<1> HIDE DEF m
<1>3. /\ astray' \subseteq {"configuring", "refused", "approving", "compacting"}
      /\ astray \subseteq astray' /\ astray' # {}
  BY <1>1, <1>i
<1>4. /\ s \in Seq(Message) /\ s = <<m>> /\ m.kind \in Closing
      /\ TrueBatches(s, halted') /\ \A q \in Runs : Distinct(halted'[q])
  <2>1. s = <<m>> /\ m.kind \in Closing /\ m.kind # "approval"
    BY <1>m DEF Closing
  <2>2. s \in Seq(Message) /\ \A h : TrueBatches(s, h)
    BY <1>m, <2>1, NoBatchSent
  <2>3. \A q \in Runs : Distinct(halted'[q])
    BY <1>i, <1>1 DEF Answered
  <2> QED
    BY <2>1, <2>2, <2>3
<1> HIDE DEF s
<1> QED
  BY <1>0, <1>i, <1>m, <1>1, <1>3, <1>4, LeavingStep

\* The Run is ended, and said to be so, by the worker that is presented.
LEMMA TerminalStep ==
  ASSUME TuiAssumption, TuiInv, NEW w \in Workers, worker[w].pc = "advancing",
         NEW end \in {"completed", "failed", "cancelled"},
         row' = [row EXCEPT ![worker[w].run] = end],
         active' = OnTerminal(active, worker[w].run),
         Send(w, Post(active, worker[w].run, Msg("finished", worker[w].run, None))),
         Gone(w), fg' = [Released EXCEPT !.run = worker[w].run],
         UNCHANGED <<app, menu, view, sd, halted, acts, said, astray>>
  PROVE  TuiInv'
<1> DEFINE r == worker[w].run
           m == Msg("finished", r, None)
           s == Post(active, r, m)
<1>0. Driving(w) /\ Alive(w)
  BY DEF Driving, Alive
<1>i. /\ Typed /\ Answered /\ active \in Runs /\ r \in Runs /\ (Undisturbed => active = r)
      /\ halted \in [Runs -> Seq(Calls)] /\ None \notin Runs
      /\ row \in [Runs -> {"absent", "running", "waiting_for_approval", "completed",
                           "failed", "cancelled"}]
      /\ fg \in [busy : BOOLEAN, run : Runs \union {None}, token : Workers \union {NoWorker}]
      /\ astray \subseteq {"configuring", "refused", "approving", "compacting"}
  BY <1>0, OneWorker, Types
<1>m. m \in Message /\ m.kind = "finished"
  BY <1>i, MessageTypes, Fields
<1> HIDE DEF m
<1>s. s \in Seq(Message) /\ (s = <<m>> \/ s = <<>>) /\ (active = r => s = <<m>>)
  BY <1>m, Posted
<1> HIDE DEF s
<1>1. Gone(w) /\ Send(w, s) /\ astray' = astray
      /\ UNCHANGED <<app, menu, view, sd, halted, acts, said>>
  BY DEF s, m
<1>2. /\ fg' \in [busy : BOOLEAN, run : Runs \union {None}, token : Workers \union {NoWorker}]
      /\ ~fg'.busy
  BY <1>i DEF Released
<1>3. active' \in Runs \union {None} /\ (active = r => active' = None)
  BY <1>i DEF OnTerminal, IsActive
<1>4. /\ row' \in [Runs -> {"absent", "running", "waiting_for_approval", "completed",
                            "failed", "cancelled"}]
      /\ \A q \in Runs : row'[q] = "running" => row[q] = "running"
      /\ row'[r] # "running"
  BY <1>i
<1>5. TrueBatches(s, halted') /\ \A q \in Runs : Distinct(halted'[q])
  <2>1. \A h : TrueBatches(s, h)
    BY <1>m, <1>s, NoBatchSent
  <2> QED
    BY <1>i, <2>1 DEF Answered
<1>6. s = <<>> \/ \E n \in Message : s = <<n>> /\ n.kind \in Closing
  BY <1>m, <1>s DEF Closing
<1>7. Undisturbed => /\ ~fg'.busy /\ s = <<m>> /\ m.kind \in Closing
                     /\ m.kind = "finished" /\ active' = None
  BY <1>i, <1>m, <1>s, <1>2, <1>3 DEF Closing
<1>8. /\ halted' \in [Runs -> Seq(Calls)] /\ astray \subseteq astray'
      /\ astray' \subseteq {"configuring", "refused", "approving", "compacting"}
  BY <1>i
<1> HIDE DEF r
<1> QED
  BY <1>i, <1>s, <1>1, <1>2, <1>3, <1>4, <1>5, <1>6, <1>7, <1>8, LeavingStep DEF r

LEMMA FinishesStep ==
  ASSUME TuiAssumption, TuiInv, NEW w \in Workers, Finishes(w)
  PROVE  TuiInv'
<1>1. worker[w].pc = "advancing"
  BY DEF Finishes, At
<1>2. PICK end \in {"completed", "failed"} : row' = [row EXCEPT ![worker[w].run] = end]
  BY DEF Finishes
<1> QED
  BY <1>1, <1>2, TerminalStep DEF Finishes

\* The cancellation of a Run that advances finds its token set.
LEMMA CancelledAdvanceStep ==
  ASSUME TuiAssumption, TuiInv, NEW w \in Workers, CancelledInAdvance(w)
  PROVE  TuiInv'
<1>1. worker[w].pc = "advancing" /\ worker[w].cancel
  BY DEF CancelledInAdvance
<1>2. worker[w].token
  BY <1>1, OneWorker DEF Alive, Driving, WorkerHolds
<1> QED
  BY <1>1, <1>2, TerminalStep DEF CancelledInAdvance

LEMMA HaltsStep ==
  ASSUME TuiAssumption, DistinctCalls, TuiInv, NEW w \in Workers, Halts(w)
  PROVE  TuiInv'
<1> DEFINE r == worker[w].run
<1>0. Driving(w) /\ Alive(w) /\ worker[w].pc = "advancing"
  BY DEF Halts, At, Driving, Alive
<1>i. /\ Typed /\ Answered /\ active \in Runs /\ r \in Runs /\ (Undisturbed => active = r)
      /\ halted \in [Runs -> Seq(Calls)] /\ None \notin Runs
      /\ row \in [Runs -> {"absent", "running", "waiting_for_approval", "completed",
                           "failed", "cancelled"}]
      /\ fg \in [busy : BOOLEAN, run : Runs \union {None}, token : Workers \union {NoWorker}]
      /\ astray \subseteq {"configuring", "refused", "approving", "compacting"}
  BY <1>0, OneWorker, Types
<1>b. PICK b \in Batches : halted' = [halted EXCEPT ![r] = b]
                           /\ Send(w, Post(active, r, Msg("approval", r, b)))
  BY DEF Halts
<1>d. b \in Seq(Calls) /\ Distinct(b)
  BY TuiAssumption DEF DistinctCalls
<1> DEFINE m == Msg("approval", r, b)
           s == Post(active, r, m)
<1>m. m \in Message /\ m.kind = "approval" /\ m.run = r /\ m.arg = b
  BY <1>i, <1>d, MessageTypes, Fields
<1> HIDE DEF m
<1>s. s \in Seq(Message) /\ (s = <<m>> \/ s = <<>>) /\ (active = r => s = <<m>>)
  BY <1>m, Posted
<1> HIDE DEF s
<1>1. /\ Gone(w) /\ Send(w, s) /\ row' = [row EXCEPT ![r] = "waiting_for_approval"]
      /\ fg' = [Released EXCEPT !.run = r]
      /\ UNCHANGED <<app, menu, view, active, sd, acts, said, astray>>
  BY <1>b DEF Halts, s, m
<1>2. /\ fg' \in [busy : BOOLEAN, run : Runs \union {None}, token : Workers \union {NoWorker}]
      /\ ~fg'.busy
  BY <1>i, <1>1 DEF Released
<1>4. /\ row' \in [Runs -> {"absent", "running", "waiting_for_approval", "completed",
                            "failed", "cancelled"}]
      /\ \A q \in Runs : row'[q] = "running" => row[q] = "running"
      /\ row'[r] # "running"
  BY <1>i, <1>1
<1>5. /\ halted' \in [Runs -> Seq(Calls)] /\ halted'[r] = b
      /\ \A q \in Runs : Distinct(halted'[q])
  BY <1>i, <1>b, <1>d DEF Answered
<1>6. s = <<>> \/ \E n \in Message : s = <<n>> /\ n.kind \in Closing
  BY <1>m, <1>s DEF Closing
<1>t. TrueBatches(s, halted')
  BY <1>m, <1>s, <1>5, OneMessage, NoMessage, SMTT(30)
<1>7. Undisturbed => /\ ~fg'.busy /\ s = <<m>> /\ m.kind \in Closing
                     /\ m.kind = "approval" /\ m.run = active' /\ active' # None
  BY <1>i, <1>m, <1>s, <1>1, <1>2 DEF Closing
<1> QED
  BY <1>0, <1>i, <1>s, <1>1, <1>2, <1>4, <1>5, <1>6, <1>t, <1>7, LeavingStep

LEMMA CancelledApprovalsStep ==
  ASSUME TuiAssumption, TuiInv, NEW w \in Workers, CancelledInApprovals(w)
  PROVE  TuiInv'
<1> DEFINE r == worker[w].run
           m == Msg("finished", r, None)
           s == <<m>>
<1>0. Driving(w) /\ Alive(w) /\ worker[w].pc = "approving"
  BY DEF CancelledInApprovals, Driving, Alive
<1>i. /\ Typed /\ Answered /\ active \in Runs \union {None} /\ r \in Runs /\ fg.run = r
      /\ halted \in [Runs -> Seq(Calls)]
      /\ row \in [Runs -> {"absent", "running", "waiting_for_approval", "completed",
                           "failed", "cancelled"}]
      /\ fg \in [busy : BOOLEAN, run : Runs \union {None}, token : Workers \union {NoWorker}]
      /\ astray \subseteq {"configuring", "refused", "approving", "compacting"}
  BY <1>0, OneWorker, Types DEF WorkerHolds
<1>m. m \in Message /\ m.kind = "finished"
  BY <1>i, MessageTypes, Fields
<1>1. /\ Gone(w) /\ Send(w, s) /\ astray' = astray \union {"approving"} /\ fg' = Released
      /\ row' = [row EXCEPT ![r] = IF fg.run = r /\ @ = "running" THEN "cancelled" ELSE @]
      /\ UNCHANGED <<app, menu, view, active, sd, halted, acts, said>>
  BY DEF CancelledInApprovals
<1> HIDE DEF m
<1>2. fg' \in [busy : BOOLEAN, run : Runs \union {None}, token : Workers \union {NoWorker}]
  BY <1>1, <1>i DEF Released
<1>3. /\ astray' \subseteq {"configuring", "refused", "approving", "compacting"}
      /\ astray \subseteq astray' /\ astray' # {}
  BY <1>1, <1>i
<1>4. /\ s \in Seq(Message) /\ s = <<m>> /\ m.kind \in Closing
      /\ TrueBatches(s, halted') /\ \A q \in Runs : Distinct(halted'[q])
  <2>1. s = <<m>> /\ m.kind \in Closing /\ m.kind # "approval"
    BY <1>m DEF Closing
  <2>2. s \in Seq(Message) /\ \A h : TrueBatches(s, h)
    BY <1>m, <2>1, NoBatchSent
  <2>3. \A q \in Runs : Distinct(halted'[q])
    BY <1>i, <1>1 DEF Answered
  <2> QED
    BY <2>1, <2>2, <2>3
<1>5. /\ row' \in [Runs -> {"absent", "running", "waiting_for_approval", "completed",
                            "failed", "cancelled"}]
      /\ \A q \in Runs : row'[q] = "running" => row[q] = "running"
      /\ row'[r] # "running"
  BY <1>i, <1>1
<1> HIDE DEF s, r
<1> QED
  BY <1>0, <1>i, <1>m, <1>1, <1>2, <1>3, <1>4, <1>5, LeavingStep DEF r

LEMMA CancelledConfigureStep ==
  ASSUME TuiAssumption, TuiInv, NEW w \in Workers, CancelledInConfigure(w)
  PROVE  TuiInv'
<1> DEFINE r == worker[w].run
           m == Msg("finished", r, None)
           s == <<m>>
<1>0. worker[w].pc = "configuring" /\ ~Driving(w) /\ Alive(w)
  BY DEF CancelledInConfigure, Driving, Alive
<1>i. /\ Typed /\ Answered /\ active \in Runs \union {None} /\ worker[w] \in Worker
      /\ halted \in [Runs -> Seq(Calls)]
      /\ row \in [Runs -> {"absent", "running", "waiting_for_approval", "completed",
                           "failed", "cancelled"}]
      /\ fg \in [busy : BOOLEAN, run : Runs \union {None}, token : Workers \union {NoWorker}]
      /\ astray \subseteq {"configuring", "refused", "approving", "compacting"}
  BY <1>0, OneWorker, Types
<1>m. m \in Message /\ m.kind = "finished"
  <2>1. r \in Runs \union {None}
    BY <1>i DEF Worker
  <2> QED
    BY <2>1, MessageTypes, Fields
<1>1. /\ Gone(w) /\ Send(w, s) /\ astray' = astray \union {"configuring"}
      /\ UNCHANGED <<app, menu, view, active, fg, sd, row, halted, acts, said>>
  BY DEF CancelledInConfigure
<1> HIDE DEF m
<1>3. /\ astray' \subseteq {"configuring", "refused", "approving", "compacting"}
      /\ astray \subseteq astray' /\ astray' # {}
  BY <1>1, <1>i
<1>4. /\ s \in Seq(Message) /\ s = <<m>> /\ m.kind \in Closing
      /\ TrueBatches(s, halted') /\ \A q \in Runs : Distinct(halted'[q])
  <2>1. s = <<m>> /\ m.kind \in Closing /\ m.kind # "approval"
    BY <1>m DEF Closing
  <2>2. s \in Seq(Message) /\ \A h : TrueBatches(s, h)
    BY <1>m, <2>1, NoBatchSent
  <2>3. \A q \in Runs : Distinct(halted'[q])
    BY <1>i, <1>1 DEF Answered
  <2> QED
    BY <2>1, <2>2, <2>3
<1> HIDE DEF s
<1> QED
  BY <1>0, <1>i, <1>m, <1>1, <1>3, <1>4, LeavingStep

\* A compaction ends, in one of its ways, and the application clears its worker.
LEMMA CompactsStep ==
  ASSUME TuiAssumption, TuiInv, NEW w \in Workers, Compacts(w)
  PROVE  TuiInv'
<1> DEFINE r == worker[w].run
           m == Msg("compaction", r, None)
<1>0. worker[w].pc = "compacting" /\ ~Driving(w) /\ Alive(w)
  BY DEF Compacts, Driving, Alive
<1>i. /\ Typed /\ Held /\ Answered /\ Left /\ Driven /\ WorkerHolds(w) /\ WorkerOK(w)
      /\ r \in Runs /\ worker[w].kind = "compact"
      /\ app \in App /\ view \in View /\ queue \in Seq(Message) /\ worker \in [Workers -> Worker]
      /\ sd \in [requested : BOOLEAN, done : BOOLEAN, attached : Workers \union {NoWorker}]
      /\ fg \in [busy : BOOLEAN, run : Runs \union {None}, token : Workers \union {NoWorker}]
      /\ astray \subseteq {"configuring", "refused", "approving", "compacting"}
      /\ Undisturbed => active = None
  <2>1. r \in Runs /\ worker[w].kind = "compact"
    BY <1>0, OneWorker DEF WorkerOK
  <2> QED
    BY <1>0, <2>1, OneWorker, Types
<1>m. m \in Message /\ m.kind = "compaction"
  BY <1>i, MessageTypes, Fields
<1>1. PICK end \in {"folded", "fits", "again", "raises"} :
        /\ queue' = queue \o (IF end = "folded" THEN Post(active, r, m) ELSE <<>>)
        /\ view' = IF end = "fits" THEN SettleCompaction(view) ELSE view
        /\ astray' = astray \union (IF end \in {"again", "raises"} THEN {"compacting"} ELSE {})
  BY TuiAssumption DEF Compacts
<1> HIDE DEF m
<1> DEFINE s == IF end = "folded" THEN Post(active, r, m) ELSE <<>>
<1>s. /\ s \in Seq(Message) /\ (s = <<m>> \/ s = <<>>) /\ queue' = queue \o s
      /\ end = "folded" /\ active = None => s = <<m>>
  <2>1. CASE end = "folded"
    BY <1>m, <1>1, <2>1, Posted
  <2>2. CASE end # "folded"
    BY <1>1, <2>2
  <2> QED
    BY <2>1, <2>2
<1> HIDE DEF s
<1>2. \A K : "compaction" \notin K => Lacks(s, K)
  BY <1>m, <1>s, OneMessage, NoMessage
<1>q. /\ queue' \in Seq(Message)
      /\ \A K : "compaction" \notin K => (Lacks(queue, K) => Lacks(queue', K))
  BY <1>i, <1>s, <1>2, Behind
<1>u. /\ Gone(w) /\ app' = Cleared /\ sd' = Detached /\ fg' = [fg EXCEPT !.busy = FALSE]
      /\ UNCHANGED <<menu, active, row, halted, acts, said, closings>>
  BY DEF Compacts
<1>p. /\ app' \in App /\ app'.input /\ app'.picker = "none" /\ app'.launch = "none"
      /\ app'.bar = "ready" /\ app'.worker = NoWorker
  BY <1>i, <1>u DEF Cleared, App, WorkerHolds
<1>d. /\ sd' \in [requested : BOOLEAN, done : BOOLEAN, attached : Workers \union {NoWorker}]
      /\ sd'.requested = sd.requested /\ sd'.attached = NoWorker
  BY <1>i, <1>u DEF Detached
<1>f. /\ fg' \in [busy : BOOLEAN, run : Runs \union {None}, token : Workers \union {NoWorker}]
      /\ ~fg'.busy
  BY <1>i, <1>u
<1>v. /\ view' \in View /\ (Quiet => Quiet') /\ (end = "fits" => view'.compacting = FALSE)
  <2>1. CASE end = "fits"
    <3>1. view' = SettleCompaction(view)
      BY <1>1, <2>1
    <3>2. /\ view' \in View /\ view'.phase = view.phase /\ view'.tools = view.tools
          /\ view'.spin = view.spin /\ view'.compacting = FALSE
      BY <1>i, <3>1, ViewClosings
    <3> QED
      BY <3>2 DEF Quiet
  <2>2. CASE end # "fits"
    BY <1>1, <1>i, <2>2 DEF Quiet
  <2> QED
    BY <2>1, <2>2
<1>g. /\ worker' \in [Workers -> Worker] /\ \A u \in Workers : u # w => worker'[u] = worker[u]
      /\ worker'[w].pc = "gone" /\ worker'[w].kind = worker[w].kind
      /\ worker'[w].run = worker[w].run /\ worker'[w].entered = worker[w].entered
      /\ \A u \in Workers : WorkerOK(u)'
  BY <1>i, <1>u, Goes
<1>w. \A u \in Workers : ~Alive(u)' /\ ~Driving(u)'
  BY <1>i, <1>g DEF WorkerHolds, Alive, Driving
<1>3. Typed'
  <2>1. astray' \subseteq {"configuring", "refused", "approving", "compacting"}
    BY <1>i, <1>1
  <2> QED
    BY <1>i, <1>u, <1>p, <1>d, <1>f, <1>v, <1>g, <1>q, <2>1, Types, StillTyped
<1>k. /\ "compaction" \notin Closing /\ "compaction" \notin Picks /\ "compaction" \notin {"submit"}
      /\ "compaction" \notin {"option"} /\ "compaction" \notin Parts
  BY DEF Closing, Picks, Parts
<1>l. /\ Lacks(queue', Closing) /\ Lacks(queue', Picks)
      /\ Lacks(queue', {"submit"}) /\ Lacks(queue', {"option"})
  BY <1>i, <1>k, <1>q DEF WorkerHolds
<1>4. Held'
  <2>1. Ordered(queue')
    <3>1. InFront(queue', Parts, {"finished"})
      BY <1>l, LacksClosing, LackingIsOrdered
    <3> QED
      BY <1>l, <3>1, LackingIsOrdered DEF Ordered
  <2>2. ~Pending' /\ ~menu'.shown /\ ~menu'.deny /\ ~RunPicked(queue')
    BY <1>i, <1>l, <1>u, LacksPick DEF Held, WorkerHolds, Pending
  <2> QED
    BY <1>p, <1>w, <1>l, <2>1, <2>2 DEF Held
<1>5. Answered'
  <2>1. Lacks(s, {"option"}) /\ TrueBatches(s, halted') /\ (\A q \in Runs : Distinct(halted'[q]))
    BY <1>i, <1>k, <1>u, <1>2, LacksClosing DEF Answered
  <2>2. worker'[w].pc # "configuring"
    BY <1>g
  <2> QED
    BY <1>0, <1>i, <1>s, <1>u, <1>g, <2>1, <2>2, AnsweredByWorker
<1>6. Left'
  <2>1. \A u \in Workers : closings'[u] <= 1 /\ (worker'[u].pc # "gone" => closings'[u] = 0)
    BY <1>i, <1>u, <1>g DEF Left
  <2>2. ASSUME astray' = {}, ~sd'.requested PROVE Undisturbed'
    <3>0. /\ Undisturbed /\ active = None /\ end \in {"folded", "fits"}
      BY <1>i, <1>1, <1>d, <2>2 DEF Left
    <3>1. Quiet' /\ Lacks(queue', Parts)
      BY <1>i, <1>k, <1>q, <1>v, <3>0, LacksClosing DEF Undisturbed, WorkerHolds
    <3>2. view'.compacting => ~Lacks(queue', {"compaction"})
      <4>1. CASE end = "folded"
        <5>1. s = <<m>> /\ m.kind \in {"compaction"}
          BY <1>m, <1>s, <3>0, <4>1
        <5>2. ~Lacks(s, {"compaction"})
          BY <5>1, OneMessage
        <5> QED
          BY <1>i, <1>s, <5>2, Behind
      <4>2. CASE end = "fits"
        BY <1>v, <4>2
      <4> QED
        BY <3>0, <4>1, <4>2
    <3>3. \A u \in Workers : worker'[u].pc = "gone" /\ worker'[u].kind # "compact" => closings'[u] = 1
      BY <1>i, <1>u, <1>g, <3>0 DEF Undisturbed
    <3> QED
      BY <1>p, <1>d, <1>f, <1>u, <1>w, <3>0, <3>1, <3>2, <3>3 DEF Undisturbed
  <2> QED
    BY <2>1, <2>2 DEF Left
<1>7. Driven'
  <2>1. \A u \in Workers : worker'[u].entered => worker'[u].run \in Runs
    BY <1>g DEF WorkerOK
  <2> QED
    BY <1>0, <1>i, <1>u, <1>g, <2>1, DrivenByWorker
<1> QED
  BY <1>3, <1>4, <1>5, <1>6, <1>7 DEF TuiInv

(***************************************************************************)
(* The invariant, and what follows from it.                                *)
(***************************************************************************)
LEMMA InitHolds == ASSUME TuiAssumption, DistinctCalls, Init PROVE TuiInv
<1>0. /\ queue = <<>> /\ menu = NoBatch /\ view = FreshView /\ active = None
      /\ app \in App /\ app.worker = NoWorker /\ app.input /\ app.bar = "ready"
      /\ app.picker = "none"
      /\ fg = [busy |-> FALSE, run |-> None, token |-> NoWorker]
      /\ sd = [requested |-> FALSE, done |-> FALSE, attached |-> NoWorker]
      /\ acts = 0 /\ said = {} /\ closings = [w \in Workers |-> 0] /\ astray = {}
  BY DEF Init, App
<1>b. /\ menu \in Batch /\ menu.run = None /\ menu.pos = 1 /\ menu.calls = <<>>
      /\ menu.verdicts = NoVerdicts /\ menu.deny = FALSE /\ menu.shown = FALSE
      /\ DOMAIN menu.verdicts = {}
  BY <1>0, NoBatchType, NoVerdictsType
<1>w. /\ worker \in [Workers -> Worker]
      /\ \A w \in Workers : /\ worker[w].pc = "unborn" /\ worker[w].kind = "none"
                            /\ ~worker[w].entered
  <2>1. worker = [w \in Workers |-> Unborn]
    BY DEF Init
  <2> QED
    BY <2>1, UnbornType
<1>a. \A w \in Workers : ~Alive(w) /\ ~Driving(w) /\ WorkerOK(w)
  BY <1>w DEF Alive, Driving, WorkerOK
<1>h. halted \in [Runs -> Seq(Calls)] /\ \A r \in Runs : Distinct(halted[r])
  <2>1. PICK b \in Batches : halted = [r \in Runs |-> IF r = OldRun THEN b ELSE <<>>]
    BY DEF Init
  <2>2. b \in Seq(Calls) /\ Distinct(b)
    BY TuiAssumption DEF DistinctCalls
  <2>3. Distinct(<<>>)
    BY DEF Distinct
  <2> QED
    BY <2>1, <2>2, <2>3
<1>q. /\ \A K : Lacks(queue, K) /\ Once(queue, K)
      /\ \A K, L : InFront(queue, K, L)
      /\ ~RunPicked(queue) /\ TrueBatches(queue, halted) /\ AnswersTo(queue, Current(menu))
  BY <1>0, NoMessage
<1>1. Typed
  <2>1. row \in [Runs -> {"absent", "running", "waiting_for_approval", "completed",
                          "failed", "cancelled"}]
    BY DEF Init
  <2>2. acts \in 0..MaxActs /\ queue \in Seq(Message) /\ closings \in [Workers -> Nat]
    BY <1>0, TuiAssumption
  <2>3. menu.pos \in 1..Len(menu.calls) + 1 /\ view \in View
    BY <1>0, <1>b, FreshViewType
  <2> QED
    BY <1>0, <1>b, <1>w, <1>a, <1>h, <2>1, <2>2, <2>3 DEF Typed, TypeOK
<1>2. Held
  BY <1>0, <1>b, <1>a, <1>q DEF Held, Pending, Ordered
<1>3. Answered
  <2>1. FollowsAnswers(menu.verdicts, said)
    BY <1>b, NothingDecided
  <2>2. VerdictsAreTheUsers
    BY <1>w, <2>1 DEF VerdictsAreTheUsers
  <2> QED
    BY <1>b, <1>h, <1>q, <2>2 DEF Answered, Pending
<1>4. Left
  <2>1. Quiet /\ ~view.compacting
    BY <1>0 DEF Quiet, FreshView
  <2>2. Undisturbed
    BY <1>0, <1>w, <1>a, <1>q, <2>1 DEF Undisturbed
  <2> QED
    BY <1>0, <2>2 DEF Left
<1>5. Driven
  BY <1>w DEF Driven
<1> QED
  BY <1>1, <1>2, <1>3, <1>4, <1>5 DEF TuiInv

LEMMA HandleStep == ASSUME TuiAssumption, TuiInv, HandleMessage PROVE TuiInv'
  BY ApprovalStep, OptionStep, ReasonStep, IgnoredStep, TaskStep, ClearStep, CompactStep,
     PickerStep, PickedStep, ExitLineStep, ExitStep, EscapeStep, ClosedStep, ShownStep
  DEF HandleMessage

LEMMA WorkerSteps ==
  ASSUME TuiAssumption, DistinctCalls, TuiInv, NEW w \in Workers, WorkerStep(w)
  PROVE  TuiInv'
  BY EnterStartStep, EnterStoredStep, RefusedStep, NotResumableStep, AppliedStep, ShowStep,
     NestedStartsStep, NestedEndsStep, FinishesStep, HaltsStep, CancelledAdvanceStep,
     CancelledApprovalsStep, CancelledConfigureStep, CompactsStep
  DEF WorkerStep

LEMMA NothingChanges == ASSUME TuiInv, UNCHANGED vars PROVE TuiInv'
<1>i. Typed /\ Held /\ Answered /\ Left /\ Driven
  BY DEF TuiInv
<1>1. Typed'
  BY <1>i, WorkersKept, Types, StillTyped DEF vars
<1>2. Held'
  BY <1>i DEF vars, Held, WorkerHolds, ClosingHolds, BatchHolds, PickerHolds, RunPickHolds,
              Pending, Alive, Driving
<1>3. Answered'
  BY <1>i, AnsweredFrame DEF vars, Answered
<1>4. Left'
  BY <1>i, LeftFrame DEF vars, Quiet
<1>5. Driven'
  BY <1>i, DrivenFrame DEF vars
<1> QED
  BY <1>1, <1>2, <1>3, <1>4, <1>5 DEF TuiInv

\* The foreground has one holder at a time, the batch carries the answers that were
\* given, the screen is left as it was found and a Run is RUNNING only while it is driven.
THEOREM Invariance == ASSUME DistinctCalls PROVE Spec => []TuiInv
<1>1. Init => TuiInv
  BY TuiAssumption, InitHolds
<1>2. TuiInv /\ [Next]_vars => TuiInv'
  <2> SUFFICES ASSUME TuiInv, [Next]_vars PROVE TuiInv'
    OBVIOUS
  <2> USE TuiAssumption
  <2>1. CASE ApplyLaunch
    BY <2>1, LaunchStep
  <2>2. CASE HandleMessage
    BY <2>2, HandleStep
  <2>3. CASE TypeLine \/ PressEscape \/ PickOption \/ ConfirmPicker \/ Sigint
    BY <2>3, TypeStep, EscapeKeyStep, OptionKeyStep, PickerKeyStep, SigintStep
  <2>4. CASE \E r \in Runs : AnsweredElsewhere(r)
    BY <2>4, ElsewhereStep
  <2>5. CASE \E w \in Workers : WorkerStep(w)
    BY <2>5, WorkerSteps
  <2>6. CASE UNCHANGED vars
    BY <2>6, NothingChanges
  <2> QED
    BY <2>1, <2>2, <2>3, <2>4, <2>5, <2>6 DEF Next
<1> QED
  BY <1>1, <1>2, PTL DEF Spec

\* One worker drives the foreground at a time, whatever the keys typed for an earlier
\* state start, and a session that is left alone again takes the next prompt with
\* nothing on the screen moving on.
THEOREM Consistency == ASSUME DistinctCalls PROVE Spec => []AppConsistent
<1>1. TuiInv => AppConsistent
  <2> SUFFICES ASSUME TuiInv PROVE AppConsistent
    OBVIOUS
  <2>i. Typed /\ Held /\ Left
    BY DEF TuiInv
  <2>1. OneForegroundWorker
    BY <2>i DEF Held, WorkerHolds, OneForegroundWorker
  <2>2. IdleIsUsable
    <3> SUFFICES ASSUME astray = {}, queue = <<>>, ~sd.requested, ~Pending, app.picker = "none",
                        \A w \in Workers : ~Alive(w)
                 PROVE  /\ ~fg.busy /\ app.input /\ app.bar = "ready" /\ active = None
                        /\ app.worker = NoWorker /\ sd.attached = NoWorker /\ Settled(view)
      BY DEF IdleIsUsable
    <3>1. /\ Undisturbed /\ \A K : Lacks(queue, K)
          /\ ~HaltOf(queue, active)
      BY <2>i, NoMessage DEF Left
    <3>2. ~Engaged
      BY <3>1 DEF Engaged
    <3>3. active = None
      BY <3>1 DEF Undisturbed, Presented
    <3>4. Quiet /\ ~view.compacting
      BY <3>1, <3>3 DEF Undisturbed, Alive
    <3> QED
      BY <3>1, <3>2, <3>3, <3>4 DEF Undisturbed, Quiet, Settled
  <2> QED
    BY <2>i, <2>1, <2>2 DEF AppConsistent, Typed
<1> QED
  BY <1>1, Invariance, PTL

\* A worker's Run is closed by one message and no more, whichever of the Handlers, the
\* except clauses and the error paths sends it, and nested Runs are kept to themselves.
THEOREM MessagesAreExact == ASSUME DistinctCalls PROVE Spec => []MessagesExact
<1>1. TuiInv => MessagesExact
  <2> SUFFICES ASSUME TuiInv PROVE MessagesExact
    OBVIOUS
  <2>1. ClosedOnce
    BY DEF TuiInv, Left, Undisturbed, ClosedOnce
  <2>2. NestedHidden
    <3>1. queue \in Seq(Message)
      BY Types DEF TuiInv
    <3>2. \A i \in 1..Len(queue) : queue[i] \in Message
      BY <3>1
    <3>3. \A i \in 1..Len(queue) : queue[i].run \in Runs \union {None}
      BY <3>2, MessageFacts
    <3> QED
      BY <3>3, TuiAssumption DEF NestedHidden
  <2> QED
    BY <2>1, <2>2 DEF MessagesExact
<1> QED
  BY <1>1, Invariance, PTL

\* A call is approved only by an answer of the user that covers it, and stays denied
\* when it was denied, also when the menu is answered while messages overtake keys.
THEOREM VerdictsFollowTheUser == ASSUME DistinctCalls PROVE Spec => []VerdictsAreTheUsers
<1>1. TuiInv => VerdictsAreTheUsers
  BY DEF TuiInv, Answered
<1> QED
  BY <1>1, Invariance, PTL

\* Shutdown leaves no Run of the session RUNNING in the store, also one whose id
\* ForegroundRun did not know when shutdown was asked for.
THEOREM NoRunningAfterShutdown == ASSUME DistinctCalls PROVE Spec => []ShutdownLeavesNoRunning
<1>1. TuiInv => ShutdownLeavesNoRunning
  BY DEF TuiInv, Driven, ShutdownLeavesNoRunning, Driving, Alive
<1> QED
  BY <1>1, Invariance, PTL
=============================================================================
