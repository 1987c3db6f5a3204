-------------------------- MODULE ModelTurnProofs --------------------------
(***************************************************************************)
(* Proofs about ModelTurn and the operators of ContextWindow.              *)
(***************************************************************************)
EXTENDS ModelTurnInv, FiniteSetTheorems, WellFoundedInduction, TLAPS

(***************************************************************************)
(* Numbers.                                                                *)
(***************************************************************************)
LEMMA LeastNumber ==
  ASSUME NEW S \in SUBSET Nat, S # {}
  PROVE  \E x \in S : \A y \in S : x <= y
<1> DEFINE R == {ss \in Nat \X Nat : ss[1] < ss[2]}
<1>1. IsWellFoundedOn(R, Nat)
  BY NatLessThanWellFounded, Zenon DEF OpToRel
<1> HIDE DEF R
<1>2. PICK x \in S : \A y \in S : ~(<<y, x>> \in R)
  BY <1>1, WFMin, Zenon
<1>3. \A y \in S : ~(y < x)
  BY <1>2 DEF R
<1> QED
  BY <1>3

\* A set of numbers that has 0 and every successor has them all.
LEMMA AllNumbers ==
  ASSUME NEW S, 0 \in S, \A n \in Nat : n \in S => n + 1 \in S
  PROVE  \A n \in Nat : n \in S
<1> SUFFICES ASSUME Nat \ S # {} PROVE FALSE
  OBVIOUS
<1>1. PICK x \in Nat \ S : \A y \in Nat \ S : x <= y
  BY LeastNumber
<1>2. x # 0 /\ x - 1 \in Nat /\ x - 1 \notin Nat \ S
  BY <1>1
<1> QED
  BY <1>1, <1>2

LEMMA GreatestNumber ==
  ASSUME NEW a \in Nat, NEW b \in Nat, NEW S \in SUBSET (a..b), S # {}
  PROVE  \E x \in S : \A y \in S : y <= x
<1> DEFINE D == {b - i : i \in S}
<1>1. D \in SUBSET Nat /\ D # {}
  <2>1. \A i \in S : i \in a..b /\ b - i \in Nat
    OBVIOUS
  <2>2. PICK i \in S : TRUE
    OBVIOUS
  <2>3. b - i \in D
    BY <2>2
  <2> QED
    BY <2>1, <2>3
<1>2. PICK d \in D : \A e \in D : d <= e
  BY <1>1, LeastNumber
<1>3. b - d \in S /\ \A y \in S : y <= b - d
  BY <1>2
<1> QED
  BY <1>3

(***************************************************************************)
(* Tails of a sequence.                                                    *)
(***************************************************************************)
LEMMA TailOf ==
  ASSUME NEW T, NEW m \in Seq(T), NEW p \in 1..Len(m) + 1
  PROVE  /\ From(m, p) \in Seq(T)
         /\ Len(From(m, p)) = Len(m) - p + 1
         /\ \A i \in 1..Len(m) - p + 1 : From(m, p)[i] = m[p + i - 1]
  BY DEF From

LEMMA SameSequence ==
  ASSUME NEW T, NEW a \in Seq(T), NEW b \in Seq(T),
         Len(a) = Len(b), \A i \in 1..Len(a) : a[i] = b[i]
  PROVE  a = b
  OBVIOUS

LEMMA Joined ==
  ASSUME NEW T, NEW a \in Seq(T), NEW b \in Seq(T)
  PROVE  /\ a \o b \in Seq(T)
         /\ Len(a \o b) = Len(a) + Len(b)
         /\ \A i \in 1..Len(a) : (a \o b)[i] = a[i]
         /\ \A i \in 1..Len(b) : (a \o b)[Len(a) + i] = b[i]
  OBVIOUS

LEMMA TailOfTail ==
  ASSUME NEW T, NEW m \in Seq(T), NEW p \in 1..Len(m) + 1, NEW q \in 1..Len(m) - p + 2
  PROVE  From(From(m, p), q) = From(m, p + q - 1)
<1> DEFINE a == From(From(m, p), q)
           b == From(m, p + q - 1)
<1>1. /\ a \in Seq(T) /\ Len(a) = Len(m) - p - q + 2
      /\ \A i \in 1..Len(a) : a[i] = m[p + q + i - 2]
  <2> DEFINE f == From(m, p)
  <2>1. /\ f \in Seq(T) /\ Len(f) = Len(m) - p + 1
        /\ \A i \in 1..Len(f) : f[i] = m[p + i - 1]
    BY TailOf
  <2> HIDE DEF f
  <2>2. /\ From(f, q) \in Seq(T) /\ Len(From(f, q)) = Len(f) - q + 1
        /\ \A i \in 1..Len(f) - q + 1 : From(f, q)[i] = f[q + i - 1]
    BY <2>1 DEF From
  <2>3. \A i \in 1..Len(m) - p - q + 2 : f[q + i - 1] = m[p + q + i - 2]
    BY <2>1
  <2>4. Len(f) - q + 1 = Len(m) - p - q + 2
    BY <2>1
  <2>5. /\ From(f, q) \in Seq(T) /\ Len(From(f, q)) = Len(m) - p - q + 2
        /\ \A i \in 1..Len(m) - p - q + 2 : From(f, q)[i] = m[p + q + i - 2]
    BY <2>2, <2>3, <2>4, Zenon
  <2> QED
    BY <2>5, Zenon DEF f
<1>2. /\ b \in Seq(T) /\ Len(b) = Len(m) - p - q + 2
      /\ \A i \in 1..Len(b) : b[i] = m[p + q + i - 2]
  <2> DEFINE r == p + q - 1
  <2>1. r \in 1..Len(m) + 1
    OBVIOUS
  <2> HIDE DEF r
  <2>2. /\ From(m, r) \in Seq(T) /\ Len(From(m, r)) = Len(m) - r + 1
        /\ \A i \in 1..Len(m) - r + 1 : From(m, r)[i] = m[r + i - 1]
    BY <2>1, TailOf
  <2> QED
    BY <2>2 DEF r
<1> QED
  BY <1>1, <1>2, SameSequence

LEMMA TailOfJoined ==
  ASSUME NEW T, NEW m \in Seq(T), NEW x \in Seq(T), NEW p \in 1..Len(m) + 1
  PROVE  From(m \o x, p) = From(m, p) \o x
<1> DEFINE a == From(m \o x, p)
           b == From(m, p) \o x
<1>1. /\ m \o x \in Seq(T) /\ Len(m \o x) = Len(m) + Len(x)
      /\ \A i \in 1..Len(m) : (m \o x)[i] = m[i]
      /\ \A i \in 1..Len(x) : (m \o x)[Len(m) + i] = x[i]
  BY Joined
<1>2. /\ a \in Seq(T) /\ Len(a) = Len(m) + Len(x) - p + 1
      /\ \A i \in 1..Len(a) : a[i] = (m \o x)[p + i - 1]
  <2> DEFINE w == m \o x
  <2>1. w \in Seq(T) /\ Len(w) = Len(m) + Len(x) /\ p \in 1..Len(w) + 1
    BY <1>1
  <2> HIDE DEF w
  <2>2. /\ From(w, p) \in Seq(T) /\ Len(From(w, p)) = Len(w) - p + 1
        /\ \A i \in 1..Len(w) - p + 1 : From(w, p)[i] = w[p + i - 1]
    BY <2>1, TailOf
  <2> QED
    BY <2>1, <2>2 DEF w
<1>3. /\ From(m, p) \in Seq(T) /\ Len(From(m, p)) = Len(m) - p + 1
      /\ \A i \in 1..Len(m) - p + 1 : From(m, p)[i] = m[p + i - 1]
  BY TailOf
<1>4. /\ b \in Seq(T) /\ Len(b) = Len(a)
      /\ \A i \in 1..Len(m) - p + 1 : b[i] = m[p + i - 1]
      /\ \A i \in 1..Len(x) : b[Len(m) - p + 1 + i] = x[i]
  <2> DEFINE f == From(m, p)
  <2>1. f \in Seq(T) /\ Len(f) = Len(m) - p + 1
    BY <1>3
  <2> HIDE DEF f
  <2>2. /\ f \o x \in Seq(T) /\ Len(f \o x) = Len(f) + Len(x)
        /\ \A i \in 1..Len(f) : (f \o x)[i] = f[i]
        /\ \A i \in 1..Len(x) : (f \o x)[Len(f) + i] = x[i]
    <3>1. f \in Seq(T)
      BY <2>1
    <3> HIDE DEF a, b
    <3> QED
      BY <3>1, Joined
  <2>3. Len(f) + Len(x) = Len(a)
    BY <1>2, <2>1
  <2>4. \A i \in 1..Len(m) - p + 1 : f[i] = m[p + i - 1]
    BY <1>3, Zenon DEF f
  <2>5. /\ f \o x \in Seq(T) /\ Len(f \o x) = Len(a)
        /\ \A i \in 1..Len(m) - p + 1 : (f \o x)[i] = m[p + i - 1]
        /\ \A i \in 1..Len(x) : (f \o x)[Len(m) - p + 1 + i] = x[i]
    BY <2>1, <2>2, <2>3, <2>4, Zenon
  <2> QED
    BY <2>5, Zenon DEF f
<1> HIDE DEF a, b
<1>5. ASSUME NEW i \in 1..Len(a) PROVE a[i] = b[i]
  <2>0. i \in Nat /\ p \in Nat /\ Len(m) \in Nat /\ Len(x) \in Nat /\ Len(a) \in Nat
    BY <1>2
  <2>1. a[i] = (m \o x)[p + i - 1]
    BY <1>2
  <2>2. CASE i <= Len(m) - p + 1
    <3>1. p + i - 1 \in 1..Len(m) /\ i \in 1..Len(m) - p + 1
      BY <2>0, <2>2
    <3> QED
      BY <1>1, <1>4, <2>1, <3>1, Zenon
  <2>3. CASE i > Len(m) - p + 1
    <3>1. PICK j \in 1..Len(x) : i = Len(m) - p + 1 + j /\ p + i - 1 = Len(m) + j
      <4> DEFINE j == i - (Len(m) - p + 1)
      <4>1. j \in 1..Len(x) /\ i = Len(m) - p + 1 + j /\ p + i - 1 = Len(m) + j
        BY <2>0, <1>2, <2>3
      <4> QED
        BY <4>1
    <3>2. a[i] = x[j]
      BY <1>1, <2>1, <3>1, Zenon
    <3>3. b[i] = x[j]
      BY <1>4, <3>1, Zenon
    <3> QED
      BY <3>2, <3>3
  <2> QED
    BY <2>0, <2>2, <2>3
<1>6. a = b
  BY <1>2, <1>4, <1>5, SameSequence
<1> QED
  BY <1>6 DEF a, b

\* The first element and the rest, and the empty tail.
LEMMA TailEnds ==
  ASSUME NEW T, NEW m \in Seq(T)
  PROVE  /\ From(m, 1) = m
         /\ From(m, Len(m) + 1) = <<>>
         /\ \A s \in T : From(<<s>> \o m, 2) = m
<1>1. From(m, 1) = m
  BY DEF From
<1>2. From(m, Len(m) + 1) = <<>>
  BY DEF From
<1>3. ASSUME NEW s \in T PROVE From(<<s>> \o m, 2) = m
  <2>1. <<s>> \in Seq(T) /\ Len(<<s>>) = 1
    OBVIOUS
  <2>2. From(<<s>> \o m, 2) = From(<<s>>, 2) \o m
    <3> DEFINE one == <<s>>
    <3>1. one \in Seq(T) /\ 2 \in 1..Len(one) + 1
      BY <2>1
    <3> HIDE DEF one
    <3>2. From(one \o m, 2) = From(one, 2) \o m
      BY <3>1, TailOfJoined
    <3> QED
      BY <3>2 DEF one
  <2>3. From(<<s>>, 2) = <<>>
    BY DEF From
  <2> QED
    BY <2>2, <2>3
<1> QED
  BY <1>1, <1>2, <1>3

(***************************************************************************)
(* Counting.                                                               *)
(***************************************************************************)
\* The equation that defines the sum of CountTexts.
IsSum(s, m) == s = [i \in 0..Len(m) |-> IF i = 0 THEN 0 ELSE s[i - 1] + m[i].size]

LEMMA SumExists ==
  ASSUME NEW m \in Seq(MessageType)
  PROVE  \E s : IsSum(s, m)
<1> DEFINE Sums(n, s) == s = [i \in 0..n |-> IF i = 0 THEN 0 ELSE s[i - 1] + m[i].size]
           Ok == {n \in Nat : \E s : Sums(n, s)}
<1>1. 0 \in Ok
  <2> DEFINE s == [i \in 0..0 |-> 0]
  <2>1. Sums(0, s)
    OBVIOUS
  <2> QED
    BY <2>1
<1>2. ASSUME NEW n \in Nat, n \in Ok PROVE n + 1 \in Ok
  <2>1. PICK s : Sums(n, s)
    BY <1>2
  <2> DEFINE t == [i \in 0..n + 1 |-> IF i = n + 1 THEN s[n] + m[i].size ELSE s[i]]
  <2>2. ASSUME NEW i \in 0..n + 1 PROVE t[i] = IF i = 0 THEN 0 ELSE t[i - 1] + m[i].size
    <3>1. CASE i = n + 1
      BY <3>1
    <3>2. CASE i # n + 1
      <4>1. i \in 0..n /\ t[i] = s[i] /\ (i # 0 => t[i - 1] = s[i - 1])
        BY <3>2
      <4> HIDE DEF t
      <4>2. s[i] = IF i = 0 THEN 0 ELSE s[i - 1] + m[i].size
        BY <2>1, <4>1
      <4> QED
        BY <4>1, <4>2
    <3> QED
      BY <3>1, <3>2
  <2>3. Sums(n + 1, t)
    BY <2>2
  <2> HIDE DEF Sums, t
  <2> QED
    BY <2>3
<1> HIDE DEF Sums
<1>3. \A n \in Nat : n \in Ok
  <2> HIDE DEF Ok
  <2> QED
    BY <1>1, <1>2, AllNumbers
<1>4. \E s : Sums(Len(m), s)
  BY <1>3
<1> QED
  BY <1>4 DEF Sums, IsSum

LEMMA CountIsSum ==
  ASSUME NEW m \in Seq(MessageType)
  PROVE  \E s : IsSum(s, m) /\ CountTexts(m) = s[Len(m)]
  BY SumExists, Zenon DEF CountTexts, IsSum

LEMMA SumFacts ==
  ASSUME NEW m \in Seq(MessageType), NEW s, IsSum(s, m)
  PROVE  /\ s[0] = 0
         /\ \A i \in 1..Len(m) : s[i] = s[i - 1] + m[i].size
         /\ \A i \in 0..Len(m) : s[i] \in Nat
<1>1. /\ s[0] = 0
      /\ \A i \in 1..Len(m) : s[i] = s[i - 1] + m[i].size
  BY DEF IsSum
<1> DEFINE Ok == {n \in Nat : n <= Len(m) => s[n] \in Nat}
<1>2. 0 \in Ok
  BY <1>1
<1>3. ASSUME NEW n \in Nat, n \in Ok PROVE n + 1 \in Ok
  <2> SUFFICES ASSUME n + 1 <= Len(m) PROVE s[n + 1] \in Nat
    OBVIOUS
  <2>1. s[n] \in Nat /\ m[n + 1].size \in Nat
    <3>1. m[n + 1] \in MessageType
      OBVIOUS
    <3> QED
      BY <1>3, <3>1 DEF MessageType
  <2>2. n + 1 \in 1..Len(m) /\ n + 1 - 1 = n
    OBVIOUS
  <2> QED
    BY <1>1, <2>1, <2>2
<1>4. \A n \in Nat : n \in Ok
  <2> HIDE DEF Ok
  <2> QED
    BY <1>2, <1>3, AllNumbers
<1> QED
  BY <1>1, <1>4

LEMMA CountType ==
  ASSUME NEW m \in Seq(MessageType)
  PROVE  CountTexts(m) \in Nat
<1>1. PICK s : IsSum(s, m) /\ CountTexts(m) = s[Len(m)]
  BY CountIsSum
<1>2. Len(m) \in 0..Len(m)
  OBVIOUS
<1> QED
  BY <1>1, <1>2, SumFacts

\* One more message in front counts for its own text.
LEMMA CountInFront ==
  ASSUME NEW g \in MessageType, NEW m \in Seq(MessageType)
  PROVE  CountTexts(<<g>> \o m) = g.size + CountTexts(m)
<1> DEFINE w == <<g>> \o m
<1>1. /\ w \in Seq(MessageType) /\ Len(w) = Len(m) + 1 /\ w[1] = g
      /\ \A i \in 1..Len(m) : w[i + 1] = m[i]
  OBVIOUS
<1> HIDE DEF w
<1>2. PICK s : IsSum(s, m) /\ CountTexts(m) = s[Len(m)]
  BY CountIsSum
<1>3. PICK t : IsSum(t, w) /\ CountTexts(w) = t[Len(w)]
  BY <1>1, CountIsSum
<1>4. /\ s[0] = 0 /\ \A i \in 1..Len(m) : s[i] = s[i - 1] + m[i].size
      /\ \A i \in 0..Len(m) : s[i] \in Nat
  BY <1>2, SumFacts
<1>5. /\ t[0] = 0 /\ \A i \in 1..Len(w) : t[i] = t[i - 1] + w[i].size
      /\ \A i \in 0..Len(w) : t[i] \in Nat
  BY <1>1, <1>3, SumFacts
<1>6. g.size \in Nat
  BY DEF MessageType
<1> DEFINE Ok == {n \in Nat : n <= Len(m) => t[n + 1] = g.size + s[n]}
<1>7. 0 \in Ok
  <2>1. 1 \in 1..Len(w) /\ 1 - 1 = 0
    BY <1>1
  <2>2. t[1] = t[0] + g.size
    BY <1>1, <1>5, <2>1
  <2> QED
    BY <1>4, <1>5, <1>6, <2>2
<1>8. ASSUME NEW n \in Nat, n \in Ok PROVE n + 1 \in Ok
  <2> SUFFICES ASSUME n + 1 <= Len(m) PROVE t[n + 1 + 1] = g.size + s[n + 1]
    OBVIOUS
  <2>1. /\ n + 1 \in 1..Len(m) /\ n + 1 + 1 \in 1..Len(w) /\ n \in 0..Len(m)
        /\ n + 1 + 1 - 1 = n + 1 /\ n + 1 - 1 = n
    BY <1>1
  <2>2. t[n + 1 + 1] = t[n + 1] + m[n + 1].size
    BY <1>1, <1>5, <2>1
  <2>3. s[n + 1] = s[n] + m[n + 1].size
    BY <1>4, <2>1
  <2>4. m[n + 1].size \in Nat /\ s[n] \in Nat
    <3>1. m[n + 1] \in MessageType
      BY <2>1
    <3> QED
      BY <1>4, <2>1, <3>1 DEF MessageType
  <2> QED
    BY <1>6, <1>8, <2>2, <2>3, <2>4
<1>9. \A n \in Nat : n \in Ok
  <2> HIDE DEF Ok
  <2> QED
    BY <1>7, <1>8, AllNumbers
<1>10. t[Len(m) + 1] = g.size + s[Len(m)]
  BY <1>9
<1> QED
  BY <1>1, <1>2, <1>3, <1>10 DEF w

LEMMA CountNothing == CountTexts(<<>>) = 0
<1>1. <<>> \in Seq(MessageType) /\ Len(<<>>) = 0
  OBVIOUS
<1>2. PICK s : IsSum(s, <<>>) /\ CountTexts(<<>>) = s[Len(<<>>)]
  BY <1>1, CountIsSum
<1> QED
  BY <1>1, <1>2, SumFacts

(***************************************************************************)
(* The filter of a request.                                                *)
(***************************************************************************)
\* The equation that defines the parts of OfRoles.
IsKept(k, m, roles) ==
    k = [i \in 0..Len(m) |->
            IF i = 0 THEN <<>>
            ELSE IF m[i].role \in roles THEN Append(k[i - 1], m[i])
            ELSE k[i - 1]]

LEMMA KeptExists ==
  ASSUME NEW m \in Seq(MessageType), NEW roles
  PROVE  \E k : IsKept(k, m, roles)
<1> DEFINE Next1(e, i) == IF m[i].role \in roles THEN Append(e, m[i]) ELSE e
           Keeps(n, k) == k = [i \in 0..n |-> IF i = 0 THEN <<>> ELSE Next1(k[i - 1], i)]
           Ok == {n \in Nat : \E k : Keeps(n, k)}
<1>1. 0 \in Ok
  <2> DEFINE k == [i \in 0..0 |-> <<>>]
  <2>1. Keeps(0, k)
    <3> HIDE DEF Next1
    <3> QED
      OBVIOUS
  <2> HIDE DEF Keeps, k
  <2> QED
    BY <2>1
<1>2. ASSUME NEW n \in Nat, n \in Ok PROVE n + 1 \in Ok
  <2>1. PICK k : Keeps(n, k)
    BY <1>2
  <2> HIDE DEF Next1
  <2> DEFINE t == [i \in 0..n + 1 |-> IF i = n + 1 THEN Next1(k[n], i) ELSE k[i]]
  <2>2. ASSUME NEW i \in 0..n + 1 PROVE t[i] = IF i = 0 THEN <<>> ELSE Next1(t[i - 1], i)
    <3>1. CASE i = n + 1
      <4>1. t[i] = Next1(k[n], i) /\ t[i - 1] = k[n] /\ i # 0
        BY <3>1
      <4> HIDE DEF t
      <4> QED
        BY <4>1
    <3>2. CASE i # n + 1
      <4>1. i \in 0..n /\ t[i] = k[i] /\ (i # 0 => t[i - 1] = k[i - 1])
        BY <3>2
      <4> HIDE DEF t
      <4>2. k[i] = IF i = 0 THEN <<>> ELSE Next1(k[i - 1], i)
        BY <2>1, <4>1
      <4> QED
        BY <4>1, <4>2
    <3> QED
      BY <3>1, <3>2
  <2>3. Keeps(n + 1, t)
    BY <2>2
  <2> HIDE DEF Keeps, t
  <2> QED
    BY <2>3
<1> HIDE DEF Keeps
<1>3. \A n \in Nat : n \in Ok
  <2> HIDE DEF Ok
  <2> QED
    BY <1>1, <1>2, AllNumbers
<1>4. \E k : Keeps(Len(m), k)
  BY <1>3
<1> QED
  BY <1>4 DEF Keeps, IsKept

LEMMA OfRolesIsKept ==
  ASSUME NEW m \in Seq(MessageType), NEW roles
  PROVE  \E k : IsKept(k, m, roles) /\ OfRoles(m, roles) = k[Len(m)]
<1> DEFINE P(k) == k = [i \in 0..Len(m) |->
            IF i = 0 THEN <<>>
            ELSE IF m[i].role \in roles THEN Append(k[i - 1], m[i])
            ELSE k[i - 1]]
           c == CHOOSE k : P(k)
<1>1. \E k : P(k)
  BY KeptExists, Zenon DEF IsKept
<1>2. P(c)
  <2> HIDE DEF P
  <2> QED
    BY <1>1, Zenon
<1>3. OfRoles(m, roles) = c[Len(m)]
  BY Zenon DEF OfRoles
<1>4. IsKept(c, m, roles)
  BY <1>2, Zenon DEF IsKept
<1> HIDE DEF c
<1> QED
  BY <1>3, <1>4

LEMMA KeptFacts ==
  ASSUME NEW m \in Seq(MessageType), NEW roles, NEW k, IsKept(k, m, roles)
  PROVE  /\ k[0] = <<>>
         /\ \A i \in 1..Len(m) :
                k[i] = IF m[i].role \in roles THEN Append(k[i - 1], m[i]) ELSE k[i - 1]
<1> DEFINE kept(i) == IF m[i].role \in roles THEN Append(k[i - 1], m[i]) ELSE k[i - 1]
<1>1. k = [i \in 0..Len(m) |-> IF i = 0 THEN <<>> ELSE kept(i)]
  BY Zenon DEF IsKept
<1>2. k[0] = <<>> /\ \A i \in 1..Len(m) : k[i] = kept(i)
  <2> HIDE DEF kept
  <2> QED
    BY <1>1
<1> QED
  BY <1>2, Zenon

LEMMA FixedMessages ==
  /\ SystemMessage \in MessageType /\ SystemMessage.role = "system"
  /\ SystemMessage.size = SystemSize
  /\ SystemMessage.calls = {} /\ SystemMessage.answers = None
  /\ SummaryMessage \in {m \in MessageType : m.role # "system"}
  /\ SummaryMessage.calls = {} /\ SummaryMessage.answers = None
  BY SizesAssumption DEF SystemMessage, SummaryMessage, Message, MessageType, SizesAssumption

LEMMA TranscriptType ==
  ASSUME NEW m \in Transcript
  PROVE  m \in Seq(MessageType) /\ \A i \in 1..Len(m) : m[i] \in MessageType /\ m[i].role # "system"
  BY DEF Transcript

Conversation == {"user", "assistant", "tool"}

\* The system prompt and the rest of a request are told apart again.
LEMMA Filtered ==
  ASSUME NEW m \in Transcript
  PROVE  /\ OfRoles(<<SystemMessage>> \o m, {"system"}) = <<SystemMessage>>
         /\ OfRoles(<<SystemMessage>> \o m, {"user", "assistant", "tool"}) = m
<1> DEFINE w == <<SystemMessage>> \o m
<1>0. m \in Seq(MessageType) /\ Len(m) \in Nat
  BY TranscriptType
<1>1. /\ w \in Seq(MessageType) /\ Len(w) = Len(m) + 1 /\ w[1] = SystemMessage
      /\ \A i \in 1..Len(m) : w[i + 1] = m[i]
  BY <1>0, FixedMessages
<1>2. w[1].role = "system" /\ \A i \in 1..Len(m) : w[i + 1].role \in Conversation
  <2>1. ASSUME NEW i \in 1..Len(m) PROVE w[i + 1].role \in Conversation
    <3>1. m[i] \in MessageType /\ m[i].role # "system"
      BY TranscriptType
    <3> QED
      BY <1>1, <3>1 DEF MessageType, Conversation
  <2> QED
    BY <1>1, <2>1, FixedMessages
<1> HIDE DEF w
<1>3. OfRoles(w, {"system"}) = <<SystemMessage>>
  <2>1. PICK k : IsKept(k, w, {"system"}) /\ OfRoles(w, {"system"}) = k[Len(w)]
    BY <1>1, OfRolesIsKept
  <2>2. /\ k[0] = <<>>
        /\ \A i \in 1..Len(w) :
             k[i] = IF w[i].role \in {"system"} THEN Append(k[i - 1], w[i]) ELSE k[i - 1]
    BY <1>1, <2>1, KeptFacts
  <2> DEFINE Ok == {n \in Nat : n <= Len(m) => k[n + 1] = <<SystemMessage>>}
  <2>3. 0 \in Ok
    <3>1. 1 \in 1..Len(w) /\ 1 - 1 = 0
      BY <1>0, <1>1
    <3>2. k[1] = IF w[1].role \in {"system"} THEN Append(k[1 - 1], w[1]) ELSE k[1 - 1]
      BY <2>2, <3>1, Zenon
    <3>3. k[1 - 1] = <<>>
      BY <2>2, <3>1, Zenon
    <3>4. Append(<<>>, SystemMessage) = <<SystemMessage>>
      OBVIOUS
    <3> QED
      BY <1>0, <1>1, <1>2, <3>2, <3>3, <3>4
  <2>4. ASSUME NEW n \in Nat, n \in Ok PROVE n + 1 \in Ok
    <3> SUFFICES ASSUME n + 1 <= Len(m) PROVE k[n + 1 + 1] = <<SystemMessage>>
      OBVIOUS
    <3>1. n + 1 \in 1..Len(m) /\ n + 1 + 1 \in 1..Len(w) /\ n + 1 + 1 - 1 = n + 1
      BY <1>0, <1>1
    <3>2. w[n + 1 + 1].role \notin {"system"}
      BY <1>2, <3>1 DEF Conversation
    <3>3. k[n + 1] = <<SystemMessage>>
      BY <2>4, <1>0
    <3> QED
      BY <2>2, <3>1, <3>2, <3>3
  <2>5. \A n \in Nat : n \in Ok
    <3> HIDE DEF Ok
    <3> QED
      BY <2>3, <2>4, AllNumbers
  <2>6. k[Len(m) + 1] = <<SystemMessage>>
    BY <1>0, <2>5
  <2> QED
    BY <1>1, <2>1, <2>6
<1>4. OfRoles(w, Conversation) = m
  <2>1. PICK k : IsKept(k, w, Conversation) /\ OfRoles(w, Conversation) = k[Len(w)]
    BY <1>1, OfRolesIsKept
  <2>2. /\ k[0] = <<>>
        /\ \A i \in 1..Len(w) :
             k[i] = IF w[i].role \in Conversation THEN Append(k[i - 1], w[i]) ELSE k[i - 1]
    BY <1>1, <2>1, KeptFacts
  <2> DEFINE Ok == {n \in Nat : n <= Len(m) => k[n + 1] = SubSeq(m, 1, n)}
  <2>3. 0 \in Ok
    <3>1. 1 \in 1..Len(w) /\ 1 - 1 = 0
      BY <1>0, <1>1
    <3>2. w[1].role \notin Conversation
      BY <1>2 DEF Conversation
    <3>3. k[1] = <<>>
      BY <2>2, <3>1, <3>2
    <3>4. SubSeq(m, 1, 0) = <<>>
      BY <1>0
    <3> QED
      BY ONLY <3>3, <3>4, 0 + 1 = 1
  <2>4. ASSUME NEW n \in Nat, n \in Ok PROVE n + 1 \in Ok
    <3> SUFFICES ASSUME n + 1 <= Len(m) PROVE k[n + 1 + 1] = SubSeq(m, 1, n + 1)
      OBVIOUS
    <3>1. n + 1 \in 1..Len(m) /\ n + 1 + 1 \in 1..Len(w) /\ n + 1 + 1 - 1 = n + 1
      BY <1>0, <1>1
    <3>2. k[n + 1] = SubSeq(m, 1, n)
      BY <2>4, <1>0
    <3>3. k[n + 1 + 1] = Append(k[n + 1], m[n + 1])
      <4> DEFINE j == n + 1 + 1
      <4>1. j \in 1..Len(w) /\ j - 1 = n + 1 /\ w[j] = m[n + 1] /\ w[j].role \in Conversation
        BY <1>1, <1>2, <3>1
      <4> HIDE DEF j
      <4>2. k[j] = IF w[j].role \in Conversation THEN Append(k[j - 1], w[j]) ELSE k[j - 1]
        BY <2>2, <4>1, Zenon
      <4>3. k[j] = Append(k[n + 1], m[n + 1])
        BY <4>1, <4>2
      <4> QED
        BY <4>3 DEF j
    <3>4. Append(SubSeq(m, 1, n), m[n + 1]) = SubSeq(m, 1, n + 1)
      BY <1>0
    <3> QED
      BY <3>2, <3>3, <3>4
  <2>5. \A n \in Nat : n \in Ok
    <3> HIDE DEF Ok
    <3> QED
      BY <2>3, <2>4, AllNumbers
  <2>6. k[Len(m) + 1] = SubSeq(m, 1, Len(m))
    BY <1>0, <2>5
  <2>7. SubSeq(m, 1, Len(m)) = m
    BY <1>0
  <2> QED
    BY <1>1, <2>1, <2>6, <2>7
<1> QED
  BY <1>3, <1>4 DEF w, Conversation

(***************************************************************************)
(* Trimming and cutting.                                                   *)
(***************************************************************************)
\* The messages skipped are results, and the one that is not is none.
LEMMA Skips ==
  ASSUME NEW m, Len(m) \in Nat, NEW i \in 1..Len(m) + 1
  PROVE  /\ SkipResults(m, i) \in i..Len(m) + 1
         /\ \A k \in i..SkipResults(m, i) - 1 : IsResult(m[k])
         /\ SkipResults(m, i) <= Len(m) => ~IsResult(m[SkipResults(m, i)])
<1> DEFINE Ends(j) == j <= Len(m) => ~IsResult(m[j])
           Good(j) == /\ \A k \in i..(j - 1) : IsResult(m[k])
                      /\ j <= Len(m) => ~IsResult(m[j])
           S == {j \in i..Len(m) + 1 : Ends(j)}
<1>1. S \in SUBSET Nat /\ Len(m) + 1 \in S
  OBVIOUS
<1>2. PICK j \in S : \A k \in S : j <= k
  BY <1>1, LeastNumber
<1>3. j \in i..Len(m) + 1 /\ Ends(j)
  OBVIOUS
<1>4. ASSUME NEW k \in i..(j - 1) PROVE IsResult(m[k])
  <2>1. k \notin S /\ k \in i..Len(m) + 1 /\ k <= Len(m)
    BY <1>2, <1>3
  <2> QED
    BY <2>1
<1>5. \E x \in i..(Len(m) + 1) : Good(x)
  BY <1>3, <1>4
<1>6. SkipResults(m, i) = CHOOSE x \in i..(Len(m) + 1) : Good(x)
  BY Zenon DEF SkipResults
<1> DEFINE s == SkipResults(m, i)
<1>7. s \in i..(Len(m) + 1) /\ Good(s)
  <2> HIDE DEF Good
  <2> QED
    BY <1>5, <1>6
<1> QED
  BY <1>7

\* The sum that CountRequest is grows with each part.
LEMMA Heavier ==
  ASSUME NEW a \in Nat, NEW b \in Nat, NEW c \in Nat, NEW d \in Nat, NEW e \in Nat,
         NEW p \in Nat, NEW g \in Nat
  PROVE  a + b + (c + d) + e <= a + (b + p) + (c + (g + d)) + e
  OBVIOUS

\* A request with the system prompt has a weight, which a message in front adds to.
LEMMA Weight ==
  ASSUME NEW q \in Seq(MessageType)
  PROVE  /\ <<SystemMessage>> \o q \in Seq(MessageType)
         /\ CountRequest(<<SystemMessage>> \o q) \in Nat
         /\ \A g \in MessageType :
              CountRequest(<<SystemMessage>> \o q) <= CountRequest(<<SystemMessage>> \o (<<g>> \o q))
<1> DEFINE C(x) == CountRequest(<<SystemMessage>> \o x)
<1>1. ASSUME NEW x \in Seq(MessageType)
      PROVE  /\ <<SystemMessage>> \o x \in Seq(MessageType)
             /\ C(x) = RequestOverhead + PerMessage * (Len(x) + 1)
                         + (SystemSize + CountTexts(x)) + ToolsSize
  <2>1. /\ <<SystemMessage>> \o x \in Seq(MessageType)
        /\ Len(<<SystemMessage>> \o x) = Len(x) + 1
    BY FixedMessages
  <2>2. CountTexts(<<SystemMessage>> \o x) = SystemSize + CountTexts(x)
    BY FixedMessages, CountInFront
  <2> QED
    BY <2>1, <2>2 DEF CountRequest, CountMessages
<1>2. /\ RequestOverhead \in Nat /\ PerMessage \in Nat /\ SystemSize \in Nat /\ ToolsSize \in Nat
      /\ CountTexts(q) \in Nat /\ Len(q) \in Nat
  BY SizesAssumption, CountType DEF SizesAssumption
<1>3. C(q) \in Nat
  <2>1. PerMessage * (Len(q) + 1) \in Nat
    BY <1>2
  <2> HIDE DEF C
  <2> QED
    BY <1>1, <1>2, <2>1
<1>4. ASSUME NEW g \in MessageType PROVE C(q) <= C(<<g>> \o q)
  <2>1. <<g>> \o q \in Seq(MessageType) /\ Len(<<g>> \o q) = Len(q) + 1
    OBVIOUS
  <2>2. CountTexts(<<g>> \o q) = g.size + CountTexts(q) /\ g.size \in Nat
    BY CountInFront DEF MessageType
  <2>3. PerMessage * (Len(q) + 1 + 1) = PerMessage * (Len(q) + 1) + PerMessage
    BY <1>2
  <2>4. PerMessage * (Len(q) + 1) \in Nat
    BY <1>2
  <2> HIDE DEF C
  <2>5. C(<<g>> \o q) = RequestOverhead + PerMessage * (Len(q) + 1 + 1)
                         + (SystemSize + (g.size + CountTexts(q))) + ToolsSize
    BY <1>1, <2>1, <2>2
  <2>6. C(q) = RequestOverhead + PerMessage * (Len(q) + 1) + (SystemSize + CountTexts(q)) + ToolsSize
    BY <1>1
  <2>7. RequestOverhead + PerMessage * (Len(q) + 1) + (SystemSize + CountTexts(q)) + ToolsSize
          <= RequestOverhead + (PerMessage * (Len(q) + 1) + PerMessage)
               + (SystemSize + (g.size + CountTexts(q))) + ToolsSize
    BY <1>2, <2>2, <2>4, Heavier
  <2> QED
    BY <2>3, <2>5, <2>6, <2>7
<1> QED
  BY <1>1, <1>3, <1>4

\* A longer tail weighs no less: once it overflows, every longer one does.
LEMMA LongerTail ==
  ASSUME NEW m \in Seq(MessageType), NEW j \in 1..Len(m) + 1, NEW i \in 1..j
  PROVE  CountRequest(<<SystemMessage>> \o From(m, j))
           <= CountRequest(<<SystemMessage>> \o From(m, i))
<1> DEFINE C(p) == CountRequest(<<SystemMessage>> \o From(m, p))
           Ok == {d \in Nat : d < j => C(j) <= C(j - d)}
<1>1. ASSUME NEW p \in 1..Len(m) + 1 PROVE C(p) \in Nat
  <2>1. From(m, p) \in Seq(MessageType)
    BY TailOf
  <2> QED
    BY <2>1, Weight
<1>2. ASSUME NEW p \in 1..Len(m) PROVE C(p + 1) <= C(p)
  <2>1. From(m, p + 1) \in Seq(MessageType) /\ m[p] \in MessageType
    <3>1. p + 1 \in 1..Len(m) + 1
      OBVIOUS
    <3> QED
      BY <3>1 DEF From
  <2>2. From(m, p) = <<m[p]>> \o From(m, p + 1)
    BY DEF From
  <2> QED
    BY <2>1, <2>2, Weight
<1> HIDE DEF C
<1>3. 0 \in Ok
  BY <1>1
<1>4. ASSUME NEW d \in Nat, d \in Ok PROVE d + 1 \in Ok
  <2> SUFFICES ASSUME d + 1 < j PROVE C(j) <= C(j - (d + 1))
    OBVIOUS
  <2> DEFINE p == j - (d + 1)
  <2>1. p \in 1..Len(m) /\ p + 1 = j - d /\ p + 1 \in 1..Len(m) + 1
    OBVIOUS
  <2>2. C(j) <= C(j - d)
    BY <1>4
  <2> HIDE DEF p
  <2>3. C(p + 1) <= C(p) /\ C(p) \in Nat /\ C(p + 1) \in Nat /\ C(j) \in Nat
    BY <1>1, <1>2, <2>1
  <2>4. C(j) <= C(p)
    BY <2>1, <2>2, <2>3
  <2> QED
    BY <2>4 DEF p
<1>5. \A d \in Nat : d \in Ok
  <2> HIDE DEF Ok
  <2> QED
    BY <1>3, <1>4, AllNumbers
<1>6. j - i \in Nat /\ j - i < j /\ j - (j - i) = i
  OBVIOUS
<1>7. C(j) <= C(i)
  <2>1. j - i \in Ok
    BY <1>5, <1>6
  <2> QED
    BY <2>1, <1>6
<1> QED
  BY <1>7 DEF C

LEMMA Boundaries ==
  ASSUME NEW m \in Seq(MessageType)
  PROVE  LET b == Boundary(<<SystemMessage>>, m)
         IN  /\ b \in 1..Len(m) + 1
             /\ \A j \in b..Len(m) : Fits(<<SystemMessage>> \o From(m, j))
             /\ b > 1 => ~Fits(<<SystemMessage>> \o From(m, b - 1))
<1> DEFINE Ok(j) == Fits(<<SystemMessage>> \o From(m, j))
           Good(i) == /\ \A j \in i..Len(m) : Ok(j)
                      /\ i > 1 => ~Ok(i - 1)
           S == {i \in 1..Len(m) + 1 : \A j \in i..Len(m) : Ok(j)}
           b == Boundary(<<SystemMessage>>, m)
<1>0. Len(m) \in Nat
  OBVIOUS
<1>1. b = CHOOSE i \in 1..(Len(m) + 1) : Good(i)
  BY Zenon DEF Boundary
<1> HIDE DEF Ok, b
<1>2. S \in SUBSET Nat /\ Len(m) + 1 \in S
  BY <1>0
<1>3. PICK i \in S : \A k \in S : i <= k
  BY <1>2, LeastNumber
<1>4. i \in 1..Len(m) + 1 /\ \A j \in i..Len(m) : Ok(j)
  OBVIOUS
<1>5. i > 1 => ~Ok(i - 1)
  <2> SUFFICES ASSUME i > 1, Ok(i - 1) PROVE FALSE
    OBVIOUS
  <2>1. i - 1 \in 1..Len(m) + 1 /\ \A j \in i - 1..Len(m) : j = i - 1 \/ j \in i..Len(m)
    BY <1>0, <1>4
  <2>2. i - 1 \in S
    BY <1>4, <2>1
  <2> QED
    BY <1>3, <1>4, <2>2
<1>6. b \in 1..(Len(m) + 1) /\ Good(b)
  <2>1. \E x \in 1..(Len(m) + 1) : Good(x)
    BY <1>4, <1>5
  <2> HIDE DEF Good
  <2> QED
    BY <1>1, <2>1
<1> QED
  BY <1>6 DEF b, Ok

\* What is sent: the whole request, or the system prompt and a tail that fits, starts
\* with no result and is cut no further than it has to be.
LEMMA Trims ==
  ASSUME NEW m \in Transcript
  PROVE  LET whole == <<SystemMessage>> \o m
         IN  \/ Trim(whole) = whole /\ (Fits(whole) \/ ~Fits(<<SystemMessage>>))
             \/ \E p \in 1..Len(m) + 1 :
                  /\ Trim(whole) = <<SystemMessage>> \o From(m, p)
                  /\ Fits(Trim(whole))
                  /\ p <= Len(m) => ~IsResult(m[p])
                  /\ \A k \in 1..p - 1 :
                       IsResult(m[k]) \/ ~Fits(<<SystemMessage>> \o From(m, k))
<1> DEFINE whole == <<SystemMessage>> \o m
           b == Boundary(<<SystemMessage>>, m)
           p == SkipResults(m, b)
           C(i) == CountRequest(<<SystemMessage>> \o From(m, i))
<1>0. m \in Seq(MessageType) /\ Len(m) \in Nat
  BY TranscriptType
<1>1. CASE Fits(whole) \/ ~Fits(<<SystemMessage>>)
  <2>1. TrimRequest(whole) = whole \/ Fits(<<SystemMessage>>)
    BY Filtered DEF TrimRequest
  <2> QED
    BY <1>1, <2>1 DEF Trim
<1>2. CASE ~Fits(whole) /\ Fits(<<SystemMessage>>)
  <2>1. Trim(whole) = <<SystemMessage>> \o From(m, p)
    BY <1>2, Filtered, Zenon DEF Trim, TrimRequest
  <2>2. /\ b \in 1..Len(m) + 1
        /\ \A j \in b..Len(m) : Fits(<<SystemMessage>> \o From(m, j))
        /\ b > 1 => ~Fits(<<SystemMessage>> \o From(m, b - 1))
    BY <1>0, Boundaries
  <2> HIDE DEF b
  <2>3. /\ p \in b..Len(m) + 1
        /\ \A k \in b..p - 1 : IsResult(m[k])
        /\ p <= Len(m) => ~IsResult(m[p])
    BY <1>0, <2>2, Skips
  <2> HIDE DEF p, whole
  <2>4. Fits(Trim(whole))
    <3>1. CASE p <= Len(m)
      <4>1. p \in b..Len(m)
        BY <1>0, <2>3, <3>1
      <4> QED
        BY <2>1, <2>2, <4>1, Zenon
    <3>2. CASE p = Len(m) + 1
      <4>1. From(m, p) = <<>>
        BY <1>0, <3>2, TailEnds
      <4>2. <<SystemMessage>> \o <<>> = <<SystemMessage>>
        BY FixedMessages
      <4> QED
        BY <1>2, <2>1, <4>1, <4>2
    <3> QED
      BY <1>0, <2>2, <2>3, <3>1, <3>2
  <2>5. ASSUME NEW k \in 1..p - 1 PROVE IsResult(m[k]) \/ ~Fits(<<SystemMessage>> \o From(m, k))
    <3>1. CASE k >= b
      BY <2>2, <2>3, <3>1
    <3>2. CASE k < b
      <4> DEFINE j == b - 1
      <4>1. j \in 1..Len(m) + 1 /\ k \in 1..j /\ ~Fits(<<SystemMessage>> \o From(m, j))
        BY <1>0, <2>2, <2>3, <3>2
      <4> HIDE DEF j
      <4>2. CountRequest(<<SystemMessage>> \o From(m, j)) <= CountRequest(<<SystemMessage>> \o From(m, k))
        BY <1>0, <4>1, LongerTail
      <4>3. /\ CountRequest(<<SystemMessage>> \o From(m, j)) \in Nat
            /\ CountRequest(<<SystemMessage>> \o From(m, k)) \in Nat
        <5>1. From(m, j) \in Seq(MessageType) /\ From(m, k) \in Seq(MessageType)
          BY <1>0, <4>1 DEF From
        <5> QED
          BY <5>1, Weight
      <4> QED
        BY <4>1, <4>2, <4>3, SizesAssumption DEF Fits, SizesAssumption
    <3> QED
      BY <2>2, <2>3, <3>1, <3>2
  <2>6. p \in 1..Len(m) + 1
    BY <2>2, <2>3
  <2>7. \E i \in 1..Len(m) + 1 :
          /\ Trim(whole) = <<SystemMessage>> \o From(m, i)
          /\ Fits(Trim(whole))
          /\ i <= Len(m) => ~IsResult(m[i])
          /\ \A k \in 1..i - 1 : IsResult(m[k]) \/ ~Fits(<<SystemMessage>> \o From(m, k))
    BY <2>1, <2>3, <2>4, <2>5, <2>6, Zenon
  <2> QED
    BY <2>7 DEF whole
<1> QED
  BY <1>1, <1>2

\* A cut-off leaves something of what is not summarized, and its first message is no result.
LEMMA CutsBetween ==
  ASSUME NEW m, Len(m) \in Nat, NEW already \in Nat, NEW keep, Cutoff(m, already, keep) # None
  PROVE  /\ Cutoff(m, already, keep) \in already + 1..Len(m) - 1
         /\ ~IsResult(m[Cutoff(m, already, keep) + 1])
<1> DEFINE over == Overflows(m, already, keep)
           skip == SkipResults(m, Newest(over) + 1)
           cut == IF over = {} THEN None ELSE skip - 1
<1>1. Cutoff(m, already, keep) = IF already < cut /\ cut < Len(m) THEN cut ELSE None
  BY Zenon DEF Cutoff
<1>2. over \in SUBSET (already..(Len(m) - 1))
  BY DEF Overflows
<1> HIDE DEF over
<1>3. over # {} /\ Cutoff(m, already, keep) = skip - 1 /\ already < skip - 1 /\ skip - 1 < Len(m)
  BY <1>1 DEF None
<1>4. Newest(over) \in already..Len(m) - 1
  <2>0. PICK some \in over : TRUE
    BY <1>3
  <2>1. already <= Len(m) - 1 /\ Len(m) - 1 \in Nat
    <3>1. some \in already..(Len(m) - 1)
      BY <1>2, <2>0
    <3> QED
      BY <3>1
  <2>2. \E x \in over : \A y \in over : y <= x
    <3> DEFINE top == Len(m) - 1
    <3>1. top \in Nat /\ over \in SUBSET (already..top)
      BY <1>2, <2>1
    <3> HIDE DEF top
    <3> QED
      BY <1>3, <3>1, GreatestNumber
  <2>3. Newest(over) \in over
    BY <2>2 DEF Newest
  <2> QED
    BY <1>2, <2>3
<1>5. /\ skip \in Newest(over) + 1..Len(m) + 1
      /\ skip <= Len(m) => ~IsResult(m[skip])
  <2> DEFINE i == Newest(over) + 1
  <2>1. i \in 1..Len(m) + 1
    BY <1>4
  <2> HIDE DEF i
  <2>2. /\ SkipResults(m, i) \in i..Len(m) + 1
        /\ SkipResults(m, i) <= Len(m) => ~IsResult(m[SkipResults(m, i)])
    BY <2>1, Skips
  <2> QED
    BY <2>2 DEF i
<1> HIDE DEF skip
<1>6. skip - 1 \in already + 1..Len(m) - 1 /\ skip - 1 + 1 = skip /\ skip <= Len(m)
  BY <1>3, <1>4, <1>5
<1> QED
  BY <1>3, <1>5, <1>6

(***************************************************************************)
(* The calls of a set, in their order.                                     *)
(***************************************************************************)
\* What InOrder chooses among.
Increasing(calls, order) ==
    /\ order \in [1..Cardinality(calls) -> calls]
    /\ \A i, j \in DOMAIN order : i < j => order[i] < order[j]

\* Every finite set of numbers can be put in order: the greatest comes last.
LEMMA OrderExists ==
  ASSUME NEW n \in Nat, NEW calls \in SUBSET (1..n)
  PROVE  IsFiniteSet(calls) /\ \E order : Increasing(calls, order)
<1> DEFINE Ok == {k \in Nat : \A S \in SUBSET (1..k) : IsFiniteSet(S) /\ \E order : Increasing(S, order)}
<1>1. 0 \in Ok
  <2> SUFFICES ASSUME NEW S \in SUBSET (1..0) PROVE IsFiniteSet(S) /\ \E order : Increasing(S, order)
    OBVIOUS
  <2>1. S = {} /\ IsFiniteSet(S) /\ Cardinality(S) = 0
    <3>1. S = {}
      OBVIOUS
    <3> QED
      BY <3>1, FS_EmptySet
  <2> DEFINE e == [i \in 1..0 |-> 0]
  <2>2. e \in [1..Cardinality(S) -> S] /\ DOMAIN e = {}
    BY <2>1
  <2>3. Increasing(S, e)
    BY <2>1, <2>2 DEF Increasing
  <2> QED
    BY <2>1, <2>3
<1>2. ASSUME NEW k \in Nat, k \in Ok PROVE k + 1 \in Ok
  <2> SUFFICES ASSUME NEW S \in SUBSET (1..k + 1) PROVE IsFiniteSet(S) /\ \E order : Increasing(S, order)
    OBVIOUS
  <2>1. CASE k + 1 \notin S
    <3>1. S \in SUBSET (1..k)
      BY <2>1
    <3> QED
      BY <1>2, <3>1
  <2>2. CASE k + 1 \in S
    <3> DEFINE R == S \ {k + 1}
    <3>1. R \in SUBSET (1..k) /\ k + 1 \notin R /\ S = R \union {k + 1}
      BY <2>2
    <3> HIDE DEF R
    <3>2. PICK order : IsFiniteSet(R) /\ Increasing(R, order)
      BY <1>2, <3>1
    <3>3. IsFiniteSet(S) /\ Cardinality(S) = Cardinality(R) + 1 /\ Cardinality(R) \in Nat
      BY <3>1, <3>2, FS_AddElement, FS_CardinalityType
    <3> DEFINE c == Cardinality(R)
               t == [i \in 1..c + 1 |-> IF i = c + 1 THEN k + 1 ELSE order[i]]
    <3>4. c \in Nat /\ order \in [1..c -> R] /\ (\A i, j \in 1..c : i < j => order[i] < order[j])
      BY <3>2, <3>3 DEF Increasing
    <3> HIDE DEF c
    <3>5. /\ DOMAIN t = 1..c + 1 /\ t[c + 1] = k + 1
          /\ \A i \in 1..c : t[i] = order[i] /\ order[i] \in R /\ i \in 1..c + 1
          /\ \A i \in 1..c + 1 : i = c + 1 \/ i \in 1..c
          /\ c + 1 \in 1..c + 1
      BY <3>4
    <3>6. t \in [1..c + 1 -> S]
      BY <3>1, <3>4
    <3> HIDE DEF t
    <3>7. ASSUME NEW i \in 1..c + 1, NEW j \in 1..c + 1, i < j PROVE t[i] < t[j]
      <4>1. i \in 1..c
        BY <3>4, <3>7
      <4>2. CASE j = c + 1
        <5>1. order[i] \in 1..k
          BY <3>1, <3>5, <4>1
        <5> QED
          BY <3>5, <4>1, <4>2, <5>1
      <4>3. CASE j \in 1..c
        BY <3>4, <3>5, <3>7, <4>1, <4>3
      <4> QED
        BY <3>5, <4>2, <4>3
    <3>9. Increasing(S, t)
      BY <3>3, <3>5, <3>6, <3>7 DEF Increasing, c
    <3> QED
      BY <3>3, <3>9
  <2> QED
    BY <2>1, <2>2
<1>3. \A k \in Nat : k \in Ok
  <2> HIDE DEF Ok
  <2> QED
    BY <1>1, <1>2, AllNumbers
<1> QED
  BY <1>3

\* InOrder is increasing, so it has as many values as places: it is onto.
LEMMA Ordered ==
  ASSUME NEW calls \in SUBSET Call
  PROVE  /\ IsFiniteSet(calls) /\ Cardinality(calls) \in Nat
         /\ \A i \in 1..Cardinality(calls) : InOrder(calls)[i] \in calls
         /\ \A c \in calls : \E i \in 1..Cardinality(calls) : InOrder(calls)[i] = c
<1> DEFINE n == Cardinality(calls)
           f == InOrder(calls)
           P(order) == \A i, j \in DOMAIN order : i < j => order[i] < order[j]
<1>1. IsFiniteSet(calls) /\ \E order : Increasing(calls, order)
  <2>1. 2 * MaxCalls \in Nat
    BY BoundsAssumption DEF BoundsAssumption
  <2> QED
    BY <2>1, OrderExists DEF Call
<1>2. n \in Nat
  BY <1>1, FS_CardinalityType
<1>3. f = CHOOSE order \in [1..Cardinality(calls) -> calls] : P(order)
  BY Zenon DEF InOrder
<1>4. \E order \in [1..Cardinality(calls) -> calls] : P(order)
  BY <1>1, Zenon DEF Increasing
<1>5. f \in [1..Cardinality(calls) -> calls] /\ P(f)
  <2> HIDE DEF P
  <2> QED
    BY <1>3, <1>4, Zenon
<1> HIDE DEF f
<1>6. calls \subseteq Int
  BY BoundsAssumption DEF Call, BoundsAssumption
<1>7. ASSUME NEW a \in 1..n, NEW b \in 1..n, f[a] = f[b] PROVE a = b
  <2>1. f[a] \in Int /\ f[b] \in Int /\ (a < b => f[a] < f[b]) /\ (b < a => f[b] < f[a])
    BY <1>5, <1>6
  <2> QED
    BY <1>2, <1>7, <2>1
<1>8. f \in Injection(1..n, calls)
  BY <1>5, <1>7 DEF Injection, IsInjective
<1>9. f \in Surjection(1..n, calls)
  <2>1. Cardinality(1..n) = n /\ IsFiniteSet(1..n)
    BY <1>2, FS_Interval
  <2> QED
    BY <1>1, <1>8, <2>1, FS_Injection
<1>10. \A c \in calls : \E i \in 1..n : f[i] = c
  BY <1>9 DEF Surjection
<1> QED
  BY <1>1, <1>2, <1>5, <1>10 DEF f

\* A message for each call is a message of the transcript, and no other is one.
LEMMA ResultsFacts ==
  ASSUME NEW calls \in SUBSET Call, NEW n \in Nat
  PROVE  /\ ResultsOf(calls, n) \in Transcript
         /\ Issued(ResultsOf(calls, n)) = {}
         /\ Answered(ResultsOf(calls, n)) = calls
<1> DEFINE k == Cardinality(calls)
           f == InOrder(calls)
           r == ResultsOf(calls, n)
<1>1. /\ k \in Nat /\ \A i \in 1..k : f[i] \in calls
      /\ \A c \in calls : \E i \in 1..k : f[i] = c
  BY Ordered
<1>2. r = [i \in 1..k |-> Result(n, f[i])]
  BY Zenon DEF ResultsOf
<1> HIDE DEF k, f, r
<1>3. \A c \in calls : Result(n, c) \in {m \in MessageType : m.role # "system"}
  BY DEF Result, Message, MessageType
<1>4. r \in Transcript /\ DOMAIN r = 1..k
  <2> HIDE DEF Result
  <2>1. \A i \in 1..k : Result(n, f[i]) \in {m \in MessageType : m.role # "system"}
    BY <1>1, <1>3
  <2> QED
    BY <1>1, <1>2, <2>1 DEF Transcript
<1>5. \A i \in 1..k : r[i].calls = {} /\ r[i].answers = f[i]
  BY <1>1, <1>2 DEF Result, Message
<1>6. None \notin calls
  BY BoundsAssumption DEF Call, BoundsAssumption, None
<1>7. Issued(r) = {}
  BY <1>4, <1>5 DEF Issued
<1>8. Answered(r) = calls
  BY <1>1, <1>4, <1>5, <1>6 DEF Answered
<1> QED
  BY <1>4, <1>7, <1>8 DEF r

LEMMA FollowUpsFacts ==
  ASSUME NEW calls \in SUBSET Call
  PROVE  /\ FollowUps(calls) \in Transcript
         /\ Issued(FollowUps(calls)) = calls
         /\ Answered(FollowUps(calls)) = {}
<1> DEFINE k == Cardinality(calls)
           f == InOrder(calls)
           r == FollowUps(calls)
<1>1. /\ k \in Nat /\ \A i \in 1..k : f[i] \in calls
      /\ \A c \in calls : \E i \in 1..k : f[i] = c
  BY Ordered
<1>2. r = [i \in 1..k |-> Answer(0, {f[i]})]
  BY Zenon DEF FollowUps
<1> HIDE DEF k, f, r
<1>3. \A c \in calls : Answer(0, {c}) \in {m \in MessageType : m.role # "system"}
  BY DEF Answer, Message, MessageType
<1>4. r \in Transcript /\ DOMAIN r = 1..k
  <2>1. \A i \in 1..k : Answer(0, {f[i]}) \in {m \in MessageType : m.role # "system"}
    BY <1>1, <1>3
  <2> HIDE DEF Answer
  <2> QED
    BY <1>1, <1>2, <2>1 DEF Transcript
<1>5. \A i \in 1..k : r[i].calls = {f[i]} /\ r[i].answers = None
  BY <1>1, <1>2 DEF Answer, Message
<1>6. Issued(r) = calls
  BY <1>1, <1>4, <1>5 DEF Issued
<1>7. Answered(r) = {}
  BY <1>4, <1>5 DEF Answered
<1> QED
  BY <1>4, <1>6, <1>7 DEF r

\* The response, and the prompt.
LEMMA OneMessage ==
  ASSUME NEW n \in Nat, NEW calls \in SUBSET Call
  PROVE  /\ <<Answer(n, calls)>> \in Transcript /\ <<Prompt(n)>> \in Transcript
         /\ Issued(<<Answer(n, calls)>>) = calls /\ Answered(<<Answer(n, calls)>>) = {}
         /\ Issued(<<Prompt(n)>>) = {} /\ Answered(<<Prompt(n)>>) = {}
<1>1. /\ Answer(n, calls) \in {m \in MessageType : m.role # "system"}
      /\ Prompt(n) \in {m \in MessageType : m.role # "system"}
      /\ Answer(n, calls).calls = calls /\ Answer(n, calls).answers = None
      /\ Prompt(n).calls = {} /\ Prompt(n).answers = None
  BY DEF Answer, Prompt, Message, MessageType
<1>2. ASSUME NEW g
      PROVE  /\ Issued(<<g>>) = g.calls /\ Answered(<<g>>) = {g.answers} \ {None}
  <2>1. DOMAIN <<g>> = {1} /\ <<g>>[1] = g
    OBVIOUS
  <2> QED
    BY <2>1 DEF Issued, Answered
<1>3. \A g \in {m \in MessageType : m.role # "system"} : <<g>> \in Transcript
  BY DEF Transcript
<1> QED
  BY <1>1, <1>2, <1>3

(***************************************************************************)
(* Calls and results of longer transcripts.                                *)
(***************************************************************************)
LEMMA JoinedCalls ==
  ASSUME NEW a \in Seq(MessageType), NEW b \in Seq(MessageType)
  PROVE  /\ Issued(a \o b) = Issued(a) \union Issued(b)
         /\ Answered(a \o b) = Answered(a) \union Answered(b)
<1> DEFINE w == a \o b
<1>1. /\ w \in Seq(MessageType) /\ Len(w) = Len(a) + Len(b)
      /\ \A i \in 1..Len(a) : w[i] = a[i]
      /\ \A i \in 1..Len(b) : w[Len(a) + i] = b[i]
  BY Joined
<1>2. DOMAIN w = 1..Len(w) /\ DOMAIN a = 1..Len(a) /\ DOMAIN b = 1..Len(b)
  BY <1>1
<1> HIDE DEF w
<1>3. \A i \in 1..Len(a) : i \in 1..Len(w)
  BY <1>1
<1>4. \A i \in 1..Len(b) : Len(a) + i \in 1..Len(w)
  BY <1>1
<1>5. \A i \in 1..Len(w) : i \in 1..Len(a) \/ \E j \in 1..Len(b) : i = Len(a) + j
  <2> SUFFICES ASSUME NEW i \in 1..Len(w), i \notin 1..Len(a) PROVE \E j \in 1..Len(b) : i = Len(a) + j
    OBVIOUS
  <2> DEFINE j == i - Len(a)
  <2>1. j \in 1..Len(b) /\ i = Len(a) + j
    <3>1. i \in Nat /\ Len(a) \in Nat /\ Len(b) \in Nat /\ i <= Len(a) + Len(b)
      BY <1>1
    <3> QED
      BY <3>1
  <2> QED
    BY <2>1
<1>6. Issued(w) = Issued(a) \union Issued(b)
  <2>1. ASSUME NEW c PROVE c \in Issued(w) <=> \E i \in 1..Len(w) : c \in w[i].calls
    BY <1>2 DEF Issued
  <2>2. ASSUME NEW c PROVE c \in Issued(a) <=> \E i \in 1..Len(a) : c \in a[i].calls
    BY <1>2 DEF Issued
  <2>3. ASSUME NEW c PROVE c \in Issued(b) <=> \E i \in 1..Len(b) : c \in b[i].calls
    BY <1>2 DEF Issued
  <2>4. ASSUME NEW c
        PROVE  (\E i \in 1..Len(w) : c \in w[i].calls) <=>
                 \/ \E i \in 1..Len(a) : c \in a[i].calls
                 \/ \E i \in 1..Len(b) : c \in b[i].calls
    BY <1>1, <1>3, <1>4, <1>5, Zenon
  <2> QED
    BY <2>1, <2>2, <2>3, <2>4
<1>7. Answered(w) = Answered(a) \union Answered(b)
  <2>1. ASSUME NEW c PROVE c \in Answered(w) <=> c # None /\ \E i \in 1..Len(w) : c = w[i].answers
    BY <1>2 DEF Answered
  <2>2. ASSUME NEW c PROVE c \in Answered(a) <=> c # None /\ \E i \in 1..Len(a) : c = a[i].answers
    BY <1>2 DEF Answered
  <2>3. ASSUME NEW c PROVE c \in Answered(b) <=> c # None /\ \E i \in 1..Len(b) : c = b[i].answers
    BY <1>2 DEF Answered
  <2>4. ASSUME NEW c
        PROVE  (\E i \in 1..Len(w) : c = w[i].answers) <=>
                 \/ \E i \in 1..Len(a) : c = a[i].answers
                 \/ \E i \in 1..Len(b) : c = b[i].answers
    <3>1. ASSUME NEW i \in 1..Len(w), c = w[i].answers
          PROVE  \/ \E j \in 1..Len(a) : c = a[j].answers
                 \/ \E j \in 1..Len(b) : c = b[j].answers
      BY <1>1, <1>5, <3>1
    <3>2. ASSUME NEW i \in 1..Len(a), c = a[i].answers PROVE \E j \in 1..Len(w) : c = w[j].answers
      BY <1>1, <1>3, <3>2
    <3>3. ASSUME NEW i \in 1..Len(b), c = b[i].answers PROVE \E j \in 1..Len(w) : c = w[j].answers
      BY <1>1, <1>4, <3>3
    <3> QED
      BY <3>1, <3>2, <3>3
  <2> DEFINE Named(y, c) == \E i \in 1..Len(y) : c = y[i].answers
  <2> HIDE DEF Named
  <2>5. ASSUME NEW c PROVE c \in Answered(w) <=> c \in Answered(a) \/ c \in Answered(b)
    <3>1. /\ c \in Answered(w) <=> c # None /\ Named(w, c)
          /\ c \in Answered(a) <=> c # None /\ Named(a, c)
          /\ c \in Answered(b) <=> c # None /\ Named(b, c)
      BY <2>1, <2>2, <2>3 DEF Named
    <3>2. Named(w, c) <=> Named(a, c) \/ Named(b, c)
      BY <2>4 DEF Named
    <3> QED
      BY <3>1, <3>2
  <2> QED
    BY <2>5
<1> QED
  BY <1>6, <1>7 DEF w

LEMMA CallsOf ==
  ASSUME NEW m \in Seq(MessageType)
  PROVE  Issued(m) \in SUBSET Call /\ Answered(m) \in SUBSET Call
<1>1. \A i \in DOMAIN m : m[i].calls \in SUBSET Call /\ m[i].answers \in Call \union {None}
  <2>1. \A i \in DOMAIN m : m[i] \in MessageType
    OBVIOUS
  <2>2. \A g \in MessageType : g.calls \in SUBSET Call /\ g.answers \in Call \union {None}
    BY DEF MessageType
  <2> QED
    BY <2>1, <2>2
<1> QED
  BY <1>1 DEF Issued, Answered

\* What a tail issues and answers, position by position.
LEMMA CallsOfTail ==
  ASSUME NEW m \in Seq(MessageType), NEW p \in 1..Len(m) + 1
  PROVE  /\ \A c : c \in Issued(From(m, p)) <=> \E i \in p..Len(m) : c \in m[i].calls
         /\ \A c : c \in Answered(From(m, p)) <=> c # None /\ \E i \in p..Len(m) : c = m[i].answers
<1> DEFINE w == From(m, p)
<1>1. /\ w \in Seq(MessageType) /\ Len(w) = Len(m) - p + 1
      /\ \A i \in 1..Len(m) - p + 1 : w[i] = m[p + i - 1]
  BY TailOf
<1> HIDE DEF w
<1>2. DOMAIN w = 1..Len(m) - p + 1
  BY <1>1
<1>3. \A i \in DOMAIN w : p + i - 1 \in p..Len(m) /\ w[i] = m[p + i - 1]
  BY <1>1, <1>2
<1>4. \A i \in p..Len(m) : i - p + 1 \in DOMAIN w /\ w[i - p + 1] = m[i]
  <2> SUFFICES ASSUME NEW i \in p..Len(m) PROVE i - p + 1 \in DOMAIN w /\ w[i - p + 1] = m[i]
    OBVIOUS
  <2>1. i - p + 1 \in DOMAIN w /\ p + (i - p + 1) - 1 = i
    BY <1>2
  <2> QED
    BY <1>3, <2>1
<1>5. ASSUME NEW c PROVE c \in Issued(w) <=> \E i \in p..Len(m) : c \in m[i].calls
  <2>1. c \in Issued(w) <=> \E i \in DOMAIN w : c \in w[i].calls
    BY DEF Issued
  <2> QED
    BY <1>3, <1>4, <2>1, Zenon
<1>6. ASSUME NEW c PROVE c \in Answered(w) <=> c # None /\ \E i \in p..Len(m) : c = m[i].answers
  <2>1. c \in Answered(w) <=> c # None /\ \E i \in DOMAIN w : c = w[i].answers
    BY DEF Answered
  <2>2. ASSUME NEW i \in DOMAIN w, c = w[i].answers PROVE \E j \in p..Len(m) : c = m[j].answers
    BY <1>3, <2>2, Zenon
  <2>3. ASSUME NEW i \in p..Len(m), c = m[i].answers PROVE \E j \in DOMAIN w : c = w[j].answers
    BY <1>4, <2>3, Zenon
  <2> QED
    BY <2>1, <2>2, <2>3, Zenon
<1> QED
  BY <1>5, <1>6 DEF w

\* A tail that shows the call of every result still does so when it is cut between the
\* results of one message and the next.
LEMMA ShorterTail ==
  ASSUME NEW m \in Seq(MessageType), NEW p \in 1..Len(m) + 1, NEW q \in p..Len(m) + 1,
         Contiguous(m), Answered(From(m, p)) \subseteq Issued(From(m, p)),
         q <= Len(m) => ~IsResult(m[q])
  PROVE  Answered(From(m, q)) \subseteq Issued(From(m, q))
<1> SUFFICES ASSUME NEW c, c \in Answered(From(m, q)) PROVE c \in Issued(From(m, q))
  OBVIOUS
<1>0. q \in 1..Len(m) + 1 /\ Len(m) \in Nat
  OBVIOUS
<1>1. c # None /\ \E i \in q..Len(m) : c = m[i].answers
  <2>1. \A d : d \in Answered(From(m, q)) <=> d # None /\ \E i \in q..Len(m) : d = m[i].answers
    BY <1>0, CallsOfTail
  <2> QED
    BY <2>1
<1>2. PICK i \in q..Len(m) : c = m[i].answers
  BY <1>1
<1>3. i \in p..Len(m) /\ q <= Len(m)
  BY <1>0
<1>4. c \in Answered(From(m, p))
  BY <1>1, <1>2, <1>3, CallsOfTail, Zenon
<1>5. PICK j \in p..Len(m) : c \in m[j].calls
  <2>1. c \in Issued(From(m, p))
    BY <1>4
  <2> QED
    BY <2>1, CallsOfTail, Zenon
<1>6. CASE j >= q
  <2>1. j \in q..Len(m)
    BY <1>0, <1>6
  <2> QED
    BY <1>0, <1>5, <2>1, CallsOfTail, Zenon
<1>7. CASE j < q
  <2>1. j \in DOMAIN m /\ q \in DOMAIN m
    BY <1>0, <1>3
  <2>2. m[j].calls \intersect Answered(From(m, q)) = {}
    BY <1>3, <1>7, <2>1 DEF Contiguous
  <2> QED
    BY <1>5, <2>2
<1> QED
  BY <1>0, <1>6, <1>7

\* What has been contiguous stays so when the later messages are taken away.
LEMMA ContiguousBefore ==
  ASSUME NEW m \in Seq(MessageType), NEW x \in Seq(MessageType), Contiguous(m \o x)
  PROVE  Contiguous(m)
<1> DEFINE w == m \o x
<1>1. /\ w \in Seq(MessageType) /\ Len(w) = Len(m) + Len(x) /\ DOMAIN w = 1..Len(w)
      /\ \A i \in 1..Len(m) : w[i] = m[i]
  BY Joined
<1> SUFFICES ASSUME NEW i \in DOMAIN m, NEW j \in DOMAIN m, i < j, ~IsResult(m[j])
             PROVE  m[i].calls \intersect Answered(From(m, j)) = {}
  BY DEF Contiguous
<1>2. /\ i \in DOMAIN w /\ j \in DOMAIN w /\ w[i] = m[i] /\ w[j] = m[j]
      /\ j \in 1..Len(m) + 1
  BY <1>1
<1>3. w[i].calls \intersect Answered(From(w, j)) = {}
  <2> HIDE DEF w
  <2>1. Contiguous(w)
    BY DEF w
  <2> QED
    BY <1>2, <2>1 DEF Contiguous
<1>4. From(w, j) = From(m, j) \o x /\ From(m, j) \in Seq(MessageType)
  BY <1>2, TailOfJoined, TailOf
<1>5. Answered(From(w, j)) = Answered(From(m, j)) \union Answered(x)
  BY <1>4, JoinedCalls
<1> QED
  BY <1>2, <1>3, <1>5

(***************************************************************************)
(* A state and what is appended to it.                                     *)
(***************************************************************************)
LEMMA StateFacts ==
  ASSUME NEW s \in State
  PROVE  /\ s.messages \in Transcript /\ s.messages \in Seq(MessageType) /\ Len(s.messages) \in Nat
         /\ s.compaction.through \in 0..Len(s.messages)
         /\ s.compaction.through + 1 \in 1..Len(s.messages) + 1
         /\ s.compaction.covers = 1..s.compaction.through
         /\ s = [messages |-> s.messages, compaction |-> s.compaction]
         /\ s.compaction \in [through : Nat, covers : SUBSET Nat]
<1>1. s.messages \in Transcript /\ s.messages \in Seq(MessageType) /\ Len(s.messages) \in Nat
  BY TranscriptType DEF State
<1> QED
  BY <1>1 DEF State

LEMMA EmptyIsState ==
  /\ EmptyState \in State /\ Sound(EmptyState) /\ Unmatched(EmptyState.messages) = {}
  /\ EmptyState.messages = <<>>
<1>1. EmptyState.messages = <<>> /\ EmptyState.compaction = NoCompaction
  BY DEF EmptyState
<1>2. EmptyState \in State
  <2>1. <<>> \in Transcript /\ Len(<<>>) = 0 /\ 1..0 = {}
    BY DEF Transcript
  <2>2. /\ EmptyState \in [messages : Transcript, compaction : [through : Nat, covers : SUBSET Nat]]
        /\ EmptyState.compaction.through = 0 /\ EmptyState.compaction.covers = {}
    BY <2>1 DEF EmptyState, NoCompaction
  <2>3. EmptyState.compaction.covers = 1..EmptyState.compaction.through
    BY <2>1, <2>2
  <2>4. EmptyState.compaction.through <= Len(EmptyState.messages)
    BY <1>1, <2>1, <2>2
  <2> QED
    BY <2>2, <2>3, <2>4 DEF State
<1>3. Issued(<<>>) = {} /\ Answered(<<>>) = {}
  BY DEF Issued, Answered
<1>4. Shown(EmptyState) = <<>>
  BY DEF Shown, From, EmptyState, NoCompaction
<1> QED
  BY <1>1, <1>2, <1>3, <1>4 DEF Sound, Unmatched

\* The state that is appended to: its messages, what is shown of them, and the calls.
LEMMA AppendedFacts ==
  ASSUME NEW s \in State, NEW x \in Transcript
  PROVE  /\ Appended(s, x) \in State
         /\ Appended(s, x).messages = s.messages \o x
         /\ IsPrefix(s.messages, Appended(s, x).messages)
         /\ Issued(Shown(Appended(s, x))) = Issued(Shown(s)) \union Issued(x)
         /\ Answered(Shown(Appended(s, x))) = Answered(Shown(s)) \union Answered(x)
         /\ Issued(Appended(s, x).messages) = Issued(s.messages) \union Issued(x)
         /\ Answered(Appended(s, x).messages) = Answered(s.messages) \union Answered(x)
<1> DEFINE m == s.messages
           t == s.compaction.through
           a == Appended(s, x)
<1>1. /\ m \in Transcript /\ m \in Seq(MessageType) /\ Len(m) \in Nat
      /\ t \in 0..Len(m) /\ t + 1 \in 1..Len(m) + 1
      /\ s.compaction.covers = 1..t
      /\ s = [messages |-> m, compaction |-> s.compaction]
      /\ s.compaction \in [through : Nat, covers : SUBSET Nat]
  BY StateFacts
<1>2. x \in Seq(MessageType) /\ Len(x) \in Nat
  BY TranscriptType
<1>3. a = [messages |-> m \o x, compaction |-> s.compaction]
  <2> DEFINE c == s.compaction
  <2>1. s = [messages |-> m, compaction |-> c]
    BY <1>1
  <2> HIDE DEF c, m
  <2>2. \A y : [s EXCEPT !.messages = y] = [messages |-> y, compaction |-> c]
    <3>1. \A a1, b1, y : [[messages |-> a1, compaction |-> b1] EXCEPT !.messages = y]
                          = [messages |-> y, compaction |-> b1]
      OBVIOUS
    <3> QED
      BY <2>1, <3>1, Zenon
  <2>3. Appended(s, x) = [s EXCEPT !.messages = m \o x]
    BY DEF Appended, m
  <2> QED
    BY <2>2, <2>3 DEF c
<1>4. a.messages = m \o x /\ a.compaction = s.compaction
  BY <1>3
<1>5. m \o x \in Transcript /\ Len(m \o x) = Len(m) + Len(x)
  BY <1>1, Joined DEF Transcript
<1>6. a \in State
  <2>1. t <= Len(m \o x)
    BY <1>1, <1>2, <1>5
  <2> HIDE DEF m
  <2> QED
    BY <1>1, <1>3, <1>4, <1>5, <2>1 DEF State
<1>7. Shown(a) = Shown(s) \o x /\ Shown(s) \in Seq(MessageType)
  <2> DEFINE p == t + 1
  <2> HIDE DEF m
  <2>1. p \in 1..Len(m) + 1
    BY <1>1
  <2> HIDE DEF p
  <2>2. From(m \o x, p) = From(m, p) \o x /\ From(m, p) \in Seq(MessageType)
    BY <1>1, <1>2, <2>1, TailOfJoined, TailOf
  <2> QED
    BY <1>4, <2>2 DEF Shown, p, m
<1>8. IsPrefix(m, a.messages)
  <2> HIDE DEF m
  <2>1. SubSeq(m, 1, Len(m)) = SubSeq(m \o x, 1, Len(m))
    BY <1>1, <1>2
  <2> QED
    BY <1>1, <1>2, <1>4, <1>5, <2>1 DEF IsPrefix
<1> HIDE DEF a
<1> QED
  BY <1>1, <1>2, <1>4, <1>6, <1>7, <1>8, JoinedCalls DEF a

\* What is appended keeps the state sound when its results answer calls that are shown.
LEMMA SoundAppended ==
  ASSUME NEW s \in State, NEW x \in Transcript, Sound(s),
         Answered(x) \subseteq Issued(Shown(s))
  PROVE  Sound(Appended(s, x))
<1> DEFINE a == Appended(s, x)
<1>1. /\ a.messages = s.messages \o x
      /\ Issued(Shown(a)) = Issued(Shown(s)) \union Issued(x)
      /\ Answered(Shown(a)) = Answered(Shown(s)) \union Answered(x)
      /\ Issued(a.messages) = Issued(s.messages) \union Issued(x)
      /\ Answered(a.messages) = Answered(s.messages) \union Answered(x)
  BY AppendedFacts
<1>2. Unmatched(a.messages) \subseteq Unmatched(s.messages) \union Issued(x)
  BY <1>1 DEF Unmatched
<1> HIDE DEF a
<1>3. ASSUME Contiguous(a.messages) PROVE Contiguous(s.messages)
  BY <1>1, <1>3, StateFacts, TranscriptType, ContiguousBefore
<1> QED
  BY <1>1, <1>2, <1>3 DEF Sound, a

\* A summary hides a longer prefix, and covers all of it.
LEMMA SummarizedFacts ==
  ASSUME NEW s \in State, NEW cut \in s.compaction.through + 1..Len(s.messages)
  PROVE  LET a == [s EXCEPT !.compaction = Summarize(s, cut)]
         IN  /\ a \in State
             /\ a.messages = s.messages
             /\ Shown(a) = From(s.messages, cut + 1)
<1> DEFINE a == [s EXCEPT !.compaction = Summarize(s, cut)]
           m == s.messages
           t == s.compaction.through
           c == Summarize(s, cut)
<1>1. /\ m \in Transcript /\ Len(m) \in Nat /\ t \in 0..Len(m)
      /\ s.compaction.covers = 1..t
      /\ s = [messages |-> m, compaction |-> s.compaction]
  BY StateFacts
<1>2. cut \in Nat /\ t < cut /\ cut <= Len(m)
  BY <1>1
<1>3. (1..t) \union ((t + 1)..cut) = 1..cut
  BY <1>1, <1>2
<1>4. c = [through |-> cut, covers |-> 1..cut]
  BY <1>1, <1>3 DEF Summarize
<1> HIDE DEF c
<1>5. a = [messages |-> m, compaction |-> c]
  <2> DEFINE d == s.compaction
  <2>1. s = [messages |-> m, compaction |-> d]
    BY <1>1
  <2> HIDE DEF d, m
  <2>2. \A y : [s EXCEPT !.compaction = y] = [messages |-> m, compaction |-> y]
    <3>1. \A a1, b1, y : [[messages |-> a1, compaction |-> b1] EXCEPT !.compaction = y]
                          = [messages |-> a1, compaction |-> y]
      OBVIOUS
    <3> QED
      BY <2>1, <3>1, Zenon
  <2> QED
    BY <2>2 DEF c
<1> HIDE DEF a
<1>6. a.messages = m /\ a.compaction.through = cut /\ a.compaction.covers = 1..cut
  BY <1>4, <1>5
<1>7. a \in State
  <2>1. 1..cut \in SUBSET Nat
    BY <1>2
  <2> HIDE DEF m
  <2> QED
    BY <1>1, <1>2, <1>4, <1>5, <1>6, <2>1 DEF State
<1>8. Shown(a) = From(m, cut + 1)
  BY <1>6 DEF Shown
<1> QED
  BY <1>6, <1>7, <1>8 DEF a, c

\* The cut-off of a compaction keeps the calls of the results that stay shown.
LEMMA SoundCut ==
  ASSUME NEW s \in State, Sound(s), Unmatched(s.messages) = {},
         NEW cut \in s.compaction.through + 1..Len(s.messages) - 1, ~IsResult(s.messages[cut + 1])
  PROVE  Sound([s EXCEPT !.compaction = Summarize(s, cut)])
<1> DEFINE a == [s EXCEPT !.compaction = Summarize(s, cut)]
           m == s.messages
           p == s.compaction.through + 1
           q == cut + 1
<1>1. m \in Seq(MessageType) /\ Len(m) \in Nat /\ p \in 1..Len(m) + 1
  BY StateFacts
<1>2. cut \in p..Len(m) /\ q \in p..Len(m) + 1
  BY <1>1
<1>3. a.messages = m /\ Shown(a) = From(m, q)
  BY <1>2, SummarizedFacts
<1> HIDE DEF a
<1>4. ASSUME Contiguous(m) PROVE Answered(From(m, q)) \subseteq Issued(From(m, q))
  <2>1. Answered(From(m, p)) \subseteq Issued(From(m, p))
    BY <1>4 DEF Sound, Shown
  <2>2. ~IsResult(m[q])
    OBVIOUS
  <2> HIDE DEF m, p, q
  <2> QED
    BY <1>1, <1>2, <1>4, <2>1, <2>2, ShorterTail
<1> HIDE DEF q
<1>5. Sound(a)
  BY <1>3, <1>4 DEF Sound
<1> QED
  BY <1>5 DEF a

\* A forced compaction hides everything: no call is left to answer, and no result shown.
LEMMA SoundForced ==
  ASSUME NEW s \in State, s.compaction.through < Len(s.messages)
  PROVE  LET cut == ForceCut(s.messages, s.compaction.through)
             a == [s EXCEPT !.compaction = Summarize(s, cut)]
         IN  /\ a \in State
             /\ a.messages = s.messages
             /\ Unmatched(s.messages) = {} => Sound(a)
<1> DEFINE cut == ForceCut(s.messages, s.compaction.through)
           a == [s EXCEPT !.compaction = Summarize(s, cut)]
<1>1. /\ s.messages \in Seq(MessageType) /\ Len(s.messages) \in Nat
      /\ s.compaction.through \in 0..Len(s.messages)
  BY StateFacts
<1>2. cut = Len(s.messages)
  BY DEF ForceCut
<1> HIDE DEF cut
<1>3. cut \in s.compaction.through + 1..Len(s.messages)
  BY <1>1, <1>2
<1>4. a \in State /\ a.messages = s.messages /\ Shown(a) = From(s.messages, cut + 1)
  BY <1>3, SummarizedFacts
<1> HIDE DEF a
<1>5. Shown(a) = <<>>
  BY <1>1, <1>2, <1>4, TailEnds
<1>6. Issued(<<>>) = {} /\ Answered(<<>>) = {}
  BY DEF Issued, Answered
<1> QED
  BY <1>4, <1>5, <1>6 DEF Sound, a, cut

(***************************************************************************)
(* Requests.                                                               *)
(***************************************************************************)
LEMMA BodyFacts ==
  ASSUME NEW s \in State
  PROVE  /\ Body(s) \in Transcript
         /\ Answered(Body(s)) = Answered(Shown(s))
         /\ Issued(Body(s)) = Issued(Shown(s))
<1>1. /\ s.messages \in Transcript /\ s.messages \in Seq(MessageType) /\ Len(s.messages) \in Nat
      /\ s.compaction.through + 1 \in 1..Len(s.messages) + 1
  BY StateFacts
<1>2. Shown(s) \in Transcript /\ Shown(s) \in Seq(MessageType)
  <2>1. Shown(s) \in Seq({m \in MessageType : m.role # "system"})
    BY <1>1 DEF Shown, From, Transcript
  <2> QED
    BY <2>1, TranscriptType DEF Transcript
<1>3. CASE s.compaction = NoCompaction
  <2>1. Shown(s) = s.messages
    BY <1>1, <1>3, TailEnds DEF Shown, NoCompaction
  <2> QED
    BY <1>1, <1>3, <2>1 DEF Body
<1>4. CASE s.compaction # NoCompaction
  <2>1. Body(s) = <<SummaryMessage>> \o Shown(s)
    BY <1>4 DEF Body, Shown
  <2>2. <<SummaryMessage>> \in Transcript /\ <<SummaryMessage>> \in Seq(MessageType)
    BY FixedMessages DEF Transcript
  <2>3. Issued(<<SummaryMessage>>) = {} /\ Answered(<<SummaryMessage>>) = {}
    <3> DEFINE g == SummaryMessage
    <3>1. g.calls = {} /\ g.answers = None
      BY FixedMessages
    <3> HIDE DEF g
    <3>2. DOMAIN <<g>> = {1} /\ <<g>>[1] = g
      OBVIOUS
    <3>3. Issued(<<g>>) = {} /\ Answered(<<g>>) = {}
      BY <3>1, <3>2 DEF Issued, Answered
    <3> QED
      BY <3>3 DEF g
  <2>4. <<SummaryMessage>> \o Shown(s) \in Transcript
    BY <1>2, <2>2 DEF Transcript
  <2> DEFINE one == <<SummaryMessage>>
             sh == Shown(s)
  <2> HIDE DEF one, sh
  <2>5. Issued(one \o sh) = Issued(one) \union Issued(sh)
        /\ Answered(one \o sh) = Answered(one) \union Answered(sh)
    BY <1>2, <2>2, JoinedCalls DEF one, sh
  <2> QED
    BY <2>1, <2>3, <2>4, <2>5 DEF one, sh
<1> QED
  BY <1>3, <1>4

\* A request has the calls and the results of its messages behind the system prompt.
LEMMA RequestCalls ==
  ASSUME NEW m \in Seq(MessageType)
  PROVE  /\ <<SystemMessage>> \o m \in Seq(MessageType)
         /\ Issued(<<SystemMessage>> \o m) = Issued(m)
         /\ Answered(<<SystemMessage>> \o m) = Answered(m)
<1> DEFINE g == SystemMessage
<1>1. g \in MessageType /\ g.calls = {} /\ g.answers = None
  BY FixedMessages
<1> HIDE DEF g
<1>2. DOMAIN <<g>> = {1} /\ <<g>>[1] = g /\ <<g>> \in Seq(MessageType)
  BY <1>1
<1>3. Issued(<<g>>) = {} /\ Answered(<<g>>) = {}
  BY <1>1, <1>2 DEF Issued, Answered
<1>4. <<g>> \o m \in Seq(MessageType)
  BY <1>2
<1> DEFINE one == <<g>>
<1> HIDE DEF one
<1>5. Issued(one \o m) = Issued(one) \union Issued(m) /\ Answered(one \o m) = Answered(one) \union Answered(m)
  BY <1>2, JoinedCalls DEF one
<1> QED
  BY <1>3, <1>4, <1>5 DEF g, one

LEMMA TrimType ==
  ASSUME NEW s \in State
  PROVE  Trim(Assemble(s)) \in Seq(MessageType)
<1> DEFINE m == Body(s)
<1>1. m \in Transcript /\ m \in Seq(MessageType)
  BY BodyFacts, TranscriptType
<1>2. Assemble(s) = <<SystemMessage>> \o m
  BY DEF Assemble
<1> HIDE DEF m
<1>3. <<SystemMessage>> \o m \in Seq(MessageType)
  BY <1>1, RequestCalls
<1>4. ASSUME NEW p \in 1..Len(m) + 1 PROVE <<SystemMessage>> \o From(m, p) \in Seq(MessageType)
  BY <1>1, TailOf, RequestCalls
<1>5. \/ Trim(<<SystemMessage>> \o m) = <<SystemMessage>> \o m
      \/ \E p \in 1..Len(m) + 1 : Trim(<<SystemMessage>> \o m) = <<SystemMessage>> \o From(m, p)
  BY <1>1, Trims
<1> QED
  BY <1>2, <1>3, <1>4, <1>5

(***************************************************************************)
(* Prefixes and chunks.                                                    *)
(***************************************************************************)
LEMMA PrefixFacts ==
  ASSUME NEW a \in Seq(MessageType), NEW b \in Seq(MessageType), NEW c \in Seq(MessageType)
  PROVE  /\ IsPrefix(a, a)
         /\ IsPrefix(<<>>, a)
         /\ IsPrefix(a, b) /\ IsPrefix(b, c) => IsPrefix(a, c)
<1>1. IsPrefix(a, a)
  BY DEF IsPrefix
<1>2. IsPrefix(<<>>, a)
  BY DEF IsPrefix
<1>3. IsPrefix(a, b) /\ IsPrefix(b, c) => IsPrefix(a, c)
  <2> SUFFICES ASSUME IsPrefix(a, b), IsPrefix(b, c) PROVE IsPrefix(a, c)
    OBVIOUS
  <2>1. Len(a) <= Len(b) /\ SubSeq(a, 1, Len(a)) = SubSeq(b, 1, Len(a))
    BY DEF IsPrefix
  <2>2. Len(b) <= Len(c) /\ SubSeq(b, 1, Len(b)) = SubSeq(c, 1, Len(b))
    BY DEF IsPrefix
  <2>3. \A i \in 1..Len(b) : b[i] = c[i]
    <3> SUFFICES ASSUME NEW i \in 1..Len(b) PROVE b[i] = c[i]
      OBVIOUS
    <3>1. SubSeq(b, 1, Len(b))[i] = b[i] /\ SubSeq(c, 1, Len(b))[i] = c[i]
      BY <2>2
    <3> QED
      BY <2>2, <3>1
  <2>4. SubSeq(b, 1, Len(a)) = SubSeq(c, 1, Len(a))
    <3> DEFINE x == SubSeq(b, 1, Len(a))
               y == SubSeq(c, 1, Len(a))
    <3>1. x \in Seq(MessageType) /\ Len(x) = Len(a) /\ \A i \in 1..Len(a) : x[i] = b[i]
      BY <2>1
    <3>2. y \in Seq(MessageType) /\ Len(y) = Len(a) /\ \A i \in 1..Len(a) : y[i] = c[i]
      BY <2>1, <2>2
    <3>3. \A i \in 1..Len(a) : b[i] = c[i]
      BY <2>1, <2>3
    <3> HIDE DEF x, y
    <3> QED
      BY <3>1, <3>2, <3>3, SameSequence DEF x, y
  <2> QED
    BY <2>1, <2>2, <2>4 DEF IsPrefix
<1> QED
  BY <1>1, <1>2, <1>3

\* One more chunk of an attempt is counted once, and a new attempt has none yet.
LEMMA ChunkCount ==
  ASSUME NEW shown \in Seq(1..MaxAttempts), NEW a \in 1..MaxAttempts
  PROVE  LET more == Append(shown, a)
         IN  /\ more \in Seq(1..MaxAttempts)
             /\ Cardinality({i \in DOMAIN more : more[i] = a})
                  = Cardinality({i \in DOMAIN shown : shown[i] = a}) + 1
             /\ (\A i \in DOMAIN shown : shown[i] <= a) => \A i \in DOMAIN more : more[i] <= a
             /\ (\A i \in DOMAIN shown : shown[i] < a)
                  => Cardinality({i \in DOMAIN shown : shown[i] = a}) = 0
<1> DEFINE more == Append(shown, a)
           S == {i \in DOMAIN shown : shown[i] = a}
           R == {i \in DOMAIN more : more[i] = a}
<1>0. Len(shown) \in Nat /\ DOMAIN shown = 1..Len(shown) /\ a \in Int
  BY BoundsAssumption DEF BoundsAssumption
<1>1. /\ more \in Seq(1..MaxAttempts) /\ DOMAIN more = 1..Len(shown) + 1
      /\ more[Len(shown) + 1] = a
      /\ \A i \in 1..Len(shown) : more[i] = shown[i]
  OBVIOUS
<1> HIDE DEF more
<1>2. R = S \union {Len(shown) + 1} /\ Len(shown) + 1 \notin S
  BY <1>0, <1>1
<1>3. IsFiniteSet(S)
  <2>1. IsFiniteSet(1..Len(shown)) /\ S \in SUBSET (1..Len(shown))
    BY <1>0, FS_Interval
  <2> HIDE DEF S
  <2> QED
    BY <2>1, FS_Subset
<1>4. Cardinality(R) = Cardinality(S) + 1
  <2> HIDE DEF R, S
  <2> QED
    BY <1>2, <1>3, FS_AddElement
<1>5. ASSUME \A i \in DOMAIN shown : shown[i] <= a PROVE \A i \in DOMAIN more : more[i] <= a
  <2> SUFFICES ASSUME NEW i \in 1..Len(shown) + 1 PROVE more[i] <= a
    BY <1>1
  <2>1. CASE i = Len(shown) + 1
    BY <1>0, <1>1, <2>1
  <2>2. CASE i \in 1..Len(shown)
    BY <1>0, <1>1, <1>5, <2>2
  <2> QED
    BY <1>0, <2>1, <2>2
<1>6. ASSUME \A i \in DOMAIN shown : shown[i] < a PROVE Cardinality(S) = 0
  <2>1. S = {}
    BY <1>0, <1>6
  <2> QED
    BY <2>1, FS_EmptySet
<1> QED
  BY <1>1, <1>4, <1>5, <1>6 DEF more

(***************************************************************************)
(* What each step appends.                                                 *)
(***************************************************************************)
LEMMA MessagesOf ==
  ASSUME NEW s \in State
  PROVE  s.messages \in Seq(MessageType) /\ Unmatched(s.messages) \in SUBSET Call
  BY StateFacts, CallsOf DEF Unmatched

LEMMA Prompted ==
  ASSUME NEW s \in State, NEW n \in Nat
  PROVE  LET a == Appended(s, <<Prompt(n)>>)
         IN  /\ a \in State /\ IsPrefix(s.messages, a.messages)
             /\ Unmatched(a.messages) = Unmatched(s.messages)
             /\ Sound(s) => Sound(a)
<1> DEFINE x == <<Prompt(n)>>
<1>1. x \in Transcript /\ Issued(x) = {} /\ Answered(x) = {}
  <2>1. {} \in SUBSET Call
    OBVIOUS
  <2> QED
    BY <2>1, OneMessage
<1> HIDE DEF x
<1>2. Appended(s, x) \in State /\ IsPrefix(s.messages, Appended(s, x).messages)
  BY <1>1, AppendedFacts
<1>3. Unmatched(Appended(s, x).messages) = Unmatched(s.messages)
  <2>1. /\ Issued(Appended(s, x).messages) = Issued(s.messages) \union Issued(x)
        /\ Answered(Appended(s, x).messages) = Answered(s.messages) \union Answered(x)
    BY <1>1, AppendedFacts
  <2>2. /\ Issued(Appended(s, x).messages) = Issued(s.messages)
        /\ Answered(Appended(s, x).messages) = Answered(s.messages)
    BY <1>1, <2>1
  <2> QED
    BY <2>2 DEF Unmatched
<1>4. Sound(s) => Sound(Appended(s, x))
  BY <1>1, SoundAppended
<1> QED
  BY <1>2, <1>3, <1>4 DEF x

LEMMA Responded ==
  ASSUME NEW s \in State, NEW n \in Nat, NEW calls \in SUBSET Call
  PROVE  LET a == Appended(s, <<Answer(n, calls)>>)
         IN  /\ a \in State /\ IsPrefix(s.messages, a.messages)
             /\ Unmatched(a.messages) \subseteq Unmatched(s.messages) \union calls
             /\ Sound(s) => Sound(a)
             /\ calls \subseteq Issued(Shown(a))
<1> DEFINE x == <<Answer(n, calls)>>
<1>1. x \in Transcript /\ Issued(x) = calls /\ Answered(x) = {}
  BY OneMessage
<1> HIDE DEF x
<1>2. Appended(s, x) \in State /\ IsPrefix(s.messages, Appended(s, x).messages)
  BY <1>1, AppendedFacts
<1>3. Unmatched(Appended(s, x).messages) \subseteq Unmatched(s.messages) \union calls
  BY <1>1, AppendedFacts DEF Unmatched
<1>4. Sound(s) => Sound(Appended(s, x))
  BY <1>1, SoundAppended
<1>5. calls \subseteq Issued(Shown(Appended(s, x)))
  BY <1>1, AppendedFacts
<1> QED
  BY <1>2, <1>3, <1>4, <1>5 DEF x

LEMMA Resulted ==
  ASSUME NEW s \in State, NEW n \in Nat, NEW calls \in SUBSET Call
  PROVE  LET a == Appended(s, ResultsOf(calls, n))
         IN  /\ a \in State /\ IsPrefix(s.messages, a.messages)
             /\ Unmatched(a.messages) = Unmatched(s.messages) \ calls
             /\ Sound(s) /\ calls \subseteq Issued(Shown(s)) => Sound(a)
             /\ Issued(Shown(a)) = Issued(Shown(s))
<1> DEFINE x == ResultsOf(calls, n)
<1>1. x \in Transcript /\ Issued(x) = {} /\ Answered(x) = calls
  BY ResultsFacts
<1> HIDE DEF x
<1>2. Appended(s, x) \in State /\ IsPrefix(s.messages, Appended(s, x).messages)
  BY <1>1, AppendedFacts
<1>3. Unmatched(Appended(s, x).messages) = Unmatched(s.messages) \ calls
  <2>1. /\ Issued(Appended(s, x).messages) = Issued(s.messages) \union {}
        /\ Answered(Appended(s, x).messages) = Answered(s.messages) \union calls
    BY <1>1, AppendedFacts
  <2>2. (Issued(s.messages) \union {}) \ (Answered(s.messages) \union calls)
          = (Issued(s.messages) \ Answered(s.messages)) \ calls
    OBVIOUS
  <2> QED
    BY <2>1, <2>2 DEF Unmatched
<1>4. Sound(s) /\ calls \subseteq Issued(Shown(s)) => Sound(Appended(s, x))
  BY <1>1, SoundAppended
<1>5. Issued(Shown(Appended(s, x))) = Issued(Shown(s))
  <2>1. Issued(Shown(Appended(s, x))) = Issued(Shown(s)) \union Issued(x)
    BY <1>1, AppendedFacts, Zenon
  <2> QED
    BY <1>1, <2>1
<1> QED
  BY <1>2, <1>3, <1>4, <1>5 DEF x

LEMMA Followed ==
  ASSUME NEW s \in State, NEW calls \in SUBSET Call
  PROVE  LET a == Appended(s, FollowUps(calls))
         IN  /\ a \in State /\ IsPrefix(s.messages, a.messages)
             /\ Unmatched(a.messages) \subseteq Unmatched(s.messages) \union calls
             /\ Sound(s) => Sound(a)
             /\ calls \subseteq Issued(Shown(a))
<1> DEFINE x == FollowUps(calls)
<1>1. x \in Transcript /\ Issued(x) = calls /\ Answered(x) = {}
  BY FollowUpsFacts
<1> HIDE DEF x
<1>2. Appended(s, x) \in State /\ IsPrefix(s.messages, Appended(s, x).messages)
  BY <1>1, AppendedFacts
<1>3. Unmatched(Appended(s, x).messages) \subseteq Unmatched(s.messages) \union calls
  <2>1. /\ Issued(Appended(s, x).messages) = Issued(s.messages) \union calls
        /\ Answered(Appended(s, x).messages) = Answered(s.messages) \union {}
    BY <1>1, AppendedFacts, Zenon
  <2> QED
    BY <2>1 DEF Unmatched
<1>4. Sound(s) => Sound(Appended(s, x))
  BY <1>1, SoundAppended
<1>5. calls \subseteq Issued(Shown(Appended(s, x)))
  BY <1>1, AppendedFacts
<1> QED
  BY <1>2, <1>3, <1>4, <1>5 DEF x

\* Continuing a Run answers every call that was left open.
LEMMA SealedFacts ==
  ASSUME NEW s \in State
  PROVE  /\ Sealed(s) \in State /\ IsPrefix(s.messages, Sealed(s).messages)
         /\ Unmatched(Sealed(s).messages) = {}
         /\ Sound(s) => Sound(Sealed(s))
<1> DEFINE open == Unmatched(s.messages)
<1>1. open \in SUBSET Call
  BY MessagesOf
<1>2. Sealed(s) = Appended(s, ResultsOf(open, 1))
  BY DEF Sealed
<1>3. Sound(s) => open \subseteq Issued(Shown(s))
  BY DEF Sound
<1>4. 1 \in Nat
  OBVIOUS
<1> HIDE DEF open
<1>5. /\ Appended(s, ResultsOf(open, 1)) \in State
      /\ IsPrefix(s.messages, Appended(s, ResultsOf(open, 1)).messages)
      /\ Unmatched(Appended(s, ResultsOf(open, 1)).messages) = Unmatched(s.messages) \ open
      /\ Sound(s) /\ open \subseteq Issued(Shown(s)) => Sound(Appended(s, ResultsOf(open, 1)))
  BY <1>1, <1>4, Resulted
<1>6. Unmatched(s.messages) \ open = {}
  BY DEF open
<1> QED
  BY <1>2, <1>3, <1>5, <1>6

LEMMA PrefixOf ==
  ASSUME NEW a \in State, NEW b \in State, NEW c \in State
  PROVE  /\ IsPrefix(a.messages, a.messages)
         /\ IsPrefix(<<>>, a.messages)
         /\ IsPrefix(a.messages, b.messages) /\ IsPrefix(b.messages, c.messages)
              => IsPrefix(a.messages, c.messages)
  BY MessagesOf, PrefixFacts

LEMMA FreshStream ==
  /\ NoStream \in [attempt : 1..MaxAttempts, got : 0..MaxChunks, shown : Seq(1..MaxAttempts)]
  /\ NoStream.got = Cardinality({i \in DOMAIN NoStream.shown : NoStream.shown[i] = NoStream.attempt})
  /\ \A i \in DOMAIN NoStream.shown : NoStream.shown[i] <= NoStream.attempt
<1>1. NoStream.shown = <<>> /\ NoStream.got = 0 /\ DOMAIN <<>> = {}
  BY DEF NoStream
<1>2. {i \in DOMAIN NoStream.shown : NoStream.shown[i] = NoStream.attempt} = {}
  BY <1>1
<1>3. NoStream \in [attempt : 1..MaxAttempts, got : 0..MaxChunks, shown : Seq(1..MaxAttempts)]
  BY BoundsAssumption DEF NoStream, BoundsAssumption
<1>4. Cardinality({}) = 0
  BY FS_EmptySet
<1> QED
  BY <1>1, <1>2, <1>3, <1>4

(***************************************************************************)
(* The invariant.                                                          *)
(***************************************************************************)
LEMMA InitInv == Init => IInv
<1> SUFFICES ASSUME Init PROVE IInv
  OBVIOUS
<1>1. Types
  <2>1. EmptyState \in State /\ MaxCompacts \in 0..MaxCompacts
    BY EmptyIsState, BoundsAssumption DEF BoundsAssumption
  <2>2. row \in [status : Status, st : State] /\ st \in State
    BY <2>1 DEF Init, Status
  <2>3. stream \in [attempt : 1..MaxAttempts, got : 0..MaxChunks, shown : Seq(1..MaxAttempts)]
    BY FreshStream DEF Init
  <2>4. compactor \in [busy : BOOLEAN, left : 0..MaxCompacts, st : State]
    BY <2>1 DEF Init
  <2>5. batch \in [running : SUBSET Call, ask : SUBSET Call, synthetic : BOOLEAN]
    BY DEF Init, NoBatch
  <2>6. pc \in PC /\ token \in BOOLEAN /\ forced \in BOOLEAN
    BY DEF Init, PC
  <2>7. request \in Seq(MessageType)
    BY DEF Init
  <2> QED
    BY <2>2, <2>3, <2>4, <2>5, <2>6, <2>7 DEF Types
<1>2. PlaceInv
  BY DEF Init, PlaceInv, NoBatch
<1>3. StreamInv
  BY FreshStream DEF Init, StreamInv, AnswerIsLastAttempt
<1>4. RequestInv
  BY DEF Init, RequestInv
<1>5. HistoryInv
  BY DEF Init, HistoryInv
<1>6. PairInv
  BY EmptyIsState DEF Init, PairInv
<1> QED
  BY <1>1, <1>2, <1>3, <1>4, <1>5, <1>6 DEF IInv

\* Whatever the Run ends with, it is released in a state that the invariant allows.
LEMMA FinishInv ==
  ASSUME IInv, NEW status \in Status, status # "absent", NEW s \in State,
         IsPrefix(row.st.messages, s.messages), ~forced => Sound(s),
         Finish(status, s), UNCHANGED <<compactor, forced>>
  PROVE  IInv'
<1>0. /\ row' = [status |-> status, st |-> s] /\ pc' = "idle" /\ st' = EmptyState
      /\ request' = <<>> /\ stream' = NoStream /\ batch' = NoBatch /\ token' = FALSE
      /\ compactor' = compactor /\ forced' = forced
      /\ row'.status = status /\ row'.st = s
  BY DEF Finish
<1>1. Types'
  <2>1. row' \in [status : Status, st : State] /\ st' \in State
    BY <1>0, EmptyIsState
  <2>2. stream' \in [attempt : 1..MaxAttempts, got : 0..MaxChunks, shown : Seq(1..MaxAttempts)]
    BY <1>0, FreshStream
  <2>3. batch' \in [running : SUBSET Call, ask : SUBSET Call, synthetic : BOOLEAN]
    BY <1>0 DEF NoBatch
  <2>4. pc' \in PC /\ token' \in BOOLEAN
    BY <1>0 DEF PC
  <2>6. request' \in Seq(MessageType)
    BY <1>0
  <2>5. /\ compactor' \in [busy : BOOLEAN, left : 0..MaxCompacts, st : State]
        /\ forced' \in BOOLEAN
    BY <1>0 DEF IInv, Types
  <2> QED
    BY <2>1, <2>2, <2>3, <2>4, <2>5, <2>6 DEF Types
<1>2. PlaceInv'
  BY <1>0 DEF PlaceInv, NoBatch
<1>3. StreamInv'
  BY <1>0, FreshStream DEF StreamInv, AnswerIsLastAttempt
<1>4. RequestInv'
  BY <1>0 DEF RequestInv
<1>5. HistoryInv'
  <2> SUFFICES ASSUME compactor.busy PROVE IsPrefix(compactor.st.messages, s.messages)
    BY <1>0 DEF HistoryInv, IInv
  <2>1. IsPrefix(compactor.st.messages, row.st.messages)
    BY DEF HistoryInv, IInv
  <2>2. compactor.st \in State /\ row.st \in State
    BY DEF IInv, Types
  <2> QED
    BY <2>1, <2>2, PrefixOf
<1>6. PairInv'
  BY <1>0 DEF PairInv
<1> QED
  BY <1>1, <1>2, <1>3, <1>4, <1>5, <1>6 DEF IInv

\* A step that leaves the stream alone and is in no attempt keeps what is said of it.
LEMMA IdleStream ==
  ASSUME IInv, stream' = stream \/ stream' = NoStream
  PROVE  StreamInv'
<1>1. CASE stream' = stream
  BY <1>1 DEF IInv, StreamInv, AnswerIsLastAttempt
<1>2. CASE stream' = NoStream
  BY <1>2, FreshStream DEF StreamInv, AnswerIsLastAttempt
<1> QED
  BY <1>1, <1>2

LEMMA StartInv ==
  ASSUME IInv, NEW n \in Prompts, Start(n)
  PROVE  IInv'
<1> DEFINE s == Appended(EmptyState, <<Prompt(n)>>)
<1>0. /\ row.status = "absent" /\ row' = [status |-> "running", st |-> st'] /\ pc' = "top"
      /\ request' = request /\ stream' = stream /\ batch' = batch /\ token' = token
      /\ compactor' = compactor /\ forced' = forced
      /\ row.st = EmptyState /\ pc = "idle" /\ ~compactor.busy /\ batch = NoBatch
  BY DEF Start, IInv, PlaceInv
<1>1. st' = s
  <2>1. EmptyState.messages \o <<Prompt(n)>> = <<Prompt(n)>>
    BY EmptyIsState
  <2> QED
    BY <2>1 DEF Start, Appended
<1>2. /\ s \in State /\ Unmatched(s.messages) = {} /\ Sound(s)
      /\ IsPrefix(s.messages, s.messages)
  BY EmptyIsState, Prompted, PrefixOf, BoundsAssumption DEF BoundsAssumption
<1> HIDE DEF s
<1>3. row'.st = s /\ row'.status = "running"
  BY <1>0, <1>1
<1>4. Types'
  BY <1>0, <1>1, <1>2 DEF IInv, Types, PC, Status
<1>5. PlaceInv'
  BY <1>0, <1>3 DEF IInv, PlaceInv
<1>6. StreamInv'
  BY <1>0, IdleStream
<1>7. RequestInv'
  BY <1>0 DEF RequestInv
<1>8. HistoryInv'
  BY <1>0, <1>1, <1>2, <1>3 DEF HistoryInv
<1>9. PairInv'
  BY <1>0, <1>1, <1>2, <1>3 DEF PairInv
<1> QED
  BY <1>4, <1>5, <1>6, <1>7, <1>8, <1>9 DEF IInv

LEMMA ContinueInv ==
  ASSUME IInv, NEW n \in Prompts, Continue(n)
  PROVE  IInv'
<1> DEFINE a == Sealed(row.st)
           s == Appended(a, <<Prompt(n)>>)
<1>0. /\ row.status # "absent" /\ row' = [status |-> "running", st |-> st'] /\ pc' = "top"
      /\ request' = request /\ stream' = stream /\ batch' = batch /\ token' = token
      /\ compactor' = compactor /\ forced' = forced
      /\ pc = "idle" /\ batch = NoBatch /\ st' = s
  BY DEF Continue, IInv, PlaceInv
<1>1. row.st \in State /\ compactor.st \in State /\ n \in Nat
  BY BoundsAssumption DEF IInv, Types, BoundsAssumption
<1>2. /\ a \in State /\ IsPrefix(row.st.messages, a.messages)
      /\ Unmatched(a.messages) = {} /\ (Sound(row.st) => Sound(a))
  BY <1>1, SealedFacts
<1> HIDE DEF a
<1>3. /\ s \in State /\ IsPrefix(a.messages, s.messages)
      /\ Unmatched(s.messages) = Unmatched(a.messages) /\ (Sound(a) => Sound(s))
  BY <1>1, <1>2, Prompted
<1> HIDE DEF s
<1>4. row'.st = s /\ row'.status = "running"
  BY <1>0
<1>5. /\ IsPrefix(s.messages, s.messages)
      /\ compactor.busy => IsPrefix(compactor.st.messages, s.messages)
  <2>1. IsPrefix(row.st.messages, s.messages)
    BY <1>1, <1>2, <1>3, PrefixOf
  <2> QED
    BY <1>1, <1>3, <2>1, PrefixOf DEF IInv, HistoryInv
<1>6. Types'
  BY <1>0, <1>3 DEF IInv, Types, PC, Status
<1>7. PlaceInv'
  BY <1>0, <1>4 DEF IInv, PlaceInv
<1>8. StreamInv'
  BY <1>0, IdleStream
<1>9. RequestInv'
  BY <1>0 DEF RequestInv
<1>10. HistoryInv'
  BY <1>0, <1>4, <1>5 DEF IInv, HistoryInv
<1>11. PairInv'
  BY <1>0, <1>2, <1>3, <1>4 DEF IInv, PairInv
<1> QED
  BY <1>6, <1>7, <1>8, <1>9, <1>10, <1>11 DEF IInv

LEMMA RespondInv ==
  ASSUME IInv, NEW decided \in SUBSET Call, Respond(decided)
  PROVE  IInv'
<1>0. /\ pc = "idle" /\ row.status # "absent" /\ decided \subseteq Unmatched(row.st.messages)
      /\ st' = row.st /\ row' = [status |-> "running", st |-> row.st]
      /\ batch' = [running |-> decided, ask |-> Unmatched(row.st.messages) \ decided,
                   synthetic |-> TRUE]
      /\ pc' = "batch"
      /\ request' = request /\ stream' = stream /\ token' = token
      /\ compactor' = compactor /\ forced' = forced
  BY DEF Respond, IInv, Types
<1>1. /\ row.st \in State /\ Unmatched(row.st.messages) \in SUBSET Call
      /\ IsPrefix(row.st.messages, row.st.messages)
  <2>1. row.st \in State
    BY DEF IInv, Types
  <2> QED
    BY <2>1, MessagesOf, PrefixOf
<1>2. /\ row'.st = row.st /\ row'.status = "running"
      /\ batch'.running = decided /\ batch'.ask = Unmatched(row.st.messages) \ decided
      /\ batch'.synthetic
  BY <1>0
<1>3. Types'
  BY <1>0, <1>1 DEF IInv, Types, PC, Status
<1>4. PlaceInv'
  BY <1>0, <1>2 DEF PlaceInv
<1>5. StreamInv'
  BY <1>0, IdleStream
<1>6. RequestInv'
  BY <1>0 DEF RequestInv
<1>7. HistoryInv'
  BY <1>0, <1>1, <1>2 DEF IInv, HistoryInv
<1>8. PairInv'
  BY <1>0, <1>2 DEF IInv, PairInv, Sound
<1> QED
  BY <1>3, <1>4, <1>5, <1>6, <1>7, <1>8 DEF IInv

\* Ending the Run in the state that the driver holds.
LEMMA FinishHere ==
  ASSUME IInv, pc # "idle", NEW status \in Status, status # "absent",
         Finish(status, st), UNCHANGED <<compactor, forced>>
  PROVE  IInv'
<1>1. st \in State /\ IsPrefix(row.st.messages, st.messages) /\ (~forced => Sound(st))
  BY DEF IInv, Types, HistoryInv, PairInv
<1> QED
  BY <1>1, FinishInv

LEMMA BeforeModelInv ==
  ASSUME IInv, BeforeModel
  PROVE  IInv'
<1>0. /\ pc = "top" /\ pc' \in {"summarising", "sending"}
      /\ pc' = "summarising" => NextCut # None
      /\ row' = row /\ st' = st /\ request' = request /\ stream' = stream /\ batch' = batch
      /\ token' = token /\ compactor' = compactor /\ forced' = forced
  BY DEF BeforeModel
<1>1. Types'
  BY <1>0 DEF IInv, Types, PC
<1>2. PlaceInv'
  BY <1>0 DEF IInv, PlaceInv, NextCut
<1>3. StreamInv'
  BY <1>0, IdleStream
<1>4. RequestInv'
  BY <1>0 DEF RequestInv
<1>5. HistoryInv'
  BY <1>0 DEF IInv, HistoryInv
<1>6. PairInv'
  BY <1>0 DEF IInv, PairInv
<1> QED
  BY <1>1, <1>2, <1>3, <1>4, <1>5, <1>6 DEF IInv

\* The cut-off lies between what was summarized before and the last message, where no
\* result is torn from its call.
LEMMA SummarisedInv ==
  ASSUME IInv, Summarised
  PROVE  IInv'
<1>0. /\ pc = "summarising" /\ pc' = "sending"
      /\ row' = row /\ request' = request /\ stream' = stream /\ batch' = batch
      /\ token' = token /\ compactor' = compactor /\ forced' = forced
  BY DEF Summarised
<1>1. /\ st \in State /\ IsPrefix(row.st.messages, st.messages) /\ (~forced => Sound(st))
      /\ Unmatched(st.messages) = {} /\ NextCut # None /\ row.status # "absent"
  BY <1>0 DEF IInv, Types, HistoryInv, PairInv, PlaceInv
<1> DEFINE cut == NextCut
           a == [st EXCEPT !.compaction = Summarize(st, cut)]
<1>2. /\ cut \in st.compaction.through + 1..Len(st.messages) - 1
      /\ ~IsResult(st.messages[cut + 1])
  <2>1. Len(st.messages) \in Nat /\ st.compaction.through \in Nat
    BY <1>1, StateFacts
  <2>2. Cutoff(st.messages, st.compaction.through, KeepRecent) # None
    BY <1>1 DEF NextCut
  <2> QED
    BY <2>1, <2>2, CutsBetween, Zenon DEF NextCut
<1>3. a \in State /\ a.messages = st.messages /\ (~forced => Sound(a))
  <2> HIDE DEF cut
  <2>1. cut \in st.compaction.through + 1..Len(st.messages)
    BY <1>1, <1>2, StateFacts
  <2>2. a \in State /\ a.messages = st.messages
    BY <1>1, <2>1, SummarizedFacts
  <2>3. Sound(st) => Sound(a)
    BY <1>1, <1>2, SoundCut
  <2> QED
    BY <1>1, <2>2, <2>3
<1>4. /\ st' \in State /\ st'.messages = st.messages /\ (~forced => Sound(st'))
  <2>1. st' = a \/ st' = st
    BY DEF Summarised
  <2> HIDE DEF a
  <2> QED
    BY <1>1, <1>3, <2>1
<1>5. Types'
  BY <1>0, <1>4 DEF IInv, Types, PC
<1>6. PlaceInv'
  BY <1>0, <1>1 DEF IInv, PlaceInv
<1>7. StreamInv'
  BY <1>0, IdleStream
<1>8. RequestInv'
  BY <1>0 DEF RequestInv
<1>9. HistoryInv'
  BY <1>0, <1>4 DEF IInv, HistoryInv
<1>10. PairInv'
  BY <1>0, <1>1, <1>4 DEF IInv, PairInv
<1> QED
  BY <1>5, <1>6, <1>7, <1>8, <1>9, <1>10 DEF IInv

LEMMA SendInv ==
  ASSUME IInv, Send
  PROVE  IInv'
<1>0. /\ pc = "sending" /\ pc' = "streaming" /\ request' = Trim(Assemble(st)) /\ stream' = NoStream
      /\ row' = row /\ st' = st /\ batch' = batch
      /\ token' = token /\ compactor' = compactor /\ forced' = forced
  BY DEF Send
<1>1. Types'
  <2>1. request' \in Seq(MessageType)
    BY <1>0, TrimType DEF IInv, Types
  <2>2. stream' \in [attempt : 1..MaxAttempts, got : 0..MaxChunks, shown : Seq(1..MaxAttempts)]
    BY <1>0, FreshStream
  <2> QED
    BY <1>0, <2>1, <2>2 DEF IInv, Types, PC
<1>2. PlaceInv'
  BY <1>0 DEF IInv, PlaceInv
<1>3. StreamInv'
  BY <1>0, IdleStream
<1>4. RequestInv'
  BY <1>0 DEF RequestInv
<1>5. HistoryInv'
  BY <1>0 DEF IInv, HistoryInv
<1>6. PairInv'
  BY <1>0 DEF IInv, PairInv
<1> QED
  BY <1>1, <1>2, <1>3, <1>4, <1>5, <1>6 DEF IInv

LEMMA ChunkInv ==
  ASSUME IInv, Chunk
  PROVE  IInv'
<1>0. /\ pc = "streaming" /\ pc' = pc /\ stream.got < MaxChunks
      /\ stream' = [stream EXCEPT !.got = @ + 1, !.shown = Append(@, stream.attempt)]
      /\ row' = row /\ st' = st /\ request' = request /\ batch' = batch
      /\ token' = token /\ compactor' = compactor /\ forced' = forced
  BY DEF Chunk
<1>1. stream \in [attempt : 1..MaxAttempts, got : 0..MaxChunks, shown : Seq(1..MaxAttempts)]
  BY DEF IInv, Types
<1>2. /\ stream'.attempt = stream.attempt /\ stream'.got = stream.got + 1
      /\ stream'.shown = Append(stream.shown, stream.attempt)
  BY <1>0, <1>1
<1>3. /\ stream'.shown \in Seq(1..MaxAttempts)
      /\ Cardinality({i \in DOMAIN stream'.shown : stream'.shown[i] = stream.attempt})
           = Cardinality({i \in DOMAIN stream.shown : stream.shown[i] = stream.attempt}) + 1
      /\ \A i \in DOMAIN stream'.shown : stream'.shown[i] <= stream.attempt
  <2> DEFINE shown == stream.shown
             a == stream.attempt
             more == Append(shown, a)
  <2>1. shown \in Seq(1..MaxAttempts) /\ a \in 1..MaxAttempts
    BY <1>1
  <2>2. \A i \in DOMAIN shown : shown[i] <= a
    BY DEF IInv, StreamInv
  <2> HIDE DEF shown, a
  <2>3. /\ more \in Seq(1..MaxAttempts)
        /\ Cardinality({i \in DOMAIN more : more[i] = a}) = Cardinality({i \in DOMAIN shown : shown[i] = a}) + 1
        /\ \A i \in DOMAIN more : more[i] <= a
    BY <2>1, <2>2, ChunkCount
  <2> QED
    BY <1>2, <2>3 DEF shown, a
<1>4. Types'
  <2>1. stream.got + 1 \in 0..MaxChunks
    BY <1>0, <1>1, BoundsAssumption DEF BoundsAssumption
  <2>2. stream' \in [attempt : 1..MaxAttempts, got : 0..MaxChunks, shown : Seq(1..MaxAttempts)]
    BY <1>0, <1>1, <1>2, <1>3, <2>1
  <2> QED
    BY <1>0, <2>2 DEF IInv, Types
<1>5. PlaceInv'
  BY <1>0 DEF IInv, PlaceInv
<1>6. StreamInv'
  <2>1. stream.got = Cardinality({i \in DOMAIN stream.shown : stream.shown[i] = stream.attempt})
    BY DEF IInv, StreamInv, AnswerIsLastAttempt
  <2>2. stream'.got = Cardinality({i \in DOMAIN stream'.shown : stream'.shown[i] = stream'.attempt})
    BY <1>2, <1>3, <2>1
  <2> QED
    BY <1>2, <1>3, <2>2 DEF StreamInv, AnswerIsLastAttempt
<1>7. RequestInv'
  BY <1>0 DEF IInv, RequestInv
<1>8. HistoryInv'
  BY <1>0 DEF IInv, HistoryInv
<1>9. PairInv'
  BY <1>0 DEF IInv, PairInv
<1> QED
  BY <1>4, <1>5, <1>6, <1>7, <1>8, <1>9 DEF IInv

\* A new attempt is numbered past all that has been shown.
LEMMA RetryInv ==
  ASSUME IInv, Retry
  PROVE  IInv'
<1>0. /\ pc = "backoff" /\ pc' = "streaming"
      /\ stream' = [stream EXCEPT !.attempt = @ + 1, !.got = 0]
      /\ row' = row /\ st' = st /\ request' = request /\ batch' = batch
      /\ token' = token /\ compactor' = compactor /\ forced' = forced
  BY DEF Retry
<1>1. /\ stream \in [attempt : 1..MaxAttempts, got : 0..MaxChunks, shown : Seq(1..MaxAttempts)]
      /\ stream.attempt < MaxAttempts
  BY <1>0 DEF IInv, Types, PlaceInv
<1>2. /\ stream'.attempt = stream.attempt + 1 /\ stream'.got = 0 /\ stream'.shown = stream.shown
  BY <1>0, <1>1
<1>3. /\ stream.attempt + 1 \in 1..MaxAttempts
      /\ \A i \in DOMAIN stream.shown : /\ stream.shown[i] < stream.attempt + 1
                                       /\ stream.shown[i] <= stream.attempt + 1
  <2> DEFINE shown == stream.shown
             n == stream.attempt
  <2>1. shown \in Seq(1..MaxAttempts) /\ n \in 1..MaxAttempts /\ n < MaxAttempts /\ MaxAttempts \in Nat
    BY <1>1, BoundsAssumption DEF BoundsAssumption
  <2>2. \A i \in DOMAIN shown : shown[i] <= n
    BY DEF IInv, StreamInv
  <2> HIDE DEF shown, n
  <2>3. \A i \in DOMAIN shown : shown[i] \in 1..MaxAttempts
    BY <2>1
  <2>4. n + 1 \in 1..MaxAttempts /\ \A i \in DOMAIN shown : shown[i] < n + 1 /\ shown[i] <= n + 1
    BY <2>1, <2>2, <2>3
  <2> QED
    BY <2>4 DEF shown, n
<1>4. Types'
  <2>1. stream' \in [attempt : 1..MaxAttempts, got : 0..MaxChunks, shown : Seq(1..MaxAttempts)]
    <3>1. 0 \in 0..MaxChunks
      BY BoundsAssumption DEF BoundsAssumption
    <3>2. stream' = [attempt |-> stream.attempt + 1, got |-> 0, shown |-> stream.shown]
      BY <1>0, <1>1
    <3>3. stream.shown \in Seq(1..MaxAttempts)
      BY <1>1
    <3> QED
      BY <1>3, <3>1, <3>2, <3>3
  <2> QED
    BY <1>0, <2>1 DEF IInv, Types, PC
<1>5. PlaceInv'
  BY <1>0 DEF IInv, PlaceInv
<1>6. StreamInv'
  <2> DEFINE shown == stream.shown
             a == stream.attempt + 1
  <2>1. shown \in Seq(1..MaxAttempts) /\ a \in 1..MaxAttempts /\ \A i \in DOMAIN shown : shown[i] < a
    BY <1>1, <1>3
  <2>2. \A i \in DOMAIN shown : shown[i] <= a
    BY <1>3
  <2> HIDE DEF shown, a
  <2>3. Cardinality({i \in DOMAIN shown : shown[i] = a}) = 0
    BY <2>1, ChunkCount
  <2>4. stream'.shown = shown /\ stream'.attempt = a
    BY <1>2 DEF shown, a
  <2> QED
    BY <1>2, <2>2, <2>3, <2>4 DEF StreamInv, AnswerIsLastAttempt
<1>7. RequestInv'
  BY <1>0 DEF IInv, RequestInv
<1>8. HistoryInv'
  BY <1>0 DEF IInv, HistoryInv
<1>9. PairInv'
  BY <1>0 DEF IInv, PairInv
<1> QED
  BY <1>4, <1>5, <1>6, <1>7, <1>8, <1>9 DEF IInv

LEMMA FailsInv ==
  ASSUME IInv, Fails
  PROVE  IInv'
<1>0. pc = "streaming" /\ UNCHANGED <<compactor, forced>>
  BY DEF Fails
<1>1. CASE stream.attempt < MaxAttempts
  <2>0. /\ pc' = "backoff"
        /\ row' = row /\ st' = st /\ request' = request /\ stream' = stream /\ batch' = batch
        /\ token' = token /\ compactor' = compactor /\ forced' = forced
    BY <1>1 DEF Fails
  <2>1. Types'
    BY <2>0 DEF IInv, Types, PC
  <2>2. PlaceInv'
    BY <1>0, <1>1, <2>0 DEF IInv, PlaceInv
  <2>3. StreamInv'
    BY <2>0, IdleStream
  <2>4. RequestInv'
    BY <1>0, <2>0 DEF IInv, RequestInv
  <2>5. HistoryInv'
    BY <1>0, <2>0 DEF IInv, HistoryInv
  <2>6. PairInv'
    BY <1>0, <2>0 DEF IInv, PairInv
  <2> QED
    BY <2>1, <2>2, <2>3, <2>4, <2>5, <2>6 DEF IInv
<1>2. CASE ~(stream.attempt < MaxAttempts)
  <2>1. Finish("failed", st) /\ "failed" \in Status /\ pc # "idle"
    BY <1>0, <1>2 DEF Fails, Status
  <2> QED
    BY <1>0, <2>1, FinishHere
<1> QED
  BY <1>1, <1>2

LEMMA EndsInv ==
  ASSUME IInv, CancelledAtTop \/ SummaryFails \/ Refused \/ TurnCancelled
  PROVE  IInv'
<1>1. /\ pc # "idle" /\ UNCHANGED <<compactor, forced>>
      /\ \E status \in {"failed", "cancelled"} : Finish(status, st)
  BY DEF CancelledAtTop, SummaryFails, Refused, TurnCancelled
<1>2. PICK status \in {"failed", "cancelled"} : Finish(status, st)
  BY <1>1
<1>3. status \in Status /\ status # "absent"
  BY DEF Status
<1> QED
  BY <1>1, <1>2, <1>3, FinishHere

LEMMA CancelInv ==
  ASSUME IInv, Cancel
  PROVE  IInv'
<1>0. /\ pc' = pc /\ token' = TRUE
      /\ row' = row /\ st' = st /\ request' = request /\ stream' = stream /\ batch' = batch
      /\ compactor' = compactor /\ forced' = forced
  BY DEF Cancel
<1>1. Types'
  BY <1>0 DEF IInv, Types
<1>2. PlaceInv'
  BY <1>0 DEF IInv, PlaceInv, NextCut
<1>3. StreamInv'
  BY <1>0, IdleStream
<1>4. RequestInv'
  BY <1>0 DEF IInv, RequestInv
<1>5. HistoryInv'
  BY <1>0 DEF IInv, HistoryInv
<1>6. PairInv'
  BY <1>0 DEF IInv, PairInv
<1> QED
  BY <1>1, <1>2, <1>3, <1>4, <1>5, <1>6 DEF IInv

\* The calls of a response are new, and within the bound on the Provider's calls.
LEMMA NewCallsType ==
  ASSUME IInv
  PROVE  NewCalls \in 0..MaxCalls
<1> DEFINE own == Issued(st.messages) \intersect 1..MaxCalls
<1>1. MaxCalls \in Nat /\ own \in SUBSET (1..MaxCalls)
  BY BoundsAssumption DEF BoundsAssumption
<1> HIDE DEF own
<1>2. IsFiniteSet(1..MaxCalls) /\ Cardinality(1..MaxCalls) = MaxCalls
  BY <1>1, FS_Interval
<1>3. IsFiniteSet(own) /\ Cardinality(own) <= MaxCalls /\ Cardinality(own) \in Nat
  BY <1>1, <1>2, FS_Subset, FS_CardinalityType
<1> QED
  BY <1>1, <1>3 DEF NewCalls, own

LEMMA RespondsInv ==
  ASSUME IInv, NEW calls \in SUBSET (1..MaxCalls), Responds(calls)
  PROVE  IInv'
<1> DEFINE s == Appended(st, <<Answer(stream.got, calls)>>)
<1>0. pc = "streaming" /\ UNCHANGED <<compactor, forced>>
  BY DEF Responds
<1>1. /\ st \in State /\ row.st \in State /\ compactor.st \in State
      /\ IsPrefix(row.st.messages, st.messages) /\ (~forced => Sound(st))
      /\ Unmatched(st.messages) = {} /\ stream.got \in Nat /\ row.status # "absent"
      /\ row \in [status : Status, st : State] /\ row.status \in Status
  BY <1>0, BoundsAssumption DEF IInv, Types, HistoryInv, PairInv, PlaceInv, BoundsAssumption
<1>2. calls \in SUBSET Call
  BY BoundsAssumption DEF Call, BoundsAssumption
<1>3. /\ s \in State /\ IsPrefix(st.messages, s.messages)
      /\ Unmatched(s.messages) \subseteq Unmatched(st.messages) \union calls
      /\ Sound(st) => Sound(s)
      /\ calls \subseteq Issued(Shown(s))
  BY <1>1, <1>2, Responded
<1>4. \/ calls = {} /\ Finish("completed", s)
      \/ calls # {} /\ token /\ Finish("cancelled", s)
      \/ /\ calls # {} /\ ~token /\ st' = s /\ Save(s) /\ request' = <<>> /\ stream' = NoStream
         /\ batch' = [running |-> calls \ Asked, ask |-> calls \intersect Asked, synthetic |-> FALSE]
         /\ pc' = "batch" /\ UNCHANGED token
  BY Zenon DEF Responds
<1> HIDE DEF s
<1>5. IsPrefix(row.st.messages, s.messages)
  BY <1>1, <1>3, PrefixOf
<1>6. CASE \E status \in {"completed", "cancelled"} : Finish(status, s)
  <2>1. PICK status \in {"completed", "cancelled"} : Finish(status, s)
    BY <1>6
  <2>2. status \in Status /\ status # "absent"
    BY DEF Status
  <2> QED
    BY <1>0, <1>1, <1>3, <1>5, <2>1, <2>2, FinishInv
<1>7. CASE /\ st' = s /\ Save(s) /\ request' = <<>> /\ stream' = NoStream
           /\ batch' = [running |-> calls \ Asked, ask |-> calls \intersect Asked, synthetic |-> FALSE]
           /\ pc' = "batch" /\ UNCHANGED token
  <2>0. /\ row' = [row EXCEPT !.st = s] /\ row'.st = s /\ row'.status = row.status
        /\ batch'.running = calls \ Asked /\ batch'.ask = calls \intersect Asked
        /\ compactor' = compactor /\ forced' = forced
    BY <1>0, <1>1, <1>7 DEF Save
  <2>1. Types'
    <3>1. row' \in [status : Status, st : State] /\ st' \in State
      BY <1>1, <1>3, <1>7, <2>0
    <3>2. stream' \in [attempt : 1..MaxAttempts, got : 0..MaxChunks, shown : Seq(1..MaxAttempts)]
      BY <1>7, FreshStream
    <3>3. batch' \in [running : SUBSET Call, ask : SUBSET Call, synthetic : BOOLEAN]
      BY <1>2, <1>7
    <3>4. pc' \in PC
      BY <1>7 DEF PC
    <3>5. request' \in Seq(MessageType)
      BY <1>7
    <3>6. /\ compactor' \in [busy : BOOLEAN, left : 0..MaxCompacts, st : State]
          /\ forced' \in BOOLEAN /\ token' \in BOOLEAN
      BY <1>7, <2>0 DEF IInv, Types
    <3> QED
      BY <3>1, <3>2, <3>3, <3>4, <3>5, <3>6 DEF Types
  <2>2. PlaceInv'
    <3>1. batch'.running \subseteq 1..MaxCalls
      BY <2>0
    <3> QED
      BY <1>1, <1>7, <2>0, <3>1 DEF PlaceInv
  <2>3. StreamInv'
    BY <1>7, IdleStream
  <2>4. RequestInv'
    BY <1>7 DEF RequestInv
  <2>5. HistoryInv'
    <3>1. IsPrefix(s.messages, s.messages)
      BY <1>3, PrefixOf
    <3>2. compactor.busy => IsPrefix(compactor.st.messages, s.messages)
      BY <1>1, <1>3, <1>5, PrefixOf DEF IInv, HistoryInv
    <3> QED
      BY <1>7, <2>0, <3>1, <3>2 DEF IInv, HistoryInv
  <2>6. PairInv'
    <3>1. Unmatched(s.messages) \subseteq (calls \ Asked) \union (calls \intersect Asked)
      BY <1>1, <1>3
    <3>2. ~forced => Sound(s) /\ calls \ Asked \subseteq Issued(Shown(s))
      BY <1>1, <1>3
    <3> QED
      BY <1>7, <2>0, <3>1, <3>2 DEF PairInv
  <2> QED
    BY <2>1, <2>2, <2>3, <2>4, <2>5, <2>6 DEF IInv
<1> QED
  BY <1>4, <1>6, <1>7

LEMMA StreamDoneInv ==
  ASSUME IInv, StreamDone
  PROVE  IInv'
<1>1. PICK k \in 0..(MaxCalls - NewCalls) : Responds((NewCalls + 1)..(NewCalls + k))
  BY DEF StreamDone
<1> DEFINE calls == (NewCalls + 1)..(NewCalls + k)
<1>2. calls \in SUBSET (1..MaxCalls)
  BY NewCallsType, BoundsAssumption DEF BoundsAssumption
<1> HIDE DEF calls
<1>3. Responds(calls)
  BY <1>1 DEF calls
<1> QED
  BY <1>2, <1>3, RespondsInv

\* The results of a batch answer calls that it was running, and its follow-ups are open.
LEMMA ResolveInv ==
  ASSUME IInv, NEW done \in SUBSET batch.running, NEW n \in Results, Resolve(done, n)
  PROVE  IInv'
<1> DEFINE s == Appended(st, ResultsOf(done, n))
           follow == IF batch.synthetic THEN {} ELSE {FollowUp(c) : c \in done \intersect Wanting}
           t == Appended(s, FollowUps(follow))
<1>0. pc = "batch" /\ UNCHANGED <<compactor, forced>>
  BY DEF Resolve
<1>1. /\ st \in State /\ row.st \in State /\ compactor.st \in State
      /\ IsPrefix(row.st.messages, st.messages) /\ row.status # "absent"
      /\ ~forced => Sound(st) /\ batch.running \subseteq Issued(Shown(st))
      /\ Unmatched(st.messages) \subseteq batch.running \union batch.ask
      /\ row \in [status : Status, st : State] /\ row.status \in Status
      /\ ~batch.synthetic => batch.running \subseteq 1..MaxCalls
      /\ batch.running \in SUBSET Call /\ batch.ask \in SUBSET Call
  BY <1>0 DEF IInv, Types, HistoryInv, PairInv, PlaceInv
<1>2. done \in SUBSET Call /\ n \in Nat
  BY <1>1, BoundsAssumption DEF BoundsAssumption
<1>3. follow \in SUBSET Call
  <2> SUFFICES ASSUME ~batch.synthetic, NEW c \in done PROVE FollowUp(c) \in Call
    OBVIOUS
  <2>1. c \in 1..MaxCalls
    BY <1>1
  <2> QED
    BY <2>1, BoundsAssumption DEF FollowUp, Call, BoundsAssumption
<1>4. \/ done # batch.running /\ Finish("cancelled", s)
      \/ /\ done = batch.running
         /\ st' = t /\ Save(s)
         /\ batch' = [running |-> follow \ Asked,
                      ask |-> batch.ask \union (follow \intersect Asked), synthetic |-> TRUE]
         /\ UNCHANGED <<pc, request, stream, token>>
  BY Zenon DEF Resolve
<1> HIDE DEF follow
<1>5. /\ s \in State /\ IsPrefix(st.messages, s.messages)
      /\ Unmatched(s.messages) = Unmatched(st.messages) \ done
      /\ Sound(st) /\ done \subseteq Issued(Shown(st)) => Sound(s)
  BY <1>1, <1>2, Resulted
<1> HIDE DEF s
<1>6. /\ t \in State /\ IsPrefix(s.messages, t.messages)
      /\ Unmatched(t.messages) \subseteq Unmatched(s.messages) \union follow
      /\ Sound(s) => Sound(t)
      /\ follow \subseteq Issued(Shown(t))
  BY <1>3, <1>5, Followed
<1> HIDE DEF t
<1>7. IsPrefix(row.st.messages, s.messages) /\ (~forced => Sound(s))
  BY <1>1, <1>5, PrefixOf
<1>8. CASE Finish("cancelled", s)
  BY <1>0, <1>5, <1>7, <1>8, FinishInv DEF Status
<1>9. CASE /\ done = batch.running
           /\ st' = t /\ Save(s)
           /\ batch' = [running |-> follow \ Asked,
                        ask |-> batch.ask \union (follow \intersect Asked), synthetic |-> TRUE]
           /\ UNCHANGED <<pc, request, stream, token>>
  <2>0. /\ row' = [row EXCEPT !.st = s] /\ row'.st = s /\ row'.status = row.status
        /\ batch'.running = follow \ Asked /\ batch'.ask = batch.ask \union (follow \intersect Asked)
        /\ batch'.synthetic
        /\ pc' = pc /\ request' = request /\ stream' = stream /\ token' = token
        /\ compactor' = compactor /\ forced' = forced
    BY <1>0, <1>1, <1>9 DEF Save
  <2>1. Types'
    <3>1. row' \in [status : Status, st : State] /\ st' \in State
      BY <1>1, <1>5, <1>6, <1>9, <2>0
    <3>2. batch' \in [running : SUBSET Call, ask : SUBSET Call, synthetic : BOOLEAN]
      BY <1>1, <1>3, <1>9
    <3> QED
      BY <2>0, <3>1, <3>2 DEF IInv, Types
  <2>2. PlaceInv'
    BY <1>0, <1>1, <2>0 DEF PlaceInv
  <2>3. StreamInv'
    BY <2>0, IdleStream
  <2>4. RequestInv'
    BY <1>0, <2>0 DEF RequestInv
  <2>5. HistoryInv'
    <3>1. compactor.busy => IsPrefix(compactor.st.messages, s.messages)
      BY <1>1, <1>5, <1>7, PrefixOf DEF IInv, HistoryInv
    <3> QED
      BY <1>6, <1>9, <2>0, <3>1 DEF IInv, HistoryInv
  <2>6. PairInv'
    <3>1. Unmatched(t.messages) \subseteq (follow \ Asked) \union (batch.ask \union (follow \intersect Asked))
      BY <1>1, <1>5, <1>6, <1>9
    <3>2. ~forced => Sound(s) /\ Sound(t) /\ follow \ Asked \subseteq Issued(Shown(t))
      BY <1>6, <1>7
    <3> QED
      BY <1>0, <1>9, <2>0, <3>1, <3>2 DEF PairInv
  <2> QED
    BY <2>1, <2>2, <2>3, <2>4, <2>5, <2>6 DEF IInv
<1> QED
  BY <1>4, <1>8, <1>9

LEMMA BatchDoneInv ==
  ASSUME IInv, BatchDone
  PROVE  IInv'
<1>0. /\ pc = "batch" /\ batch.running = {} /\ UNCHANGED <<compactor, forced>>
      /\ Unmatched(st.messages) \subseteq batch.running \union batch.ask
      /\ row.status # "absent"
  BY DEF BatchDone, IInv, PairInv, PlaceInv
<1>1. CASE batch.ask = {}
  <2>0. /\ pc' = "top" /\ batch' = NoBatch
        /\ row' = row /\ st' = st /\ request' = request /\ stream' = stream /\ token' = token
        /\ compactor' = compactor /\ forced' = forced
    BY <1>1 DEF BatchDone
  <2>1. Types'
    <3>1. batch' \in [running : SUBSET Call, ask : SUBSET Call, synthetic : BOOLEAN]
      BY <2>0 DEF NoBatch
    <3> QED
      BY <2>0, <3>1 DEF IInv, Types, PC
  <2>2. PlaceInv'
    <3>1. NoBatch.running = {}
      BY DEF NoBatch
    <3> QED
      BY <1>0, <2>0, <3>1 DEF IInv, PlaceInv
  <2>3. StreamInv'
    BY <2>0, IdleStream
  <2>4. RequestInv'
    BY <2>0 DEF RequestInv
  <2>5. HistoryInv'
    BY <1>0, <2>0 DEF IInv, HistoryInv
  <2>6. PairInv'
    <3>1. Unmatched(st.messages) = {}
      BY <1>0, <1>1
    <3> QED
      BY <1>0, <2>0, <3>1 DEF IInv, PairInv
  <2> QED
    BY <2>1, <2>2, <2>3, <2>4, <2>5, <2>6 DEF IInv
<1>2. CASE batch.ask # {}
  <2>1. Finish("waiting_for_approval", st) /\ "waiting_for_approval" \in Status
    BY <1>2 DEF BatchDone, Status
  <2> QED
    BY <1>0, <2>1, FinishHere
<1> QED
  BY <1>1, <1>2

(***************************************************************************)
(* The compaction by the user.                                             *)
(***************************************************************************)
LEMMA CompactLoadInv ==
  ASSUME IInv, CompactLoad
  PROVE  IInv'
<1>0. /\ compactor.left > 0 /\ row.status # "absent"
      /\ ForceCut(row.st.messages, row.st.compaction.through) # None
      /\ compactor' = [busy |-> TRUE, left |-> compactor.left - 1, st |-> row.st]
      /\ pc' = pc /\ row' = row /\ st' = st /\ request' = request /\ stream' = stream
      /\ batch' = batch /\ token' = token /\ forced' = forced
  BY DEF CompactLoad, driver
<1>1. row.st \in State /\ compactor.left \in 0..MaxCompacts /\ IsPrefix(row.st.messages, row.st.messages)
  <2>1. row.st \in State /\ compactor.left \in 0..MaxCompacts
    BY DEF IInv, Types
  <2> QED
    BY <2>1, PrefixOf
<1>2. compactor'.st = row.st /\ compactor'.busy
  BY <1>0
<1>3. Types'
  <2>1. compactor.left - 1 \in 0..MaxCompacts
    BY <1>0, <1>1, BoundsAssumption DEF BoundsAssumption
  <2>2. compactor' \in [busy : BOOLEAN, left : 0..MaxCompacts, st : State]
    BY <1>0, <1>1, <2>1
  <2> QED
    BY <1>0, <2>2 DEF IInv, Types
<1>4. PlaceInv'
  BY <1>0 DEF IInv, PlaceInv, NextCut
<1>5. StreamInv'
  BY <1>0, IdleStream
<1>6. RequestInv'
  BY <1>0 DEF IInv, RequestInv
<1>7. HistoryInv'
  <2>1. row.st.compaction.through < Len(row.st.messages)
    BY <1>0 DEF ForceCut
  <2> QED
    BY <1>0, <1>1, <1>2, <2>1 DEF IInv, HistoryInv
<1>8. PairInv'
  BY <1>0 DEF IInv, PairInv
<1> QED
  BY <1>3, <1>4, <1>5, <1>6, <1>7, <1>8 DEF IInv

\* What is saved is a prefix of what is stored, hidden whole behind its summary.
LEMMA CompactSaveInv ==
  ASSUME IInv, CompactSave
  PROVE  IInv'
<1> DEFINE s == compactor.st
           cut == ForceCut(s.messages, s.compaction.through)
           a == [s EXCEPT !.compaction = Summarize(s, cut)]
<1>0. /\ compactor.busy /\ row' = [row EXCEPT !.st = a]
      /\ forced' = (forced \/ Unmatched(s.messages) # {})
      /\ compactor' = [compactor EXCEPT !.busy = FALSE, !.st = EmptyState]
      /\ pc' = pc /\ st' = st /\ request' = request /\ stream' = stream
      /\ batch' = batch /\ token' = token
  BY DEF CompactSave, Save, driver
<1>1. /\ row \in [status : Status, st : State] /\ row.st \in State /\ st \in State /\ s \in State
      /\ compactor \in [busy : BOOLEAN, left : 0..MaxCompacts, st : State]
      /\ IsPrefix(s.messages, row.st.messages) /\ s.compaction.through < Len(s.messages)
      /\ pc # "idle" => IsPrefix(row.st.messages, st.messages)
      /\ row.status # "absent" /\ forced \in BOOLEAN
  BY <1>0 DEF IInv, Types, HistoryInv, PlaceInv
<1>2. a \in State /\ a.messages = s.messages /\ (Unmatched(s.messages) = {} => Sound(a))
  BY <1>1, SoundForced
<1> HIDE DEF a, s
<1>3. /\ row'.st = a /\ row'.status = row.status
      /\ ~compactor'.busy
  BY <1>0, <1>1
<1>4. Types'
  <2>1. row' \in [status : Status, st : State]
    BY <1>0, <1>1, <1>2
  <2>2. compactor' \in [busy : BOOLEAN, left : 0..MaxCompacts, st : State]
    BY <1>0, <1>1, EmptyIsState
  <2>3. forced' \in BOOLEAN
    BY <1>0, <1>1
  <2> QED
    BY <1>0, <2>1, <2>2, <2>3 DEF IInv, Types
<1>5. PlaceInv'
  BY <1>0, <1>1, <1>3 DEF IInv, PlaceInv, NextCut
<1>6. StreamInv'
  BY <1>0, IdleStream
<1>7. RequestInv'
  BY <1>0 DEF IInv, RequestInv
<1>8. HistoryInv'
  <2>1. pc # "idle" => IsPrefix(a.messages, st.messages)
    BY <1>1, <1>2, PrefixOf
  <2> QED
    BY <1>0, <1>3, <2>1 DEF HistoryInv
<1>9. PairInv'
  <2>1. ~forced' => ~forced /\ Sound(a)
    BY <1>0, <1>2
  <2> QED
    BY <1>0, <1>3, <2>1 DEF IInv, PairInv
<1> QED
  BY <1>4, <1>5, <1>6, <1>7, <1>8, <1>9 DEF IInv

LEMMA CompactGivesUpInv ==
  ASSUME IInv, CompactGivesUp
  PROVE  IInv'
<1>0. /\ compactor' = [compactor EXCEPT !.busy = FALSE, !.st = EmptyState]
      /\ pc' = pc /\ row' = row /\ st' = st /\ request' = request /\ stream' = stream
      /\ batch' = batch /\ token' = token /\ forced' = forced
  BY DEF CompactGivesUp, driver
<1>1. compactor \in [busy : BOOLEAN, left : 0..MaxCompacts, st : State]
  BY DEF IInv, Types
<1>2. ~compactor'.busy
  BY <1>0, <1>1
<1>3. Types'
  <2>1. compactor' \in [busy : BOOLEAN, left : 0..MaxCompacts, st : State]
    BY <1>0, <1>1, EmptyIsState
  <2> QED
    BY <1>0, <2>1 DEF IInv, Types
<1>4. PlaceInv'
  BY <1>0, <1>2 DEF IInv, PlaceInv, NextCut
<1>5. StreamInv'
  BY <1>0, IdleStream
<1>6. RequestInv'
  BY <1>0 DEF IInv, RequestInv
<1>7. HistoryInv'
  BY <1>0, <1>2 DEF IInv, HistoryInv
<1>8. PairInv'
  BY <1>0 DEF IInv, PairInv
<1> QED
  BY <1>3, <1>4, <1>5, <1>6, <1>7, <1>8 DEF IInv

LEMMA StutterInv ==
  ASSUME IInv, UNCHANGED vars
  PROVE  IInv'
  BY DEF vars, IInv, Types, PlaceInv, NextCut, StreamInv, AnswerIsLastAttempt, RequestInv, HistoryInv, PairInv

LEMMA NextInv ==
  ASSUME IInv, [Next]_vars
  PROVE  IInv'
<1>1. ASSUME NEW n \in Prompts, Start(n) \/ Continue(n) PROVE IInv'
  BY <1>1, StartInv, ContinueInv
<1>2. ASSUME NEW decided \in SUBSET Call, Respond(decided) PROVE IInv'
  BY <1>2, RespondInv
<1>3. CASE Cancel \/ CancelledAtTop \/ TurnCancelled \/ SummaryFails \/ Refused
  BY <1>3, CancelInv, EndsInv
<1>4. CASE BeforeModel \/ Summarised \/ Send
  BY <1>4, BeforeModelInv, SummarisedInv, SendInv
<1>5. CASE Fails \/ Retry \/ Chunk \/ StreamDone
  BY <1>5, FailsInv, RetryInv, ChunkInv, StreamDoneInv
<1>6. CASE ResolveBatch
  BY <1>6, ResolveInv DEF ResolveBatch
<1>7. CASE BatchDone
  BY <1>7, BatchDoneInv
<1>8. CASE CompactLoad \/ CompactSave \/ CompactGivesUp
  BY <1>8, CompactLoadInv, CompactSaveInv, CompactGivesUpInv
<1>9. CASE UNCHANGED vars
  BY <1>9, StutterInv
<1> QED
  BY <1>1, <1>2, <1>3, <1>4, <1>5, <1>6, <1>7, <1>8, <1>9 DEF Next, Progress

\* The invariant holds in every state of the Run.
THEOREM Invariance == Spec => []IInv
<1>1. IInv /\ [Next]_vars => IInv'
  BY NextInv
<1> QED
  BY <1>1, InitInv, PTL DEF Spec

(***************************************************************************)
(* What the turn promises.                                                 *)
(***************************************************************************)
LEMMA StateIsState ==
  ASSUME NEW s \in State
  PROVE  IsState(s) /\ s.compaction.covers = 1..s.compaction.through
<1>1. s.messages \in Seq(MessageType) /\ s.compaction.through \in 0..Len(s.messages)
  BY StateFacts
<1>2. \A i \in DOMAIN s.messages : s.messages[i] \in MessageType
  BY <1>1
<1> QED
  BY <1>1, <1>2, StateFacts DEF IsState

\* At every moment of a Run its stored and its driven state are well formed, their
\* summaries stand for all that they hide (Summarized folding the previous summary in),
\* and the text gathered is that of the last attempt alone (RetryingModel).
THEOREM TurnsConsistent == Spec => []TurnConsistent
<1>1. ASSUME IInv PROVE TurnConsistent
  <2>1. /\ row \in [status : Status, st : State] /\ st \in State /\ row.st \in State
        /\ compactor \in [busy : BOOLEAN, left : 0..MaxCompacts, st : State] /\ compactor.st \in State
    BY <1>1 DEF IInv, Types
  <2>2. stream \in [attempt : 1..MaxAttempts, got : 0..MaxChunks, shown : Seq(1..MaxAttempts)]
    BY <1>1 DEF IInv, Types
  <2>3. \A i \in DOMAIN stream.shown : stream.shown[i] \in 1..MaxAttempts
    <3> DEFINE shown == stream.shown
    <3>1. shown \in Seq(1..MaxAttempts)
      BY <2>2
    <3> HIDE DEF shown
    <3> DEFINE range == 1..MaxAttempts
    <3> HIDE DEF range
    <3>2. shown \in Seq(range)
      BY <3>1 DEF range
    <3>3. \A i \in DOMAIN shown : shown[i] \in range
      BY <3>2
    <3> QED
      BY <3>3 DEF shown, range
  <2>4. \A i \in DOMAIN request : request[i] \in MessageType
    <3>1. request \in Seq(MessageType)
      BY <1>1 DEF IInv, Types
    <3> QED
      BY <3>1
  <2>5. IsState(st) /\ IsState(row.st) /\ IsState(compactor.st)
    BY <2>1, StateIsState
  <2>6. TypeOK
    BY <1>1, <2>1, <2>2, <2>3, <2>4, <2>5 DEF TypeOK, IInv, Types
  <2>7. SummaryCoversPrefix
    BY <2>1, StateIsState DEF SummaryCoversPrefix
  <2>8. AnswerIsLastAttempt
    BY <1>1 DEF IInv, StreamInv
  <2> QED
    BY <2>6, <2>7, <2>8 DEF TurnConsistent
<1>2. IInv => TurnConsistent
  BY <1>1
<1> QED
  BY <1>2, Invariance, PTL

\* Behind a first message that is not its own, a tail is a tail still.
LEMMA TailBehind ==
  ASSUME NEW m \in Seq(MessageType), NEW r \in 1..Len(m) + 1, NEW g \in MessageType,
         NEW p \in 2..Len(m) - r + 3
  PROVE  LET b == <<g>> \o From(m, r)
             q == r + p - 2
         IN  /\ Len(b) = Len(m) - r + 2
             /\ q \in r..Len(m) + 1
             /\ From(b, p) = From(m, q)
             /\ q <= Len(m) => p <= Len(b) /\ b[p] = m[q]
<1> DEFINE f == From(m, r)
           b == <<g>> \o f
           q == r + p - 2
           i == p - 1
<1>1. f \in Seq(MessageType) /\ Len(f) = Len(m) - r + 1 /\ From(f, i) = From(m, q)
  <2>1. i \in 1..Len(m) - r + 2 /\ r + i - 1 = q
    OBVIOUS
  <2> HIDE DEF i, q
  <2> QED
    BY <2>1, TailOf, TailOfTail
<1> HIDE DEF f
<1>2. b \in Seq(MessageType) /\ Len(b) = Len(m) - r + 2 /\ From(b, 2) = f
  <2>1. b \in Seq(MessageType) /\ Len(b) = Len(f) + 1
    BY <1>1
  <2>2. From(b, 2) = f
    BY <1>1, TailEnds, Zenon
  <2> QED
    BY <1>1, <2>1, <2>2
<1> HIDE DEF b
<1>3. From(b, p) = From(f, i)
  <2>1. 2 \in 1..Len(b) + 1 /\ i \in 1..Len(b) - 2 + 2 /\ 2 + i - 1 = p
    BY <1>2
  <2> HIDE DEF i
  <2>2. From(From(b, 2), i) = From(b, 2 + i - 1)
    BY <1>2, <2>1, TailOfTail
  <2> QED
    BY <1>2, <2>1, <2>2
<1>4. ASSUME q <= Len(m) PROVE p <= Len(b) /\ b[p] = m[q]
  <2>1. q \in 1..Len(m) + 1 /\ p \in 1..Len(b) + 1 /\ 1 \in 1..Len(m) - q + 1 /\ 1 \in 1..Len(b) - p + 1
    BY <1>2, <1>4
  <2>2. p <= Len(b) /\ p + 1 - 1 = p /\ q + 1 - 1 = q
    BY <1>2, <1>4
  <2> HIDE DEF q
  <2>3. From(m, q)[1] = m[q + 1 - 1]
    BY <2>1, TailOf
  <2>4. From(b, p)[1] = b[p + 1 - 1]
    BY <1>2, <2>1, TailOf
  <2> QED
    BY <1>1, <1>3, <2>2, <2>3, <2>4
<1>5. q \in r..Len(m) + 1
  OBVIOUS
<1> QED
  BY <1>1, <1>2, <1>3, <1>4, <1>5 DEF b, f

\* A tail of what is shown is a tail of the transcript, or all of it behind the summary.
LEMMA TailOfBody ==
  ASSUME NEW s \in State, NEW p \in 1..Len(Body(s)) + 1
  PROVE  \/ From(Body(s), p) = Body(s)
         \/ \E q \in s.compaction.through + 1..Len(s.messages) + 1 :
              /\ From(Body(s), p) = From(s.messages, q)
              /\ q <= Len(s.messages) => p <= Len(Body(s)) /\ Body(s)[p] = s.messages[q]
<1> DEFINE m == s.messages
           r == s.compaction.through + 1
           b == Body(s)
<1>1. m \in Seq(MessageType) /\ Len(m) \in Nat /\ r \in 1..Len(m) + 1
  BY StateFacts
<1>2. CASE s.compaction = NoCompaction
  <2>1. b = m /\ r = 1
    BY <1>2 DEF Body, NoCompaction
  <2>2. p \in r..Len(m) + 1
    BY <1>1, <2>1
  <2>3. From(b, p) = From(m, p) /\ (p <= Len(m) => p <= Len(b) /\ b[p] = m[p])
    BY <2>1
  <2> QED
    BY <2>2, <2>3
<1>3. CASE s.compaction # NoCompaction
  <2>1. b \in Seq(MessageType) /\ p \in 1..Len(b) + 1
    BY BodyFacts, TranscriptType
  <2>2. b = <<SummaryMessage>> \o From(m, r)
    BY <1>3 DEF Body
  <2> HIDE DEF b, m, r
  <2>3. CASE p = 1
    <3>1. From(b, 1) = b
      BY <2>1, TailEnds
    <3> QED
      BY <2>3, <3>1 DEF b
  <2>4. CASE p # 1
    <3> DEFINE q == r + p - 2
    <3>0. SummaryMessage \in MessageType
      BY FixedMessages
    <3>1. Len(b) = Len(m) - r + 2
      <4> DEFINE f == From(m, r)
      <4>1. f \in Seq(MessageType) /\ Len(f) = Len(m) - r + 1
        BY <1>1, TailOf
      <4> HIDE DEF f
      <4>2. Len(<<SummaryMessage>> \o f) = Len(f) + 1
        BY <3>0, <4>1
      <4> QED
        BY <1>1, <2>2, <4>1, <4>2 DEF f
    <3>2. p \in 2..Len(m) - r + 3
      BY <1>1, <2>1, <2>4, <3>1
    <3>3. /\ q \in r..Len(m) + 1
          /\ From(b, p) = From(m, q)
          /\ q <= Len(m) => p <= Len(b) /\ b[p] = m[q]
      BY <1>1, <2>2, <3>0, <3>2, TailBehind
    <3> HIDE DEF q
    <3>4. \E k \in r..Len(m) + 1 : From(b, p) = From(m, k) /\ (k <= Len(m) => p <= Len(b) /\ b[p] = m[k])
      BY <3>3
    <3> QED
      BY <3>4 DEF b, m, r
  <2> QED
    BY <2>3, <2>4
<1> QED
  BY <1>2, <1>3

\* A request is the conversation that is shown, or a tail of it that starts with no
\* result: a result that it shows has its call before it.
LEMMA NoOrphans ==
  ASSUME NEW s \in State, Sound(s), Contiguous(s.messages)
  PROVE  Answered(Trim(Assemble(s))) \subseteq Issued(Trim(Assemble(s)))
<1> DEFINE b == Body(s)
<1>1. b \in Transcript /\ b \in Seq(MessageType) /\ Answered(b) \subseteq Issued(b)
  BY BodyFacts, TranscriptType DEF Sound
<1>2. Assemble(s) = <<SystemMessage>> \o b
  BY DEF Assemble
<1>3. ASSUME NEW p \in 1..Len(b) + 1, p <= Len(b) => ~IsResult(b[p])
      PROVE  Answered(From(b, p)) \subseteq Issued(From(b, p))
  <2>1. CASE From(b, p) = b
    BY <1>1, <2>1
  <2>2. CASE \E q \in s.compaction.through + 1..Len(s.messages) + 1 :
               /\ From(b, p) = From(s.messages, q)
               /\ q <= Len(s.messages) => p <= Len(b) /\ b[p] = s.messages[q]
    <3>1. PICK q \in s.compaction.through + 1..Len(s.messages) + 1 :
               /\ From(b, p) = From(s.messages, q)
               /\ q <= Len(s.messages) => p <= Len(b) /\ b[p] = s.messages[q]
      BY <2>2
    <3> DEFINE m == s.messages
               r == s.compaction.through + 1
    <3>2. /\ m \in Seq(MessageType) /\ r \in 1..Len(m) + 1 /\ q \in r..Len(m) + 1
          /\ Contiguous(m) /\ Answered(From(m, r)) \subseteq Issued(From(m, r))
          /\ q <= Len(m) => ~IsResult(m[q])
      BY <1>3, <3>1, StateFacts DEF Sound, Shown
    <3> HIDE DEF m, r
    <3>3. Answered(From(m, q)) \subseteq Issued(From(m, q))
      BY <3>2, ShorterTail
    <3> QED
      BY <3>1, <3>3 DEF m
  <2> QED
    BY <2>1, <2>2, TailOfBody
<1> HIDE DEF b
<1>4. CASE Trim(<<SystemMessage>> \o b) = <<SystemMessage>> \o b
  BY <1>1, <1>2, <1>4, RequestCalls
<1>5. ASSUME NEW p \in 1..Len(b) + 1, p <= Len(b) => ~IsResult(b[p]),
             Trim(<<SystemMessage>> \o b) = <<SystemMessage>> \o From(b, p)
      PROVE  Answered(Trim(Assemble(s))) \subseteq Issued(Trim(Assemble(s)))
  <2> DEFINE f == From(b, p)
  <2>1. f \in Seq(MessageType) /\ Answered(f) \subseteq Issued(f)
    BY <1>1, <1>3, <1>5, TailOf
  <2> HIDE DEF f
  <2>2. /\ Issued(<<SystemMessage>> \o f) = Issued(f)
        /\ Answered(<<SystemMessage>> \o f) = Answered(f)
    BY <2>1, RequestCalls
  <2> QED
    BY <1>2, <1>5, <2>1, <2>2 DEF f
<1> QED
  BY <1>1, <1>4, <1>5, Trims

\* Cutting ends where the next message would no more have fitted.
LEMMA NoFurther ==
  ASSUME NEW m \in Transcript, CountRequest(<<SystemMessage>>) <= InputBudget
  PROVE  LET whole == <<SystemMessage>> \o m
             sent == Trim(whole)
         IN  /\ CountRequest(sent) <= InputBudget
             /\ \A i \in 2..(Len(whole) - Len(sent) + 1) :
                  ~IsResult(whole[i]) => CountRequest(<<SystemMessage>> \o From(whole, i)) > InputBudget
<1> DEFINE whole == <<SystemMessage>> \o m
           sent == Trim(whole)
<1>0. m \in Seq(MessageType) /\ Len(m) \in Nat
  BY TranscriptType
<1>1. /\ whole \in Seq(MessageType) /\ Len(whole) = Len(m) + 1
      /\ \A k \in 1..Len(m) : whole[k + 1] = m[k]
  BY <1>0, FixedMessages
<1>2. ASSUME NEW k \in 1..Len(m) PROVE From(whole, k + 1) = From(m, k)
  <2>1. From(whole, 2) = m
    BY <1>0, FixedMessages, TailEnds
  <2> HIDE DEF whole
  <2>2. From(From(whole, 2), k) = From(whole, 2 + k - 1)
    <3>1. 2 \in 1..Len(whole) + 1 /\ k \in 1..Len(whole) - 2 + 2
      BY <1>0, <1>1
    <3> QED
      BY <1>1, <3>1, TailOfTail
  <2>3. 2 + k - 1 = k + 1
    OBVIOUS
  <2> QED
    BY <2>1, <2>2, <2>3
<1>3. CASE sent = whole /\ (Fits(whole) \/ ~Fits(<<SystemMessage>>))
  <2>1. Fits(whole)
    BY <1>3 DEF Fits
  <2> HIDE DEF whole
  <2>2. 2..(Len(whole) - Len(whole) + 1) = {}
    BY <1>1
  <2> QED
    BY <1>3, <2>1, <2>2 DEF Fits, whole
<1>4. ASSUME NEW p \in 1..Len(m) + 1,
             sent = <<SystemMessage>> \o From(m, p), Fits(sent),
             \A k \in 1..p - 1 : IsResult(m[k]) \/ ~Fits(<<SystemMessage>> \o From(m, k))
      PROVE  /\ Fits(sent)
             /\ \A i \in 2..(Len(whole) - Len(sent) + 1) :
                  ~IsResult(whole[i]) => ~Fits(<<SystemMessage>> \o From(whole, i))
  <2>1. Len(sent) = Len(m) - p + 2
    <3> DEFINE f == From(m, p)
    <3>1. f \in Seq(MessageType) /\ Len(f) = Len(m) - p + 1
      BY <1>0, TailOf
    <3> HIDE DEF f, sent
    <3>2. Len(<<SystemMessage>> \o f) = Len(f) + 1
      BY <3>1, FixedMessages
    <3> QED
      BY <1>0, <1>4, <3>1, <3>2 DEF f
  <2> HIDE DEF whole, sent
  <2>2. Len(whole) - Len(sent) + 1 = p
    BY <1>0, <1>1, <2>1
  <2>3. ASSUME NEW i \in 2..p, ~IsResult(whole[i]) PROVE ~Fits(<<SystemMessage>> \o From(whole, i))
    <3> DEFINE k == i - 1
    <3>1. k \in 1..Len(m) /\ k \in 1..p - 1 /\ i = k + 1
      BY <1>0
    <3> HIDE DEF k
    <3>2. whole[i] = m[k] /\ From(whole, i) = From(m, k)
      BY <1>1, <1>2, <3>1
    <3> QED
      BY <1>4, <2>3, <3>1, <3>2
  <2> QED
    BY <1>4, <2>2, <2>3
<1>5. \A i \in 2..Len(whole) : CountRequest(<<SystemMessage>> \o From(whole, i)) \in Int
  <2> SUFFICES ASSUME NEW i \in 2..Len(whole) PROVE CountRequest(<<SystemMessage>> \o From(whole, i)) \in Int
    OBVIOUS
  <2> HIDE DEF whole
  <2>1. From(whole, i) \in Seq(MessageType)
    <3>1. i \in 1..Len(whole) + 1
      BY <1>0, <1>1
    <3> QED
      BY <1>1, <3>1, TailOf
  <2> QED
    BY <2>1, Weight
<1>6. CASE \E p \in 1..Len(m) + 1 :
             /\ sent = <<SystemMessage>> \o From(m, p)
             /\ Fits(sent)
             /\ \A k \in 1..p - 1 : IsResult(m[k]) \/ ~Fits(<<SystemMessage>> \o From(m, k))
  <2> HIDE DEF whole, sent
  <2>1. /\ Fits(sent)
        /\ \A i \in 2..(Len(whole) - Len(sent) + 1) :
             ~IsResult(whole[i]) => ~Fits(<<SystemMessage>> \o From(whole, i))
    BY <1>4, <1>6
  <2>2. PICK p \in 1..Len(m) + 1 : sent = <<SystemMessage>> \o From(m, p)
    BY <1>6
  <2>3. Len(sent) \in Nat /\ Len(sent) >= 1
    <3> DEFINE f == From(m, p)
    <3>1. f \in Seq(MessageType)
      BY <1>0, TailOf
    <3> HIDE DEF f
    <3>2. Len(<<SystemMessage>> \o f) = Len(f) + 1 /\ Len(f) \in Nat
      BY <3>1, FixedMessages
    <3> QED
      BY <2>2, <3>2 DEF f
  <2>4. \A i \in 2..(Len(whole) - Len(sent) + 1) : i \in 2..Len(whole)
    BY <1>0, <1>1, <2>3
  <2> QED
    <3>1. ASSUME NEW i \in 2..(Len(whole) - Len(sent) + 1), ~IsResult(whole[i])
          PROVE  CountRequest(<<SystemMessage>> \o From(whole, i)) > InputBudget
      <4> DEFINE c == CountRequest(<<SystemMessage>> \o From(whole, i))
      <4>1. c \in Int /\ ~(c <= InputBudget) /\ InputBudget \in Int
        BY <1>5, <2>1, <2>4, <3>1, SizesAssumption DEF Fits, SizesAssumption
      <4> HIDE DEF c
      <4>2. c > InputBudget
        BY <4>1
      <4> QED
        BY <4>2 DEF c
    <3> QED
      BY <2>1, <3>1 DEF Fits, whole, sent
<1>7. \/ sent = whole /\ (Fits(whole) \/ ~Fits(<<SystemMessage>>))
      \/ \E p \in 1..Len(m) + 1 :
           /\ sent = <<SystemMessage>> \o From(m, p)
           /\ Fits(sent)
           /\ \A k \in 1..p - 1 : IsResult(m[k]) \/ ~Fits(<<SystemMessage>> \o From(m, k))
  BY Trims
<1> QED
  BY <1>3, <1>6, <1>7

\* Each request holds as much of the shown transcript as fits the input budget, and no
\* Tool result whose call it does not show (TokenBudget._trim_request, _cutoff).
THEOREM RequestsExact == Spec => []RequestExact
<1>1. ASSUME IInv, pc = "streaming" PROVE request = Trim(Assemble(st)) /\ st \in State /\ (~forced => Sound(st))
  BY <1>1 DEF IInv, Types, RequestInv, PairInv
<1>2. ASSUME IInv PROVE ResultsFollowTheirCalls
  BY <1>1, <1>2, NoOrphans DEF ResultsFollowTheirCalls, NoOrphanResult
<1>3. ASSUME IInv PROVE TrimmedNoFurther
  <2> SUFFICES ASSUME pc = "streaming", CountRequest(<<SystemMessage>>) <= InputBudget
               PROVE  LET whole == Assemble(st)
                          dropped == Len(whole) - Len(request)
                      IN  /\ CountRequest(request) <= InputBudget
                          /\ \A i \in 2..(dropped + 1) :
                               ~IsResult(whole[i]) =>
                                 CountRequest(<<SystemMessage>> \o From(whole, i)) > InputBudget
    BY DEF TrimmedNoFurther
  <2>1. request = Trim(Assemble(st)) /\ st \in State
    BY <1>1, <1>3
  <2> DEFINE m == Body(st)
  <2>2. m \in Transcript /\ Assemble(st) = <<SystemMessage>> \o m
    BY <2>1, BodyFacts DEF Assemble
  <2> HIDE DEF m
  <2> QED
    BY <2>1, <2>2, NoFurther
<1>4. IInv => RequestExact
  BY <1>2, <1>3 DEF RequestExact
<1> QED
  BY <1>4, Invariance, PTL

(***************************************************************************)
(* The stored transcript.                                                  *)
(***************************************************************************)
\* What a step does to the messages that are stored.
Kept ==
    \/ IsPrefix(row.st.messages, row'.st.messages)
    \/ /\ compactor.busy /\ ~compactor'.busy
       /\ compactor.st.messages # row.st.messages

LEMMA FinishKeeps ==
  ASSUME NEW status, NEW s, Finish(status, s), IsPrefix(row.st.messages, s.messages)
  PROVE  Kept
<1>1. row'.st = s
  BY DEF Finish
<1> QED
  BY <1>1 DEF Kept

LEMMA SaveKeeps ==
  ASSUME IInv, NEW s, Save(s), IsPrefix(row.st.messages, s.messages)
  PROVE  Kept
<1>1. row \in [status : Status, st : State]
  BY DEF IInv, Types
<1>2. row'.st = s
  BY <1>1 DEF Save
<1> QED
  BY <1>2 DEF Kept

LEMMA SameRowKeeps ==
  ASSUME IInv, row'.st = row.st
  PROVE  Kept
<1>1. row.st \in State
  BY DEF IInv, Types
<1>2. IsPrefix(row.st.messages, row.st.messages)
  BY <1>1, PrefixOf
<1> QED
  BY <1>2 DEF Kept

\* The driver holds what is stored, and saves it with what it has appended.
LEMMA StepKeeps ==
  ASSUME IInv, Next
  PROVE  Kept
<1>0. /\ row \in [status : Status, st : State] /\ row.st \in State /\ st \in State
      /\ pc # "idle" => IsPrefix(row.st.messages, st.messages)
  BY DEF IInv, Types, HistoryInv
<1>1. ASSUME NEW n \in Prompts, Start(n) PROVE Kept
  <2>1. row.st = EmptyState /\ row'.st = st' /\ EmptyState.messages = <<>>
    BY <1>1, EmptyIsState DEF Start, IInv, PlaceInv
  <2>2. st' \in State
    BY <1>1, StartInv DEF IInv, Types
  <2>3. IsPrefix(<<>>, st'.messages)
    BY <2>2, PrefixOf
  <2> QED
    BY <2>1, <2>3 DEF Kept
<1>2. ASSUME NEW n \in Prompts, Continue(n) PROVE Kept
  <2> DEFINE a == Sealed(row.st)
             s == Appended(a, <<Prompt(n)>>)
  <2>1. row'.st = s
    BY <1>2 DEF Continue
  <2>2. a \in State /\ IsPrefix(row.st.messages, a.messages)
    BY <1>0, SealedFacts
  <2> HIDE DEF a
  <2>3. s \in State /\ IsPrefix(a.messages, s.messages)
    <3>1. n \in Nat
      BY BoundsAssumption DEF BoundsAssumption
    <3> QED
      BY <2>2, <3>1, Prompted
  <2> HIDE DEF s
  <2>4. IsPrefix(row.st.messages, s.messages)
    BY <1>0, <2>2, <2>3, PrefixOf
  <2> QED
    BY <2>1, <2>4 DEF Kept
<1>3. ASSUME NEW decided \in SUBSET Call, Respond(decided) PROVE Kept
  <2>1. row'.st = row.st
    BY <1>0, <1>3 DEF Respond
  <2> QED
    BY <2>1, SameRowKeeps
<1>4. CASE \/ Cancel \/ BeforeModel \/ Summarised \/ Send \/ Retry \/ Chunk
           \/ CompactLoad \/ CompactGivesUp
  <2>1. row' = row
    BY <1>4 DEF Cancel, BeforeModel, Summarised, Send, Retry, Chunk, CompactLoad, CompactGivesUp
  <2> QED
    BY <2>1, SameRowKeeps
<1>5. CASE CancelledAtTop \/ TurnCancelled \/ SummaryFails \/ Refused
  <2>1. pc # "idle" /\ \E status \in {"failed", "cancelled"} : Finish(status, st)
    BY <1>5 DEF CancelledAtTop, TurnCancelled, SummaryFails, Refused
  <2> QED
    BY <1>0, <2>1, FinishKeeps
<1>6. CASE Fails
  <2>1. pc # "idle" /\ (row' = row \/ Finish("failed", st))
    BY <1>6 DEF Fails
  <2> QED
    BY <1>0, <2>1, FinishKeeps, SameRowKeeps
<1>7. CASE StreamDone
  <2>1. PICK k \in 0..(MaxCalls - NewCalls) : Responds((NewCalls + 1)..(NewCalls + k))
    BY <1>7 DEF StreamDone
  <2> DEFINE calls == (NewCalls + 1)..(NewCalls + k)
  <2>2. calls \in SUBSET Call
    BY NewCallsType, BoundsAssumption DEF Call, BoundsAssumption
  <2> HIDE DEF calls
  <2> DEFINE s == Appended(st, <<Answer(stream.got, calls)>>)
  <2>3. pc = "streaming" /\ (Save(s) \/ \E status \in {"completed", "cancelled"} : Finish(status, s))
    BY <2>1 DEF Responds, calls
  <2>4. stream.got \in Nat
    BY BoundsAssumption DEF IInv, Types, BoundsAssumption
  <2>5. s \in State /\ IsPrefix(st.messages, s.messages)
    BY <1>0, <2>2, <2>4, Responded
  <2> HIDE DEF s
  <2>6. IsPrefix(row.st.messages, s.messages)
    BY <1>0, <2>3, <2>5, PrefixOf
  <2> QED
    BY <2>3, <2>6, FinishKeeps, SaveKeeps
<1>8. CASE ResolveBatch
  <2>1. PICK done \in SUBSET batch.running, n \in Results : Resolve(done, n)
    BY <1>8 DEF ResolveBatch
  <2> DEFINE s == Appended(st, ResultsOf(done, n))
  <2>2. pc = "batch" /\ (Save(s) \/ Finish("cancelled", s))
    BY <2>1 DEF Resolve
  <2>3. done \in SUBSET Call /\ n \in Nat
    BY BoundsAssumption DEF IInv, Types, BoundsAssumption
  <2>4. s \in State /\ IsPrefix(st.messages, s.messages)
    BY <1>0, <2>3, Resulted
  <2> HIDE DEF s
  <2>5. IsPrefix(row.st.messages, s.messages)
    BY <1>0, <2>2, <2>4, PrefixOf
  <2> QED
    BY <2>2, <2>5, FinishKeeps, SaveKeeps
<1>9. CASE BatchDone
  <2>1. pc # "idle" /\ (row' = row \/ Finish("waiting_for_approval", st))
    BY <1>9 DEF BatchDone
  <2> QED
    BY <1>0, <2>1, FinishKeeps, SameRowKeeps
<1>10. CASE CompactSave
  <2>1. /\ compactor.busy
        /\ row'.st.messages = compactor.st.messages
        /\ ~compactor'.busy
    <3>1. compactor \in [busy : BOOLEAN, left : 0..MaxCompacts, st : State]
      BY DEF IInv, Types
    <3>2. compactor.busy /\ compactor' = [compactor EXCEPT !.busy = FALSE, !.st = EmptyState]
      BY <1>10 DEF CompactSave
    <3> DEFINE s == compactor.st
               a == [s EXCEPT !.compaction = Summarize(s, ForceCut(s.messages, s.compaction.through))]
    <3>3. row' = [row EXCEPT !.st = a]
      BY <1>10 DEF CompactSave, Save
    <3>4. a.messages = s.messages
      <4>1. s \in State /\ s.compaction.through < Len(s.messages)
        BY <3>1, <3>2 DEF IInv, HistoryInv
      <4> QED
        BY <4>1, SoundForced
    <3> HIDE DEF a
    <3>5. row'.st = a
      BY <1>0, <3>3
    <3> QED
      BY <3>1, <3>2, <3>4, <3>5
  <2>2. CASE compactor.st.messages = row.st.messages
    BY <1>0, <2>1, <2>2, PrefixOf DEF Kept
  <2> QED
    BY <2>1, <2>2 DEF Kept
<1> QED
  BY <1>1, <1>2, <1>3, <1>4, <1>5, <1>6, <1>7, <1>8, <1>9, <1>10 DEF Next, Progress

\* No step of the driver takes a message from the stored transcript ("the transcript is
\* append-only", CompactionState); AgentSession.compact does when it saves a state that
\* the Run has gone on from, and in no other case.
THEOREM TranscriptIsKept == Spec => TranscriptKept
<1>1. ASSUME IInv, [Next]_vars PROVE [Kept]_vars
  BY <1>1, StepKeeps DEF vars
<1>2. Spec => [][Kept]_vars
  BY <1>1, Invariance, PTL DEF Spec
<1> QED
  BY <1>2 DEF TranscriptKept, Kept
=============================================================================
