----------------------------- MODULE ProofFacts -----------------------------
(***************************************************************************)
(* Facts that several proofs need: sets of numbers have least and greatest *)
(* elements, rounding down keeps their order, and what is in a queue when  *)
(* something joins or leaves it.                                           *)
(***************************************************************************)
EXTENDS Integers, SequencesExt, SequenceTheorems, WellFoundedInduction, TLAPS

\* A nonempty set of natural numbers has a least element.
LEMMA Minimum ==
  ASSUME NEW S \in SUBSET Nat, S # {}
  PROVE  \E m \in S : \A n \in S : m <= n
<1>1. PICK m \in S : \A n \in S : <<n, m>> \notin OpToRel(<, Nat)
  BY NatLessThanWellFounded, WFMin, Zenon
<1>2. OpToRel(<, Nat) = {ss \in Nat \X Nat : ss[1] < ss[2]}
  BY DEF OpToRel
<1>3. \A n \in S : ~ (n < m)
  BY <1>1, <1>2
<1>4. \A n \in S : m <= n
  BY <1>3
<1> QED
  BY <1>4

\* A nonempty set of numbers up to a bound has a greatest element.
LEMMA BoundedMaximum ==
  ASSUME NEW N \in Nat, NEW S \in SUBSET (0 .. N), S # {}
  PROVE  \E m \in S : \A n \in S : n <= m
<1> DEFINE T == {N - n : n \in S}
<1>0. \A n \in S : n \in 0 .. N /\ n \in Nat /\ N - n \in Nat
  <2>1. \A n \in 0 .. N : n \in Nat /\ N - n \in Nat
    OBVIOUS
  <2> QED
    BY <2>1
<1>1. T \subseteq Nat /\ T # {}
  BY <1>0
<1>2. PICK k \in T : \A j \in T : <<j, k>> \notin OpToRel(<, Nat)
  BY <1>1, NatLessThanWellFounded, WFMin, Zenon
<1>3. \A j \in T : k <= j
  <2>1. SUFFICES ASSUME NEW j \in T PROVE k <= j
    OBVIOUS
  <2>2. j \in Nat /\ k \in Nat
    BY <1>1
  <2>3. ~ (j < k)
    <3>1. <<j, k>> \notin OpToRel(<, Nat)
      BY <1>2
    <3>2. OpToRel(<, Nat) = {ss \in Nat \X Nat : ss[1] < ss[2]}
      BY DEF OpToRel
    <3> QED
      BY <2>2, <3>1, <3>2
  <2> QED
    BY <2>2, <2>3
<1>4. PICK m \in S : k = N - m
  OBVIOUS
<1>5. \A n \in S : n <= m
  <2>1. SUFFICES ASSUME NEW n \in S PROVE n <= m
    OBVIOUS
  <2>2. N - n \in T
    OBVIOUS
  <2>3. N - m <= N - n
    BY <1>3, <1>4, <2>2
  <2> QED
    BY <1>0, <2>3
<1> QED
  BY <1>5

\* So has a nonempty set of integers between two bounds, both.
LEMMA Extremes ==
  ASSUME NEW a \in Int, NEW b \in Int, NEW S \in SUBSET (a .. b), S # {}
  PROVE  /\ \E m \in S : \A n \in S : n <= m
         /\ \E m \in S : \A n \in S : n >= m
<1> DEFINE T == {n - a : n \in S}
<1>1. \A n \in S : n \in Int /\ a <= n /\ n <= b
  OBVIOUS
<1>2. b - a \in Nat /\ T \subseteq 0 .. (b - a) /\ T # {}
  <2>1. PICK n \in S : TRUE
    OBVIOUS
  <2>2. b - a \in Nat
    BY <1>1, <2>1
  <2>3. \A k \in S : k - a \in 0 .. (b - a)
    BY <1>1
  <2> QED
    BY <2>1, <2>2, <2>3
<1>3. T \subseteq Nat
  BY <1>2
<1>4. PICK k \in T : \A j \in T : j <= k
  BY <1>2, BoundedMaximum
<1>5. PICK l \in T : \A j \in T : l <= j
  BY <1>2, <1>3, Minimum
<1>6. PICK m \in S : k = m - a
  OBVIOUS
<1>7. PICK n \in S : l = n - a
  OBVIOUS
<1>8. ASSUME NEW j \in S PROVE j <= m /\ j >= n
  <2>1. j - a \in T
    OBVIOUS
  <2>2. j - a <= m - a /\ n - a <= j - a
    BY <1>4, <1>5, <1>6, <1>7, <2>1
  <2> QED
    BY <1>1, <2>2
<1> QED
  BY <1>8

\* The elements of a list of integers are between two bounds.
LEMMA ListBounds ==
  ASSUME NEW N \in Nat, NEW f, \A i \in 1 .. N : f[i] \in Int
  PROVE  \E a, b \in Int : \A i \in 1 .. N : a <= f[i] /\ f[i] <= b
<1> DEFINE Fits(n) == \E a, b \in Int :
                        \A i \in 1 .. n : a <= f[i] /\ f[i] <= b
           Bad == {n \in 0 .. N : ~ Fits(n)}
<1>1. SUFFICES ASSUME Bad # {} PROVE FALSE
  <2>1. N \in 0 .. N
    OBVIOUS
  <2> QED
    BY <2>1
<1>2. \E m \in 0 .. N : ~ Fits(m) /\ \A n \in 0 .. N : ~ Fits(n) => m <= n
  <2>1. Bad \in SUBSET Nat
    OBVIOUS
  <2>2. PICK m \in Bad : \A n \in Bad : m <= n
    BY <1>1, <2>1, Minimum
  <2> QED
    BY <2>2
<1>3. PICK m \in 0 .. N : ~ Fits(m) /\ \A n \in 0 .. N : ~ Fits(n) => m <= n
  BY <1>2
<1>4. m # 0
  <2>1. Fits(0)
    OBVIOUS
  <2> QED
    BY <1>3, <2>1
<1>5. m - 1 \in 0 .. N /\ ~ (m <= m - 1)
  BY <1>3, <1>4
<1>6. Fits(m - 1)
  BY <1>3, <1>5
<1>7. PICK a \in Int, b \in Int :
        \A i \in 1 .. m - 1 : a <= f[i] /\ f[i] <= b
  BY <1>6
<1>8. m \in 1 .. N /\ f[m] \in Int
  BY <1>3, <1>4
<1>9. \A x, y \in Int : /\ \E low \in Int : low <= x /\ low <= y
                        /\ \E high \in Int : x <= high /\ y <= high
  <2>1. ASSUME NEW x \in Int, NEW y \in Int
        PROVE  /\ \E low \in Int : low <= x /\ low <= y
               /\ \E high \in Int : x <= high /\ y <= high
    <3>1. CASE x <= y
      BY <3>1
    <3>2. CASE y <= x
      BY <3>2
    <3> QED
      BY <3>1, <3>2
  <2> QED
    BY <2>1
<1>10. PICK low \in Int : low <= f[m] /\ low <= a
  BY <1>8, <1>9
<1>11. PICK high \in Int : f[m] <= high /\ b <= high
  BY <1>8, <1>9
<1>12. ASSUME NEW i \in 1 .. m PROVE low <= f[i] /\ f[i] <= high
  <2>1. CASE i = m
    BY <1>10, <1>11, <2>1
  <2>2. CASE i # m
    <3>1. i \in 1 .. m - 1 /\ i \in 1 .. N
      BY <1>3, <2>2
    <3>2. /\ f[i] \in Int /\ a \in Int /\ b \in Int
          /\ a <= f[i] /\ f[i] <= b
      BY <1>7, <3>1
    <3> QED
      BY <1>10, <1>11, <3>2
  <2> QED
    BY <2>1, <2>2
<1>13. Fits(m)
  BY <1>12
<1> QED
  BY <1>3, <1>13

-----------------------------------------------------------------------------
(* Rounding down to a multiple.                                             *)

LEMMA Division ==
  ASSUME NEW m \in Nat \ {0}, NEW a \in Int
  PROVE  /\ a \div m \in Int /\ a % m \in 0 .. m - 1
         /\ a = m * (a \div m) + (a % m)
<1>1. a % m \in 0 .. m - 1
  OBVIOUS
<1>2. a = m * (a \div m) + (a % m)
  OBVIOUS
<1>3. a \div m \in Int
  OBVIOUS
<1> QED
  BY <1>1, <1>2, <1>3

LEMMA Multiples ==
  ASSUME NEW m \in Nat \ {0}, NEW q \in Int, NEW r \in Int, q < r
  PROVE  m * q \in Int /\ m * r \in Int /\ m * q + m <= m * r
<1>1. PICK e \in Nat : r = q + 1 + e
  <2>1. r - q - 1 \in Nat /\ r = q + 1 + (r - q - 1)
    OBVIOUS
  <2> QED
    BY <2>1
<1>2. m * r = m * q + m + m * e
  BY <1>1
<1>3. m * e \in Nat /\ m * q \in Int /\ m * r \in Int
  OBVIOUS
<1> QED
  BY <1>2, <1>3

\* Rounding down keeps the order.
LEMMA RoundingGrows ==
  ASSUME NEW m \in Nat \ {0}, NEW a \in Int, NEW b \in Int, a <= b
  PROVE  a - (a % m) <= b - (b % m)
<1>1. PICK q \in Int, x \in 0 .. m - 1 :
        /\ a = m * q + x /\ x = a % m
  BY Division
<1>2. PICK r \in Int, y \in 0 .. m - 1 :
        /\ b = m * r + y /\ y = b % m
  BY Division
<1>3. m * q \in Int /\ m * r \in Int
  OBVIOUS
<1>4. ~ (r < q)
  <2>1. ASSUME r < q PROVE FALSE
    <3>1. m * r + m <= m * q
      BY <2>1, Multiples
    <3> QED
      BY <1>1, <1>2, <1>3, <3>1
  <2> QED
    BY <2>1
<1>5. m * q <= m * r
  <2>1. CASE q = r
    BY <1>3, <2>1
  <2>2. CASE q < r
    <3>1. m * q + m <= m * r
      BY <2>2, Multiples
    <3> QED
      BY <1>3, <3>1
  <2> QED
    BY <1>4, <2>1, <2>2
<1> QED
  BY <1>1, <1>2, <1>3, <1>5

-----------------------------------------------------------------------------
(* Queues: ToSet(q) is what is in q.                                        *)

LEMMA EmptyQueue == ToSet(<<>>) = {}
BY DEF ToSet

\* What a queue of a type contains is of that type.
LEMMA QueuedType ==
  ASSUME NEW S, NEW q \in Seq(S)
  PROVE  ToSet(q) \subseteq S
BY DEF ToSet

LEMMA Enqueued ==
  ASSUME NEW S, NEW q \in Seq(S), NEW x \in S
  PROVE  ToSet(Append(q, x)) = ToSet(q) \cup {x}
<1>1. /\ Len(q) \in Nat /\ DOMAIN q = 1 .. Len(q)
      /\ DOMAIN Append(q, x) = 1 .. Len(q) + 1
      /\ \A i \in 1 .. Len(q) : Append(q, x)[i] = q[i]
      /\ Append(q, x)[Len(q) + 1] = x
  BY AppendProperties
<1> QED
  BY <1>1 DEF ToSet

\* The head of a queue is in it, and nothing new is in its tail.
LEMMA Dequeued ==
  ASSUME NEW S, NEW q \in Seq(S), q # <<>>
  PROVE  /\ Head(q) \in ToSet(q) /\ Head(q) \in S
         /\ Tail(q) \in Seq(S)
         /\ ToSet(Tail(q)) \subseteq ToSet(q)
         /\ ToSet(q) = {Head(q)} \cup ToSet(Tail(q))
<1>1. /\ Len(q) \in Nat \ {0} /\ DOMAIN q = 1 .. Len(q)
      /\ Head(q) = q[1]
      /\ Tail(q) \in Seq(S)
      /\ DOMAIN Tail(q) = 1 .. Len(q) - 1
      /\ \A i \in 1 .. Len(q) - 1 : Tail(q)[i] = q[i + 1]
  BY HeadTailProperties
<1>2. q[1] \in S /\ q[1] \in ToSet(q)
  BY <1>1 DEF ToSet
<1>3. ASSUME NEW i \in 1 .. Len(q), i # 1
      PROVE  q[i] \in ToSet(Tail(q))
  <2>1. i - 1 \in 1 .. Len(q) - 1 /\ (i - 1) + 1 = i
    BY <1>1, <1>3
  <2>2. Tail(q)[i - 1] = q[i]
    BY <1>1, <2>1
  <2> QED
    BY <1>1, <2>1, <2>2 DEF ToSet
<1>4. ToSet(Tail(q)) \subseteq ToSet(q)
  BY <1>1 DEF ToSet
<1>5. ToSet(q) \subseteq {Head(q)} \cup ToSet(Tail(q))
  BY <1>1, <1>3 DEF ToSet
<1> QED
  BY <1>1, <1>2, <1>4, <1>5

=============================================================================
