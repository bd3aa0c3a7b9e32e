------------------------------ MODULE RunningSums ------------------------------
(***************************************************************************)
(* Induction over the natural numbers for sets instead of predicates, and  *)
(* what it says of the running sum of a sequence of sizes: that the        *)
(* recursive definition defines a function, that the sums grow, and how    *)
(* far.                                                                    *)
(***************************************************************************)
EXTENDS Integers, FiniteSetTheorems, TLAPS

(* A set of natural numbers has a least element: the sets 0 .. n are       *)
(* ordered by inclusion as the numbers n are, and the strict inclusion of  *)
(* finite sets is well-founded.                                            *)
LEMMA LeastNumber ==
  ASSUME NEW S, S \subseteq Nat, S # {}
  PROVE  \E m \in S : \A k \in S : ~ (k < m)
<1> DEFINE I == {0 .. n : n \in S}
           R == StrictSubsetOrdering(Nat)
<1>1. \A n \in S : 0 .. n \in FiniteSubsetsOf(Nat)
  <2> TAKE n \in S
  <2>1. IsFiniteSet(0 .. n)
    BY FS_Interval
  <2>2. QED
    BY <2>1 DEF FiniteSubsetsOf
<1>2. I \subseteq FiniteSubsetsOf(Nat) /\ I # {}
  BY <1>1
<1>3. IsWellFoundedOn(R, FiniteSubsetsOf(Nat))
  BY FS_StrictSubsetOrderingWellFounded
<1>4. PICK x \in I : \A y \in I : <<y, x>> \notin R
  BY <1>2, <1>3, WFMin, Zenon
<1>5. PICK m \in S : x = 0 .. m
  BY <1>4
<1>6. ASSUME NEW k \in S, k < m
      PROVE  FALSE
  <2>1. 0 .. k \in I
    OBVIOUS
  <2>2. 0 .. k \subseteq 0 .. m /\ m \in 0 .. m /\ m \notin 0 .. k
    BY <1>6
  <2>3. <<0 .. k, 0 .. m>> \in R
    BY <2>2 DEF StrictSubsetOrdering
  <2>4. QED
    BY <1>4, <1>5, <2>1, <2>3
<1>7. QED
  BY <1>6

(* A set that holds 0 and, with each number up to n, its successor, holds  *)
(* all of them: the least one missing could not be 0 nor a successor.      *)
LEMMA SetInduction ==
  ASSUME NEW n \in Nat, NEW S, 0 \in S, \A k \in 0 .. n - 1 : k \in S => k + 1 \in S
  PROVE  0 .. n \subseteq S
<1> DEFINE Missing == (0 .. n) \ S
<1>1. SUFFICES ASSUME Missing # {}
               PROVE  FALSE
  OBVIOUS
<1>2. PICK m \in Missing : \A k \in Missing : ~ (k < m)
  <2>1. Missing \subseteq Nat
    OBVIOUS
  <2>2. QED
    BY <1>1, <2>1, LeastNumber, Zenon
<1>3. m - 1 \in 0 .. n - 1
  BY <1>2
<1>4. m - 1 \in S
  BY <1>2, <1>3
<1>5. QED
  BY <1>2, <1>3, <1>4

-----------------------------------------------------------------------------
(* f[r] is the sum of the sizes before the r-th.                           *)
RunningSum(f, size, n) ==
  f = [r \in 1 .. n + 1 |-> IF r = 1 THEN 0 ELSE f[r - 1] + size[r - 1]]

(* The same, said of each value.                                           *)
SumsOf(f, size, n) ==
  /\ f \in [1 .. n + 1 -> Nat]
  /\ f[1] = 0
  /\ \A r \in 1 .. n : f[r + 1] = f[r] + size[r]

(* There is such a function.                                               *)
LEMMA SumsExist ==
  ASSUME NEW n \in Nat, NEW size \in [1 .. n -> Nat]
  PROVE  \E f : RunningSum(f, size, n) /\ SumsOf(f, size, n)
<1> DEFINE S == {k \in 0 .. n : \E f : SumsOf(f, size, k)}
<1>1. 0 \in S
  <2>1. SumsOf([r \in 1 .. 1 |-> 0], size, 0)
    BY DEF SumsOf
  <2>2. QED
    BY <2>1
<1>2. ASSUME NEW k \in 0 .. n - 1, k \in S
      PROVE  k + 1 \in S
  <2>1. PICK f : SumsOf(f, size, k)
    BY <1>2
  <2> DEFINE g == [r \in 1 .. (k + 1) + 1 |-> IF r <= k + 1 THEN f[r]
                                              ELSE f[k + 1] + size[k + 1]]
  <2>2. size[k + 1] \in Nat
    OBVIOUS
  <2>3. SumsOf(g, size, k + 1)
    <3>1. g \in [1 .. (k + 1) + 1 -> Nat] /\ g[1] = 0
      BY <2>1, <2>2 DEF SumsOf
    <3>2. ASSUME NEW r \in 1 .. k + 1
          PROVE  g[r + 1] = g[r] + size[r]
      <4>1. CASE r = k + 1
        BY <4>1
      <4>2. CASE r < k + 1
        BY <2>1, <4>2 DEF SumsOf
      <4>3. QED
        BY <4>1, <4>2
    <3>3. QED
      BY <3>1, <3>2 DEF SumsOf
  <2>4. QED
    BY <2>3
<1>3. n \in S
  <2>1. 0 .. n \subseteq S
    BY <1>1, <1>2, SetInduction, Zenon
  <2>2. QED
    BY <2>1
<1>4. PICK f : SumsOf(f, size, n)
  BY <1>3
<1>5. RunningSum(f, size, n)
  <2>1. ASSUME NEW r \in 1 .. n + 1
        PROVE  f[r] = IF r = 1 THEN 0 ELSE f[r - 1] + size[r - 1]
    <3>1. CASE r = 1
      BY <1>4, <3>1 DEF SumsOf
    <3>2. CASE r # 1
      <4>1. r - 1 \in 1 .. n /\ (r - 1) + 1 = r
        BY <3>2
      <4>2. f[(r - 1) + 1] = f[r - 1] + size[r - 1]
        BY <1>4, <4>1 DEF SumsOf
      <4>3. QED
        BY <3>2, <4>1, <4>2
    <3>3. QED
      BY <3>1, <3>2
  <2>2. QED
    BY <1>4, <2>1 DEF SumsOf, RunningSum
<1>6. QED
  BY <1>4, <1>5

(* Any function the recursive equation holds of has natural numbers for    *)
(* values.                                                                 *)
LEMMA SumsAre ==
  ASSUME NEW n \in Nat, NEW size \in [1 .. n -> Nat], NEW f, RunningSum(f, size, n)
  PROVE  SumsOf(f, size, n)
<1>1. /\ f[1] = 0
      /\ \A r \in 1 .. n : f[r + 1] = f[r] + size[r]
  BY DEF RunningSum
<1> DEFINE S == {k \in 0 .. n : f[k + 1] \in Nat}
<1>2. 0 \in S
  BY <1>1
<1>3. ASSUME NEW k \in 0 .. n - 1, k \in S
      PROVE  k + 1 \in S
  BY <1>1, <1>3
<1>4. 0 .. n \subseteq S
  BY <1>2, <1>3, SetInduction, Zenon
<1>5. \A r \in 1 .. n + 1 : f[r] \in Nat
  <2> TAKE r \in 1 .. n + 1
  <2>1. r - 1 \in 0 .. n /\ (r - 1) + 1 = r
    OBVIOUS
  <2>2. QED
    BY <1>4, <2>1
<1>6. f \in [1 .. n + 1 -> Nat]
  BY <1>5 DEF RunningSum
<1>7. QED
  BY <1>1, <1>6 DEF SumsOf

(* The sums of positive sizes grow strictly.                               *)
LEMMA SumsGrow ==
  ASSUME NEW n \in Nat, NEW size \in [1 .. n -> Nat \ {0}], NEW f, SumsOf(f, size, n),
         NEW q \in 1 .. n + 1, NEW r \in 1 .. n + 1, q < r
  PROVE  f[q] < f[r]
<1> DEFINE S == {k \in 0 .. n - q : f[q] < f[q + k + 1]}
<1>1. 0 \in S
  BY DEF SumsOf
<1>2. ASSUME NEW k \in 0 .. (n - q) - 1, k \in S
      PROVE  k + 1 \in S
  <2>1. q + k + 1 \in 1 .. n /\ q \in 1 .. n
    BY <1>2
  <2>2. f[(q + k + 1) + 1] = f[q + k + 1] + size[q + k + 1]
    BY <2>1 DEF SumsOf
  <2>3. f[q] \in Nat /\ f[q + k + 1] \in Nat /\ size[q + k + 1] \in Nat \ {0}
    BY <2>1 DEF SumsOf
  <2>4. QED
    BY <1>2, <2>1, <2>2, <2>3
<1>3. n - q \in Nat
  OBVIOUS
<1>4. 0 .. n - q \subseteq S
  BY <1>1, <1>2, <1>3, SetInduction, Zenon
<1>5. PICK k \in 0 .. n - q : r = q + k + 1
  <2>1. r - q - 1 \in 0 .. n - q /\ r = q + (r - q - 1) + 1
    OBVIOUS
  <2>2. QED
    BY <2>1
<1>6. k \in S
  BY <1>4
<1>7. QED
  BY <1>5, <1>6

(* n sizes of at most c add up to at most n * c.                           *)
LEMMA SumsBounded ==
  ASSUME NEW n \in Nat, NEW c \in Nat, NEW size \in [1 .. n -> 0 .. c],
         NEW f, SumsOf(f, size, n)
  PROVE  f[n + 1] <= n * c
<1> DEFINE S == {k \in 0 .. n : f[k + 1] <= k * c}
<1>1. 0 \in S
  BY DEF SumsOf
<1>2. ASSUME NEW k \in 0 .. n - 1, k \in S
      PROVE  k + 1 \in S
  <2>1. f[(k + 1) + 1] = f[k + 1] + size[k + 1] /\ f[k + 1] \in Nat /\ size[k + 1] \in 0 .. c
    BY <1>2 DEF SumsOf
  <2>2. (k + 1) * c = k * c + c
    OBVIOUS
  <2>3. k * c \in Nat
    OBVIOUS
  <2>4. QED
    BY <1>2, <2>1, <2>2, <2>3
<1>3. 0 .. n \subseteq S
  BY <1>1, <1>2, SetInduction, Zenon
<1>4. QED
  BY <1>3
=============================================================================
