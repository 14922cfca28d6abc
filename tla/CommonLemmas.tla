--------------------------- MODULE CommonLemmas ---------------------------
(***************************************************************************)
(* What the proofs about several components rest on: induction on the      *)
(* naturals, as a set that has 0 and with every number the next; the loops *)
(* that add up a value per asset, per row or per bar, functions that recur *)
(* on their argument; counting and ranking; and civil dates, the order of  *)
(* which is that of their day numbers.                                     *)
(***************************************************************************)
EXTENDS CalendarWindows, FiniteSetTheorems, WellFoundedInduction, TLAPS


-----------------------------------------------------------------------------
(* Induction *)

LEMMA SmallerIsWellFounded ==
  \E R : IsWellFoundedOn(R, Nat) /\ \A x, y \in Nat : y < x => <<y, x>> \in R
<1>1. IsWellFoundedOn(OpToRel(<, Nat), Nat)
  BY NatLessThanWellFounded
<1>2. \A x, y \in Nat : y < x => <<y, x>> \in OpToRel(<, Nat)
  BY DEF OpToRel
<1> QED
  BY <1>1, <1>2, Zenon

LEMMA LeastOfSet ==
  ASSUME NEW T, T \subseteq Nat, T # {}
  PROVE  \E x \in T : \A y \in T : x <= y
<1>1. PICK R : IsWellFoundedOn(R, Nat) /\ \A x, y \in Nat : y < x => <<y, x>> \in R
  BY SmallerIsWellFounded
<1>2. PICK x \in T : \A y \in T : ~ (<<y, x>> \in R)
  BY <1>1, WFMin, Zenon
<1>3. x \in Nat
  BY <1>2
<1>4. ASSUME NEW y \in T PROVE x <= y
  <2>1. y \in Nat /\ ~ (y < x)
    BY <1>1, <1>2, <1>3
  <2> QED
    BY <1>3, <2>1
<1> QED
  BY <1>2, <1>4

(* A set with 0 and the successors of its elements has every natural.      *)
THEOREM InductionOnSets ==
  ASSUME NEW S, 0 \in S, \A n \in Nat : n \in S => n + 1 \in S
  PROVE  \A n \in Nat : n \in S
<1> SUFFICES ASSUME NEW a \in Nat, a \notin S PROVE FALSE
  OBVIOUS
<1>1. PICK x \in Nat \ S : \A y \in Nat \ S : x <= y
  <2>1. Nat \ S # {} /\ Nat \ S \subseteq Nat
    OBVIOUS
  <2> QED
    BY <2>1, LeastOfSet
<1>2. x - 1 \in Nat /\ x - 1 \notin Nat \ S
  BY <1>1
<1>3. (x - 1) + 1 \in S
  BY <1>2
<1> QED
  BY <1>1, <1>3

-----------------------------------------------------------------------------
(* Sums *)

(* sum is the running sum of f from the value z.                           *)
IsSum(sum, z, f, n) ==
  sum = [j \in 0 .. n |-> IF j = 0 THEN z ELSE sum[j - 1] + f[j]]

(* A sum that recurs on its argument is defined.                           *)
LEMMA SumExists ==
  ASSUME NEW f, NEW z, NEW n \in Nat
  PROVE  \E sum : IsSum(sum, z, f, n)
<1> DEFINE S == {k \in Nat : \E sum : IsSum(sum, z, f, k)}
<1>1. 0 \in S
  <2> DEFINE g == [j \in 0 .. 0 |-> z]
  <2>1. IsSum(g, z, f, 0)
    BY DEF IsSum
  <2> QED
    BY <2>1
<1>2. ASSUME NEW k \in Nat, k \in S PROVE k + 1 \in S
  <2>1. PICK g : IsSum(g, z, f, k)
    BY <1>2
  <2> DEFINE h == [j \in 0 .. k + 1 |-> IF j = k + 1 THEN g[k] + f[j] ELSE g[j]]
  <2>2. ASSUME NEW j \in 0 .. k + 1 PROVE h[j] = IF j = 0 THEN z ELSE h[j - 1] + f[j]
    <3>1. CASE j = k + 1
      <4>1. h[j] = g[k] + f[j] /\ h[j - 1] = g[k] /\ j # 0
        BY <3>1
      <4> HIDE DEF h
      <4> QED
        BY <4>1
    <3>2. CASE j # k + 1
      <4>1. j \in 0 .. k /\ h[j] = g[j] /\ (j # 0 => h[j - 1] = g[j - 1])
        BY <3>2
      <4>2. g[j] = IF j = 0 THEN z ELSE g[j - 1] + f[j]
        BY <2>1, <4>1 DEF IsSum
      <4> HIDE DEF h
      <4> QED
        BY <4>1, <4>2
    <3> QED
      BY <3>1, <3>2
  <2>3. IsSum(h, z, f, k + 1)
    <3>1. h = [j \in 0 .. k + 1 |-> h[j]]
      OBVIOUS
    <3> HIDE DEF h
    <3> QED
      BY <2>2, <3>1 DEF IsSum
  <2> HIDE DEF h
  <2> QED
    BY <2>3
<1> HIDE DEF S
<1>3. \A k \in Nat : k \in S
  BY <1>1, <1>2, InductionOnSets
<1> QED
  BY <1>3 DEF S

(* Its values at the ends, and between them.                               *)
LEMMA SumSteps ==
  ASSUME NEW sum, NEW z, NEW f, NEW n \in Nat, IsSum(sum, z, f, n)
  PROVE  sum[0] = z /\ \A j \in 1 .. n : sum[j] = sum[j - 1] + f[j]
BY DEF IsSum

(* Integers add up to integers, naturals to naturals.                      *)
LEMMA SumType ==
  ASSUME NEW n \in Nat, NEW sum, NEW z, NEW f, IsSum(sum, z, f, n),
         NEW T \in {Int, Nat}, z \in T, \A j \in 1 .. n : f[j] \in T
  PROVE  \A j \in 0 .. n : sum[j] \in T
<1> DEFINE S == {k \in Nat : k <= n => sum[k] \in T}
<1>1. 0 \in S
  BY SumSteps
<1>2. ASSUME NEW k \in Nat, k \in S PROVE k + 1 \in S
  <2>1. k + 1 <= n => sum[k + 1] = sum[k] + f[k + 1]
    BY SumSteps
  <2> QED
    BY <1>2, <2>1
<1> HIDE DEF S
<1>3. \A k \in Nat : k \in S
  BY <1>1, <1>2, InductionOnSets
<1> QED
  BY <1>3 DEF S

(* When the start and the value at one place change, so does the sum.      *)
LEMMA SumChange ==
  ASSUME NEW n \in Nat, NEW sum, NEW z \in Int, NEW f, IsSum(sum, z, f, n),
         NEW new, NEW y \in Int, NEW g, IsSum(new, y, g, n),
         NEW at \in Nat,
         \A j \in 1 .. n : f[j] \in Int /\ g[j] \in Int /\ (j # at => g[j] = f[j])
  PROVE  \A j \in 0 .. n :
           new[j] = sum[j] + (y - z) + (IF at \in 1 .. j THEN g[at] - f[at] ELSE 0)
<1> DEFINE P(k) == new[k] = sum[k] + (y - z) + (IF at \in 1 .. k THEN g[at] - f[at] ELSE 0)
           S == {k \in Nat : k <= n => P(k)}
<1>1. 0 \in S
  BY SumSteps
<1>2. ASSUME NEW k \in Nat, k \in S PROVE k + 1 \in S
  <2> SUFFICES ASSUME k + 1 <= n PROVE P(k + 1)
    OBVIOUS
  <2>1. k + 1 \in 1 .. n /\ k \in 0 .. n
    OBVIOUS
  <2>2. sum[k + 1] = sum[k] + f[k + 1] /\ new[k + 1] = new[k] + g[k + 1]
    BY <2>1, SumSteps
  <2>3. sum[k] \in Int
    BY <2>1, SumType
  <2>4. P(k)
    BY <1>2
  <2>5. CASE k + 1 = at
    BY <2>1, <2>2, <2>3, <2>4, <2>5
  <2>6. CASE k + 1 # at
    <3>1. at \in 1 .. k + 1 <=> at \in 1 .. k
      BY <2>6
    <3>2. at \in 1 .. k => f[at] \in Int /\ g[at] \in Int
      BY <2>1
    <3> QED
      BY <2>1, <2>2, <2>3, <2>4, <2>6, <3>1, <3>2
  <2> QED
    BY <2>5, <2>6
<1> HIDE DEF S
<1>3. \A k \in Nat : k \in S
  BY <1>1, <1>2, InductionOnSets
<1> QED
  BY <1>3 DEF S

(* A sum that goes on agrees with the shorter one as far as that goes.     *)
LEMMA SumExtends ==
  ASSUME NEW n \in Nat, NEW m \in Nat, n <= m, NEW z, NEW f, NEW g,
         NEW sum, IsSum(sum, z, f, n), NEW new, IsSum(new, z, g, m),
         \A j \in 1 .. n : g[j] = f[j]
  PROVE  \A j \in 0 .. n : new[j] = sum[j]
<1> DEFINE S == {k \in Nat : k <= n => new[k] = sum[k]}
<1>1. 0 \in S
  BY SumSteps
<1>2. ASSUME NEW k \in Nat, k \in S PROVE k + 1 \in S
  <2>1. k + 1 <= n => sum[k + 1] = sum[k] + f[k + 1] /\ new[k + 1] = new[k] + g[k + 1]
    <3>1. k + 1 <= n => k + 1 \in 1 .. n /\ k + 1 \in 1 .. m /\ (k + 1) - 1 = k
      OBVIOUS
    <3> QED
      BY <3>1, SumSteps
  <2> QED
    BY <1>2, <2>1
<1> HIDE DEF S
<1>3. \A k \in Nat : k \in S
  BY <1>1, <1>2, InductionOnSets
<1> QED
  BY <1>3 DEF S

-----------------------------------------------------------------------------
(* Counting *)

(* The elements of a finite set by a strict and total order of them: every *)
(* rank from the first to the last is one element's.                       *)
RankIn(S, R, x) == 1 + Cardinality({y \in S : <<y, x>> \in R})

Orders(R, S) ==
  /\ \A x \in S : <<x, x>> \notin R
  /\ \A x, y \in S : x # y => <<x, y>> \in R \/ <<y, x>> \in R
  /\ \A x, y, z \in S : <<x, y>> \in R /\ <<y, z>> \in R => <<x, z>> \in R

LEMMA RankBounds ==
  ASSUME NEW S, IsFiniteSet(S), NEW R, Orders(R, S), NEW x \in S
  PROVE  RankIn(S, R, x) \in 1 .. Cardinality(S)
<1> DEFINE ahead == {y \in S : <<y, x>> \in R}
<1>1. ahead \in SUBSET (S \ {x})
  BY DEF Orders
<1>2. /\ Cardinality(S) \in Nat
      /\ IsFiniteSet(S \ {x}) /\ Cardinality(S \ {x}) = Cardinality(S) - 1
  BY FS_RemoveElement, FS_CardinalityType
<1> HIDE DEF ahead
<1>3. IsFiniteSet(ahead) /\ Cardinality(ahead) <= Cardinality(S \ {x})
  BY <1>1, <1>2, FS_Subset
<1>4. Cardinality(ahead) \in Nat
  BY <1>3, FS_CardinalityType
<1> USE DEF ahead
<1> QED
  BY <1>2, <1>3, <1>4 DEF RankIn

LEMMA RanksFollow ==
  ASSUME NEW S, IsFiniteSet(S), NEW R, Orders(R, S), NEW x \in S, NEW y \in S
  PROVE  <<x, y>> \in R <=> RankIn(S, R, x) < RankIn(S, R, y)
<1>1. ASSUME NEW a \in S, NEW b \in S, <<a, b>> \in R
      PROVE  RankIn(S, R, a) < RankIn(S, R, b)
  <2> DEFINE before(c) == {d \in S : <<d, c>> \in R}
  <2>1. before(a) \in SUBSET (before(b) \ {a}) /\ a \in before(b)
    BY <1>1 DEF Orders
  <2>2. IsFiniteSet(before(b)) /\ Cardinality(before(b)) \in Nat
    BY FS_Subset, FS_CardinalityType
  <2>3. IsFiniteSet(before(b) \ {a}) /\ Cardinality(before(b) \ {a}) = Cardinality(before(b)) - 1
    BY <2>1, <2>2, FS_RemoveElement
  <2>4. IsFiniteSet(before(a)) /\ Cardinality(before(a)) <= Cardinality(before(b) \ {a})
    <3> HIDE DEF before
    <3> QED
      BY <2>1, <2>3, FS_Subset
  <2>5. Cardinality(before(a)) \in Nat
    BY <2>4, FS_CardinalityType
  <2> QED
    BY <2>2, <2>3, <2>4, <2>5 DEF RankIn
<1>2. RankIn(S, R, x) \in Nat /\ RankIn(S, R, y) \in Nat
  <2>1. Cardinality(S) \in Nat
    BY FS_CardinalityType
  <2>2. RankIn(S, R, x) \in 1 .. Cardinality(S) /\ RankIn(S, R, y) \in 1 .. Cardinality(S)
    BY RankBounds
  <2> QED
    BY <2>1, <2>2
<1>3. <<x, y>> \in R => RankIn(S, R, x) < RankIn(S, R, y)
  BY <1>1
<1>4. <<y, x>> \in R => RankIn(S, R, y) < RankIn(S, R, x)
  BY <1>1
<1>5. x = y \/ <<x, y>> \in R \/ <<y, x>> \in R
  BY DEF Orders
<1> QED
  BY <1>2, <1>3, <1>4, <1>5

LEMMA RanksOnce ==
  ASSUME NEW S, IsFiniteSet(S), NEW R, Orders(R, S)
  PROVE  /\ \A x, y \in S : RankIn(S, R, x) = RankIn(S, R, y) => x = y
         /\ \A n \in 1 .. Cardinality(S) : \E x \in S : RankIn(S, R, x) = n
<1> DEFINE n == Cardinality(S)
           rank == [x \in S |-> RankIn(S, R, x)]
<1>1. n \in Nat
  BY FS_CardinalityType
<1>2. \A x \in S : RankIn(S, R, x) \in 1 .. n
  BY RankBounds
<1>3. ASSUME NEW x \in S, NEW y \in S, RankIn(S, R, x) = RankIn(S, R, y)
      PROVE  x = y
  <2>1. RankIn(S, R, x) \in Nat /\ RankIn(S, R, y) \in Nat
    BY <1>1, <1>2
  <2>2. /\ <<x, y>> \in R <=> RankIn(S, R, x) < RankIn(S, R, y)
        /\ <<y, x>> \in R <=> RankIn(S, R, y) < RankIn(S, R, x)
    BY RanksFollow
  <2>3. ~ <<x, y>> \in R /\ ~ <<y, x>> \in R
    BY <1>3, <2>1, <2>2
  <2> QED
    BY <2>3 DEF Orders
<1>4. rank \in Injection(S, 1 .. n)
  BY <1>2, <1>3 DEF Injection, IsInjective
<1>5. IsFiniteSet(1 .. n) /\ Cardinality(1 .. n) = n
  BY <1>1, FS_Interval
<1>6. rank \in Surjection(S, 1 .. n)
  BY <1>4, <1>5, FS_Injection
<1>7. \A k \in 1 .. n : \E x \in S : rank[x] = k
  BY <1>6 DEF Surjection
<1> QED
  BY <1>3, <1>7

(* A set of numbers in order.                                              *)
LEMMA InOrderOf ==
  ASSUME NEW some, IsFiniteSet(some),
         NEW R, Orders(R, some), \A x, y \in some : <<x, y>> \in R <=> x < y
  PROVE  /\ Cardinality(some) \in Nat
         /\ DOMAIN InOrder(some) = 1 .. Cardinality(some)
         /\ \A n \in DOMAIN InOrder(some) : InOrder(some)[n] \in some
         /\ \A n, m \in DOMAIN InOrder(some) : n < m <=> InOrder(some)[n] < InOrder(some)[m]
         /\ \A i \in some : \E n \in DOMAIN InOrder(some) : InOrder(some)[n] = i
<1> DEFINE order == InOrder(some)
           before(i) == {j \in some : j < i}
<1>0. \A n \in 1 .. Cardinality(some) : \E i \in some : RankIn(some, R, i) = n
  BY RanksOnce
<1>2. Cardinality(some) \in Nat
  BY FS_CardinalityType
<1>3. \A i \in some : RankIn(some, R, i) = 1 + Cardinality(before(i))
  <2>1. \A i \in some : {j \in some : <<j, i>> \in R} = before(i)
    OBVIOUS
  <2> QED
    BY <2>1 DEF RankIn
<1>4. \A i \in some : Cardinality(before(i)) \in Nat
  BY FS_Subset, FS_CardinalityType
<1>5. DOMAIN order = 1 .. Cardinality(some)
  BY DEF InOrder
<1>6. ASSUME NEW n \in 1 .. Cardinality(some)
      PROVE  order[n] \in some /\ RankIn(some, R, order[n]) = n
  <2>1. PICK i \in some : RankIn(some, R, i) = n
    BY <1>0, Zenon
  <2>2. Cardinality(before(i)) = n - 1
    BY <1>2, <1>3, <1>4, <2>1
  <2>3. order[n] = CHOOSE j \in some : Cardinality(before(j)) = n - 1
    BY DEF InOrder
  <2>4. order[n] \in some /\ Cardinality(before(order[n])) = n - 1
    BY <2>2, <2>3
  <2>5. RankIn(some, R, order[n]) = 1 + (n - 1)
    BY <1>3, <2>4
  <2> QED
    BY <1>2, <2>4, <2>5
<1>7. ASSUME NEW n \in 1 .. Cardinality(some), NEW m \in 1 .. Cardinality(some)
      PROVE  n < m <=> order[n] < order[m]
  <2>1. order[n] \in some /\ order[m] \in some
        /\ RankIn(some, R, order[n]) = n /\ RankIn(some, R, order[m]) = m
    BY <1>6
  <2>2. <<order[n], order[m]>> \in R <=> RankIn(some, R, order[n]) < RankIn(some, R, order[m])
    BY <2>1, RanksFollow
  <2> QED
    BY <2>1, <2>2
<1>8. ASSUME NEW i \in some PROVE \E n \in 1 .. Cardinality(some) : order[n] = i
  <2>1. RankIn(some, R, i) \in 1 .. Cardinality(some)
    BY RankBounds
  <2>2. /\ order[RankIn(some, R, i)] \in some
        /\ RankIn(some, R, order[RankIn(some, R, i)]) = RankIn(some, R, i)
    BY <1>6, <2>1
  <2>3. order[RankIn(some, R, i)] = i
    BY <2>2, RanksOnce
  <2> QED
    BY <2>1, <2>3
<1> QED
  BY <1>2, <1>5, <1>6, <1>7, <1>8

LEMMA InOrderOfSet ==
  ASSUME NEW some, IsFiniteSet(some), some \subseteq Int
  PROVE  /\ Cardinality(some) \in Nat
         /\ DOMAIN InOrder(some) = 1 .. Cardinality(some)
         /\ \A n \in DOMAIN InOrder(some) : InOrder(some)[n] \in some
         /\ \A n, m \in DOMAIN InOrder(some) : n < m <=> InOrder(some)[n] < InOrder(some)[m]
         /\ \A i \in some : \E n \in DOMAIN InOrder(some) : InOrder(some)[n] = i
<1> DEFINE R == {pair \in some \X some : pair[1] < pair[2]}
<1>1. Orders(R, some) /\ \A x, y \in some : <<x, y>> \in R <=> x < y
  BY DEF Orders
<1> QED
  BY <1>1, InOrderOf, Zenon

(* How many have each label, added up, is how many there are.              *)
LEMMA CountByLabel ==
  ASSUME NEW K, IsFiniteSet(K), NEW N \in Nat, NEW label \in [K -> 1 .. N],
         NEW sum, IsSum(sum, 0, [n \in 1 .. N |-> Cardinality({k \in K : label[k] = n})], N)
  PROVE  sum[N] = Cardinality(K)
<1> DEFINE f == [n \in 1 .. N |-> Cardinality({k \in K : label[k] = n})]
           upto(j) == {k \in K : label[k] <= j}
           S == {j \in Nat : j <= N => sum[j] = Cardinality(upto(j))}
<1>0. sum[0] = 0 /\ \A j \in 1 .. N : sum[j] = sum[j - 1] + f[j]
  <2> HIDE DEF f
  <2>1. IsSum(sum, 0, f, N)
    BY DEF f
  <2> QED
    BY <2>1, SumSteps
<1>1. 0 \in S
  <2>1. upto(0) = {}
    OBVIOUS
  <2> QED
    BY <1>0, <2>1, FS_EmptySet
<1>2. ASSUME NEW j \in Nat, j \in S PROVE j + 1 \in S
  <2>1. ASSUME j + 1 <= N PROVE sum[j + 1] = Cardinality(upto(j + 1))
    <3> DEFINE new == {k \in K : label[k] = j + 1}
    <3>1. sum[j + 1] = sum[j] + Cardinality(new)
      <4>1. j + 1 \in 1 .. N
        BY <2>1
      <4>2. sum[j + 1] = sum[(j + 1) - 1] + f[j + 1]
        BY <1>0, <4>1
      <4> QED
        BY <4>1, <4>2
    <3>2. sum[j] = Cardinality(upto(j))
      BY <1>2, <2>1
    <3>3. IsFiniteSet(new) /\ IsFiniteSet(upto(j))
      BY FS_Subset
    <3>4. new \cap upto(j) = {} /\ new \cup upto(j) = upto(j + 1)
      OBVIOUS
    <3> HIDE DEF new, upto
    <3>5. Cardinality(upto(j + 1)) = Cardinality(new) + Cardinality(upto(j)) - Cardinality({})
      BY <3>3, <3>4, FS_Union
    <3>6. Cardinality({}) = 0 /\ Cardinality(new) \in Nat /\ Cardinality(upto(j)) \in Nat
      BY <3>3, FS_EmptySet, FS_CardinalityType
    <3> QED
      BY <3>1, <3>2, <3>5, <3>6
  <2>2. j + 1 \in Nat
    OBVIOUS
  <2> QED
    BY <2>1, <2>2
<1> HIDE DEF S
<1>3. N \in S
  BY <1>1, <1>2, InductionOnSets
<1>4. upto(N) = K
  OBVIOUS
<1> QED
  BY <1>3, <1>4 DEF S

(* Two sets have as many elements when some map pairs them.                *)
LEMMA PairedSets ==
  ASSUME NEW S, IsFiniteSet(S), NEW T, NEW pair \in [S -> T],
         \A x, y \in S : pair[x] = pair[y] => x = y,
         \A z \in T : \E x \in S : pair[x] = z
  PROVE  IsFiniteSet(T) /\ Cardinality(T) = Cardinality(S)
<1>1. pair \in Bijection(S, T)
  BY DEF Bijection, Injection, Surjection, IsInjective
<1>2. ExistsBijection(S, T)
  BY <1>1 DEF ExistsBijection
<1> QED
  BY <1>2, FS_Bijection

(* A set that has every smaller number of each of its own is an interval.  *)
LEMMA InitialSegment ==
  ASSUME NEW N \in Nat, NEW S \in SUBSET (1 .. N),
         \A i \in S, j \in 1 .. N : j < i => j \in S
  PROVE  Cardinality(S) \in Nat /\ S = 1 .. Cardinality(S)
<1> DEFINE T == {n \in Nat : n <= N => 1 .. n \subseteq S \/ \E m \in Nat : S = 1 .. m}
<1>1. 0 \in T
  OBVIOUS
<1>2. ASSUME NEW n \in Nat, n \in T PROVE n + 1 \in T
  <2>1. ASSUME n + 1 <= N PROVE 1 .. n + 1 \subseteq S \/ \E m \in Nat : S = 1 .. m
    <3>1. CASE \E m \in Nat : S = 1 .. m
      BY <3>1
    <3>2. CASE 1 .. n \subseteq S /\ n + 1 \in S
      BY <3>2
    <3>3. CASE 1 .. n \subseteq S /\ n + 1 \notin S
      <4>1. \A i \in S : i \in 1 .. n
        BY <2>1, <3>3
      <4>2. S = 1 .. n
        BY <3>3, <4>1
      <4> QED
        BY <4>2
    <3> QED
      BY <1>2, <2>1, <3>1, <3>2, <3>3
  <2> QED
    BY <2>1
<1> HIDE DEF T
<1>3. N \in T
  BY <1>1, <1>2, InductionOnSets
<1>4. \E m \in Nat : S = 1 .. m
  <2>1. CASE 1 .. N \subseteq S
    <3>1. S = 1 .. N
      BY <2>1
    <3> QED
      BY <3>1
  <2> QED
    BY <1>3, <2>1 DEF T
<1>5. PICK m \in Nat : S = 1 .. m
  BY <1>4
<1>6. Cardinality(1 .. m) = m
  BY FS_Interval
<1> QED
  BY <1>5, <1>6

-----------------------------------------------------------------------------
(* Dates *)

(* One more year completes a cycle of k of them, or none.                  *)
LEMMA CycleSteps ==
  ASSUME NEW y \in Nat \ {0}, NEW k \in {4, 100, 400}
  PROVE  y \div k = (y - 1) \div k + (IF y % k = 0 THEN 1 ELSE 0)
<1>1. CASE k = 4
  BY <1>1
<1>2. CASE k = 100
  BY <1>2
<1>3. CASE k = 400
  BY <1>3
<1> QED
  BY <1>1, <1>2, <1>3

(* The days of the years before this one, and of its months before.        *)
PastYears(year) ==
  (year - 1) * 365 + (year - 1) \div 4 - (year - 1) \div 100 + (year - 1) \div 400

PastMonths(year, month) ==
  DaysBeforeMonth[month] + (IF month > 2 /\ IsLeapYear(year) THEN 1 ELSE 0)

YearLength(year) == IF IsLeapYear(year) THEN 366 ELSE 365

LEMMA PastYearsNext ==
  ASSUME NEW year \in Nat \ {0}
  PROVE  PastYears(year) \in Nat /\ PastYears(year + 1) = PastYears(year) + YearLength(year)
<1>1. /\ year \div 4 = (year - 1) \div 4 + (IF year % 4 = 0 THEN 1 ELSE 0)
      /\ year \div 100 = (year - 1) \div 100 + (IF year % 100 = 0 THEN 1 ELSE 0)
      /\ year \div 400 = (year - 1) \div 400 + (IF year % 400 = 0 THEN 1 ELSE 0)
  BY CycleSteps
<1>2. year % 100 = 0 => year % 4 = 0
  OBVIOUS
<1>3. year % 400 = 0 => year % 100 = 0
  OBVIOUS
<1>4. (year + 1) - 1 = year
  OBVIOUS
<1>5. PastYears(year) \in Nat
  BY DEF PastYears
<1> QED
  BY <1>1, <1>2, <1>3, <1>4, <1>5 DEF PastYears, YearLength, IsLeapYear

LEMMA MonthSteps ==
  ASSUME NEW year \in Nat \ {0}, NEW month \in 1 .. 12
  PROVE  /\ PastMonths(year, month) \in Nat
         /\ DaysInMonth(year, month) \in 28 .. 31
         /\ PastMonths(year, month) + DaysInMonth(year, month)
              = IF month = 12 THEN YearLength(year) ELSE PastMonths(year, month + 1)
<1>1. month \in {1, 2, 3, 4, 5, 6, 7, 8, 9, 10, 11, 12}
  OBVIOUS
<1>2. IsLeapYear(year) \in BOOLEAN
  BY DEF IsLeapYear
<1> QED
  BY <1>1, <1>2 DEF PastMonths, DaysInMonth, YearLength, DaysBeforeMonth, MonthLengths

LEMMA DateFields ==
  ASSUME NEW date, IsDate(date)
  PROVE  /\ date = Date(date.year, date.month, date.day)
         /\ date.year \in Nat \ {0} /\ date.month \in 1 .. 12
         /\ date.day \in 1 .. DaysInMonth(date.year, date.month)
         /\ date.day \in 1 .. 31
<1>1. date \in [year : Nat \ {0}, month : 1 .. 12, day : Nat \ {0}]
  BY DEF IsDate, CivilDates
<1>2. DaysInMonth(date.year, date.month) \in 28 .. 31
  BY <1>1, MonthSteps
<1> QED
  BY <1>1, <1>2 DEF IsDate, CivilDates, Date

LEMMA MakesDate ==
  ASSUME NEW year \in Nat \ {0}, NEW month \in 1 .. 12,
         NEW day \in 1 .. DaysInMonth(year, month)
  PROVE  IsDate(Date(year, month, day))
<1>1. DaysInMonth(year, month) \in 28 .. 31
  BY MonthSteps
<1> QED
  BY <1>1 DEF IsDate, CivilDates, Date

LEMMA DayNumberParts ==
  ASSUME NEW date, IsDate(date)
  PROVE  /\ DayNumber(date) = PastYears(date.year) + PastMonths(date.year, date.month) + date.day
         /\ PastYears(date.year) \in Nat /\ PastMonths(date.year, date.month) \in Nat
         /\ DayNumber(date) \in Nat \ {0}
<1>1. date.year \in Nat \ {0} /\ date.month \in 1 .. 12 /\ date.day \in 1 .. 31
  BY DateFields
<1>2. PastYears(date.year) \in Nat /\ PastMonths(date.year, date.month) \in Nat
  BY <1>1, PastYearsNext, MonthSteps
<1>3. DayNumber(date) = PastYears(date.year) + PastMonths(date.year, date.month) + date.day
  <2> DEFINE late == IF date.month > 2 /\ IsLeapYear(date.year) THEN 1 ELSE 0
  <2>1. DaysBeforeMonth[date.month] \in Nat /\ late \in Nat
    <3>1. date.month \in {1, 2, 3, 4, 5, 6, 7, 8, 9, 10, 11, 12}
      BY <1>1
    <3> QED
      BY <3>1 DEF DaysBeforeMonth
  <2>2. DayNumber(date) = PastYears(date.year) + DaysBeforeMonth[date.month] + late + date.day
    BY <1>1, <2>1 DEF DayNumber, PastYears
  <2>3. PastMonths(date.year, date.month) = DaysBeforeMonth[date.month] + late
    BY DEF PastMonths
  <2> HIDE DEF late
  <2> QED
    BY <1>1, <1>2, <2>1, <2>2, <2>3
<1> QED
  BY <1>1, <1>2, <1>3

(* The day after a date has the next number.                               *)
LEMMA NextDayNumber ==
  ASSUME NEW date, IsDate(date)
  PROVE  IsDate(NextDay(date)) /\ DayNumber(NextDay(date)) = DayNumber(date) + 1
<1> DEFINE y == date.year
           m == date.month
           d == date.day
<1>1. y \in Nat \ {0} /\ m \in 1 .. 12 /\ d \in 1 .. DaysInMonth(y, m)
  BY DateFields
<1>2. /\ DaysInMonth(y, m) \in 28 .. 31 /\ PastMonths(y, m) \in Nat
      /\ PastMonths(y, m) + DaysInMonth(y, m)
           = IF m = 12 THEN YearLength(y) ELSE PastMonths(y, m + 1)
  BY <1>1, MonthSteps
<1>3. DayNumber(date) = PastYears(y) + PastMonths(y, m) + d /\ PastYears(y) \in Nat
  BY DayNumberParts
<1>4. date = Date(y, m, d)
  BY DateFields
<1>5. CASE d < DaysInMonth(y, m)
  <2>1. NextDay(date) = Date(y, m, d + 1)
    BY <1>4, <1>5 DEF NextDay, Date
  <2>2. IsDate(Date(y, m, d + 1))
    BY <1>1, <1>2, <1>5, MakesDate
  <2>3. DayNumber(Date(y, m, d + 1)) = PastYears(y) + PastMonths(y, m) + (d + 1)
    BY <2>2, DayNumberParts DEF Date
  <2> QED
    BY <1>1, <1>2, <1>3, <2>1, <2>2, <2>3
<1>6. CASE ~ (d < DaysInMonth(y, m)) /\ m < 12
  <2>1. NextDay(date) = Date(y, m + 1, 1)
    BY <1>6 DEF NextDay
  <2>2. m + 1 \in 1 .. 12 /\ d = DaysInMonth(y, m)
    BY <1>1, <1>2, <1>6
  <2>3. DaysInMonth(y, m + 1) \in 28 .. 31 /\ PastMonths(y, m + 1) \in Nat
    BY <1>1, <2>2, MonthSteps
  <2>4. IsDate(Date(y, m + 1, 1))
    BY <1>1, <2>2, <2>3, MakesDate
  <2>5. DayNumber(Date(y, m + 1, 1)) = PastYears(y) + PastMonths(y, m + 1) + 1
    BY <2>4, DayNumberParts DEF Date
  <2> QED
    BY <1>1, <1>2, <1>3, <1>6, <2>1, <2>2, <2>3, <2>4, <2>5
<1>7. CASE ~ (d < DaysInMonth(y, m)) /\ m = 12
  <2>1. NextDay(date) = Date(y + 1, 1, 1)
    BY <1>7 DEF NextDay
  <2>2. d = DaysInMonth(y, m) /\ y + 1 \in Nat \ {0}
    BY <1>1, <1>2, <1>7
  <2>3. DaysInMonth(y + 1, 1) \in 28 .. 31 /\ PastMonths(y + 1, 1) = 0
    <3>1. DaysInMonth(y + 1, 1) \in 28 .. 31
      BY <2>2, MonthSteps
    <3>2. PastMonths(y + 1, 1) = 0
      BY DEF PastMonths, DaysBeforeMonth
    <3> QED
      BY <3>1, <3>2
  <2>4. IsDate(Date(y + 1, 1, 1))
    BY <2>2, <2>3, MakesDate
  <2>5. DayNumber(Date(y + 1, 1, 1)) = PastYears(y + 1) + 0 + 1
    BY <2>3, <2>4, DayNumberParts DEF Date
  <2>6. PastYears(y + 1) = PastYears(y) + YearLength(y)
    BY <1>1, PastYearsNext
  <2>7. YearLength(y) = PastMonths(y, m) + d
    BY <1>2, <1>7, <2>2
  <2> QED
    BY <1>1, <1>2, <1>3, <2>1, <2>4, <2>5, <2>6, <2>7
<1>8. m < 12 \/ m = 12
  BY <1>1
<1> QED
  BY <1>5, <1>6, <1>7, <1>8

-----------------------------------------------------------------------------
(* add_days *)

IsAfter(after, date, days) ==
  after = [k \in 0 .. days |-> IF k = 0 THEN date ELSE NextDay(after[k - 1])]

LEMMA AfterExists ==
  ASSUME NEW date, NEW days \in Nat
  PROVE  \E after : IsAfter(after, date, days)
<1> DEFINE S == {k \in Nat : \E after : IsAfter(after, date, k)}
<1>1. 0 \in S
  <2> DEFINE g == [j \in 0 .. 0 |-> date]
  <2>1. IsAfter(g, date, 0)
    BY DEF IsAfter
  <2> QED
    BY <2>1
<1>2. ASSUME NEW k \in Nat, k \in S PROVE k + 1 \in S
  <2>1. PICK g : IsAfter(g, date, k)
    BY <1>2
  <2> DEFINE h == [j \in 0 .. k + 1 |-> IF j = k + 1 THEN NextDay(g[k]) ELSE g[j]]
  <2>2. ASSUME NEW j \in 0 .. k + 1 PROVE h[j] = IF j = 0 THEN date ELSE NextDay(h[j - 1])
    <3>1. CASE j = k + 1
      <4>1. h[j] = NextDay(g[k]) /\ h[j - 1] = g[k] /\ j # 0
        BY <3>1
      <4> HIDE DEF h
      <4> QED
        BY <4>1
    <3>2. CASE j # k + 1
      <4>1. j \in 0 .. k /\ h[j] = g[j] /\ (j # 0 => h[j - 1] = g[j - 1])
        BY <3>2
      <4>2. g[j] = IF j = 0 THEN date ELSE NextDay(g[j - 1])
        BY <2>1, <4>1 DEF IsAfter
      <4> HIDE DEF h
      <4> QED
        BY <4>1, <4>2
    <3> QED
      BY <3>1, <3>2
  <2>3. IsAfter(h, date, k + 1)
    <3>1. h = [j \in 0 .. k + 1 |-> h[j]]
      OBVIOUS
    <3> HIDE DEF h
    <3> QED
      BY <2>2, <3>1 DEF IsAfter
  <2> HIDE DEF h
  <2> QED
    BY <2>3
<1> HIDE DEF S
<1>3. \A k \in Nat : k \in S
  BY <1>1, <1>2, InductionOnSets
<1> QED
  BY <1>3 DEF S

LEMMA AddDaysDefined ==
  ASSUME NEW date, NEW days \in Nat
  PROVE  \E after : IsAfter(after, date, days) /\ AddDays(date, days) = after[days]
<1> DEFINE loop == CHOOSE after : after = [k \in 0 .. days |-> IF k = 0 THEN date ELSE NextDay(after[k - 1])]
<1>1. \E after : after = [k \in 0 .. days |-> IF k = 0 THEN date ELSE NextDay(after[k - 1])]
  BY AfterExists DEF IsAfter
<1>2. loop = [k \in 0 .. days |-> IF k = 0 THEN date ELSE NextDay(loop[k - 1])]
  BY <1>1, Zenon
<1>3. AddDays(date, days) = loop[days]
  BY Zenon DEF AddDays
<1> HIDE DEF loop
<1>4. IsAfter(loop, date, days)
  BY <1>2 DEF IsAfter
<1> QED
  BY <1>3, <1>4

(* The day so many days after a date has the number that many above it.    *)
LEMMA AddDaysNumber ==
  ASSUME NEW date, IsDate(date), NEW days \in Nat
  PROVE  IsDate(AddDays(date, days)) /\ DayNumber(AddDays(date, days)) = DayNumber(date) + days
<1>1. PICK after : IsAfter(after, date, days) /\ AddDays(date, days) = after[days]
  BY AddDaysDefined
<1> DEFINE P(k) == IsDate(after[k]) /\ DayNumber(after[k]) = DayNumber(date) + k
           S == {k \in Nat : k <= days => P(k)}
<1>2. DayNumber(date) \in Nat
  BY DayNumberParts
<1>3. 0 \in S
  <2>1. after[0] = date
    BY <1>1 DEF IsAfter
  <2> QED
    BY <1>2, <2>1
<1>4. ASSUME NEW k \in Nat, k \in S PROVE k + 1 \in S
  <2> SUFFICES ASSUME k + 1 <= days PROVE P(k + 1)
    OBVIOUS
  <2>1. after[k + 1] = NextDay(after[k])
    <3>1. k + 1 \in 0 .. days /\ k + 1 # 0 /\ (k + 1) - 1 = k
      OBVIOUS
    <3> QED
      BY <1>1, <3>1 DEF IsAfter
  <2>2. P(k)
    BY <1>4
  <2> QED
    BY <1>2, <2>1, <2>2, NextDayNumber
<1> HIDE DEF S
<1>5. \A k \in Nat : k \in S
  BY <1>3, <1>4, InductionOnSets
<1>6. P(days)
  BY <1>5 DEF S
<1> QED
  BY <1>1, <1>6

-----------------------------------------------------------------------------
(* The order of dates *)

LEMMA PastYearsMonotone ==
  ASSUME NEW y \in Nat \ {0}, NEW z \in Nat \ {0}, y <= z
  PROVE  PastYears(y) <= PastYears(z)
BY DEF PastYears

LEMMA PastMonthsMonotone ==
  ASSUME NEW y \in Nat \ {0}, NEW m \in 1 .. 12, NEW n \in 1 .. 12, m <= n
  PROVE  PastMonths(y, m) <= PastMonths(y, n)
<1>1. m \in {1, 2, 3, 4, 5, 6, 7, 8, 9, 10, 11, 12} /\ n \in {1, 2, 3, 4, 5, 6, 7, 8, 9, 10, 11, 12}
  OBVIOUS
<1>2. DaysBeforeMonth[m] \in Nat /\ DaysBeforeMonth[n] \in Nat
  BY <1>1 DEF DaysBeforeMonth
<1>3. DaysBeforeMonth[m] <= DaysBeforeMonth[n]
  BY <1>1 DEF DaysBeforeMonth
<1>4. IsLeapYear(y) \in BOOLEAN
  BY DEF IsLeapYear
<1> QED
  BY <1>2, <1>3, <1>4 DEF PastMonths

(* A date is within its year.                                              *)
LEMMA WithinYear ==
  ASSUME NEW date, IsDate(date)
  PROVE  /\ PastYears(date.year) < DayNumber(date)
         /\ DayNumber(date) <= PastYears(date.year + 1)
<1> DEFINE y == date.year
           m == date.month
<1>1. y \in Nat \ {0} /\ m \in 1 .. 12 /\ date.day \in 1 .. DaysInMonth(y, m)
  BY DateFields
<1>2. /\ DayNumber(date) = PastYears(y) + PastMonths(y, m) + date.day
      /\ PastYears(y) \in Nat /\ PastMonths(y, m) \in Nat
  BY DayNumberParts
<1>3. PastYears(y + 1) = PastYears(y) + YearLength(y) /\ YearLength(y) \in Nat
  BY <1>1, PastYearsNext DEF YearLength
<1>4. /\ DaysInMonth(y, m) \in 28 .. 31
      /\ PastMonths(y, m) + DaysInMonth(y, m)
           = IF m = 12 THEN YearLength(y) ELSE PastMonths(y, m + 1)
  BY <1>1, MonthSteps
<1>5. PastMonths(y, m) + DaysInMonth(y, m) <= YearLength(y)
  <2>1. CASE m = 12
    BY <1>2, <1>3, <1>4, <2>1
  <2>2. CASE m # 12
    <3>1. m + 1 \in 1 .. 12 /\ 12 \in 1 .. 12 /\ m + 1 <= 12
      BY <1>1, <2>2
    <3>2. PastMonths(y, m + 1) <= PastMonths(y, 12)
      BY <1>1, <3>1, PastMonthsMonotone
    <3>3. /\ PastMonths(y, 12) \in Nat /\ DaysInMonth(y, 12) \in 28 .. 31
          /\ PastMonths(y, 12) + DaysInMonth(y, 12) = YearLength(y)
      BY <1>1, <3>1, MonthSteps
    <3> QED
      BY <1>2, <1>3, <1>4, <2>2, <3>1, <3>2, <3>3
  <2> QED
    BY <2>1, <2>2
<1> QED
  BY <1>1, <1>2, <1>3, <1>4, <1>5

(* The numbers of dates are in the order of the dates.                     *)
LEMMA BeforeIsSmaller ==
  ASSUME NEW a, NEW b, IsDate(a), IsDate(b), Before(a, b)
  PROVE  DayNumber(a) < DayNumber(b)
<1>1. /\ a.year \in Nat \ {0} /\ a.month \in 1 .. 12
      /\ a.day \in 1 .. DaysInMonth(a.year, a.month) /\ a.day \in 1 .. 31
      /\ b.year \in Nat \ {0} /\ b.month \in 1 .. 12 /\ b.day \in 1 .. 31
  BY DateFields
<1>2. /\ DayNumber(a) = PastYears(a.year) + PastMonths(a.year, a.month) + a.day
      /\ PastYears(a.year) \in Nat /\ PastMonths(a.year, a.month) \in Nat
      /\ DayNumber(a) \in Nat
  BY DayNumberParts
<1>3. /\ DayNumber(b) = PastYears(b.year) + PastMonths(b.year, b.month) + b.day
      /\ PastYears(b.year) \in Nat /\ PastMonths(b.year, b.month) \in Nat
      /\ DayNumber(b) \in Nat
  BY DayNumberParts
<1>4. CASE a.year < b.year
  <2>1. DayNumber(a) <= PastYears(a.year + 1) /\ PastYears(b.year) < DayNumber(b)
    BY WithinYear
  <2>2. a.year + 1 \in Nat \ {0} /\ a.year + 1 <= b.year
    BY <1>1, <1>4
  <2>3. PastYears(a.year + 1) <= PastYears(b.year) /\ PastYears(a.year + 1) \in Nat
    BY <1>1, <2>2, PastYearsMonotone, PastYearsNext
  <2> QED
    BY <1>2, <1>3, <2>1, <2>3
<1>5. CASE a.year = b.year /\ a.month < b.month
  <2>1. a.month + 1 \in 1 .. 12 /\ a.month + 1 <= b.month /\ a.month # 12
    BY <1>1, <1>5
  <2>2. PastMonths(a.year, a.month + 1) <= PastMonths(a.year, b.month)
    BY <1>1, <2>1, PastMonthsMonotone
  <2>3. /\ DaysInMonth(a.year, a.month) \in 28 .. 31
        /\ PastMonths(a.year, a.month) + DaysInMonth(a.year, a.month)
             = PastMonths(a.year, a.month + 1)
    BY <1>1, <2>1, MonthSteps
  <2> QED
    BY <1>1, <1>2, <1>3, <1>5, <2>2, <2>3
<1>6. CASE a.year = b.year /\ a.month = b.month /\ a.day < b.day
  BY <1>1, <1>2, <1>3, <1>6
<1> QED
  BY <1>4, <1>5, <1>6 DEF Before

LEMMA DatesCompare ==
  ASSUME NEW a, NEW b, IsDate(a), IsDate(b)
  PROVE  a = b \/ Before(a, b) \/ Before(b, a)
<1>1. /\ a.year \in Nat /\ a.month \in Nat /\ a.day \in Nat
      /\ b.year \in Nat /\ b.month \in Nat /\ b.day \in Nat
      /\ a = Date(a.year, a.month, a.day) /\ b = Date(b.year, b.month, b.day)
  BY DateFields
<1>2. a.year = b.year /\ a.month = b.month /\ a.day = b.day => a = b
  BY <1>1
<1> QED
  BY <1>1, <1>2 DEF Before

(* A date is before another exactly when its number is smaller, and no two *)
(* dates have one number.                                                  *)
LEMMA OrderOfDates ==
  ASSUME NEW a, NEW b, IsDate(a), IsDate(b)
  PROVE  /\ Before(a, b) <=> DayNumber(a) < DayNumber(b)
         /\ a = b <=> DayNumber(a) = DayNumber(b)
<1>1. DayNumber(a) \in Nat /\ DayNumber(b) \in Nat
  BY DayNumberParts
<1>2. Before(a, b) => DayNumber(a) < DayNumber(b)
  BY BeforeIsSmaller
<1>3. Before(b, a) => DayNumber(b) < DayNumber(a)
  BY BeforeIsSmaller
<1>4. a = b \/ Before(a, b) \/ Before(b, a)
  BY DatesCompare
<1>5. a = b => DayNumber(a) = DayNumber(b)
  OBVIOUS
<1>6. DayNumber(a) < DayNumber(b) => Before(a, b)
  BY <1>1, <1>3, <1>4, <1>5
<1>7. DayNumber(a) = DayNumber(b) => a = b
  BY <1>1, <1>2, <1>3, <1>4
<1>8. Before(a, b) <=> DayNumber(a) < DayNumber(b)
  BY <1>2, <1>6, Zenon
<1> QED
  BY <1>5, <1>7, <1>8

(* The Sunday of a date's week has the next multiple of seven.             *)
LEMMA SundayNumber ==
  ASSUME NEW date, IsDate(date)
  PROVE  /\ IsDate(SundayOf(date))
         /\ DayNumber(SundayOf(date)) = 7 * ((DayNumber(date) + 6) \div 7)
         /\ DayNumber(SundayOf(date)) \in Nat
<1> DEFINE n == DayNumber(date)
<1>1. n \in Nat \ {0}
  BY DayNumberParts
<1>2. 7 - IsoWeekday(date) \in Nat
  BY <1>1 DEF IsoWeekday
<1>3. IsDate(SundayOf(date)) /\ DayNumber(SundayOf(date)) = n + (7 - IsoWeekday(date))
  BY <1>2, AddDaysNumber DEF SundayOf
<1>4. n + (7 - (((n - 1) % 7) + 1)) = 7 * ((n + 6) \div 7)
  <2> HIDE DEF n
  <2> QED
    BY <1>1
<1> QED
  BY <1>1, <1>2, <1>3, <1>4 DEF IsoWeekday

(* Of three dates in order, the middle one is in the week, or the year and *)
(* month, of the outer ones when those share it.                           *)
LEMMA WeeksAreIntervals ==
  ASSUME NEW a, NEW b, NEW c, IsDate(a), IsDate(b), IsDate(c),
         DayNumber(a) <= DayNumber(b), DayNumber(b) <= DayNumber(c),
         SundayOf(a) = SundayOf(c)
  PROVE  SundayOf(b) = SundayOf(a)
<1>1. DayNumber(a) \in Nat /\ DayNumber(b) \in Nat /\ DayNumber(c) \in Nat
  BY DayNumberParts
<1>2. /\ IsDate(SundayOf(a)) /\ IsDate(SundayOf(b))
      /\ DayNumber(SundayOf(a)) = 7 * ((DayNumber(a) + 6) \div 7)
      /\ DayNumber(SundayOf(b)) = 7 * ((DayNumber(b) + 6) \div 7)
      /\ DayNumber(SundayOf(a)) = 7 * ((DayNumber(c) + 6) \div 7)
  BY SundayNumber
<1>3. DayNumber(SundayOf(b)) = DayNumber(SundayOf(a))
  BY <1>1, <1>2
<1> QED
  BY <1>2, <1>3, OrderOfDates

LEMMA YearsInOrder ==
  ASSUME NEW a, NEW b, IsDate(a), IsDate(b), DayNumber(a) <= DayNumber(b)
  PROVE  a.year <= b.year /\ (a.year = b.year => a.month <= b.month)
<1>1. /\ a.year \in Nat /\ b.year \in Nat /\ a.month \in Nat /\ b.month \in Nat
      /\ DayNumber(a) \in Nat /\ DayNumber(b) \in Nat
  BY DateFields, DayNumberParts
<1>2. ~ Before(b, a)
  BY <1>1, OrderOfDates
<1> QED
  BY <1>1, <1>2 DEF Before

LEMMA MonthsAreIntervals ==
  ASSUME NEW a, NEW b, NEW c, IsDate(a), IsDate(b), IsDate(c),
         DayNumber(a) <= DayNumber(b), DayNumber(b) <= DayNumber(c),
         a.year = c.year
  PROVE  b.year = a.year /\ (a.month = c.month => b.month = a.month)
<1>1. /\ a.year \in Nat /\ b.year \in Nat /\ c.year \in Nat
      /\ a.month \in Nat /\ b.month \in Nat /\ c.month \in Nat
  BY DateFields
<1>2. a.year <= b.year /\ (a.year = b.year => a.month <= b.month)
  BY YearsInOrder
<1>3. b.year <= c.year /\ (b.year = c.year => b.month <= c.month)
  BY YearsInOrder
<1> QED
  BY <1>1, <1>2, <1>3
-----------------------------------------------------------------------------
(* Calendar windows *)

MonthOf(date) == date.year * 12 + date.month - 1

Smaller(a, b) == IF a > b THEN b ELSE a

LEMMA ClampedDate ==
  ASSUME NEW year \in Nat \ {0}, NEW month \in 1 .. 12, NEW day \in Nat \ {0}
  PROVE  /\ IsDate(Clamped(year, month, day))
         /\ Clamped(year, month, day).year = year /\ Clamped(year, month, day).month = month
         /\ Clamped(year, month, day).day = Smaller(day, DaysInMonth(year, month))
<1>1. DaysInMonth(year, month) \in 28 .. 31
  BY MonthSteps
<1>2. Clamped(year, month, day) = Date(year, month, Smaller(day, DaysInMonth(year, month)))
  BY DEF Clamped, Smaller
<1>3. Smaller(day, DaysInMonth(year, month)) \in 1 .. DaysInMonth(year, month)
  BY <1>1 DEF Smaller
<1>4. IsDate(Date(year, month, Smaller(day, DaysInMonth(year, month))))
  BY <1>3, MakesDate
<1> QED
  BY <1>2, <1>4 DEF Date

LEMMA AddMonthsDate ==
  ASSUME NEW date, IsDate(date), NEW months \in Nat
  PROVE  /\ IsDate(AddMonths(date, months))
         /\ MonthOf(AddMonths(date, months)) = MonthOf(date) + months
         /\ AddMonths(date, months).day
              = Smaller(date.day, DaysInMonth(AddMonths(date, months).year, AddMonths(date, months).month))
<1> DEFINE total == date.year * 12 + date.month - 1 + months
           year  == total \div 12
           month == (total % 12) + 1
<1>1. date.year \in Nat \ {0} /\ date.month \in 1 .. 12 /\ date.day \in Nat \ {0}
  BY DateFields
<1>2. year \in Nat \ {0} /\ month \in 1 .. 12 /\ year * 12 + month - 1 = total
  <2>1. total \in Nat /\ total >= 12
    BY <1>1
  <2> HIDE DEF total
  <2> QED
    BY <2>1
<1>3. AddMonths(date, months) = Clamped(year, month, date.day)
  BY DEF AddMonths
<1>4. total = MonthOf(date) + months
  BY DEF MonthOf
<1> HIDE DEF year, month, total
<1>5. /\ IsDate(Clamped(year, month, date.day))
      /\ Clamped(year, month, date.day).year = year /\ Clamped(year, month, date.day).month = month
      /\ Clamped(year, month, date.day).day = Smaller(date.day, DaysInMonth(year, month))
  BY <1>1, <1>2, ClampedDate
<1> QED
  BY <1>2, <1>3, <1>4, <1>5 DEF MonthOf

LEMMA AddYearsDate ==
  ASSUME NEW date, IsDate(date), NEW years \in Nat
  PROVE  /\ IsDate(AddYears(date, years))
         /\ AddYears(date, years).year = date.year + years /\ AddYears(date, years).month = date.month
         /\ AddYears(date, years).day = Smaller(date.day, DaysInMonth(date.year + years, date.month))
<1>1. date.year + years \in Nat \ {0} /\ date.month \in 1 .. 12 /\ date.day \in Nat \ {0}
  BY DateFields
<1> QED
  BY <1>1, ClampedDate DEF AddYears

LEMMA MonthsDiffer ==
  ASSUME NEW a, NEW b, IsDate(a), IsDate(b)
  PROVE  /\ MonthOf(a) \in Nat
         /\ MonthOf(a) < MonthOf(b) => Before(a, b)
         /\ MonthOf(a) = MonthOf(b) => a.year = b.year /\ a.month = b.month
<1>1. /\ a.year \in Nat /\ a.month \in 1 .. 12 /\ b.year \in Nat /\ b.month \in 1 .. 12
      /\ a.year \in Nat \ {0}
  BY DateFields
<1> QED
  BY <1>1 DEF MonthOf, Before

LEMMA LengthsOfMonth ==
  ASSUME NEW y \in Nat \ {0}, NEW z \in Nat \ {0}, NEW month \in 1 .. 12
  PROVE  DaysInMonth(y, month) <= DaysInMonth(z, month) + 1
<1>1. month \in {1, 2, 3, 4, 5, 6, 7, 8, 9, 10, 11, 12}
  OBVIOUS
<1> QED
  BY <1>1 DEF DaysInMonth, MonthLengths

(* A test's boundary is at most a day after the first day of the test of a *)
(* later anchor: a step as long as a test, and the days clamped on the way *)
(* differ by that of a leap year.                                          *)
LEMMA BoundaryBeforeTest ==
  ASSUME NEW a, NEW b, IsDate(a), IsDate(b), NEW years \in Nat, NEW months \in Nat,
         b = AddMonths(a, months) \/ MonthOf(a) + months < MonthOf(b)
  PROVE  /\ IsDate(TestBoundary(a, years, months)) /\ IsDate(AddYears(b, years))
         /\ DayNumber(TestBoundary(a, years, months)) <= DayNumber(AddYears(b, years)) + 1
<1> DEFINE begin == AddYears(b, years)
           mid   == AddYears(a, years)
           end   == AddMonths(mid, months)
<1>1. /\ IsDate(begin)
      /\ begin.year = b.year + years /\ begin.month = b.month
      /\ begin.day = Smaller(b.day, DaysInMonth(b.year + years, b.month))
  BY AddYearsDate
<1>2. /\ IsDate(mid)
      /\ mid.year = a.year + years /\ mid.month = a.month
      /\ mid.day = Smaller(a.day, DaysInMonth(a.year + years, a.month))
  BY AddYearsDate
<1> HIDE DEF begin, mid
<1>3. /\ IsDate(end) /\ MonthOf(end) = MonthOf(mid) + months
      /\ end.day = Smaller(mid.day, DaysInMonth(end.year, end.month))
  BY <1>2, AddMonthsDate
<1> HIDE DEF end
<1>4. /\ a.year \in Nat \ {0} /\ a.month \in 1 .. 12 /\ a.day \in 1 .. 31
      /\ b.year \in Nat \ {0} /\ b.month \in 1 .. 12 /\ b.day \in 1 .. 31
  BY DateFields
<1>5. MonthOf(mid) = MonthOf(a) + 12 * years /\ MonthOf(begin) = MonthOf(b) + 12 * years
  BY <1>1, <1>2, <1>4 DEF MonthOf
<1>6. DayNumber(begin) \in Nat /\ DayNumber(end) \in Nat
  BY <1>1, <1>3, DayNumberParts
<1>7. MonthOf(a) \in Nat /\ MonthOf(b) \in Nat
  BY MonthsDiffer
<1>8. ASSUME MonthOf(a) + months < MonthOf(b)
      PROVE  DayNumber(end) <= DayNumber(begin) + 1
  <2>1. MonthOf(end) < MonthOf(begin)
    BY <1>3, <1>5, <1>7, <1>8
  <2>2. Before(end, begin)
    BY <1>1, <1>3, <2>1, MonthsDiffer
  <2>3. DayNumber(end) < DayNumber(begin)
    BY <1>1, <1>3, <2>2, OrderOfDates
  <2> QED
    BY <1>6, <2>3
<1>9. ASSUME b = AddMonths(a, months)
      PROVE  DayNumber(end) <= DayNumber(begin) + 1
  <2>1. MonthOf(b) = MonthOf(a) + months /\ b.day = Smaller(a.day, DaysInMonth(b.year, b.month))
    BY <1>9, AddMonthsDate
  <2>2. MonthOf(end) = MonthOf(begin)
    BY <1>3, <1>5, <1>7, <2>1
  <2>3. end.year = begin.year /\ end.month = begin.month
    BY <1>1, <1>3, <2>2, MonthsDiffer
  <2>4. /\ DaysInMonth(a.year + years, a.month) \in 28 .. 31
        /\ DaysInMonth(b.year + years, b.month) \in 28 .. 31
        /\ DaysInMonth(b.year, b.month) \in 28 .. 31
        /\ DaysInMonth(b.year + years, b.month) <= DaysInMonth(b.year, b.month) + 1
    <3>1. a.year + years \in Nat \ {0} /\ b.year + years \in Nat \ {0}
      BY <1>4
    <3> QED
      BY <1>4, <3>1, MonthSteps, LengthsOfMonth
  <2>5. end.day <= begin.day + 1
    BY <1>1, <1>2, <1>3, <1>4, <2>1, <2>3, <2>4 DEF Smaller
  <2>6. /\ DayNumber(end) = PastYears(end.year) + PastMonths(end.year, end.month) + end.day
        /\ DayNumber(begin) = PastYears(begin.year) + PastMonths(begin.year, begin.month) + begin.day
        /\ PastYears(begin.year) \in Nat /\ PastMonths(begin.year, begin.month) \in Nat
    BY <1>1, <1>3, DayNumberParts
  <2>7. end.day \in Nat /\ begin.day \in Nat
    BY <1>1, <1>3, DateFields
  <2> QED
    BY <2>3, <2>5, <2>6, <2>7
<1>10. DayNumber(end) <= DayNumber(begin) + 1
  BY <1>8, <1>9
<1> QED
  BY <1>1, <1>3, <1>10 DEF TestBoundary, begin, mid, end

(* Sessions before a date no later than the day after another.             *)
LEMMA FirstAtOrAfterDay ==
  ASSUME NEW bars, IsHistory(bars), NEW d, NEW e, IsDate(d), IsDate(e),
         DayNumber(d) <= DayNumber(e) + 1
  PROVE  /\ FirstAtOrAfter(bars, d) \in Nat /\ FirstAtOrAfter(bars, e) \in Nat
         /\ FirstAtOrAfter(bars, d) <= FirstAtOrAfter(bars, e) + 1
<1> DEFINE until(x) == {i \in DOMAIN bars : Before(bars[i], x)}
           extra == until(d) \ until(e)
<1>1. bars \in Seq(CivilDates)
  BY DEF IsHistory
<1>2. Len(bars) \in Nat /\ DOMAIN bars = 1 .. Len(bars) /\ \A i \in DOMAIN bars : IsDate(bars[i])
  BY <1>1 DEF IsDate
<1>3. IsFiniteSet(1 .. Len(bars))
  BY <1>2, FS_Interval
<1>4. \A x : IsFiniteSet(until(x)) /\ Cardinality(until(x)) \in Nat
  <2> SUFFICES ASSUME NEW x PROVE IsFiniteSet(until(x)) /\ Cardinality(until(x)) \in Nat
    OBVIOUS
  <2>1. until(x) \in SUBSET (1 .. Len(bars))
    BY <1>2
  <2> HIDE DEF until
  <2> QED
    BY <1>3, <2>1, FS_Subset, FS_CardinalityType
<1>5. \A i \in DOMAIN bars : DayNumber(bars[i]) \in Nat
  BY <1>2, DayNumberParts
<1>6. DayNumber(d) \in Nat /\ DayNumber(e) \in Nat
  BY DayNumberParts
<1>7. \A i \in extra : i \in DOMAIN bars /\ DayNumber(bars[i]) = DayNumber(e)
  <2> SUFFICES ASSUME NEW i \in DOMAIN bars, Before(bars[i], d), ~ Before(bars[i], e)
               PROVE  DayNumber(bars[i]) = DayNumber(e)
    OBVIOUS
  <2>1. DayNumber(bars[i]) < DayNumber(d) /\ ~ DayNumber(bars[i]) < DayNumber(e)
    BY <1>2, OrderOfDates
  <2> QED
    BY <1>5, <1>6, <2>1
<1>8. ASSUME NEW i \in extra, NEW j \in extra PROVE i = j
  <2>1. bars[i] = bars[j] /\ i \in DOMAIN bars /\ j \in DOMAIN bars
    BY <1>2, <1>7, OrderOfDates
  <2>2. ~ Before(bars[i], bars[j]) /\ ~ Before(bars[j], bars[i])
    BY <1>2, <1>5, <2>1, OrderOfDates
  <2>3. ~ i < j /\ ~ j < i
    BY <2>1, <2>2 DEF IsHistory
  <2> QED
    BY <1>2, <2>1, <2>3
<1>9. IsFiniteSet(extra) /\ Cardinality(extra) \in Nat /\ Cardinality(extra) <= 1
  <2>1. IsFiniteSet(extra) /\ Cardinality(extra) \in Nat
    <3> HIDE DEF until
    <3> QED
      BY <1>4, FS_Difference, FS_CardinalityType
  <2>2. CASE extra = {}
    BY <2>1, <2>2, FS_EmptySet
  <2>3. CASE extra # {}
    <3>1. PICK i : i \in extra
      BY <2>3
    <3>2. \A j \in extra : j = i
      BY <1>8, <3>1
    <3> HIDE DEF extra
    <3>3. extra = {i}
      BY <3>1, <3>2
    <3>4. Cardinality({i}) = 1
      BY FS_Singleton
    <3> QED
      BY <2>1, <3>3, <3>4
  <2> QED
    BY <2>1, <2>2, <2>3
<1>10. until(d) \in SUBSET (until(e) \cup extra)
  OBVIOUS
<1> HIDE DEF extra, until
<1>11. /\ IsFiniteSet(until(e) \cup extra)
       /\ Cardinality(until(e) \cup extra) <= Cardinality(until(e)) + 1
  <2>1. /\ IsFiniteSet(until(e) \cup extra)
        /\ Cardinality(until(e) \cup extra)
             = Cardinality(until(e)) + Cardinality(extra) - Cardinality(until(e) \cap extra)
    BY <1>4, <1>9, FS_Union
  <2>2. Cardinality(until(e) \cap extra) \in Nat
    BY <1>4, FS_Intersection, FS_CardinalityType
  <2> QED
    BY <1>4, <1>9, <2>1, <2>2
<1>12. Cardinality(until(d)) <= Cardinality(until(e) \cup extra)
  BY <1>10, <1>11, FS_Subset
<1>13. Cardinality(until(d)) \in Nat /\ Cardinality(until(e)) \in Nat /\ Cardinality(until(e) \cup extra) \in Nat
  BY <1>4, <1>11, FS_CardinalityType
<1> QED
  BY <1>11, <1>12, <1>13 DEF FirstAtOrAfter, until

IsAnchors(anchor, date, months, n) ==
  anchor = [i \in 0 .. n |-> IF i = 0 THEN date ELSE AddMonths(anchor[i - 1], months)]

LEMMA AnchorsExist ==
  ASSUME NEW date, NEW months, NEW n \in Nat
  PROVE  \E anchor : IsAnchors(anchor, date, months, n)
<1> DEFINE S == {k \in Nat : \E anchor : IsAnchors(anchor, date, months, k)}
<1>1. 0 \in S
  <2> DEFINE g == [j \in 0 .. 0 |-> date]
  <2>1. IsAnchors(g, date, months, 0)
    BY DEF IsAnchors
  <2> QED
    BY <2>1
<1>2. ASSUME NEW k \in Nat, k \in S PROVE k + 1 \in S
  <2>1. PICK g : IsAnchors(g, date, months, k)
    BY <1>2
  <2> DEFINE h == [j \in 0 .. k + 1 |-> IF j = k + 1 THEN AddMonths(g[k], months) ELSE g[j]]
  <2>2. ASSUME NEW j \in 0 .. k + 1 PROVE h[j] = IF j = 0 THEN date ELSE AddMonths(h[j - 1], months)
    <3>1. CASE j = k + 1
      <4>1. h[j] = AddMonths(g[k], months) /\ h[j - 1] = g[k] /\ j # 0
        BY <3>1
      <4> HIDE DEF h
      <4> QED
        BY <4>1
    <3>2. CASE j # k + 1
      <4>1. j \in 0 .. k /\ h[j] = g[j] /\ (j # 0 => h[j - 1] = g[j - 1])
        BY <3>2
      <4>2. g[j] = IF j = 0 THEN date ELSE AddMonths(g[j - 1], months)
        BY <2>1, <4>1 DEF IsAnchors
      <4> HIDE DEF h
      <4> QED
        BY <4>1, <4>2
    <3> QED
      BY <3>1, <3>2
  <2>3. IsAnchors(h, date, months, k + 1)
    <3>1. h = [j \in 0 .. k + 1 |-> h[j]]
      OBVIOUS
    <3> HIDE DEF h
    <3> QED
      BY <2>2, <3>1 DEF IsAnchors
  <2> HIDE DEF h
  <2> QED
    BY <2>3
<1> HIDE DEF S
<1>3. \A k \in Nat : k \in S
  BY <1>1, <1>2, InductionOnSets
<1> QED
  BY <1>3 DEF S

LEMMA MonthsUntil ==
  ASSUME NEW a, NEW b, IsDate(a), IsDate(b), a = b \/ Before(a, b)
  PROVE  (b.year - a.year) * 12 + b.month - a.month \in Nat
<1>1. a.year \in Nat /\ a.month \in 1 .. 12 /\ b.year \in Nat /\ b.month \in 1 .. 12
  BY DateFields
<1>2. CASE a = b
  BY <1>1, <1>2
<1>3. CASE Before(a, b)
  <2>1. a.year < b.year \/ (a.year = b.year /\ a.month <= b.month)
    BY <1>1, <1>3 DEF Before
  <2> QED
    BY <1>1, <2>1
<1> QED
  BY <1>2, <1>3

LEMMA AnchorsDefined ==
  ASSUME NEW bars, IsHistory(bars), NEW step \in Nat \ {0}
  PROVE  \E most \in Nat : IsAnchors(Anchors(bars, step), bars[1], step, most) /\ IsDate(bars[1])
<1> DEFINE final == bars[Len(bars)]
           span  == (final.year - bars[1].year) * 12 + final.month - bars[1].month
           most  == span \div step
           loop == CHOOSE anchor : anchor = [i \in 0 .. most |-> IF i = 0 THEN bars[1] ELSE AddMonths(anchor[i - 1], step)]
<1>1. bars \in Seq(CivilDates) /\ bars # <<>>
  BY DEF IsHistory
<1>2. 1 \in DOMAIN bars /\ Len(bars) \in DOMAIN bars /\ Len(bars) \in Nat
  BY <1>1
<1>3. IsDate(bars[1]) /\ IsDate(final)
  BY <1>1, <1>2 DEF IsDate
<1>4. bars[1] = final \/ Before(bars[1], final)
  <2>1. CASE Len(bars) = 1
    BY <2>1
  <2>2. CASE 1 < Len(bars)
    BY <1>2, <2>2 DEF IsHistory
  <2> QED
    BY <1>1, <1>2, <2>1, <2>2
<1>6. span \in Nat
  <2> HIDE DEF final
  <2> QED
    BY <1>3, <1>4, MonthsUntil
<1>7. most \in Nat
  <2> HIDE DEF span
  <2> QED
    BY <1>6
<1>8. Anchors(bars, step) = loop
  BY Zenon DEF Anchors
<1> HIDE DEF most
<1>9. \E anchor : anchor = [i \in 0 .. most |-> IF i = 0 THEN bars[1] ELSE AddMonths(anchor[i - 1], step)]
  <2>1. \E anchor : IsAnchors(anchor, bars[1], step, most)
    BY <1>7, AnchorsExist
  <2> QED
    BY <2>1, Zenon DEF IsAnchors
<1>10. loop = [i \in 0 .. most |-> IF i = 0 THEN bars[1] ELSE AddMonths(loop[i - 1], step)]
  BY <1>9, Zenon
<1> HIDE DEF loop
<1>11. IsAnchors(loop, bars[1], step, most)
  BY <1>10 DEF IsAnchors
<1> QED
  BY <1>3, <1>7, <1>8, <1>11

LEMMA AnchorSteps ==
  ASSUME NEW anchor, NEW date, IsDate(date), NEW step \in Nat, NEW most \in Nat,
         IsAnchors(anchor, date, step, most)
  PROVE  /\ DOMAIN anchor = 0 .. most
         /\ \A i \in 1 .. most : anchor[i] = AddMonths(anchor[i - 1], step)
         /\ \A i \in 0 .. most : IsDate(anchor[i])
<1>1. /\ DOMAIN anchor = 0 .. most /\ anchor[0] = date
      /\ \A i \in 1 .. most : anchor[i] = AddMonths(anchor[i - 1], step)
  BY DEF IsAnchors
<1> DEFINE S == {i \in Nat : i <= most => IsDate(anchor[i])}
<1>2. 0 \in S
  BY <1>1
<1>3. ASSUME NEW i \in Nat, i \in S PROVE i + 1 \in S
  <2>1. ASSUME i + 1 <= most PROVE IsDate(anchor[i + 1])
    <3>1. i + 1 \in 1 .. most /\ (i + 1) - 1 = i /\ IsDate(anchor[i])
      BY <1>3, <2>1
    <3>2. anchor[i + 1] = AddMonths(anchor[i], step)
      BY <1>1, <3>1
    <3> QED
      BY <3>1, <3>2, AddMonthsDate
  <2> QED
    BY <2>1
<1> HIDE DEF S
<1>4. \A i \in Nat : i \in S
  BY <1>2, <1>3, InductionOnSets
<1> QED
  BY <1>1, <1>4 DEF S

(* A later anchor is the next, or more than a step of months later.        *)
LEMMA AnchorsInOrder ==
  ASSUME NEW anchor, NEW date, IsDate(date), NEW step \in Nat \ {0}, NEW most \in Nat,
         IsAnchors(anchor, date, step, most), NEW i \in 0 .. most, NEW j \in 0 .. most, i < j
  PROVE  anchor[j] = AddMonths(anchor[i], step) \/ MonthOf(anchor[i]) + step < MonthOf(anchor[j])
<1>1. /\ \A k \in 1 .. most : anchor[k] = AddMonths(anchor[k - 1], step)
      /\ \A k \in 0 .. most : IsDate(anchor[k])
  BY AnchorSteps
<1>2. \A k \in 1 .. most : MonthOf(anchor[k]) = MonthOf(anchor[k - 1]) + step
  <2> SUFFICES ASSUME NEW k \in 1 .. most PROVE MonthOf(anchor[k]) = MonthOf(anchor[k - 1]) + step
    OBVIOUS
  <2>1. k - 1 \in 0 .. most
    OBVIOUS
  <2>2. anchor[k] = AddMonths(anchor[k - 1], step) /\ IsDate(anchor[k - 1])
    BY <1>1, <2>1
  <2> QED
    BY <2>2, AddMonthsDate
<1>3. \A k \in 0 .. most : MonthOf(anchor[k]) \in Nat
  BY <1>1, MonthsDiffer
<1> DEFINE P(n) == MonthOf(anchor[i]) + step < MonthOf(anchor[i + 2 + n])
           S == {n \in Nat : i + 2 + n <= most => P(n)}
<1>4. 0 \in S
  <2>1. ASSUME i + 2 <= most PROVE MonthOf(anchor[i]) + step < MonthOf(anchor[i + 2])
    <3>1. i \in 0 .. most /\ i + 1 \in 1 .. most /\ i + 2 \in 1 .. most /\ (i + 1) - 1 = i /\ (i + 2) - 1 = i + 1
      BY <2>1
    <3>2. MonthOf(anchor[i + 2]) = MonthOf(anchor[i + 1]) + step /\ MonthOf(anchor[i + 1]) = MonthOf(anchor[i]) + step
      BY <1>2, <3>1
    <3>3. MonthOf(anchor[i]) \in Nat
      BY <1>3, <3>1
    <3> QED
      BY <3>2, <3>3
  <2> QED
    BY <2>1
<1>5. ASSUME NEW n \in Nat, n \in S PROVE n + 1 \in S
  <2>1. ASSUME i + 2 + (n + 1) <= most PROVE P(n + 1)
    <3> DEFINE k == i + 2 + n
    <3>1. k + 1 \in 1 .. most /\ k \in 0 .. most /\ (k + 1) - 1 = k /\ i + 2 + (n + 1) = k + 1
      BY <2>1
    <3>2. P(n)
      BY <1>5, <2>1
    <3>3. MonthOf(anchor[k + 1]) = MonthOf(anchor[k]) + step
      BY <1>2, <3>1
    <3>4. MonthOf(anchor[k]) \in Nat /\ MonthOf(anchor[i]) \in Nat
      BY <1>3, <3>1
    <3>5. MonthOf(anchor[i]) + step < MonthOf(anchor[k + 1])
      BY <3>2, <3>3, <3>4
    <3> QED
      BY <3>1, <3>5
  <2> HIDE DEF P
  <2> QED
    BY <2>1
<1> HIDE DEF S
<1>6. \A n \in Nat : n \in S
  BY <1>4, <1>5, InductionOnSets
<1>7. CASE j = i + 1
  <2>1. j \in 1 .. most /\ j - 1 = i
    BY <1>7
  <2> QED
    BY <1>1, <2>1
<1>8. CASE j # i + 1
  <2>1. j - i - 2 \in Nat /\ i + 2 + (j - i - 2) = j
    BY <1>8
  <2>2. j - i - 2 \in S
    BY <1>6, <2>1
  <2>3. P(j - i - 2)
    BY <2>1, <2>2 DEF S
  <2> QED
    BY <2>1, <2>3
<1> QED
  BY <1>7, <1>8

(* Windows by calendar durations, tests no longer than the step: a window's *)
(* test ends no later than the first session of the next one's.            *)
LEMMA TestsApart ==
  ASSUME NEW bars, IsHistory(bars), NEW years \in Nat, NEW months \in Nat, NEW step \in Nat \ {0},
         NEW windows, windows = CalendarDurations(bars, years, months, step)
  PROVE  /\ \E n \in Nat : DOMAIN windows = 1 .. n
         /\ \A v \in DOMAIN windows :
              windows[v].test[1] \in Nat /\ windows[v].test[2] \in Int
         /\ months <= step =>
              \A v, u \in DOMAIN windows : v < u => windows[v].test[2] <= windows[u].test[1]
<1> DEFINE A == Anchors(bars, step)
           K == Kept(bars, years, months, step)
           kept == InOrder(K)
<1>1. PICK most \in Nat : IsAnchors(A, bars[1], step, most) /\ IsDate(bars[1])
  BY AnchorsDefined
<1>2. DOMAIN A = 0 .. most /\ \A i \in 0 .. most : IsDate(A[i])
  BY <1>1, AnchorSteps
<1>3. K \in SUBSET (0 .. most)
  BY <1>2 DEF Kept
<1>4. IsFiniteSet(K)
  <2>1. IsFiniteSet(0 .. most)
    BY FS_Interval
  <2> HIDE DEF K
  <2> QED
    BY <1>3, <2>1, FS_Subset
<1>5. K \subseteq Int
  BY <1>3
<1>6. windows = [n \in DOMAIN kept |-> WindowFrom(bars, A[kept[n]], years, months)]
  BY DEF CalendarDurations
<1> HIDE DEF K, A
<1>7. /\ Cardinality(K) \in Nat /\ DOMAIN kept = 1 .. Cardinality(K)
      /\ \A n \in DOMAIN kept : kept[n] \in K
      /\ \A n, m \in DOMAIN kept : n < m <=> kept[n] < kept[m]
  BY <1>4, <1>5, InOrderOfSet
<1> HIDE DEF kept
<1>8. DOMAIN windows = DOMAIN kept
  BY <1>6
<1> DEFINE begin(v) == FirstAtOrAfter(bars, AddYears(A[kept[v]], years))
           after(v) == FirstAtOrAfter(bars, TestBoundary(A[kept[v]], years, months))
<1>9. \A v \in DOMAIN windows : windows[v].test = <<begin(v), after(v) - 1>>
  <2>1. \A v \in DOMAIN windows : windows[v] = WindowFrom(bars, A[kept[v]], years, months)
    BY <1>6
  <2> QED
    BY <2>1 DEF WindowFrom, Window
<1>10. ASSUME NEW v \in DOMAIN windows
       PROVE  IsDate(A[kept[v]]) /\ kept[v] \in 0 .. most
  BY <1>2, <1>3, <1>7, <1>8
<1>11. ASSUME NEW v \in DOMAIN windows
       PROVE  begin(v) \in Nat /\ after(v) \in Nat
  <2>1. IsDate(AddYears(A[kept[v]], years))
    BY <1>10, AddYearsDate
  <2>2. IsDate(TestBoundary(A[kept[v]], years, months))
    BY <2>1, AddMonthsDate DEF TestBoundary
  <2>3. \A d : IsDate(d) => FirstAtOrAfter(bars, d) \in Nat
    <3> SUFFICES ASSUME NEW d, IsDate(d) PROVE FirstAtOrAfter(bars, d) \in Nat
      OBVIOUS
    <3>1. DayNumber(d) \in Nat
      BY DayNumberParts
    <3>2. DayNumber(d) <= DayNumber(d) + 1
      BY <3>1
    <3> QED
      BY <3>2, FirstAtOrAfterDay
  <2> QED
    BY <2>1, <2>2, <2>3
<1>12. ASSUME months <= step, NEW v \in DOMAIN windows, NEW u \in DOMAIN windows, v < u
       PROVE  after(v) - 1 <= begin(u)
  <2> DEFINE a == A[kept[v]]
             b == A[kept[u]]
  <2>1. kept[v] < kept[u]
    BY <1>7, <1>8, <1>12
  <2>2. IsDate(a) /\ IsDate(b) /\ kept[v] \in 0 .. most /\ kept[u] \in 0 .. most
    BY <1>10
  <2>3. b = AddMonths(a, step) \/ MonthOf(a) + step < MonthOf(b)
    BY <1>1, <2>1, <2>2, AnchorsInOrder
  <2>4. MonthOf(a) \in Nat /\ MonthOf(b) \in Nat
    BY <2>2, MonthsDiffer
  <2>5. b = AddMonths(a, months) \/ MonthOf(a) + months < MonthOf(b)
    <3>1. CASE months = step
      BY <2>3, <3>1
    <3>2. CASE months < step
      <4>1. b = AddMonths(a, step) => MonthOf(b) = MonthOf(a) + step
        BY <2>2, AddMonthsDate
      <4> QED
        BY <2>3, <2>4, <3>2, <4>1
    <3> QED
      BY <1>12, <3>1, <3>2
  <2> HIDE DEF a, b
  <2>6. /\ IsDate(TestBoundary(a, years, months)) /\ IsDate(AddYears(b, years))
        /\ DayNumber(TestBoundary(a, years, months)) <= DayNumber(AddYears(b, years)) + 1
    BY <2>2, <2>5, BoundaryBeforeTest
  <2>7. FirstAtOrAfter(bars, TestBoundary(a, years, months)) <= FirstAtOrAfter(bars, AddYears(b, years)) + 1
    BY <2>6, FirstAtOrAfterDay
  <2> QED
    BY <1>11, <2>7 DEF a, b
<1> HIDE DEF begin, after
<1>13. \A v \in DOMAIN windows : windows[v].test[1] = begin(v) /\ windows[v].test[2] = after(v) - 1
  BY <1>9
<1> QED
  BY <1>7, <1>8, <1>11, <1>12, <1>13

(* The sessions before the first one at or after a date are those whose    *)
(* date is before it.                                                      *)
LEMMA FirstAtOrAfterIs ==
  ASSUME NEW h, IsHistory(h), NEW d, IsDate(d)
  PROVE  /\ FirstAtOrAfter(h, d) \in 1 .. Len(h) + 1
         /\ \A s \in DOMAIN h : s < FirstAtOrAfter(h, d) <=> Before(h[s], d)
<1> DEFINE S == {i \in DOMAIN h : Before(h[i], d)}
           N == Len(h)
<1>1. h \in Seq(CivilDates) /\ N \in Nat /\ DOMAIN h = 1 .. N /\ \A i \in 1 .. N : IsDate(h[i])
  BY DEF IsHistory, IsDate
<1>2. S \in SUBSET (1 .. N)
  BY <1>1
<1>3. \A i \in S, j \in 1 .. N : j < i => j \in S
  <2> SUFFICES ASSUME NEW i \in 1 .. N, Before(h[i], d), NEW j \in 1 .. N, j < i PROVE Before(h[j], d)
    BY <1>1
  <2>1. Before(h[j], h[i])
    BY <1>1 DEF IsHistory
  <2>2. DayNumber(h[j]) < DayNumber(h[i]) /\ DayNumber(h[i]) < DayNumber(d)
    BY <1>1, <2>1, OrderOfDates
  <2>3. DayNumber(h[j]) \in Nat /\ DayNumber(h[i]) \in Nat /\ DayNumber(d) \in Nat
    BY <1>1, DayNumberParts
  <2>4. DayNumber(h[j]) < DayNumber(d)
    BY <2>2, <2>3
  <2> QED
    BY <1>1, <2>4, OrderOfDates
<1>4. Cardinality(S) \in Nat /\ S = 1 .. Cardinality(S)
  <2> HIDE DEF S, N
  <2> QED
    BY <1>1, <1>2, <1>3, InitialSegment
<1>5. FirstAtOrAfter(h, d) = 1 + Cardinality(S)
  BY DEF FirstAtOrAfter
<1>6. \A s \in 1 .. N : s \in S <=> Before(h[s], d)
  BY <1>1
<1> HIDE DEF S, N
<1>7. Cardinality(S) <= N
  BY <1>1, <1>2, <1>4
<1>8. \A s \in 1 .. N : s < 1 + Cardinality(S) <=> s \in S
  BY <1>1, <1>4
<1> QED
  BY <1>1, <1>4, <1>5, <1>6, <1>7, <1>8 DEF N

(* A test's boundary is the first day of the next anchor's test, except    *)
(* where one is the 28th and the other the 29th of February.               *)
LEMMA BoundaryMeetsTest ==
  ASSUME NEW a, IsDate(a), NEW years \in Nat, NEW months \in Nat
  PROVE  LET d == AddYears(AddMonths(a, months), years)
             e == TestBoundary(a, years, months)
         IN /\ IsDate(d) /\ IsDate(e)
            /\ e.year = d.year /\ e.month = d.month
            /\ e # d => a.day > 28 /\ e.day \in {28, 29} /\ d.day \in {28, 29}
<1> DEFINE b   == AddMonths(a, months)
           d   == AddYears(b, years)
           mid == AddYears(a, years)
           e   == AddMonths(mid, months)
<1>1. /\ IsDate(b) /\ MonthOf(b) = MonthOf(a) + months
      /\ b.day = Smaller(a.day, DaysInMonth(b.year, b.month))
  BY AddMonthsDate
<1> HIDE DEF b
<1>2. /\ IsDate(d) /\ d.year = b.year + years /\ d.month = b.month
      /\ d.day = Smaller(b.day, DaysInMonth(b.year + years, b.month))
  BY <1>1, AddYearsDate
<1>3. /\ IsDate(mid) /\ mid.year = a.year + years /\ mid.month = a.month
      /\ mid.day = Smaller(a.day, DaysInMonth(a.year + years, a.month))
  BY AddYearsDate
<1> HIDE DEF d, mid
<1>4. /\ IsDate(e) /\ MonthOf(e) = MonthOf(mid) + months
      /\ e.day = Smaller(mid.day, DaysInMonth(e.year, e.month))
  BY <1>3, AddMonthsDate
<1> HIDE DEF e
<1>5. /\ a.year \in Nat \ {0} /\ a.month \in 1 .. 12 /\ a.day \in 1 .. DaysInMonth(a.year, a.month)
      /\ b.year \in Nat \ {0} /\ b.month \in 1 .. 12
  BY <1>1, DateFields
<1>6. MonthOf(mid) = MonthOf(a) + 12 * years /\ MonthOf(d) = MonthOf(b) + 12 * years
  BY <1>2, <1>3, <1>5 DEF MonthOf
<1>7. MonthOf(a) \in Nat /\ MonthOf(b) \in Nat
  BY <1>1, MonthsDiffer
<1>8. MonthOf(e) = MonthOf(d)
  BY <1>1, <1>4, <1>6, <1>7
<1>9. e.year = d.year /\ e.month = d.month
  BY <1>2, <1>4, <1>8, MonthsDiffer
<1> DEFINE A == DaysInMonth(a.year, a.month)
           Am == DaysInMonth(a.year + years, a.month)
           B == DaysInMonth(b.year, b.month)
           Bm == DaysInMonth(b.year + years, b.month)
<1>10. a.year + years \in Nat \ {0} /\ b.year + years \in Nat \ {0}
  BY <1>5
<1>11. /\ A \in 28 .. 31 /\ Am \in 28 .. 31 /\ B \in 28 .. 31 /\ Bm \in 28 .. 31
       /\ (A = Am \/ (A \in {28, 29} /\ Am \in {28, 29}))
       /\ (B = Bm \/ (B \in {28, 29} /\ Bm \in {28, 29}))
  <2>1. \A y, z \in Nat \ {0}, m \in 1 .. 12 :
          /\ DaysInMonth(y, m) \in 28 .. 31
          /\ \/ DaysInMonth(y, m) = DaysInMonth(z, m)
             \/ DaysInMonth(y, m) \in {28, 29} /\ DaysInMonth(z, m) \in {28, 29}
    <3> TAKE y, z \in Nat \ {0}, m \in 1 .. 12
    <3>1. m \in {1, 2, 3, 4, 5, 6, 7, 8, 9, 10, 11, 12}
      OBVIOUS
    <3> QED
      BY <3>1 DEF DaysInMonth, MonthLengths
  <2> QED
    BY <1>5, <1>10, <2>1
<1>12. /\ a.day \in 1 .. A
       /\ b.day = Smaller(a.day, B) /\ d.day = Smaller(b.day, Bm)
       /\ mid.day = Smaller(a.day, Am) /\ e.day = Smaller(mid.day, Bm)
  BY <1>1, <1>2, <1>3, <1>4, <1>5, <1>9
<1> HIDE DEF A, Am, B, Bm
<1>13. e.day = d.day \/ (a.day > 28 /\ e.day \in {28, 29} /\ d.day \in {28, 29})
  BY <1>11, <1>12 DEF Smaller
<1>14. e.day = d.day => e = d
  BY <1>2, <1>4, <1>9, DateFields
<1>15. /\ IsDate(d) /\ IsDate(e)
       /\ e.year = d.year /\ e.month = d.month
       /\ e # d => a.day > 28 /\ e.day \in {28, 29} /\ d.day \in {28, 29}
  BY <1>2, <1>4, <1>9, <1>13, <1>14
<1> QED
  BY <1>15 DEF TestBoundary, b, d, e, mid

(* The anchors' days never grow.                                           *)
LEMMA DaysShrink ==
  ASSUME NEW anchor, NEW date, IsDate(date), NEW step \in Nat, NEW most \in Nat,
         IsAnchors(anchor, date, step, most), NEW i \in 0 .. most
  PROVE  anchor[i].day > 28 => date.day > 28
<1>1. /\ anchor[0] = date
      /\ \A k \in 1 .. most : anchor[k] = AddMonths(anchor[k - 1], step)
      /\ \A k \in 0 .. most : IsDate(anchor[k])
  <2>1. anchor[0] = date
    BY DEF IsAnchors
  <2> QED
    BY <2>1, AnchorSteps
<1> DEFINE S == {k \in Nat : k <= most => anchor[k].day <= date.day}
<1>2. date.day \in Nat /\ \A k \in 0 .. most : anchor[k].day \in Nat
  BY <1>1, DateFields
<1>3. 0 \in S
  BY <1>1, <1>2
<1>4. ASSUME NEW k \in Nat, k \in S PROVE k + 1 \in S
  <2>1. ASSUME k + 1 <= most PROVE anchor[k + 1].day <= date.day
    <3>1. k + 1 \in 1 .. most /\ (k + 1) - 1 = k /\ k \in 0 .. most /\ k + 1 \in 0 .. most
      BY <2>1
    <3>2. anchor[k + 1] = AddMonths(anchor[k], step) /\ IsDate(anchor[k])
      BY <1>1, <3>1
    <3>3. AddMonths(anchor[k], step).day
            = Smaller(anchor[k].day,
                      DaysInMonth(AddMonths(anchor[k], step).year, AddMonths(anchor[k], step).month))
      BY <3>2, AddMonthsDate
    <3>4. anchor[k + 1].day = Smaller(anchor[k].day, DaysInMonth(anchor[k + 1].year, anchor[k + 1].month))
      BY <3>2, <3>3
    <3>5. DaysInMonth(anchor[k + 1].year, anchor[k + 1].month) \in 28 .. 31
      <4>1. anchor[k + 1].year \in Nat \ {0} /\ anchor[k + 1].month \in 1 .. 12
        BY <1>1, <3>1, DateFields
      <4> QED
        BY <4>1, MonthSteps
    <3>6. anchor[k].day <= date.day /\ anchor[k].day \in Nat
      BY <1>2, <1>4, <3>1
    <3> QED
      BY <1>2, <3>4, <3>5, <3>6 DEF Smaller
  <2> QED
    BY <2>1
<1> HIDE DEF S
<1>5. i \in S
  BY <1>3, <1>4, InductionOnSets
<1> QED
  BY <1>2, <1>5 DEF S

(* The first session tested from an anchor, and the one after the last.    *)
Begin(h, anchor, years) == FirstAtOrAfter(h, AddYears(anchor, years))
After(h, anchor, years, months) == FirstAtOrAfter(h, TestBoundary(anchor, years, months))

(* The session is a 28th, and the history starts after one: dates were     *)
(* clamped.                                                                *)
Odd(h, s) == h[1].day > 28 /\ h[s].day = 28

(* Where a boundary and the beginning of the next test differ, the session *)
(* between them is a 28th.                                                 *)
LEMMA BetweenIsOdd ==
  ASSUME NEW h, IsHistory(h), NEW d, NEW e, IsDate(d), IsDate(e),
         e.year = d.year, e.month = d.month,
         e # d => e.day \in {28, 29} /\ d.day \in {28, 29},
         NEW s \in DOMAIN h,
         (FirstAtOrAfter(h, d) <= s /\ s < FirstAtOrAfter(h, e))
           \/ (FirstAtOrAfter(h, e) <= s /\ s < FirstAtOrAfter(h, d))
  PROVE  e # d /\ h[s].day = 28
<1>1. h \in Seq(CivilDates) /\ s \in Nat /\ IsDate(h[s])
  BY DEF IsHistory, IsDate
<1>2. /\ FirstAtOrAfter(h, d) \in Nat /\ FirstAtOrAfter(h, e) \in Nat
      /\ s < FirstAtOrAfter(h, d) <=> Before(h[s], d)
      /\ s < FirstAtOrAfter(h, e) <=> Before(h[s], e)
  <2>1. Len(h) \in Nat
    BY <1>1
  <2>2. FirstAtOrAfter(h, d) \in 1 .. Len(h) + 1 /\ FirstAtOrAfter(h, e) \in 1 .. Len(h) + 1
    BY FirstAtOrAfterIs
  <2>3. s < FirstAtOrAfter(h, d) <=> Before(h[s], d)
    BY FirstAtOrAfterIs
  <2>4. s < FirstAtOrAfter(h, e) <=> Before(h[s], e)
    BY FirstAtOrAfterIs
  <2> QED
    BY <2>1, <2>2, <2>3, <2>4
<1>3. e # d
  BY <1>1, <1>2
<1>4. /\ d.year \in Nat /\ d.month \in Nat /\ d.day \in Nat
      /\ e.year \in Nat /\ e.month \in Nat /\ e.day \in Nat
      /\ h[s].year \in Nat /\ h[s].month \in Nat /\ h[s].day \in Nat
  <2>1. \A x : IsDate(x) => x.year \in Nat /\ x.month \in Nat /\ x.day \in Nat
    BY DateFields
  <2> QED
    BY <1>1, <2>1
<1>5. (Before(h[s], e) /\ ~ Before(h[s], d)) \/ (Before(h[s], d) /\ ~ Before(h[s], e))
  BY <1>1, <1>2
<1>6. e.day \in {28, 29} /\ d.day \in {28, 29}
  BY <1>3
<1>7. CASE Before(h[s], e) /\ ~ Before(h[s], d)
  BY <1>4, <1>6, <1>7 DEF Before
<1>8. CASE Before(h[s], d) /\ ~ Before(h[s], e)
  BY <1>4, <1>6, <1>8 DEF Before
<1> QED
  BY <1>3, <1>5, <1>7, <1>8

(* The tests of anchors a step as long as a test apart.                    *)
LEMMA TestsOfAnchors ==
  ASSUME NEW h, IsHistory(h), NEW years \in Nat, NEW months \in Nat \ {0}, NEW most \in Nat,
         NEW A, IsAnchors(A, h[1], months, most), IsDate(h[1])
  PROVE  /\ \A i \in 0 .. most : /\ Begin(h, A[i], years) \in 1 .. Len(h) + 1
                                 /\ After(h, A[i], years, months) \in 1 .. Len(h) + 1
         /\ \A i, j \in 0 .. most, s \in DOMAIN h :
              /\ i < j /\ Begin(h, A[j], years) <= s /\ s < After(h, A[i], years, months)
              => j = i + 1 /\ Odd(h, s)
         /\ \A i \in 0 .. most, s \in DOMAIN h :
              /\ i + 1 <= most
              /\ After(h, A[i], years, months) <= s /\ s < Begin(h, A[i + 1], years)
              => Odd(h, s)
<1> DEFINE d(i) == AddYears(A[i], years)
           e(i) == TestBoundary(A[i], years, months)
<1>1. \A i \in 0 .. most : IsDate(A[i]) /\ IsDate(d(i)) /\ IsDate(e(i))
  <2> SUFFICES ASSUME NEW i \in 0 .. most PROVE IsDate(A[i]) /\ IsDate(d(i)) /\ IsDate(e(i))
    OBVIOUS
  <2>1. IsDate(A[i])
    BY AnchorSteps
  <2>2. IsDate(AddYears(A[i], years))
    BY <2>1, AddYearsDate
  <2>3. IsDate(TestBoundary(A[i], years, months))
    BY <2>2, AddMonthsDate DEF TestBoundary
  <2> QED
    BY <2>1, <2>2, <2>3
<1>2. /\ \A i \in 0 .. most : Begin(h, A[i], years) = FirstAtOrAfter(h, d(i))
      /\ \A i \in 0 .. most : After(h, A[i], years, months) = FirstAtOrAfter(h, e(i))
  BY DEF Begin, After
<1>3. ASSUME NEW i \in 0 .. most, NEW j \in 0 .. most, j = i + 1
      PROVE  /\ e(i).year = d(j).year /\ e(i).month = d(j).month
             /\ e(i) # d(j) => h[1].day > 28 /\ e(i).day \in {28, 29} /\ d(j).day \in {28, 29}
  <2>1. A[j] = AddMonths(A[i], months)
    <3>1. j \in 1 .. most /\ j - 1 = i
      BY <1>3
    <3>2. \A k \in 1 .. most : A[k] = AddMonths(A[k - 1], months)
      BY AnchorSteps
    <3>3. A[j] = AddMonths(A[j - 1], months)
      BY <3>1, <3>2
    <3> QED
      BY <3>1, <3>3
  <2>2. /\ e(i).year = d(j).year /\ e(i).month = d(j).month
        /\ e(i) # d(j) => A[i].day > 28 /\ e(i).day \in {28, 29} /\ d(j).day \in {28, 29}
    <3> DEFINE b == AddYears(AddMonths(A[i], months), years)
    <3>0. IsDate(A[i]) /\ months \in Nat
      BY <1>1
    <3>1. /\ e(i).year = b.year /\ e(i).month = b.month
          /\ e(i) # b => A[i].day > 28 /\ e(i).day \in {28, 29} /\ b.day \in {28, 29}
      <4>1. LET next == AddYears(AddMonths(A[i], months), years)
                end  == TestBoundary(A[i], years, months)
            IN /\ IsDate(next) /\ IsDate(end)
               /\ end.year = next.year /\ end.month = next.month
               /\ end # next => A[i].day > 28 /\ end.day \in {28, 29} /\ next.day \in {28, 29}
        BY <3>0, BoundaryMeetsTest, Zenon
      <4> QED
        BY <4>1, Zenon
    <3>2. d(j) = b
      BY <2>1
    <3> HIDE DEF b, d, e
    <3> QED
      BY <3>1, <3>2, Zenon
  <2>3. A[i].day > 28 => h[1].day > 28
    BY DaysShrink
  <2> QED
    BY <2>2, <2>3
<1>4. ASSUME NEW i \in 0 .. most, NEW j \in 0 .. most, i < j, j # i + 1
      PROVE  Before(e(i), d(j))
  <2>1. A[j] = AddMonths(A[i], months) \/ MonthOf(A[i]) + months < MonthOf(A[j])
    BY <1>4, AnchorsInOrder
  <2> DEFINE m == MonthOf(A[i + 1])
  <2>2. i + 1 \in 0 .. most /\ i + 1 < j /\ i + 1 \in 1 .. most /\ (i + 1) - 1 = i
    BY <1>4
  <2>3. MonthOf(A[i + 1]) = MonthOf(A[i]) + months
    <3>1. A[i + 1] = AddMonths(A[i], months)
      BY <2>2, AnchorSteps
    <3> QED
      BY <1>1, <3>1, AddMonthsDate
  <2>4. A[j] = AddMonths(A[i + 1], months) \/ MonthOf(A[i + 1]) + months < MonthOf(A[j])
    BY <2>2, AnchorsInOrder
  <2>5. MonthOf(A[i + 1]) \in Nat /\ MonthOf(A[j]) \in Nat /\ MonthOf(A[i]) \in Nat
    BY <1>1, <2>2, MonthsDiffer
  <2>6. A[j] = AddMonths(A[i + 1], months) => MonthOf(A[j]) = MonthOf(A[i + 1]) + months
    BY <1>1, <2>2, AddMonthsDate
  <2>7. MonthOf(A[i]) + months < MonthOf(A[j])
    BY <2>3, <2>4, <2>5, <2>6
  <2>8. MonthOf(e(i)) = MonthOf(A[i]) + 12 * years + months
    <3>1. IsDate(d(i)) /\ d(i).year = A[i].year + years /\ d(i).month = A[i].month
      BY <1>1, AddYearsDate
    <3>2. MonthOf(e(i)) = MonthOf(d(i)) + months
      BY <3>1, AddMonthsDate DEF TestBoundary
    <3>3. A[i].year \in Nat /\ A[i].month \in Nat
      BY <1>1, DateFields
    <3>4. MonthOf(d(i)) = MonthOf(A[i]) + 12 * years
      <4> HIDE DEF d
      <4> QED
        BY <3>1, <3>3 DEF MonthOf
    <3> QED
      BY <3>2, <3>4
  <2>9. MonthOf(d(j)) = MonthOf(A[j]) + 12 * years
    <3>1. d(j).year = A[j].year + years /\ d(j).month = A[j].month
      BY <1>1, AddYearsDate
    <3>2. A[j].year \in Nat /\ A[j].month \in Nat
      BY <1>1, DateFields
    <3> HIDE DEF d
    <3> QED
      BY <3>1, <3>2 DEF MonthOf
  <2>10. MonthOf(e(i)) < MonthOf(d(j))
    BY <2>5, <2>7, <2>8, <2>9
  <2> QED
    BY <1>1, <2>10, MonthsDiffer
<1>5. ASSUME NEW i \in 0 .. most
      PROVE  /\ Begin(h, A[i], years) \in 1 .. Len(h) + 1
             /\ After(h, A[i], years, months) \in 1 .. Len(h) + 1
  BY <1>1, FirstAtOrAfterIs DEF Begin, After
<1> HIDE DEF d, e
<1>6. ASSUME NEW i \in 0 .. most, NEW j \in 0 .. most, NEW s \in DOMAIN h,
             i < j, Begin(h, A[j], years) <= s, s < After(h, A[i], years, months)
      PROVE  j = i + 1 /\ Odd(h, s)
  <2>1. FirstAtOrAfter(h, d(j)) <= s /\ s < FirstAtOrAfter(h, e(i))
    BY <1>2, <1>6
  <2>2. j = i + 1
    <3> SUFFICES ASSUME j # i + 1 PROVE FALSE
      OBVIOUS
    <3>1. Before(e(i), d(j))
      BY <1>4, <1>6
    <3>2. Before(h[s], e(i)) /\ ~ Before(h[s], d(j))
      <4>1. s < FirstAtOrAfter(h, e(i)) <=> Before(h[s], e(i))
        BY <1>1, FirstAtOrAfterIs
      <4>2. s < FirstAtOrAfter(h, d(j)) <=> Before(h[s], d(j))
        BY <1>1, FirstAtOrAfterIs
      <4>3. FirstAtOrAfter(h, d(j)) \in Nat /\ s \in Nat
        <5>1. Len(h) \in Nat /\ s \in 1 .. Len(h)
          BY DEF IsHistory
        <5> QED
          BY <1>2, <1>5, <5>1
      <4> QED
        BY <2>1, <4>1, <4>2, <4>3
    <3>3. IsDate(h[s])
      BY DEF IsHistory, IsDate
    <3>4. /\ DayNumber(h[s]) < DayNumber(e(i)) /\ DayNumber(e(i)) < DayNumber(d(j))
          /\ ~ DayNumber(h[s]) < DayNumber(d(j))
      BY <1>1, <3>1, <3>2, <3>3, OrderOfDates
    <3>5. DayNumber(h[s]) \in Nat /\ DayNumber(e(i)) \in Nat /\ DayNumber(d(j)) \in Nat
      BY <1>1, <3>3, DayNumberParts
    <3> QED
      BY <3>4, <3>5
  <2>3. e(i) # d(j) /\ h[s].day = 28
    BY <1>1, <1>3, <2>1, <2>2, BetweenIsOdd
  <2> QED
    BY <1>3, <2>2, <2>3 DEF Odd
<1>7. ASSUME NEW i \in 0 .. most, NEW s \in DOMAIN h, i + 1 <= most,
             After(h, A[i], years, months) <= s, s < Begin(h, A[i + 1], years)
      PROVE  Odd(h, s)
  <2> DEFINE j == i + 1
  <2>1. j \in 0 .. most /\ j = i + 1
    BY <1>7
  <2>2. FirstAtOrAfter(h, e(i)) <= s /\ s < FirstAtOrAfter(h, d(j))
    BY <1>2, <1>7, <2>1
  <2> HIDE DEF j
  <2>3. e(i) # d(j) /\ h[s].day = 28
    BY <1>1, <1>3, <2>1, <2>2, BetweenIsOdd
  <2> QED
    BY <1>3, <2>1, <2>3 DEF Odd
<1> QED
  BY <1>5, <1>6, <1>7

(* The session is tested from some anchor that has none to train on.       *)
Dropped(h, years, months, s) ==
  \E i \in DOMAIN Anchors(h, months) :
    LET window == WindowFrom(h, Anchors(h, months)[i], years, months)
    IN In(window.test, s) /\ Observations(window.train) <= 0

TestedIn(windows, s) == {v \in DOMAIN windows : In(windows[v].test, s)}

LEMMA WindowFields ==
  ASSUME NEW h, NEW anchor, NEW years, NEW months
  PROVE  LET window == WindowFrom(h, anchor, years, months)
         IN /\ window.test = <<Begin(h, anchor, years), After(h, anchor, years, months) - 1>>
            /\ window.test[1] = Begin(h, anchor, years)
            /\ window.test[2] = After(h, anchor, years, months) - 1
            /\ window.train = <<FirstAtOrAfter(h, anchor), Begin(h, anchor, years) - 1>>
            /\ window.train[1] = FirstAtOrAfter(h, anchor)
            /\ window.train[2] = Begin(h, anchor, years) - 1
BY DEF WindowFrom, Window, Begin, After

(* Tests a step apart: the sessions from the first tested to the last.     *)
LEMMA SessionsInWindows ==
  ASSUME NEW h, IsHistory(h), NEW years \in Nat, NEW months \in Nat \ {0},
         NEW windows, windows = CalendarDurations(h, years, months, months), windows # <<>>,
         NEW s \in windows[1].test[1] .. windows[Len(windows)].test[2]
  PROVE  \/ Cardinality(TestedIn(windows, s)) = 1
         \/ Cardinality(TestedIn(windows, s)) = 2 /\ Odd(h, s)
         \/ TestedIn(windows, s) = {} /\ (Odd(h, s) \/ Dropped(h, years, months, s))
<1> DEFINE A == Anchors(h, months)
           K == Kept(h, years, months, months)
           kept == InOrder(K)
           N == Cardinality(K)
           B(i) == Begin(h, A[i], years)
           F(i) == After(h, A[i], years, months)
           test(i) == B(i) <= s /\ s < F(i)
           V == TestedIn(windows, s)
<1>1. PICK most \in Nat : IsAnchors(A, h[1], months, most) /\ IsDate(h[1])
  BY AnchorsDefined
<1>2. DOMAIN A = 0 .. most /\ \A i \in 0 .. most : IsDate(A[i])
  <2>1. DOMAIN A = 0 .. most
    BY <1>1, AnchorSteps
  <2>2. \A i \in 0 .. most : IsDate(A[i])
    BY <1>1, AnchorSteps
  <2> QED
    BY <2>1, <2>2
<1>3. K \in SUBSET (0 .. most)
  BY <1>2 DEF Kept
<1>4. IsFiniteSet(K)
  <2>1. IsFiniteSet(0 .. most)
    BY FS_Interval
  <2> HIDE DEF K
  <2> QED
    BY <1>3, <2>1, FS_Subset
<1>5. windows = [n \in DOMAIN kept |-> WindowFrom(h, A[kept[n]], years, months)]
  BY DEF CalendarDurations
<1>6. \A i \in K : \A j \in 0 .. i : ~ Before(h[Len(h)], TestBoundary(A[j], years, months))
  BY DEF Kept
<1>7. \A i \in 0 .. most :
        /\ \A j \in 0 .. i : ~ Before(h[Len(h)], TestBoundary(A[j], years, months))
        /\ Observations(WindowFrom(h, A[i], years, months).train) > 0
        /\ Observations(WindowFrom(h, A[i], years, months).test) > 0
        => i \in K
  BY <1>2 DEF Kept
<1> HIDE DEF K
<1>8. /\ N \in Nat /\ DOMAIN kept = 1 .. N
      /\ \A n \in 1 .. N : kept[n] \in K
      /\ \A n, m \in 1 .. N : n < m <=> kept[n] < kept[m]
      /\ \A i \in K : \E n \in 1 .. N : kept[n] = i
  <2>1. K \subseteq Int
    BY <1>3
  <2> QED
    BY <1>4, <2>1, InOrderOfSet
<1>9. /\ \A i \in 0 .. most : B(i) \in 1 .. Len(h) + 1 /\ F(i) \in 1 .. Len(h) + 1
      /\ \A i, j \in 0 .. most, t \in DOMAIN h : i < j /\ B(j) <= t /\ t < F(i) => j = i + 1 /\ Odd(h, t)
      /\ \A i \in 0 .. most, t \in DOMAIN h : i + 1 <= most /\ F(i) <= t /\ t < B(i + 1) => Odd(h, t)
  <2> HIDE DEF A
  <2>1. \A i \in 0 .. most : B(i) \in 1 .. Len(h) + 1 /\ F(i) \in 1 .. Len(h) + 1
    BY <1>1, TestsOfAnchors
  <2>2. \A i, j \in 0 .. most, t \in DOMAIN h : i < j /\ B(j) <= t /\ t < F(i) => j = i + 1 /\ Odd(h, t)
    BY <1>1, TestsOfAnchors
  <2>3. \A i \in 0 .. most, t \in DOMAIN h : i + 1 <= most /\ F(i) <= t /\ t < B(i + 1) => Odd(h, t)
    BY <1>1, TestsOfAnchors
  <2> QED
    BY <2>1, <2>2, <2>3
<1> HIDE DEF N, kept
<1>10. /\ DOMAIN windows = 1 .. N
       /\ \A v \in 1 .. N : windows[v] = WindowFrom(h, A[kept[v]], years, months)
  BY <1>5, <1>8
<1>11. Len(windows) = N /\ N # 0
  <2>1. windows \in Seq({windows[v] : v \in 1 .. N})
    <3>1. windows = [v \in 1 .. N |-> windows[v]]
      BY <1>5, <1>8, <1>10
    <3> QED
      BY <1>8, <3>1
  <2>2. Len(windows) = N
    BY <1>8, <1>10, <2>1
  <2> QED
    BY <2>1, <2>2
<1>12. \A v \in 1 .. N : windows[v].test[1] = B(kept[v]) /\ windows[v].test[2] = F(kept[v]) - 1
  BY <1>10, WindowFields
<1> DEFINE first == kept[1]
           last == kept[N]
<1>13. /\ first \in K /\ last \in K /\ first \in 0 .. most /\ last \in 0 .. most
       /\ \A v \in 1 .. N : kept[v] \in 0 .. most /\ first <= kept[v] /\ kept[v] <= last
  <2>1. 1 \in 1 .. N /\ N \in 1 .. N
    BY <1>8, <1>11
  <2>2. \A v \in 1 .. N : kept[v] \in 0 .. most
    BY <1>3, <1>8
  <2>3. ASSUME NEW v \in 1 .. N PROVE first <= kept[v] /\ kept[v] <= last
    <3>0. N \in Nat
      BY <1>8
    <3>1. first <= kept[v]
      <4>1. CASE v = 1
        BY <2>2, <4>1
      <4>2. CASE 1 < v
        BY <1>8, <2>1, <2>2, <4>2
      <4> QED
        BY <4>1, <4>2
    <3>2. kept[v] <= last
      <4>1. CASE v = N
        BY <2>2, <4>1
      <4>2. CASE v < N
        BY <1>8, <2>1, <2>2, <4>2
      <4> QED
        BY <3>0, <4>1, <4>2
    <3> QED
      BY <3>1, <3>2
  <2> QED
    BY <1>8, <2>1, <2>2, <2>3
<1>14. /\ s \in Int /\ B(first) <= s /\ s < F(last) /\ s \in DOMAIN h
       /\ \A i \in 0 .. most : B(i) \in Nat /\ F(i) \in Nat
  <2>1. Len(h) \in Nat /\ DOMAIN h = 1 .. Len(h)
    BY DEF IsHistory
  <2>2. 1 \in 1 .. N /\ N \in 1 .. N
    BY <1>8, <1>11
  <2>3. windows[1].test[1] = B(first) /\ windows[Len(windows)].test[2] = F(last) - 1
    BY <1>11, <1>12, <2>2
  <2>4. \A i \in 0 .. most : B(i) \in 1 .. Len(h) + 1 /\ F(i) \in 1 .. Len(h) + 1
    BY <1>9
  <2>5. s \in B(first) .. F(last) - 1
    BY <2>3
  <2>6. B(first) \in 1 .. Len(h) + 1 /\ F(last) \in 1 .. Len(h) + 1
    BY <1>13, <2>4
  <2>7. \A b, e \in 1 .. Len(h) + 1 : \A t \in b .. e - 1 :
          t \in Int /\ b <= t /\ t < e /\ t \in 1 .. Len(h)
    BY <2>1
  <2>8. \A i \in 0 .. most : B(i) \in Nat /\ F(i) \in Nat
    BY <2>1, <2>4
  <2> HIDE DEF B, F, first, last
  <2> QED
    BY <2>1, <2>5, <2>6, <2>7, <2>8
<1>15. Odd(h, s) \/ \E i \in 0 .. most : first <= i /\ i <= last /\ test(i)
  <2> DEFINE found(j) == \E i \in 0 .. most : first <= i /\ i <= j /\ test(i)
             S == {j \in Nat : first <= j /\ j <= last /\ s < F(j) => Odd(h, s) \/ found(j)}
  <2> HIDE DEF first, last, B, F
  <2>1. 0 \in S
    <3>1. ASSUME first <= 0, s < F(0) PROVE first = 0 /\ test(0)
      BY <1>13, <1>14, <3>1
    <3> QED
      BY <1>13, <3>1
  <2>2. ASSUME NEW j \in Nat, j \in S PROVE j + 1 \in S
    <3>1. ASSUME first <= j + 1, j + 1 <= last, s < F(j + 1) PROVE Odd(h, s) \/ found(j + 1)
      <4>1. j + 1 \in 0 .. most /\ j \in 0 .. most /\ j + 1 <= most
        BY <1>13, <3>1
      <4>2. B(j + 1) \in Nat /\ F(j) \in Nat
        BY <1>14, <4>1
      <4>3. CASE B(j + 1) <= s
        BY <3>1, <4>1, <4>3
      <4>4. CASE s < B(j + 1) /\ F(j) <= s
        BY <1>9, <1>14, <4>1, <4>4
      <4>5. CASE s < B(j + 1) /\ s < F(j)
        <5>1. first # j + 1
          BY <1>13, <1>14, <4>2, <4>5
        <5>2. first <= j /\ j <= last
          BY <1>13, <3>1, <5>1
        <5>3. Odd(h, s) \/ found(j)
          BY <2>2, <4>5, <5>2
        <5>4. found(j) => found(j + 1)
          BY <1>13
        <5> QED
          BY <5>3, <5>4
      <4> QED
        BY <1>14, <4>2, <4>3, <4>4, <4>5
    <3> HIDE DEF found
    <3> QED
      BY <3>1
  <2> HIDE DEF S
  <2>3. last \in S
    BY <1>13, <2>1, <2>2, InductionOnSets
  <2>4. first <= last
    BY <1>8, <1>11, <1>13
  <2> QED
    BY <1>13, <1>14, <2>3, <2>4 DEF S
<1>16. \A v \in 1 .. N : v \in V <=> test(kept[v])
  <2> SUFFICES ASSUME NEW v \in 1 .. N PROVE v \in V <=> test(kept[v])
    OBVIOUS
  <2>1. F(kept[v]) \in Nat /\ B(kept[v]) \in Nat
    BY <1>13, <1>14
  <2>2. v \in V <=> B(kept[v]) <= s /\ s <= F(kept[v]) - 1
    BY <1>10, <1>12 DEF TestedIn, In
  <2> HIDE DEF V, B, F
  <2> QED
    BY <1>14, <2>1, <2>2
<1>17. V \in SUBSET (1 .. N)
  BY <1>10 DEF TestedIn
<1>18. ASSUME NEW i \in 0 .. most, first <= i, i <= last, test(i), i \notin K
       PROVE  Dropped(h, years, months, s)
  <2> DEFINE window == WindowFrom(h, A[i], years, months)
  <2>1. /\ window.test[1] = B(i) /\ window.test[2] = F(i) - 1
        /\ window.train[1] = FirstAtOrAfter(h, A[i]) /\ window.train[2] = B(i) - 1
    BY WindowFields
  <2>2. FirstAtOrAfter(h, A[i]) \in Nat
    <3>1. FirstAtOrAfter(h, A[i]) \in 1 .. Len(h) + 1
      BY <1>2, FirstAtOrAfterIs
    <3>2. Len(h) \in Nat
      BY DEF IsHistory
    <3> QED
      BY <3>1, <3>2
  <2>3. B(i) \in Nat /\ F(i) \in Nat /\ s \in Int
    BY <1>14
  <2> HIDE DEF window
  <2>4. In(window.test, s) /\ Observations(window.test) > 0
    <3> HIDE DEF B, F
    <3> QED
      BY <1>18, <2>1, <2>3 DEF In, Observations
  <2>5. \A j \in 0 .. i : ~ Before(h[Len(h)], TestBoundary(A[j], years, months))
    <3>1. \A j \in 0 .. i : j \in 0 .. last
      BY <1>13, <1>18
    <3> QED
      BY <1>6, <1>13, <3>1
  <2>6. ~ Observations(window.train) > 0
    BY <1>7, <1>18, <2>4, <2>5 DEF window
  <2>7. Observations(window.train) <= 0
    <3> HIDE DEF B, F
    <3> QED
      BY <2>1, <2>2, <2>3, <2>6 DEF Observations
  <2>8. i \in DOMAIN A
    BY <1>2
  <2> QED
    BY <2>4, <2>7, <2>8 DEF Dropped, window
<1>19. V = {} => Odd(h, s) \/ Dropped(h, years, months, s)
  <2> SUFFICES ASSUME V = {}, ~ Odd(h, s) PROVE Dropped(h, years, months, s)
    OBVIOUS
  <2>1. PICK i \in 0 .. most : first <= i /\ i <= last /\ test(i)
    BY <1>15
  <2>2. i \notin K
    BY <1>8, <1>16, <2>1
  <2> QED
    BY <1>18, <2>1, <2>2
<1>20. ASSUME NEW v \in V, NEW u \in V, v < u PROVE Odd(h, s) /\ kept[u] = kept[v] + 1
  <2>1. v \in 1 .. N /\ u \in 1 .. N
    BY <1>17
  <2>2. /\ test(kept[v]) /\ test(kept[u]) /\ kept[v] < kept[u]
        /\ kept[v] \in 0 .. most /\ kept[u] \in 0 .. most
    BY <1>8, <1>13, <1>16, <1>20, <2>1
  <2> QED
    BY <1>9, <1>14, <2>2
<1>21. ASSUME NEW v \in V, NEW u \in V, NEW x \in V, v < u PROVE x = v \/ x = u
  <2>1. v \in 1 .. N /\ u \in 1 .. N /\ x \in 1 .. N
    BY <1>17
  <2>2. kept[v] \in 0 .. most /\ kept[u] \in 0 .. most /\ kept[x] \in 0 .. most
    BY <1>13, <2>1
  <2>3. kept[u] = kept[v] + 1
    BY <1>20, <1>21
  <2>4. x < v => kept[u] = kept[x] + 1 /\ kept[v] = kept[x] + 1
    <3> SUFFICES ASSUME x < v PROVE kept[u] = kept[x] + 1 /\ kept[v] = kept[x] + 1
      OBVIOUS
    <3>1. x < u
      BY <1>21, <2>1
    <3> QED
      BY <1>20, <3>1
  <2>5. u < x => kept[x] = kept[u] + 1 /\ kept[x] = kept[v] + 1
    <3> SUFFICES ASSUME u < x PROVE kept[x] = kept[u] + 1 /\ kept[x] = kept[v] + 1
      OBVIOUS
    <3>1. v < x
      BY <1>21, <2>1
    <3> QED
      BY <1>20, <3>1
  <2>6. v < x /\ x < u => kept[x] = kept[v] + 1 /\ kept[u] = kept[x] + 1
    BY <1>20
  <2> QED
    BY <2>1, <2>2, <2>3, <2>4, <2>5, <2>6
<1> HIDE DEF V
<1>22. CASE V = {}
  BY <1>19, <1>22 DEF V
<1>23. CASE \E v \in V : V = {v}
  <2>1. PICK v \in V : V = {v}
    BY <1>23
  <2>2. Cardinality(V) = 1
    BY <2>1, FS_Singleton
  <2> QED
    BY <2>2 DEF V
<1>24. CASE \E v, u \in V : v < u
  <2>1. PICK v \in V, u \in V : v < u
    BY <1>24
  <2>2. V = {v} \cup {u}
    BY <1>21, <2>1
  <2>3. v \in Int /\ u \in Int /\ {v} \cap {u} = {}
    BY <1>8, <1>17, <2>1
  <2>4. /\ IsFiniteSet({v}) /\ IsFiniteSet({u}) /\ Cardinality({v}) = 1 /\ Cardinality({u}) = 1
        /\ Cardinality({}) = 0
    BY FS_Singleton, FS_EmptySet
  <2>5. Cardinality({v} \cup {u}) = Cardinality({v}) + Cardinality({u}) - Cardinality({v} \cap {u})
    BY <2>4, FS_Union
  <2>6. Cardinality({v} \cup {u}) = Cardinality({v}) + Cardinality({u}) - Cardinality({})
    BY <2>3, <2>5
  <2>7. Cardinality({v} \cup {u}) = 2
    BY <2>4, <2>6
  <2>8. Cardinality(V) = 2
    BY <2>2, <2>7
  <2> QED
    BY <1>20, <2>1, <2>8 DEF V
<1>25. V = {} \/ (\E v \in V : V = {v}) \/ (\E v, u \in V : v < u)
  <2>1. \A v, u \in V : v # u => v < u \/ u < v
    <3>1. N \in Nat
      BY <1>8
    <3>2. \A v, u \in 1 .. N : v # u => v < u \/ u < v
      BY <3>1
    <3> QED
      BY <1>17, <3>2
  <2> SUFFICES ASSUME V # {}, ~ \E v, u \in V : v < u PROVE \E v \in V : V = {v}
    OBVIOUS
  <2>2. PICK v : v \in V
    OBVIOUS
  <2>3. V = {v}
    BY <2>1, <2>2
  <2> QED
    BY <2>2, <2>3
<1> QED
  BY <1>22, <1>23, <1>24, <1>25
=============================================================================
