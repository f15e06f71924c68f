-------------------------- MODULE QuantitiesProofs --------------------------
(***************************************************************************)
(* What the arithmetic of Quantities guarantees: how far a rounded         *)
(* quotient is off; for every number of rows, the sum of a column, by      *)
(* rows, by parts and through a renumbering of its rows; the draw-down     *)
(* that takes from it; and the places that counting the smaller ones gives *)
(* to the elements of a finite set.                                        *)
(***************************************************************************)
EXTENDS Quantities, FiniteSetTheorems, TLAPS

\* The quotient with its remainder.
LEMMA Quotient ==
  ASSUME NEW a \in Nat, NEW b \in Nat \ {0}
  PROVE  /\ a \div b \in Nat
         /\ b * (a \div b) <= a
         /\ a < b * (a \div b) + b
OBVIOUS

\* Twice the error of a rounded quotient, times its divisor, is within the divisor.
LEMMA RoundedWithin ==
  ASSUME NEW n \in Nat, NEW d \in Nat \ {0}
  PROVE  /\ Rounded(n, d) \in Nat
         /\ - d <= 2 * (d * Rounded(n, d) - n)
         /\ 2 * (d * Rounded(n, d) - n) <= d
<1> DEFINE r == (2 * n + d) \div (2 * d)
<1>1. 2 * n + d \in Nat /\ 2 * d \in Nat \ {0}
  OBVIOUS
<1>2. r \in Nat /\ (2 * d) * r <= 2 * n + d /\ 2 * n + d < (2 * d) * r + 2 * d
  BY <1>1, Quotient
<1>3. (2 * d) * r = 2 * (d * r) /\ d * r \in Nat
  BY <1>2
<1> HIDE DEF r
<1>4. - d <= 2 * (d * r - n) /\ 2 * (d * r - n) <= d
  BY <1>2, <1>3
<1>5. Rounded(n, d) = r
  BY DEF Rounded, r
<1>6. QED
  BY <1>2, <1>4, <1>5

\* Rounding does not leave the interval between two integers.
LEMMA RoundedBetween ==
  ASSUME NEW n \in Nat, NEW d \in Nat \ {0}, NEW a \in Nat
  PROVE  /\ d * a <= n => a <= Rounded(n, d)
         /\ n <= d * a => Rounded(n, d) <= a
<1> DEFINE r == Rounded(n, d)
<1>1. r \in Nat /\ - d <= 2 * (d * r - n) /\ 2 * (d * r - n) <= d
  BY RoundedWithin
<1> HIDE DEF r
<1>2. ASSUME d * a <= n, ~ a <= r
      PROVE  FALSE
  <2>1. PICK e \in Nat : a = r + 1 + e
    <3>1. a - (r + 1) \in Nat /\ a = r + 1 + (a - (r + 1))
      BY <1>1, <1>2
    <3>2. QED
      BY <3>1
  <2>2. d * a = d * r + d + d * e /\ d * e \in Nat /\ d * r \in Nat
    BY <1>1, <2>1
  <2>3. QED
    BY <1>1, <1>2, <2>2
<1>3. ASSUME n <= d * a, ~ r <= a
      PROVE  FALSE
  <2>1. PICK e \in Nat : r = a + 1 + e
    <3>1. r - (a + 1) \in Nat /\ r = a + 1 + (r - (a + 1))
      BY <1>1, <1>3
    <3>2. QED
      BY <3>1
  <2>2. d * r = d * a + d + d * e /\ d * e \in Nat /\ d * a \in Nat
    BY <1>1, <2>1
  <2>3. QED
    BY <1>1, <1>3, <2>2
<1>4. QED
  BY <1>2, <1>3 DEF r

-----------------------------------------------------------------------------
\* A nonempty set of naturals has a least element.
LEMMA LeastNumber ==
  ASSUME NEW S \in SUBSET Nat, S # {}
  PROVE  \E m \in S : \A k \in S : m <= k
<1>. DEFINE T == {1..m : m \in S}
            R == StrictSubsetOrdering(Nat)
<1>1. T # {} /\ T \subseteq FiniteSubsetsOf(Nat)
  <2>1. \A m \in S : IsFiniteSet(1..m) /\ 1..m \subseteq Nat
    <3>1. \A m \in S : IsFiniteSet(1..m)
      BY FS_Interval
    <3>. QED
      BY <3>1
  <2>. QED
    BY <2>1 DEF FiniteSubsetsOf
<1>2. IsWellFoundedOn(R, FiniteSubsetsOf(Nat))
  BY FS_StrictSubsetOrderingWellFounded
<1>3. PICK x \in T : \A y \in T : ~ (<<y, x>> \in R)
  <2>. HIDE DEF R, T
  <2>. QED
    BY <1>1, <1>2, WFMin
<1>4. PICK m \in S : x = 1..m
  OBVIOUS
<1>5. ASSUME NEW k \in S, k < m
      PROVE  FALSE
  <2>1. 1..k \subseteq 1..m /\ 1..k # 1..m
    <3>1. m \in 1..m /\ m \notin 1..k
      BY <1>5
    <3>2. 1..k \subseteq 1..m
      BY <1>5
    <3>. QED
      BY <3>1, <3>2
  <2>2. 1..k \in T /\ 1..k \in SUBSET Nat /\ 1..m \in SUBSET Nat
    OBVIOUS
  <2>3. <<1..k, 1..m>> \in R
    BY <2>1, <2>2 DEF StrictSubsetOrdering
  <2>. QED
    BY <1>3, <1>4, <2>2, <2>3
<1>. QED
  BY <1>5

\* Induction over the naturals, for a set instead of a predicate.
LEMMA SetInduction ==
  ASSUME NEW S, 0 \in S, \A n \in Nat : n \in S => n + 1 \in S
  PROVE  \A n \in Nat : n \in S
<1>. DEFINE T == {n \in Nat : n \notin S}
<1>. SUFFICES ASSUME T # {} PROVE FALSE
  OBVIOUS
<1>1. PICK m \in T : \A k \in T : m <= k
  BY LeastNumber
<1>2. m \in Nat /\ m # 0
  OBVIOUS
<1>3. m - 1 \in Nat /\ m - 1 \in S
  BY <1>1, <1>2
<1>4. m \in S
  BY <1>2, <1>3
<1>. QED
  BY <1>4

-----------------------------------------------------------------------------
(***************************************************************************)
(* The recursive function behind Sum exists, so Sum obeys its recursion.   *)
(* The provers have no rule for recursive definitions on Nat, so the       *)
(* function is built from its initial segments Partial(g, n).              *)
(***************************************************************************)
SumStep(f, g, k) == IF k = 0 THEN 0 ELSE g[k - 1] + f[k]

Partial(f, g, n) == g = [k \in 0..n |-> SumStep(f, g, k)]

\* The initial segment of length n exists.
LEMMA PartialExists ==
  ASSUME NEW f
  PROVE  \A n \in Nat : \E g : Partial(f, g, n)
<1>. DEFINE S == {n \in Nat : \E g : Partial(f, g, n)}
<1>1. 0 \in S
  <2>. DEFINE g == [k \in 0..0 |-> 0]
  <2>1. g = [k \in 0..0 |-> SumStep(f, g, k)]
    BY DEF SumStep
  <2>. QED
    BY <2>1 DEF Partial
<1>2. ASSUME NEW n \in Nat, n \in S
      PROVE  n + 1 \in S
  <2>1. PICK g : Partial(f, g, n)
    BY <1>2
  <2>. DEFINE h == [k \in 0..(n + 1) |->
                      IF k = n + 1 THEN g[n] + f[n + 1] ELSE g[k]]
  <2>2. ASSUME NEW k \in 0..(n + 1)
        PROVE  h[k] = SumStep(f, h, k)
    <3>1. CASE k = n + 1
      BY <3>1 DEF SumStep
    <3>2. CASE k \in 0..n
      <4>1. g[k] = SumStep(f, g, k)
        BY <2>1, <3>2 DEF Partial
      <4>2. k # 0 => h[k - 1] = g[k - 1]
        BY <3>2
      <4>3. h[k] = g[k]
        BY <3>2
      <4>. QED
        BY <4>1, <4>2, <4>3 DEF SumStep
    <3>. QED
      BY <3>1, <3>2
  <2>3. h = [k \in 0..(n + 1) |-> SumStep(f, h, k)]
    <3>. DEFINE e == [k \in 0..(n + 1) |-> SumStep(f, h, k)]
    <3>1. DOMAIN h = DOMAIN e /\ \A k \in DOMAIN h : h[k] = e[k]
      BY <2>2
    <3>2. h = [k \in DOMAIN h |-> h[k]] /\ e = [k \in DOMAIN e |-> e[k]]
      OBVIOUS
    <3>3. h = e
      BY <3>1, <3>2
    <3>. QED
      BY <3>3
  <2>. HIDE DEF h
  <2>. QED
    BY <2>3 DEF Partial
<1>3. \A n \in Nat : n \in S
  <2>. HIDE DEF S
  <2>. QED
    BY <1>1, <1>2, SetInduction
<1>. QED
  BY <1>3

\* An initial segment obeys the recursion.
LEMMA PartialValue ==
  ASSUME NEW f, NEW g, NEW n \in Nat, Partial(f, g, n), NEW k \in 0..n
  PROVE  g[k] = IF k = 0 THEN 0 ELSE g[k - 1] + f[k]
BY DEF Partial, SumStep

\* Two initial segments agree where both are defined.
LEMMA PartialUnique ==
  ASSUME NEW f, NEW n \in Nat, NEW m \in Nat, n <= m,
         NEW g, NEW h, Partial(f, g, n), Partial(f, h, m)
  PROVE  \A k \in 0..n : g[k] = h[k]
<1>. DEFINE S == {k \in Nat : k <= n => g[k] = h[k]}
<1>1. \A k \in 0..n : g[k] = SumStep(f, g, k) /\ h[k] = SumStep(f, h, k)
  <2>1. \A k \in 0..n : g[k] = SumStep(f, g, k)
    BY DEF Partial
  <2>2. \A k \in 0..m : h[k] = SumStep(f, h, k)
    BY DEF Partial
  <2>. QED
    BY <2>1, <2>2
<1>2. 0 \in S
  BY <1>1 DEF SumStep
<1>3. ASSUME NEW k \in Nat, k \in S
      PROVE  k + 1 \in S
  <2>. SUFFICES ASSUME k + 1 <= n
                PROVE  g[k + 1] = h[k + 1]
    OBVIOUS
  <2>1. g[k] = h[k] /\ k + 1 \in 0..n /\ k + 1 # 0 /\ (k + 1) - 1 = k
    BY <1>3
  <2>. QED
    BY <1>1, <2>1 DEF SumStep
<1>4. \A k \in Nat : k \in S
  <2>. HIDE DEF S
  <2>. QED
    BY <1>2, <1>3, SetInduction
<1>. QED
  BY <1>4

\* Sum obeys its recursion.
LEMMA SumUnfold ==
  ASSUME NEW f
  PROVE  /\ Sum(f, 0) = 0
         /\ \A n \in Nat \ {0} : Sum(f, n) = Sum(f, n - 1) + f[n]
<1>. DEFINE G(n) == CHOOSE g : Partial(f, g, n)
            IsSum(s) == s = [k \in Nat |-> IF k = 0 THEN 0 ELSE s[k - 1] + f[k]]
            t == [k \in Nat |-> G(k)[k]]
            s0 == CHOOSE s : IsSum(s)
<1>1. \A n \in Nat : Partial(f, G(n), n)
  BY PartialExists
<1>2. t[0] = 0
  <2>1. G(0)[0] = 0
    <3>. HIDE DEF G
    <3>. QED
      BY <1>1, PartialValue
  <2>. QED
    BY <2>1
<1>3. ASSUME NEW k \in Nat \ {0}
      PROVE  t[k] = t[k - 1] + f[k]
  <2>1. Partial(f, G(k), k) /\ Partial(f, G(k - 1), k - 1)
    BY <1>1
  <2>2. G(k)[k] = G(k)[k - 1] + f[k]
    <3>. HIDE DEF G
    <3>. QED
      BY <2>1, PartialValue
  <2>3. G(k - 1)[k - 1] = G(k)[k - 1]
    <3>. HIDE DEF G
    <3>1. \A i \in 0..(k - 1) : G(k - 1)[i] = G(k)[i]
      BY <2>1, PartialUnique
    <3>. QED
      BY <3>1
  <2>. QED
    BY <2>2, <2>3
<1>4. IsSum(t)
  <2>. DEFINE e == [k \in Nat |-> IF k = 0 THEN 0 ELSE t[k - 1] + f[k]]
  <2>1. \A k \in Nat : t[k] = e[k]
    BY <1>2, <1>3
  <2>2. t = [k \in Nat |-> t[k]] /\ e = [k \in Nat |-> e[k]]
    OBVIOUS
  <2>3. t = e
    BY <2>1, <2>2
  <2>. QED
    BY <2>3
<1>5. IsSum(s0)
  <2>. HIDE DEF t, IsSum
  <2>. QED
    BY <1>4
<1>6. /\ s0[0] = 0
      /\ \A k \in Nat \ {0} : s0[k] = s0[k - 1] + f[k]
  <2>. HIDE DEF s0
  <2>. QED
    BY <1>5
<1>7. \A n \in Nat : Sum(f, n) = s0[n]
  BY DEF Sum
<1>. HIDE DEF s0
<1>. QED
  BY <1>6, <1>7

-----------------------------------------------------------------------------
(***************************************************************************)
(* Sums of integer columns.                                                *)
(***************************************************************************)
LEMMA SumInt ==
  ASSUME NEW n \in Nat, NEW f, \A k \in 1..n : f[k] \in Int
  PROVE  \A m \in 0..n : Sum(f, m) \in Int
<1>. DEFINE S == {m \in Nat : m <= n => Sum(f, m) \in Int}
<1>1. 0 \in S
  BY SumUnfold
<1>2. ASSUME NEW m \in Nat, m \in S
      PROVE  m + 1 \in S
  <2>1. Sum(f, m + 1) = Sum(f, (m + 1) - 1) + f[m + 1]
    BY SumUnfold
  <2>. QED
    BY <1>2, <2>1
<1>3. \A m \in Nat : m \in S
  <2>. HIDE DEF S
  <2>. QED
    BY <1>1, <1>2, SetInduction
<1>. QED
  BY <1>3

\* The sum of two columns added row by row.
LEMMA SumAdd ==
  ASSUME NEW n \in Nat, NEW f, NEW g, NEW h,
         \A k \in 1..n : f[k] \in Int /\ g[k] \in Int /\ h[k] = f[k] + g[k]
  PROVE  Sum(h, n) = Sum(f, n) + Sum(g, n)
<1>. DEFINE S == {m \in Nat : m <= n => Sum(h, m) = Sum(f, m) + Sum(g, m)}
<1>1. 0 \in S
  BY SumUnfold
<1>2. ASSUME NEW m \in Nat, m \in S
      PROVE  m + 1 \in S
  <2>. SUFFICES ASSUME m + 1 <= n
                PROVE  Sum(h, m + 1) = Sum(f, m + 1) + Sum(g, m + 1)
    OBVIOUS
  <2>1. /\ Sum(h, m + 1) = Sum(h, m) + h[m + 1]
        /\ Sum(f, m + 1) = Sum(f, m) + f[m + 1]
        /\ Sum(g, m + 1) = Sum(g, m) + g[m + 1]
    <3>1. m + 1 \in Nat \ {0} /\ (m + 1) - 1 = m
      OBVIOUS
    <3>. QED
      BY <3>1, SumUnfold
  <2>2. Sum(f, m) \in Int /\ Sum(g, m) \in Int
    BY SumInt
  <2>3. h[m + 1] = f[m + 1] + g[m + 1] /\ f[m + 1] \in Int /\ g[m + 1] \in Int
    OBVIOUS
  <2>4. Sum(h, m) = Sum(f, m) + Sum(g, m)
    BY <1>2
  <2>. QED
    BY <2>1, <2>2, <2>3, <2>4
<1>3. \A m \in Nat : m \in S
  <2>. HIDE DEF S
  <2>. QED
    BY <1>1, <1>2, SetInduction
<1>. QED
  BY <1>3

\* A column without negative rows has no negative sum.
LEMMA SumNat ==
  ASSUME NEW n \in Nat, NEW f, \A k \in 1..n : f[k] \in Nat
  PROVE  \A m \in 0..n : Sum(f, m) \in Nat
<1>. DEFINE S == {m \in Nat : m <= n => Sum(f, m) \in Nat}
<1>1. 0 \in S
  BY SumUnfold
<1>2. ASSUME NEW m \in Nat, m \in S
      PROVE  m + 1 \in S
  <2>1. Sum(f, m + 1) = Sum(f, (m + 1) - 1) + f[m + 1]
    BY SumUnfold
  <2>. QED
    BY <1>2, <2>1
<1>3. \A m \in Nat : m \in S
  <2>. HIDE DEF S
  <2>. QED
    BY <1>1, <1>2, SetInduction
<1>. QED
  BY <1>3

\* An empty column adds up to zero.
LEMMA SumZero ==
  ASSUME NEW n \in Nat, NEW f, \A k \in 1..n : f[k] = 0
  PROVE  \A m \in 0..n : Sum(f, m) = 0
<1>. DEFINE S == {m \in Nat : m <= n => Sum(f, m) = 0}
<1>1. 0 \in S
  BY SumUnfold
<1>2. ASSUME NEW m \in Nat, m \in S
      PROVE  m + 1 \in S
  <2>1. Sum(f, m + 1) = Sum(f, (m + 1) - 1) + f[m + 1]
    BY SumUnfold
  <2>. QED
    BY <1>2, <2>1
<1>3. \A m \in Nat : m \in S
  <2>. HIDE DEF S
  <2>. QED
    BY <1>1, <1>2, SetInduction
<1>. QED
  BY <1>3

\* A column with one row adds up to it.
LEMMA SumAt ==
  ASSUME NEW n \in Nat, NEW r \in Int, NEW v \in Int
  PROVE  /\ At(r, v, n) \in [1..n -> Int]
         /\ Sum(At(r, v, n), n) = IF r \in 1..n THEN v ELSE 0
<1>. DEFINE f == At(r, v, n)
            S == {m \in Nat : m <= n => Sum(f, m) = IF r \in 1..m THEN v ELSE 0}
<1>1. 0 \in S
  BY SumUnfold
<1>2. ASSUME NEW m \in Nat, m \in S
      PROVE  m + 1 \in S
  <2>. SUFFICES ASSUME m + 1 <= n
                PROVE  Sum(f, m + 1) = IF r \in 1..(m + 1) THEN v ELSE 0
    OBVIOUS
  <2>1. Sum(f, m + 1) = Sum(f, (m + 1) - 1) + f[m + 1]
    BY SumUnfold
  <2>2. f[m + 1] = IF m + 1 = r THEN v ELSE 0
    BY DEF At
  <2>3. Sum(f, m) = IF r \in 1..m THEN v ELSE 0
    BY <1>2
  <2>. HIDE DEF f
  <2>. QED
    BY <2>1, <2>2, <2>3
<1>3. \A m \in Nat : m \in S
  <2>. HIDE DEF S
  <2>. QED
    BY <1>1, <1>2, SetInduction
<1>4. At(r, v, n) \in [1..n -> Int]
  BY DEF At
<1>. QED
  BY <1>3, <1>4

\* Changing one row changes the sum by as much.
LEMMA SumOneRow ==
  ASSUME NEW n \in Nat, NEW f, NEW g, NEW r \in 1..n,
         \A k \in 1..n : f[k] \in Int /\ g[k] \in Int, \A k \in 1..n : k # r => g[k] = f[k]
  PROVE  Sum(g, n) = Sum(f, n) + (g[r] - f[r])
<1>. DEFINE d == At(r, g[r] - f[r], n)
<1>1. g[r] - f[r] \in Int /\ r \in Int
  OBVIOUS
<1>2. Sum(d, n) = g[r] - f[r]
  BY <1>1, SumAt
<1>3. \A k \in 1..n : f[k] \in Int /\ d[k] \in Int /\ g[k] = f[k] + d[k]
  BY <1>1 DEF At
<1>. HIDE DEF d
<1>4. Sum(g, n) = Sum(f, n) + Sum(d, n)
  BY <1>3, SumAdd
<1>. QED
  BY <1>2, <1>4

\* A column that is nowhere larger has no larger sum.
LEMMA SumMonotone ==
  ASSUME NEW n \in Nat, NEW f, NEW g,
         \A k \in 1..n : f[k] \in Int /\ g[k] \in Int /\ f[k] <= g[k]
  PROVE  Sum(f, n) \in Int /\ Sum(g, n) \in Int /\ Sum(f, n) <= Sum(g, n)
<1>. DEFINE d == [k \in 1..n |-> g[k] - f[k]]
<1>1. \A k \in 1..n : d[k] \in Nat /\ d[k] \in Int /\ g[k] = f[k] + d[k]
  OBVIOUS
<1>. HIDE DEF d
<1>2. Sum(g, n) = Sum(f, n) + Sum(d, n)
  BY <1>1, SumAdd
<1>3. n \in 0..n
  OBVIOUS
<1>4. Sum(d, n) \in Nat
  BY <1>1, <1>3, SumNat
<1>5. Sum(f, n) \in Int
  BY <1>3, SumInt
<1>. QED
  BY <1>2, <1>4, <1>5

\* Columns that agree row by row add up to the same.
LEMMA SumSame ==
  ASSUME NEW n \in Nat, NEW f, NEW g, \A k \in 1..n : f[k] \in Int /\ g[k] = f[k]
  PROVE  Sum(g, n) = Sum(f, n)
<1>1. \A k \in 1..n : Zero(n)[k] = 0
  BY DEF Zero
<1>2. Sum(Zero(n), n) = 0
  BY <1>1, SumZero
<1>3. Sum(f, n) \in Int
  BY SumInt
<1>4. Sum(g, n) = Sum(f, n) + Sum(Zero(n), n)
  BY <1>1, SumAdd
<1>. QED
  BY <1>2, <1>3, <1>4

(***************************************************************************)
(* Writing the rows of one column into distinct rows of another keeps the  *)
(* total.                                                                  *)
(***************************************************************************)
Reindexed(f, m, g, n, to) ==
  /\ \A k \in 1..m : f[k] \in Int /\ to[k] \in 1..n /\ g[to[k]] = f[k]
  /\ \A j, k \in 1..m : to[j] = to[k] => j = k
  /\ \A r \in 1..n : (\A k \in 1..m : to[k] # r) => g[r] = 0

LEMMA SumMoved ==
  ASSUME NEW m \in Nat, NEW n \in Nat, NEW f, NEW g, NEW to, Reindexed(f, m, g, n, to)
  PROVE  Sum(g, n) = Sum(f, m)
<1>. USE DEF Reindexed
<1>. DEFINE G(j) == [r \in 1..n |-> IF \E k \in 1..j : to[k] = r THEN g[r] ELSE 0]
            S == {j \in Nat : j <= m => Sum(G(j), n) = Sum(f, j)}
<1>1. ASSUME NEW j \in Nat, j <= m, NEW r \in 1..n
      PROVE  G(j)[r] \in Int
  <2>1. CASE \E k \in 1..j : to[k] = r
    <3>1. PICK k \in 1..j : to[k] = r
      BY <2>1
    <3>2. k \in 1..m
      BY <1>1
    <3>. QED
      BY <3>1, <3>2
  <2>2. CASE ~ \E k \in 1..j : to[k] = r
    BY <2>2
  <2>. QED
    BY <2>1, <2>2
<1>2. 0 \in S
  <2>1. \A r \in 1..n : G(0)[r] = 0
    OBVIOUS
  <2>2. n \in 0..n
    OBVIOUS
  <2>. HIDE DEF G
  <2>3. Sum(G(0), n) = 0
    BY <2>1, <2>2, SumZero
  <2>. QED
    BY <2>3, SumUnfold
<1>3. ASSUME NEW j \in Nat, j \in S
      PROVE  j + 1 \in S
  <2>. SUFFICES ASSUME j + 1 <= m
                PROVE  Sum(G(j + 1), n) = Sum(f, j + 1)
    OBVIOUS
  <2>1. j + 1 \in 1..m /\ j <= m /\ Sum(G(j), n) = Sum(f, j)
    BY <1>3
  <2>. DEFINE a == At(to[j + 1], f[j + 1], n)
  <2>2. to[j + 1] \in 1..n /\ f[j + 1] \in Int /\ g[to[j + 1]] = f[j + 1]
    BY <2>1
  <2>3. Sum(a, n) = f[j + 1]
    <3>1. PICK t \in 1..n, v \in Int : t = to[j + 1] /\ v = f[j + 1]
      BY <2>2
    <3>2. t \in Int
      OBVIOUS
    <3>3. Sum(At(t, v, n), n) = v
      BY <3>2, SumAt
    <3>. QED
      BY <3>1, <3>3
  <2>4. ASSUME NEW r \in 1..n
        PROVE  /\ a[r] \in Int /\ G(j)[r] \in Int
               /\ G(j + 1)[r] = G(j)[r] + a[r]
    <3>1. G(j)[r] \in Int
      BY <1>1, <2>1
    <3>2. a[r] = IF r = to[j + 1] THEN f[j + 1] ELSE 0
      BY DEF At
    <3>3. CASE r = to[j + 1]
      <4>1. \A k \in 1..j : to[k] # r
        BY <2>1, <3>3
      <4>2. G(j)[r] = 0 /\ G(j + 1)[r] = g[r]
        BY <2>1, <3>3, <4>1
      <4>. QED
        BY <2>2, <3>2, <3>3, <4>2
    <3>4. CASE r # to[j + 1]
      <4>0. 1..(j + 1) = (1..j) \cup {j + 1}
        OBVIOUS
      <4>1. (\E k \in 1..(j + 1) : to[k] = r) <=> (\E k \in 1..j : to[k] = r)
        BY <3>4, <4>0
      <4>2. G(j + 1)[r] = G(j)[r]
        BY <4>1
      <4>. QED
        BY <3>1, <3>2, <3>4, <4>2
    <3>. QED
      BY <3>3, <3>4
  <2>. HIDE DEF G, a
  <2>5. Sum(G(j + 1), n) = Sum(G(j), n) + Sum(a, n)
    BY <2>4, SumAdd
  <2>6. Sum(f, j + 1) = Sum(f, (j + 1) - 1) + f[j + 1]
    BY SumUnfold
  <2>. QED
    BY <2>1, <2>3, <2>5, <2>6
<1>4. Sum(G(m), n) = Sum(f, m)
  <2>1. \A j \in Nat : j \in S
    <3>. HIDE DEF S
    <3>. QED
      BY <1>2, <1>3, SetInduction
  <2>. QED
    BY <2>1
<1>5. \A r \in 1..n : G(m)[r] \in Int /\ g[r] = G(m)[r]
  BY <1>1
<1>. HIDE DEF G
<1>6. Sum(g, n) = Sum(G(m), n)
  BY <1>5, SumSame
<1>. QED
  BY <1>4, <1>6

\* The rows of f that belong to part b, and nothing of the others.
Part(f, part, n, b) == [k \in 1..n |-> IF part[k] = b THEN f[k] ELSE 0]

PartSums(f, part, n, m) == [b \in 1..m |-> Sum(Part(f, part, n, b), n)]

\* Adding up a column part by part, each row being in one of m parts, adds it up.
LEMMA SumOfParts ==
  ASSUME NEW m \in Nat, NEW n \in Nat, NEW f, NEW part,
         \A k \in 1..n : f[k] \in Int /\ part[k] \in 1..m
  PROVE  Sum(PartSums(f, part, n, m), m) = Sum(f, n)
<1>. DEFINE T(j) == [b \in 1..m |-> Sum(Part(f, part, n, b), j)]
            S == {j \in Nat : j <= n => Sum(T(j), m) = Sum(f, j)}
<1>1. \A b \in 1..m : \A k \in 1..n : Part(f, part, n, b)[k] = IF part[k] = b THEN f[k] ELSE 0
  BY DEF Part
<1>2. \A b \in 1..m : \A j \in 0..n : Sum(Part(f, part, n, b), j) \in Int
  BY <1>1, SumInt
<1>3. 0 \in S
  <2>1. \A b \in 1..m : T(0)[b] = 0
    BY SumUnfold
  <2>2. Sum(T(0), m) = 0
    <3>. HIDE DEF T
    <3>. QED
      BY <2>1, SumZero
  <2>. QED
    BY <2>2, SumUnfold
<1>4. ASSUME NEW j \in Nat, j \in S
      PROVE  j + 1 \in S
  <2>. SUFFICES ASSUME j + 1 <= n
                PROVE  Sum(T(j + 1), m) = Sum(f, j + 1)
    OBVIOUS
  <2>1. j \in 0..n /\ j + 1 \in 1..n /\ (j + 1) - 1 = j /\ j + 1 \in Nat \ {0}
    OBVIOUS
  <2>2. PICK x, r : x = f[j + 1] /\ r = part[j + 1]
    OBVIOUS
  <2>3. x \in Int /\ r \in 1..m /\ r \in Int
    BY <2>1, <2>2
  <2>4. PICK g, h, a : g = T(j) /\ h = T(j + 1) /\ a = At(r, x, m)
    OBVIOUS
  <2>5. \A b \in 1..m : g[b] \in Int /\ a[b] \in Int /\ h[b] = g[b] + a[b]
    <3>. SUFFICES ASSUME NEW b \in 1..m
                  PROVE  g[b] \in Int /\ a[b] \in Int /\ h[b] = g[b] + a[b]
      OBVIOUS
    <3>1. g[b] = Sum(Part(f, part, n, b), j) /\ h[b] = Sum(Part(f, part, n, b), j + 1)
      BY <2>4
    <3>2. Sum(Part(f, part, n, b), j + 1) =
            Sum(Part(f, part, n, b), j) + Part(f, part, n, b)[j + 1]
      BY <2>1, SumUnfold
    <3>3. Part(f, part, n, b)[j + 1] = IF r = b THEN x ELSE 0
      BY <1>1, <2>1, <2>2
    <3>4. a[b] = IF b = r THEN x ELSE 0
      BY <2>4 DEF At
    <3>. QED
      BY <1>2, <2>1, <2>3, <3>1, <3>2, <3>3, <3>4
  <2>6. Sum(h, m) = Sum(g, m) + Sum(a, m)
    BY <2>5, SumAdd
  <2>7. Sum(a, m) = x
    BY <2>3, <2>4, SumAt
  <2>8. Sum(g, m) = Sum(f, j)
    BY <1>4, <2>1, <2>4
  <2>9. Sum(f, j + 1) = Sum(f, j) + f[j + 1]
    BY <2>1, SumUnfold
  <2>. QED
    BY <2>2, <2>4, <2>6, <2>7, <2>8, <2>9
<1>5. \A j \in Nat : j \in S
  <2>. HIDE DEF S
  <2>. QED
    BY <1>3, <1>4, SetInduction
<1>. QED
  BY <1>5 DEF PartSums

-----------------------------------------------------------------------------
(***************************************************************************)
(* The draw-down takes from each row no more than it has, and in all the   *)
(* smaller of what is asked and what there is.                             *)
(***************************************************************************)
LEMMA TakeBounds ==
  ASSUME NEW n \in Nat, NEW avail, \A k \in 1..n : avail[k] \in Int, NEW q \in Int
  PROVE  /\ Take(avail, n, q) \in [1..n -> Nat]
         /\ \A k \in 1..n : Take(avail, n, q)[k] <= Positive(avail[k])
<1>. DEFINE A == Available(avail, n)
<1>1. \A k \in 1..n : A[k] \in Int
  BY DEF Available, Positive
<1>2. \A m \in 0..n : Sum(A, m) \in Int
  <2>. HIDE DEF A
  <2>. QED
    BY <1>1, SumInt
<1>. DEFINE t(k) == MinOf(Positive(avail[k]), Positive(q - Sum(A, k - 1)))
<1>3. ASSUME NEW k \in 1..n
      PROVE  t(k) \in Nat /\ t(k) <= Positive(avail[k])
  <2>1. Sum(A, k - 1) \in Int
    BY <1>2
  <2>. HIDE DEF A
  <2>. QED
    BY <2>1 DEF MinOf, Positive
<1>4. Take(avail, n, q) = [k \in 1..n |-> t(k)]
  BY DEF Take
<1>. HIDE DEF t
<1>. QED
  BY <1>3, <1>4

\* What is taken in all is the smaller of the request and the sum of what the rows have.
LEMMA SumTake ==
  ASSUME NEW n \in Nat, NEW avail, \A k \in 1..n : avail[k] \in Int, NEW q \in Nat
  PROVE  Sum(Take(avail, n, q), n) = MinOf(q, Sum(Available(avail, n), n))
<1>. DEFINE A == Available(avail, n)
            T == Take(avail, n, q)
            S == {m \in Nat : m <= n => Sum(T, m) = MinOf(q, Sum(A, m))}
<1>1. \A k \in 1..n : A[k] = Positive(avail[k]) /\ A[k] \in Nat
  BY DEF Available, Positive
<1>2. \A m \in 0..n : Sum(A, m) \in Nat
  <2>. HIDE DEF A
  <2>. QED
    BY <1>1, SumNat
<1>3. \A k \in 1..n : T[k] = MinOf(A[k], Positive(q - Sum(A, k - 1)))
  BY DEF Take, Available
<1>. HIDE DEF A, T
<1>4. 0 \in S
  BY SumUnfold DEF MinOf
<1>5. ASSUME NEW m \in Nat, m \in S
      PROVE  m + 1 \in S
  <2>. SUFFICES ASSUME m + 1 <= n
                PROVE  Sum(T, m + 1) = MinOf(q, Sum(A, m + 1))
    OBVIOUS
  <2>1. /\ Sum(T, m + 1) = Sum(T, m) + T[m + 1]
        /\ Sum(A, m + 1) = Sum(A, m) + A[m + 1]
    <3>1. m + 1 \in Nat \ {0} /\ (m + 1) - 1 = m
      OBVIOUS
    <3>. QED
      BY <3>1, SumUnfold
  <2>2. T[m + 1] = MinOf(A[m + 1], Positive(q - Sum(A, m)))
    <3>1. m + 1 \in 1..n /\ (m + 1) - 1 = m
      OBVIOUS
    <3>. QED
      BY <1>3, <3>1
  <2>3. Sum(T, m) = MinOf(q, Sum(A, m)) /\ Sum(A, m) \in Nat /\ A[m + 1] \in Nat
    BY <1>1, <1>2, <1>5
  <2>. QED
    BY <2>1, <2>2, <2>3 DEF MinOf, Positive
<1>6. \A m \in Nat : m \in S
  <2>. HIDE DEF S
  <2>. QED
    BY <1>4, <1>5, SetInduction
<1>. QED
  BY <1>6 DEF A, T
\* The sums of the first rows grow with the number of rows.
LEMMA SumGrows ==
  ASSUME NEW n \in Nat, NEW f, \A k \in 1..n : f[k] \in Nat, NEW j \in 0..n
  PROVE  \A m \in 0..n : j <= m => Sum(f, j) <= Sum(f, m)
<1>. DEFINE S == {m \in Nat : m <= n /\ j <= m => Sum(f, j) <= Sum(f, m)}
<1>1. \A m \in 0..n : Sum(f, m) \in Nat
  BY SumNat
<1>2. 0 \in S
  BY <1>1
<1>3. ASSUME NEW m \in Nat, m \in S
      PROVE  m + 1 \in S
  <2>. SUFFICES ASSUME m + 1 <= n, j <= m + 1
                PROVE  Sum(f, j) <= Sum(f, m + 1)
    OBVIOUS
  <2>1. Sum(f, m + 1) = Sum(f, (m + 1) - 1) + f[m + 1]
    BY SumUnfold
  <2>2. (m + 1) - 1 = m /\ f[m + 1] \in Nat /\ Sum(f, m) \in Nat /\ Sum(f, j) \in Nat
    BY <1>1
  <2>3. CASE j = m + 1
    BY <2>2, <2>3
  <2>4. CASE j <= m
    BY <1>3, <2>1, <2>2, <2>4
  <2>. QED
    BY <2>3, <2>4
<1>4. \A m \in Nat : m \in S
  <2>. HIDE DEF S
  <2>. QED
    BY <1>2, <1>3, SetInduction
<1>. QED
  BY <1>4

\* A column that is empty from some row on adds up to its first rows.
LEMMA SumStops ==
  ASSUME NEW n \in Nat, NEW f, \A k \in 1..n : f[k] \in Int,
         NEW j \in 0..n, \A k \in 1..n : k > j => f[k] = 0
  PROVE  Sum(f, n) = Sum(f, j)
<1>. DEFINE S == {m \in Nat : m <= n /\ j <= m => Sum(f, m) = Sum(f, j)}
<1>1. \A m \in 0..n : Sum(f, m) \in Int
  BY SumInt
<1>2. 0 \in S
  OBVIOUS
<1>3. ASSUME NEW m \in Nat, m \in S
      PROVE  m + 1 \in S
  <2>. SUFFICES ASSUME m + 1 <= n, j <= m + 1
                PROVE  Sum(f, m + 1) = Sum(f, j)
    OBVIOUS
  <2>1. Sum(f, m + 1) = Sum(f, (m + 1) - 1) + f[m + 1]
    BY SumUnfold
  <2>2. (m + 1) - 1 = m /\ m \in 0..n /\ m + 1 \in 1..n /\ Sum(f, m) \in Int
    BY <1>1
  <2>3. CASE j = m + 1
    BY <2>3
  <2>4. CASE j <= m
    BY <1>3, <2>1, <2>2, <2>4
  <2>. QED
    BY <2>3, <2>4
<1>4. \A m \in Nat : m \in S
  <2>. HIDE DEF S
  <2>. QED
    BY <1>2, <1>3, SetInduction
<1>. QED
  BY <1>4

\* The draw-down goes on to a row only when the rows before it are empty.
LEMMA TakeInOrder ==
  ASSUME NEW n \in Nat, NEW avail, \A k \in 1..n : avail[k] \in Int, NEW q \in Int,
         NEW k \in 1..n, NEW l \in 1..n, k < l, Take(avail, n, q)[l] # 0
  PROVE  Take(avail, n, q)[k] = Positive(avail[k])
<1>. DEFINE A == Available(avail, n)
<1>1. \A j \in 1..n : A[j] = Positive(avail[j]) /\ A[j] \in Nat
  BY DEF Available, Positive
<1>2. \A j \in 1..n : Take(avail, n, q)[j] = MinOf(A[j], Positive(q - Sum(A, j - 1)))
  BY DEF Take, Available
<1>. HIDE DEF A
<1>3. \A m \in 0..n : Sum(A, m) \in Nat
  BY <1>1, SumNat
<1>4. k \in Nat \ {0} /\ k \in 0..n /\ k - 1 \in 0..n /\ l - 1 \in 0..n /\ k <= l - 1
  OBVIOUS
<1>5. Sum(A, k) = Sum(A, k - 1) + A[k] /\ Sum(A, k) <= Sum(A, l - 1)
  BY <1>1, <1>4, SumUnfold, SumGrows
<1>6. Sum(A, l - 1) < q
  BY <1>1, <1>2, <1>3, <1>4 DEF MinOf, Positive
<1>7. q - Sum(A, k - 1) > A[k]
  BY <1>1, <1>3, <1>4, <1>5, <1>6
<1>. QED
  BY <1>1, <1>2, <1>3, <1>4, <1>7 DEF MinOf, Positive

-----------------------------------------------------------------------------
(***************************************************************************)
(* Counting: rows that are numbered by how many come before them.          *)
(***************************************************************************)
\* A part of a finite set that misses an element has fewer elements.
LEMMA FewerElements ==
  ASSUME NEW T, IsFiniteSet(T), NEW S \in SUBSET T
  PROVE  /\ Cardinality(S) \in Nat /\ Cardinality(T) \in Nat /\ IsFiniteSet(S)
         /\ Cardinality(S) <= Cardinality(T)
         /\ S # T => Cardinality(S) < Cardinality(T)
BY FS_Subset, FS_CardinalityType

(***************************************************************************)
(* Counting the smaller values of f numbers a finite set from 0, in the    *)
(* order of f.                                                             *)
(***************************************************************************)
Below(f, S, x) == {y \in S : f[y] < f[x]}

LEMMA BelowOrder ==
  ASSUME NEW S, IsFiniteSet(S), NEW f \in [S -> Int]
  PROVE  /\ \A x \in S : /\ Cardinality(Below(f, S, x)) \in Nat
                         /\ Cardinality(Below(f, S, x)) < Cardinality(S)
         /\ \A x, y \in S : f[x] < f[y] =>
              Cardinality(Below(f, S, x)) < Cardinality(Below(f, S, y))
<1>1. ASSUME NEW x \in S
      PROVE  /\ IsFiniteSet(Below(f, S, x)) /\ Cardinality(Below(f, S, x)) \in Nat
             /\ Cardinality(Below(f, S, x)) < Cardinality(S)
  <2>1. Below(f, S, x) \in SUBSET S /\ x \in S /\ x \notin Below(f, S, x)
    BY DEF Below
  <2>2. QED
    BY <2>1, FewerElements
<1>2. ASSUME NEW x \in S, NEW y \in S, f[x] < f[y]
      PROVE  Cardinality(Below(f, S, x)) < Cardinality(Below(f, S, y))
  <2>1. Below(f, S, x) \in SUBSET Below(f, S, y)
    BY <1>2 DEF Below
  <2>2. x \in Below(f, S, y) /\ x \notin Below(f, S, x)
    BY <1>2 DEF Below
  <2>3. QED
    BY <1>1, <2>1, <2>2, FewerElements
<1>3. QED
  BY <1>1, <1>2

LEMMA BelowNumbers ==
  ASSUME NEW S, IsFiniteSet(S), NEW f \in [S -> Int], \A x, y \in S : f[x] = f[y] => x = y,
         NEW k \in Nat, k < Cardinality(S)
  PROVE  \E x \in S : Cardinality(Below(f, S, x)) = k
<1> DEFINE T == 0..Cardinality(S) - 1
           g == [x \in S |-> Cardinality(Below(f, S, x))]
<1>1. Cardinality(S) \in Nat
  BY FS_CardinalityType
<1>2. IsFiniteSet(T) /\ Cardinality(T) = Cardinality(S)
  <2> DEFINE m == Cardinality(S) - 1
  <2>1. m \in Int /\ m >= 0
    BY <1>1
  <2> HIDE DEF m
  <2>2. IsFiniteSet(0..m) /\ Cardinality(0..m) = m + 1
    BY <2>1, FS_Interval
  <2>3. m + 1 = Cardinality(S)
    BY <1>1 DEF m
  <2>4. QED
    BY <2>2, <2>3 DEF m
<1>3. g \in [S -> T]
  BY <1>1, BelowOrder
<1>4. ASSUME NEW x \in S, NEW y \in S, g[x] = g[y]
      PROVE  x = y
  <2>1. ~ f[x] < f[y] /\ ~ f[y] < f[x]
    BY <1>4, BelowOrder
  <2>2. QED
    BY <2>1
<1>5. g \in Injection(S, T)
  BY <1>3, <1>4 DEF Injection, IsInjective
<1>6. g \in Surjection(S, T)
  BY <1>2, <1>5, FS_Injection
<1>7. k \in T
  BY <1>1
<1>8. QED
  BY <1>6, <1>7 DEF Surjection

\* The elements of a set of positions are numbered from 1, in their order.
Smaller(S, m) == {j \in S : j < m}

LEMMA Numbering ==
  ASSUME NEW n \in Nat, NEW S \in SUBSET (1..n)
  PROVE  /\ IsFiniteSet(S) /\ Cardinality(S) \in Nat
         /\ \A m \in S : /\ Cardinality(Smaller(S, m)) \in Nat
                         /\ Cardinality(Smaller(S, m)) + 1 \in 1..Cardinality(S)
         /\ \A k \in 1..Cardinality(S) : \E m \in S : Cardinality(Smaller(S, m)) = k - 1
         /\ \A m, p \in S : m < p => Cardinality(Smaller(S, m)) < Cardinality(Smaller(S, p))
<1>. DEFINE f == [m \in S |-> m]
<1>1. IsFiniteSet(S) /\ Cardinality(S) \in Nat
  <2>1. IsFiniteSet(1..n)
    BY FS_Interval
  <2>. QED
    BY <2>1, FS_Subset, FS_CardinalityType
<1>2. \A m \in S : m \in Int
  OBVIOUS
<1>3. f \in [S -> Int] /\ \A x, y \in S : f[x] = f[y] => x = y
  BY <1>2
<1>4. \A m \in S : Below(f, S, m) = Smaller(S, m) /\ f[m] = m
  BY DEF Below, Smaller
<1>. HIDE DEF f
<1>5. \A m \in S : /\ Cardinality(Below(f, S, m)) \in Nat
                   /\ Cardinality(Below(f, S, m)) < Cardinality(S)
  BY <1>1, <1>3, BelowOrder
<1>6. \A m, p \in S : m < p => Cardinality(Below(f, S, m)) < Cardinality(Below(f, S, p))
  BY <1>1, <1>3, <1>4, BelowOrder
<1>7. ASSUME NEW k \in 1..Cardinality(S)
      PROVE  \E m \in S : Cardinality(Below(f, S, m)) = k - 1
  <2>1. k - 1 \in Nat /\ k - 1 < Cardinality(S)
    BY <1>1
  <2>. QED
    BY <1>1, <1>3, <2>1, BelowNumbers
<1>8. \A m \in S : /\ Cardinality(Smaller(S, m)) \in Nat
                   /\ Cardinality(Smaller(S, m)) + 1 \in 1..Cardinality(S)
  BY <1>1, <1>4, <1>5
<1>9. \A k \in 1..Cardinality(S) : \E m \in S : Cardinality(Smaller(S, m)) = k - 1
  BY <1>4, <1>7
<1>. QED
  BY <1>1, <1>4, <1>6, <1>8, <1>9
=============================================================================
