-------------------------- MODULE AlgorithmsProofs --------------------------
(***************************************************************************)
(* Proofs about the computations that the other modules rest on: the       *)
(* moving average of a posting (Costing), for every scale, quantity and    *)
(* unit cost; its draw-down loop (Drawdown), for every number of rows and  *)
(* every request; the formulas (Catalog) and the item page (RecipePage),   *)
(* for every set of items and mixes; the business variables (Settings),    *)
(* for every catalog; the closure calendar (Holidays), for every rule and  *)
(* year; and the form of a purchase order (Suppliers), for every vendor    *)
(* and item.                                                               *)
(*                                                                         *)
(* Costs: a rounded quotient is at most half of its divisor away from the  *)
(* exact one (RoundedWithin), and lies between any two integers the exact  *)
(* one lies between (RoundedBetween). The loop: it goes through the rows   *)
(* in the order of its sort, and takes from each what those ahead of it do *)
(* not cover (DrawInv); the three passes of the closed form take the same  *)
(* (RemoveTakesSlices). Formulas: what an item contains is the least set   *)
(* closed under what its items are made of (InsideLeast, InsideClosed), so *)
(* a request that closes a cycle is seen (NoNewCycle). The item page: the  *)
(* versions of an item stay apart (VersionsInv), so one of them leads      *)
(* (FirstLeads, ActiveLeads). Variables: one slot is followed through a    *)
(* save (SavedSlot). The calendar: days of one week day are seven apart    *)
(* (EverySevenDays). The form: each of its lines is good (GoodLines), and  *)
(* the vendor that comes first among those that supplied all of an order   *)
(* has none above it (FirstFullMatch).                                     *)
(***************************************************************************)
EXTENDS Costing, Drawdown, RecipePage, Settings, Holidays, Suppliers, QuantitiesProofs

CostTypeOK ==
  /\ qty \in Nat /\ avg \in Nat /\ value \in Int /\ slack \in Nat
  /\ posts \in Nat /\ paid \subseteq Nat

CostInv == CostTypeOK /\ DriftBounded /\ CostWithinReceipts

-----------------------------------------------------------------------------
\* The average of a receipt is well defined and within half a unit for each pound.
LEMMA AveragedWithin ==
  ASSUME CostTypeOK, NEW q \in Nat \ {0}, NEW c \in Nat
  PROVE  /\ Averaged(q, c) \in Nat
         /\ - (qty + q) <= 2 * ((qty + q) * Averaged(q, c) - (qty * avg + q * c))
         /\ 2 * ((qty + q) * Averaged(q, c) - (qty * avg + q * c)) <= qty + q
<1>1. qty + q \in Nat \ {0} /\ qty * avg + q * c \in Nat
  BY DEF CostTypeOK
<1>2. QED
  BY <1>1, RoundedWithin DEF Averaged

LEMMA LineValueWithin ==
  ASSUME NEW q \in Nat, NEW c \in Nat
  PROVE  /\ LineValue(q, c) \in Nat
         /\ - Scale <= 2 * (LineValue(q, c) * Scale - q * c)
         /\ 2 * (LineValue(q, c) * Scale - q * c) <= Scale
<1>1. q * c \in Nat /\ Scale \in Nat \ {0}
  BY CostingAssumption
<1> DEFINE r == LineValue(q, c)
<1>2. r \in Nat /\ - Scale <= 2 * (Scale * r - q * c) /\ 2 * (Scale * r - q * c) <= Scale
  BY <1>1, RoundedWithin DEF LineValue
<1>3. Scale * r = r * Scale
  BY <1>1, <1>2
<1>4. QED
  BY <1>2, <1>3

-----------------------------------------------------------------------------
LEMMA ReceiveKeepsDrift ==
  ASSUME CostTypeOK, DriftBounded, NEW q \in Nat \ {0}, NEW c \in Nat, Receive(q, c)
  PROVE  DriftBounded' /\ avg' \in Nat /\ value' \in Int
<1> DEFINE a == Averaged(q, c)
           v == LineValue(q, c)
           held == qty * avg
           paidFor == q * c
           worth == (qty + q) * a
           old == value * Scale
           line == v * Scale
<1>1. /\ a \in Nat
      /\ - (qty + q) <= 2 * (worth - (held + paidFor))
      /\ 2 * (worth - (held + paidFor)) <= qty + q
  BY AveragedWithin
<1>2. /\ v \in Nat
      /\ - Scale <= 2 * (line - paidFor) /\ 2 * (line - paidFor) <= Scale
  BY LineValueWithin
<1>3. Scale \in Nat /\ qty \in Nat /\ avg \in Nat /\ value \in Int /\ slack \in Nat
  BY CostingAssumption DEF CostTypeOK
<1>4. qty' = qty + q /\ avg' = a /\ value' = value + v /\ slack' = slack + qty + q + Scale
  BY DEF Receive
<1>5. (value + v) * Scale = old + line /\ old \in Int /\ line \in Int
  BY <1>2, <1>3
<1>6. held \in Int /\ paidFor \in Int /\ worth \in Int
  BY <1>1, <1>3
<1>7. - slack <= 2 * (old - held) /\ 2 * (old - held) <= slack
  BY DEF DriftBounded
<1>8. DriftBounded' <=> /\ - slack' <= 2 * (value' * Scale - qty' * avg')
                        /\ 2 * (value' * Scale - qty' * avg') <= slack'
  BY DEF DriftBounded
<1>9. value' * Scale = old + line /\ qty' * avg' = worth
  BY <1>4, <1>5
<1> HIDE DEF a, v, held, paidFor, worth, old, line
<1>10. DriftBounded'
  BY <1>1, <1>2, <1>3, <1>4, <1>5, <1>6, <1>7, <1>8, <1>9
<1>11. QED
  BY <1>1, <1>2, <1>3, <1>4, <1>10

LEMMA IssueKeepsDrift ==
  ASSUME CostTypeOK, DriftBounded, NEW q \in Nat \ {0}, Issue(q)
  PROVE  DriftBounded' /\ value' \in Int
<1> DEFINE v == LineValue(q, avg)
           held == qty * avg
           gone == q * avg
           old == value * Scale
           line == v * Scale
<1>1. Scale \in Nat /\ qty \in Nat /\ avg \in Nat /\ value \in Int /\ slack \in Nat
  BY CostingAssumption DEF CostTypeOK
<1>2. /\ v \in Nat
      /\ - Scale <= 2 * (line - gone) /\ 2 * (line - gone) <= Scale
  BY <1>1, LineValueWithin
<1>3. qty' = qty - q /\ avg' = avg /\ value' = value - v /\ slack' = slack + Scale
  BY DEF Issue
<1>4. (value - v) * Scale = old - line /\ old \in Int /\ line \in Int
  BY <1>1, <1>2
<1>5. (qty - q) * avg = held - gone /\ held \in Int /\ gone \in Int
  BY <1>1
<1>6. - slack <= 2 * (old - held) /\ 2 * (old - held) <= slack
  BY DEF DriftBounded
<1>7. DriftBounded' <=> /\ - slack' <= 2 * (value' * Scale - qty' * avg')
                        /\ 2 * (value' * Scale - qty' * avg') <= slack'
  BY DEF DriftBounded
<1>8. value' * Scale = old - line /\ qty' * avg' = held - gone
  BY <1>3, <1>4, <1>5
<1> HIDE DEF v, held, gone, old, line
<1>9. DriftBounded'
  BY <1>1, <1>2, <1>3, <1>4, <1>5, <1>6, <1>7, <1>8
<1>10. QED
  BY <1>1, <1>2, <1>3, <1>9

-----------------------------------------------------------------------------
LEMMA ReceiveKeepsWithinReceipts ==
  ASSUME CostTypeOK, CostWithinReceipts, NEW q \in Nat \ {0}, NEW c \in Nat, Receive(q, c)
  PROVE  CostWithinReceipts'
<1> DEFINE n == qty * avg + q * c
           d == qty + q
<1>1. qty \in Nat /\ avg \in Nat /\ n \in Nat /\ d \in Nat \ {0}
  BY DEF CostTypeOK
<1>2. avg' = Rounded(n, d) /\ c \in paid'
  BY DEF Receive, Averaged
<1>3. ASSUME NEW e \in Nat
      PROVE  d * e = qty * e + q * e /\ qty * e \in Nat /\ q * e \in Nat
  BY <1>1, <1>3
<1>4. CASE qty = 0
  <2>1. n = d * c
    BY <1>1, <1>4
  <2>2. c <= Rounded(n, d) /\ Rounded(n, d) <= c
    BY <1>1, <2>1, RoundedBetween
  <2>3. QED
    BY <1>2, <2>2 DEF CostWithinReceipts
<1>5. CASE qty > 0
  <2>1. paid' = paid \cup {c}
    BY <1>1, <1>5 DEF Receive
  <2>2. PICK lo \in paid, hi \in paid : lo <= avg /\ avg <= hi
    BY <1>5 DEF CostWithinReceipts
  <2>3. lo \in Nat /\ hi \in Nat
    BY DEF CostTypeOK
  <2>4. PICK e \in {lo, c} : e <= avg /\ e <= c
    BY <1>1, <2>2, <2>3
  <2>5. PICK f \in {hi, c} : avg <= f /\ c <= f
    BY <1>1, <2>2, <2>3
  <2>6. qty * e <= qty * avg /\ q * e <= q * c
    <3>1. ASSUME NEW x \in Nat, NEW y \in Nat, NEW z \in Nat, x <= y
          PROVE  z * x <= z * y
      BY <3>1
    <3>2. QED
      BY <1>1, <2>3, <2>4, <3>1
  <2>7. qty * avg <= qty * f /\ q * c <= q * f
    <3>1. ASSUME NEW x \in Nat, NEW y \in Nat, NEW z \in Nat, x <= y
          PROVE  z * x <= z * y
      BY <3>1
    <3>2. QED
      BY <1>1, <2>3, <2>5, <3>1
  <2>8. e \in Nat /\ f \in Nat /\ qty * avg \in Nat /\ q * c \in Nat
    BY <1>1, <2>3
  <2>9. d * e <= n /\ n <= d * f
    <3>1. d * e = qty * e + q * e /\ qty * e \in Nat /\ q * e \in Nat
      BY <1>3, <2>8
    <3>2. d * f = qty * f + q * f /\ qty * f \in Nat /\ q * f \in Nat
      BY <1>3, <2>8
    <3>3. qty * e + q * e <= qty * avg + q * c
      BY <2>6, <2>8, <3>1
    <3>4. qty * avg + q * c <= qty * f + q * f
      BY <2>7, <2>8, <3>2
    <3>5. QED
      BY <3>1, <3>2, <3>3, <3>4
  <2>10. e <= Rounded(n, d) /\ Rounded(n, d) <= f
    BY <1>1, <2>8, <2>9, RoundedBetween
  <2>11. e \in paid' /\ f \in paid'
    BY <2>1
  <2>12. QED
    BY <1>2, <2>10, <2>11 DEF CostWithinReceipts
<1>6. QED
  BY <1>1, <1>4, <1>5

-----------------------------------------------------------------------------
LEMMA CostInvInit == CostInit => CostInv
<1>1. 0 * Scale = 0 /\ 0 * 0 = 0
  BY CostingAssumption
<1>2. QED
  BY <1>1 DEF CostInit, CostInv, CostTypeOK, DriftBounded, CostWithinReceipts

LEMMA CostInvStep == CostInv /\ [CostNext]_costVars => CostInv'
<1> SUFFICES ASSUME CostInv, [CostNext]_costVars
             PROVE  CostInv'
  OBVIOUS
<1> USE DEF CostInv
<1>1. CASE UNCHANGED costVars
  BY <1>1 DEF costVars, CostTypeOK, DriftBounded, CostWithinReceipts
<1>2. ASSUME NEW q \in Moved, NEW c \in UnitCosts, Receive(q, c), posts' = posts + 1
      PROVE  CostInv'
  <2>1. q \in Nat \ {0} /\ c \in Nat /\ Scale \in Nat
    BY CostingAssumption
  <2>2. DriftBounded' /\ avg' \in Nat /\ value' \in Int
    BY <1>2, <2>1, ReceiveKeepsDrift
  <2>3. qty' \in Nat /\ slack' \in Nat /\ posts' \in Nat /\ paid' \subseteq Nat
    <3>1. paid \subseteq Nat
      BY DEF CostTypeOK
    <3>2. paid' = (IF qty = 0 THEN {} ELSE paid) \cup {c}
      BY <1>2 DEF Receive
    <3>3. paid' \subseteq Nat
      BY <2>1, <3>1, <3>2
    <3>4. qty' = qty + q /\ slack' = slack + qty + q + Scale
      BY <1>2 DEF Receive
    <3>5. QED
      BY <1>2, <2>1, <3>3, <3>4 DEF CostTypeOK
  <2>4. CostWithinReceipts'
    BY <1>2, <2>1, ReceiveKeepsWithinReceipts
  <2>5. QED
    BY <2>2, <2>3, <2>4 DEF CostTypeOK
<1>3. ASSUME NEW q \in Moved, Issue(q), posts' = posts + 1
      PROVE  CostInv'
  <2>1. q \in Nat \ {0} /\ Scale \in Nat
    BY CostingAssumption
  <2>2. DriftBounded' /\ value' \in Int
    BY <1>3, <2>1, IssueKeepsDrift
  <2>3. /\ qty' \in Nat /\ slack' \in Nat /\ posts' \in Nat
        /\ qty' < qty /\ avg' = avg /\ paid' = paid
    BY <1>3, <2>1 DEF CostTypeOK, Issue
  <2>4. CostWithinReceipts'
    BY <2>3 DEF CostWithinReceipts, CostTypeOK
  <2>5. QED
    BY <2>2, <2>3, <2>4 DEF CostTypeOK
<1>4. QED
  BY <1>1, <1>2, <1>3 DEF CostNext

(***************************************************************************)
(* The value of a bucket and the sum of its ledger lines (applyInbound,    *)
(* applyOutbound) drift apart by at most half a unit of the last decimal   *)
(* for each rounding, for every quantity, cost and scale.                  *)
(***************************************************************************)
THEOREM CostsDriftBounded == CostSpec => []DriftBounded
<1>1. CostInv => DriftBounded
  BY DEF CostInv
<1>2. QED
  BY CostInvInit, CostInvStep, <1>1, PTL DEF CostSpec

(***************************************************************************)
(* The average cost of a bucket that holds stock is within the costs of    *)
(* the receipts since it was last empty (applyInbound).                    *)
(***************************************************************************)
THEOREM CostsWithinReceipts == CostSpec => []CostWithinReceipts
<1>1. CostInv => CostWithinReceipts
  BY DEF CostInv
<1>2. QED
  BY CostInvInit, CostInvStep, <1>1, PTL DEF CostSpec

-----------------------------------------------------------------------------
(***************************************************************************)
(* The draw-down loop.  InRows(c, S) is what the rows S of column c hold;  *)
(* Ahead(k) are the rows that the sort puts before row k.                  *)
(***************************************************************************)
IntColumns == [Locs -> Int]

InRows(c, S) == Sum(Available(Rows(c, S), NumLocs), NumLocs)

AheadOf(k) == {j \in Locs : Before(j, k)}

LEMMA InRowsNat ==
  ASSUME NEW c \in IntColumns, NEW S
  PROVE  /\ NumLocs \in Nat
         /\ \A k \in 1..NumLocs : /\ Available(Rows(c, S), NumLocs)[k] \in Nat
                                  /\ Rows(c, S)[k] \in Int
                                  /\ Available(Rows(c, S), NumLocs)[k] =
                                       IF k \in S THEN Positive(c[k]) ELSE 0
         /\ InRows(c, S) \in Nat
         /\ \A m \in 0..NumLocs : Sum(Available(Rows(c, S), NumLocs), m) \in Nat
<1>1. NumLocs \in Nat
  BY CountsAssumption
<1>2. \A k \in 1..NumLocs : /\ Available(Rows(c, S), NumLocs)[k] \in Nat
                            /\ Rows(c, S)[k] \in Int
                            /\ Available(Rows(c, S), NumLocs)[k] =
                                 IF k \in S THEN Positive(c[k]) ELSE 0
  BY DEF Available, Rows, Locs, IntColumns, Positive
<1>3. \A m \in 0..NumLocs : Sum(Available(Rows(c, S), NumLocs), m) \in Nat
  BY <1>1, <1>2, SumNat
<1>. QED
  BY <1>1, <1>2, <1>3 DEF InRows

\* What disjoint sets of rows hold adds up.
LEMMA InRowsUnion ==
  ASSUME NEW c \in IntColumns, NEW S, NEW T, NEW U,
         \A k \in Locs : (k \in U <=> k \in S \/ k \in T) /\ ~ (k \in S /\ k \in T)
  PROVE  InRows(c, U) = InRows(c, S) + InRows(c, T)
<1>1. NumLocs \in Nat
  BY InRowsNat
<1>2. PICK f, g, h : /\ f = Available(Rows(c, S), NumLocs)
                     /\ g = Available(Rows(c, T), NumLocs)
                     /\ h = Available(Rows(c, U), NumLocs)
  OBVIOUS
<1>3. \A k \in 1..NumLocs : f[k] \in Int /\ g[k] \in Int /\ h[k] = f[k] + g[k]
  <2>. SUFFICES ASSUME NEW k \in 1..NumLocs
                PROVE  f[k] \in Int /\ g[k] \in Int /\ h[k] = f[k] + g[k]
    OBVIOUS
  <2>1. /\ f[k] \in Nat /\ f[k] = IF k \in S THEN Positive(c[k]) ELSE 0
        /\ g[k] \in Nat /\ g[k] = IF k \in T THEN Positive(c[k]) ELSE 0
        /\ h[k] \in Nat /\ h[k] = IF k \in U THEN Positive(c[k]) ELSE 0
    BY <1>2, InRowsNat
  <2>. QED
    BY <2>1 DEF Locs
<1>. QED
  BY <1>1, <1>2, <1>3, SumAdd DEF InRows

\* More rows hold no less.
LEMMA InRowsGrows ==
  ASSUME NEW c \in IntColumns, NEW S, NEW T, \A k \in Locs : k \in S => k \in T
  PROVE  InRows(c, S) <= InRows(c, T)
<1>1. InRows(c, T) = InRows(c, S) + InRows(c, T \ S)
  BY InRowsUnion
<1>. QED
  BY <1>1, InRowsNat

LEMMA InNoRows ==
  ASSUME NEW c \in IntColumns, NEW S, \A k \in Locs : k \notin S
  PROVE  InRows(c, S) = 0
<1>1. \A k \in 1..NumLocs : Available(Rows(c, S), NumLocs)[k] = 0
  BY InRowsNat DEF Locs
<1>. QED
  BY <1>1, InRowsNat, SumZero DEF InRows

\* The first rows of S hold what S holds of them.
LEMMA InFirstRows ==
  ASSUME NEW c \in IntColumns, NEW S, NEW k \in Locs
  PROVE  Sum(Available(Rows(c, S), NumLocs), k - 1) = InRows(c, {j \in S : j < k})
<1>1. NumLocs \in Nat /\ k \in 1..NumLocs /\ k - 1 \in Nat /\ k - 1 \in 0..NumLocs
  BY InRowsNat DEF Locs
<1>2. PICK T : T = {j \in S : j < k}
  OBVIOUS
<1>3. PICK f, g : f = Available(Rows(c, S), NumLocs) /\ g = Available(Rows(c, T), NumLocs)
  OBVIOUS
<1>4. \A j \in 1..NumLocs : /\ f[j] \in Int /\ g[j] \in Int
                            /\ j <= k - 1 => g[j] = f[j]
                            /\ j > k - 1 => g[j] = 0
  <2>. SUFFICES ASSUME NEW j \in 1..NumLocs
                PROVE  /\ f[j] \in Int /\ g[j] \in Int
                       /\ j <= k - 1 => g[j] = f[j]
                       /\ j > k - 1 => g[j] = 0
    OBVIOUS
  <2>1. /\ f[j] \in Nat /\ f[j] = IF j \in S THEN Positive(c[j]) ELSE 0
        /\ g[j] \in Nat /\ g[j] = IF j \in T THEN Positive(c[j]) ELSE 0
    BY <1>3, InRowsNat
  <2>2. j < k <=> j <= k - 1
    BY <1>1
  <2>. QED
    BY <1>1, <1>2, <2>1, <2>2
<1>5. Sum(g, k - 1) = Sum(f, k - 1)
  BY <1>1, <1>4, SumSame
<1>6. Sum(g, NumLocs) = Sum(g, k - 1)
  BY <1>1, <1>4, SumStops
<1>. QED
  BY <1>2, <1>3, <1>5, <1>6 DEF InRows

\* A slice of the closed form: what the rows of S before row k do not cover.
LEMMA SliceOf ==
  ASSUME NEW c \in IntColumns, NEW S, NEW q \in Nat, NEW k \in Locs
  PROVE  /\ Take(Rows(c, S), NumLocs, q)[k] =
              IF k \in S THEN MinOf(Positive(c[k]), Positive(q - InRows(c, {j \in S : j < k})))
              ELSE 0
         /\ Sum(Take(Rows(c, S), NumLocs, q), NumLocs) = MinOf(q, InRows(c, S))
<1>1. Take(Rows(c, S), NumLocs, q)[k] =
        MinOf(Positive(Rows(c, S)[k]), Positive(q - InRows(c, {j \in S : j < k})))
  BY InFirstRows DEF Take, Locs
<1>2. k \in S => Rows(c, S)[k] = c[k]
  BY DEF Rows
<1>3. k \notin S => Rows(c, S)[k] = 0
  BY DEF Rows
<1>4. InRows(c, {j \in S : j < k}) \in Nat
  BY InRowsNat
<1>5. \A x \in Nat : MinOf(Positive(0), Positive(q - x)) = 0
  BY DEF MinOf, Positive
<1>6. Sum(Take(Rows(c, S), NumLocs, q), NumLocs) = MinOf(q, InRows(c, S))
  BY InRowsNat, SumTake DEF InRows
<1>. QED
  BY <1>1, <1>2, <1>3, <1>4, <1>5, <1>6

\* What the loop takes from row k: what the rows ahead of it do not cover.
Slice(k) == MinOf(Positive(rows[k]), Positive(asked - InRows(rows, AheadOf(k))))

LEMMA DrawTypes ==
  ASSUME DrawTypeOK
  PROVE  rows \in IntColumns /\ asked \in Nat /\ NumLocs \in Nat /\ pref \in Nat
<1>1. NumLocs \in Nat /\ Locs \subseteq Nat
  BY CountsAssumption DEF Locs
<1>2. rows \in IntColumns
  BY DrawdownAssumption DEF DrawTypeOK, IntColumns
<1>. QED
  BY <1>1, <1>2 DEF DrawTypeOK, NoLoc

\* The sort puts every two rows in an order.
LEMMA SortOrder ==
  ASSUME NEW j \in Locs, NEW k \in Locs
  PROVE  /\ ~ Before(k, k)
         /\ ~ (Before(j, k) /\ Before(k, j))
         /\ j # k => Before(j, k) \/ Before(k, j)
<1>1. j \in Int /\ k \in Int
  BY DEF Locs
<1>2. Class(j) \in 0..2 /\ Class(k) \in 0..2
  BY DEF Class
<1>. QED
  BY <1>1, <1>2 DEF Before

\* The three passes of the closed form take the slices of the loop.
LEMMA RemoveTakesSlices ==
  ASSUME DrawTypeOK, NEW k \in Locs
  PROVE  Remove(rows, asked, pref, defaults)[k] = rows[k] - Slice(k)
<1>. USE DrawTypes
<1>1. PICK A, B, C : A = {pref} /\ B = defaults \ {pref} /\ C = Locs \ (defaults \cup {pref})
  OBVIOUS
<1>2. PICK q1 : q1 = asked - Sum(Take(Rows(rows, A), NumLocs, asked), NumLocs)
  OBVIOUS
<1>3. q1 = Positive(asked - InRows(rows, A)) /\ q1 \in Nat
  <2>1. Sum(Take(Rows(rows, A), NumLocs, asked), NumLocs) = MinOf(asked, InRows(rows, A))
    BY SliceOf
  <2>2. InRows(rows, A) \in Nat
    BY InRowsNat
  <2>. QED
    BY <1>2, <2>1, <2>2 DEF MinOf, Positive
<1>4. PICK q2 : q2 = q1 - Sum(Take(Rows(rows, B), NumLocs, q1), NumLocs)
  OBVIOUS
<1>5. q2 = Positive(asked - InRows(rows, A) - InRows(rows, B)) /\ q2 \in Nat
  <2>1. Sum(Take(Rows(rows, B), NumLocs, q1), NumLocs) = MinOf(q1, InRows(rows, B))
    BY <1>3, SliceOf
  <2>2. InRows(rows, A) \in Nat /\ InRows(rows, B) \in Nat
    BY InRowsNat
  <2>. QED
    BY <1>3, <1>4, <2>1, <2>2 DEF MinOf, Positive
<1>6. PICK x, y, z : /\ x = Take(Rows(rows, A), NumLocs, asked)[k]
                     /\ y = Take(Rows(rows, B), NumLocs, q1)[k]
                     /\ z = Take(Rows(rows, C), NumLocs, q2)[k]
  OBVIOUS
<1>7. Remove(rows, asked, pref, defaults)[k] = rows[k] - x - y - z
  BY <1>1, <1>2, <1>4, <1>6 DEF Remove
<1>8. PICK fa, fb, fc : /\ fa = {j \in A : j < k}
                        /\ fb = {j \in B : j < k}
                        /\ fc = {j \in C : j < k}
  OBVIOUS
<1>9. /\ x = IF k \in A THEN MinOf(Positive(rows[k]), Positive(asked - InRows(rows, fa))) ELSE 0
      /\ y = IF k \in B THEN MinOf(Positive(rows[k]), Positive(q1 - InRows(rows, fb))) ELSE 0
      /\ z = IF k \in C THEN MinOf(Positive(rows[k]), Positive(q2 - InRows(rows, fc))) ELSE 0
  <2>1. x = IF k \in A THEN MinOf(Positive(rows[k]), Positive(asked - InRows(rows, fa))) ELSE 0
    BY <1>6, <1>8, SliceOf
  <2>2. y = IF k \in B THEN MinOf(Positive(rows[k]), Positive(q1 - InRows(rows, fb))) ELSE 0
    BY <1>3, <1>6, <1>8, SliceOf
  <2>3. z = IF k \in C THEN MinOf(Positive(rows[k]), Positive(q2 - InRows(rows, fc))) ELSE 0
    BY <1>5, <1>6, <1>8, SliceOf
  <2>. QED
    BY <2>1, <2>2, <2>3
<1>10. /\ rows[k] \in Int /\ InRows(rows, AheadOf(k)) \in Nat
       /\ InRows(rows, A) \in Nat /\ InRows(rows, B) \in Nat
       /\ InRows(rows, fa) \in Nat /\ InRows(rows, fb) \in Nat /\ InRows(rows, fc) \in Nat
  BY InRowsNat DEF IntColumns
<1>11. CASE k \in A
  <2>1. \A j \in Locs : j \notin AheadOf(k) /\ j \notin fa
    BY <1>1, <1>8, <1>11 DEF AheadOf, Before, Class, Locs
  <2>2. InRows(rows, AheadOf(k)) = 0 /\ InRows(rows, fa) = 0
    BY <2>1, InNoRows
  <2>3. y = 0 /\ z = 0 /\ x = Slice(k)
    BY <1>1, <1>9, <1>11, <2>2 DEF Slice
  <2>. QED
    BY <1>7, <1>10, <2>2, <2>3 DEF Slice, MinOf, Positive
<1>12. CASE k \in B
  <2>1. \A j \in Locs : (j \in AheadOf(k) <=> j \in A \/ j \in fb) /\ ~ (j \in A /\ j \in fb)
    BY <1>1, <1>8, <1>12 DEF AheadOf, Before, Class
  <2>2. InRows(rows, AheadOf(k)) = InRows(rows, A) + InRows(rows, fb)
    BY <2>1, InRowsUnion
  <2>3. x = 0 /\ z = 0 /\ y = MinOf(Positive(rows[k]), Positive(q1 - InRows(rows, fb)))
    BY <1>1, <1>9, <1>12
  <2>. QED
    BY <1>3, <1>7, <1>10, <2>2, <2>3 DEF Slice, MinOf, Positive
<1>13. CASE k \in C
  <2>1. PICK D : D = A \cup B
    OBVIOUS
  <2>2. \A j \in Locs : (j \in D <=> j \in A \/ j \in B) /\ ~ (j \in A /\ j \in B)
    BY <1>1, <2>1
  <2>3. \A j \in Locs : (j \in AheadOf(k) <=> j \in D \/ j \in fc) /\ ~ (j \in D /\ j \in fc)
    BY <1>1, <1>8, <1>13, <2>1 DEF AheadOf, Before, Class
  <2>4. InRows(rows, D) = InRows(rows, A) + InRows(rows, B)
    BY <2>2, InRowsUnion
  <2>5. InRows(rows, AheadOf(k)) = InRows(rows, D) + InRows(rows, fc)
    BY <2>3, InRowsUnion
  <2>6. x = 0 /\ y = 0 /\ z = MinOf(Positive(rows[k]), Positive(q2 - InRows(rows, fc)))
    BY <1>1, <1>9, <1>13
  <2>. QED
    BY <1>5, <1>7, <1>10, <2>4, <2>5, <2>6 DEF Slice, MinOf, Positive
<1>. QED
  BY <1>1, <1>11, <1>12, <1>13

(***************************************************************************)
(* The inductive invariant of the loop: it has been through the rows in    *)
(* the order of the sort, has taken the slices of those it has been        *)
(* through, and what remains is what they do not cover.                    *)
(***************************************************************************)
DrawInv ==
  /\ DrawTypeOK
  /\ \A k \in visited : AheadOf(k) \subseteq visited
  /\ remaining = Positive(asked - InRows(rows, visited))
  /\ Sum(taken, NumLocs) + remaining = asked
  /\ \A k \in Locs : taken[k] = IF k \in visited THEN Slice(k) ELSE 0

LEMMA DrawInvInit == DrawInit => DrawInv
<1>. SUFFICES ASSUME DrawInit
              PROVE  DrawInv
  OBVIOUS
<1>1. DrawTypeOK
  BY DrawdownAssumption DEF DrawInit, DrawTypeOK, Zero, Locs
<1>2. InRows(rows, visited) = 0
  BY <1>1, DrawTypes, InNoRows DEF DrawInit
<1>3. \A k \in 1..NumLocs : taken[k] = 0
  BY DEF DrawInit, Zero
<1>4. Sum(taken, NumLocs) = 0
  BY <1>1, <1>3, DrawTypes, SumZero
<1>. QED
  BY <1>1, <1>2, <1>3, <1>4, DrawTypes DEF DrawInit, DrawInv, Locs, Positive

\* The row that the loop visits next is the one that only the visited rows are ahead of.
LEMMA NextInOrder ==
  ASSUME DrawInv, NEW k \in Locs, Visit(k)
  PROVE  \A j \in Locs : j \in AheadOf(k) <=> j \in visited
<1>. SUFFICES ASSUME NEW j \in Locs
              PROVE  j \in AheadOf(k) <=> j \in visited
  OBVIOUS
<1>1. j \in visited => j # k /\ ~ Before(k, j)
  BY DEF DrawInv, Visit, AheadOf
<1>2. j \notin visited => j = k \/ Before(k, j)
  BY DEF Visit
<1>. QED
  BY <1>1, <1>2, SortOrder DEF AheadOf

LEMMA DrawInvStep == DrawInv /\ [DrawNext]_drawVars => DrawInv'
<1>. SUFFICES ASSUME DrawInv, [DrawNext]_drawVars
              PROVE  DrawInv'
  OBVIOUS
<1>1. CASE UNCHANGED drawVars
  <2>1. DrawTypeOK'
    BY <1>1 DEF DrawInv, DrawTypeOK, drawVars
  <2>. QED
    BY <1>1, <2>1 DEF DrawInv, drawVars, AheadOf, Before, Class, InRows, Slice
<1>2. ASSUME NEW k \in Locs, Visit(k)
      PROVE  DrawInv'
  <2>. USE <1>2
  <2>1. rows' = rows /\ pref' = pref /\ defaults' = defaults /\ asked' = asked
    BY DEF Visit
  <2>2. /\ DrawTypeOK /\ rows \in IntColumns /\ rows[k] \in Int /\ asked \in Nat
        /\ NumLocs \in Nat /\ remaining \in Nat /\ remaining > 0 /\ k \notin visited
    BY DrawTypes DEF DrawInv, DrawTypeOK, IntColumns, Visit
  <2>3. PICK V, W, m : /\ V = InRows(rows, visited) /\ W = InRows(rows, visited \cup {k})
                       /\ m = MinOf(remaining, Positive(rows[k]))
    OBVIOUS
  <2>4. V \in Nat /\ W = V + Positive(rows[k])
    <3>1. InRows(rows, visited \cup {k}) = InRows(rows, visited) + InRows(rows, {k})
      BY <2>2, InRowsUnion
    <3>2. PICK f : f = Available(Rows(rows, {k}), NumLocs)
      OBVIOUS
    <3>3. \A j \in 1..NumLocs : f[j] = At(k, Positive(rows[k]), NumLocs)[j] /\ f[j] \in Int
      BY <2>2, <3>2, InRowsNat DEF At
    <3>4. Positive(rows[k]) \in Int /\ k \in Int /\ k \in 1..NumLocs
      BY <2>2 DEF Positive, Locs
    <3>5. Sum(f, NumLocs) = Sum(At(k, Positive(rows[k]), NumLocs), NumLocs)
      BY <2>2, <3>3, SumSame
    <3>6. Sum(At(k, Positive(rows[k]), NumLocs), NumLocs) = Positive(rows[k])
      BY <2>2, <3>4, SumAt
    <3>7. InRows(rows, {k}) = Positive(rows[k])
      BY <3>2, <3>5, <3>6 DEF InRows
    <3>. QED
      BY <2>2, <2>3, <3>1, <3>7, InRowsNat
  <2>5. remaining = asked - V
    BY <2>2, <2>3, <2>4 DEF DrawInv, Positive
  <2>6. /\ taken' = [taken EXCEPT ![k] = m]
        /\ remaining' = remaining - m
        /\ m \in Nat /\ m <= remaining
    <3>1. CASE rows[k] > 0
      BY <2>2, <2>3, <3>1 DEF Visit, MinOf, Positive
    <3>2. CASE ~ (rows[k] > 0)
      <4>1. m = 0 /\ taken' = taken /\ remaining' = remaining
        BY <2>2, <2>3, <3>2 DEF Visit, MinOf, Positive
      <4>2. taken \in [Locs -> Nat] /\ taken[k] = 0
        BY <2>2 DEF DrawInv, DrawTypeOK
      <4>. QED
        BY <2>2, <4>1, <4>2
    <3>. QED
      BY <3>1, <3>2
  <2>7. DrawTypeOK'
    BY <2>1, <2>2, <2>6 DEF DrawTypeOK, Visit
  <2>8. \A j \in Locs : AheadOf(j)' = AheadOf(j)
    BY <2>1 DEF AheadOf, Before, Class
  <2>9. \A j \in visited' : AheadOf(j)' \subseteq visited'
    <3>1. visited' = visited \cup {k} /\ visited \subseteq Locs
      BY <2>2 DEF Visit, DrawTypeOK
    <3>2. AheadOf(k) \subseteq visited
      BY NextInOrder DEF AheadOf
    <3>. QED
      BY <2>8, <3>1, <3>2 DEF DrawInv
  <2>10. remaining' = Positive(asked' - InRows(rows', visited'))
    <3>1. InRows(rows', visited') = W
      BY <2>1, <2>3 DEF Visit
    <3>2. rows[k] \in Int
      BY <2>2
    <3>. QED
      BY <2>1, <2>2, <2>3, <2>4, <2>5, <2>6, <3>1 DEF MinOf, Positive
  <2>11. Sum(taken', NumLocs) + remaining' = asked'
    <3>1. PICK f, g, h : f = taken /\ g = At(k, m, NumLocs) /\ h = taken'
      OBVIOUS
    <3>2. \A j \in 1..NumLocs : f[j] \in Int /\ g[j] \in Int /\ h[j] = f[j] + g[j]
      <4>. SUFFICES ASSUME NEW j \in 1..NumLocs
                    PROVE  f[j] \in Int /\ g[j] \in Int /\ h[j] = f[j] + g[j]
        OBVIOUS
      <4>1. taken \in [Locs -> Nat] /\ taken[k] = 0 /\ j \in Locs
        BY <2>2 DEF DrawInv, DrawTypeOK, Locs
      <4>2. g[j] = IF j = k THEN m ELSE 0
        BY <3>1 DEF At
      <4>3. h[j] = IF j = k THEN m ELSE f[j]
        BY <2>6, <3>1, <4>1
      <4>. QED
        BY <2>6, <3>1, <4>1, <4>2, <4>3
    <3>3. Sum(h, NumLocs) = Sum(f, NumLocs) + Sum(g, NumLocs)
      BY <2>2, <3>2, SumAdd
    <3>4. Sum(g, NumLocs) = m
      <4>1. k \in 1..NumLocs /\ k \in Int /\ m \in Int
        BY <2>6 DEF Locs
      <4>. QED
        BY <2>2, <3>1, <4>1, SumAt
    <3>5. Sum(f, NumLocs) \in Int
      BY <2>2, <3>2, SumInt
    <3>6. Sum(f, NumLocs) + remaining = asked
      BY <3>1 DEF DrawInv
    <3>. QED
      BY <2>1, <2>2, <2>6, <3>1, <3>3, <3>4, <3>5, <3>6
  <2>12. \A j \in Locs : taken'[j] = IF j \in visited' THEN Slice(j)' ELSE 0
    <3>. SUFFICES ASSUME NEW j \in Locs
                  PROVE  taken'[j] = IF j \in visited' THEN Slice(j)' ELSE 0
      OBVIOUS
    <3>1. Slice(j)' = Slice(j)
      BY <2>1, <2>8 DEF Slice, InRows
    <3>2. InRows(rows, AheadOf(k)) = V
      <4>1. AheadOf(k) = visited
        BY <2>2, NextInOrder DEF AheadOf, DrawTypeOK
      <4>. QED
        BY <2>3, <4>1
    <3>3. Slice(k) = m
      BY <2>2, <2>3, <2>4, <2>5, <3>2 DEF Slice, MinOf, Positive
    <3>4. taken \in [Locs -> Nat] /\ taken[j] = IF j \in visited THEN Slice(j) ELSE 0
      BY <2>2 DEF DrawInv, DrawTypeOK
    <3>. QED
      BY <2>2, <2>6, <3>1, <3>3, <3>4 DEF Visit
  <2>. QED
    BY <2>7, <2>9, <2>10, <2>11, <2>12 DEF DrawInv
<1>. QED
  BY <1>1, <1>2 DEF DrawNext

(***************************************************************************)
(* The loop of allocateLots and removeFromLocations computes the closed    *)
(* form that the postings of the model use, for any number of rows, any    *)
(* quantities in them, below zero too, any request and any flags.          *)
(***************************************************************************)
THEOREM LoopIsRemove == DrawSpec => [](DrawTypeOK /\ LoopComputesRemove)
<1>1. ASSUME DrawInv
      PROVE  LoopComputesRemove
  <2>. SUFFICES ASSUME Done
                PROVE  /\ [k \in Locs |-> rows[k] - taken[k]] = Remove(rows, asked, pref, defaults)
                       /\ Sum(taken, NumLocs) + remaining = asked
                       /\ remaining = Positive(asked - Sum(Available(rows, NumLocs), NumLocs))
    BY DEF LoopComputesRemove
  <2>1. /\ DrawTypeOK /\ rows \in IntColumns /\ asked \in Nat /\ visited \subseteq Locs
        /\ remaining = Positive(asked - InRows(rows, visited))
    BY <1>1, DrawTypes DEF DrawInv, DrawTypeOK
  <2>2. \A k \in Locs : taken[k] = Slice(k)
    <3>. SUFFICES ASSUME NEW k \in Locs, k \notin visited
                  PROVE  Slice(k) = 0
      BY <1>1 DEF DrawInv
    <3>1. remaining = 0
      BY DEF Done
    <3>2. \A j \in Locs : j \in visited => j \in AheadOf(k)
      BY <1>1, SortOrder DEF DrawInv, AheadOf
    <3>3. InRows(rows, visited) <= InRows(rows, AheadOf(k))
      BY <2>1, <3>2, InRowsGrows
    <3>4. InRows(rows, visited) \in Nat /\ InRows(rows, AheadOf(k)) \in Nat /\ rows[k] \in Int
      BY <2>1, InRowsNat DEF IntColumns
    <3>. QED
      BY <2>1, <3>1, <3>3, <3>4 DEF Slice, MinOf, Positive
  <2>3. [k \in Locs |-> rows[k] - taken[k]] = Remove(rows, asked, pref, defaults)
    <3>1. \A k \in Locs : Remove(rows, asked, pref, defaults)[k] = rows[k] - taken[k]
      BY <2>1, <2>2, RemoveTakesSlices
    <3>2. Remove(rows, asked, pref, defaults) =
            [k \in Locs |-> Remove(rows, asked, pref, defaults)[k]]
      BY DEF Remove
    <3>. QED
      BY <3>1, <3>2
  <2>4. remaining = Positive(asked - Sum(Available(rows, NumLocs), NumLocs))
    <3>1. Rows(rows, Locs) = rows
      BY <2>1 DEF Rows, IntColumns
    <3>2. InRows(rows, Locs) = Sum(Available(rows, NumLocs), NumLocs)
      BY <3>1 DEF InRows
    <3>3. InRows(rows, visited) <= InRows(rows, Locs)
      BY <2>1, InRowsGrows
    <3>4. InRows(rows, visited) \in Nat /\ InRows(rows, Locs) \in Nat
      BY <2>1, InRowsNat
    <3>. QED
      BY <2>1, <3>2, <3>3, <3>4 DEF Done, Positive
  <2>. QED
    BY <1>1, <2>3, <2>4 DEF DrawInv
<1>2. DrawInv => DrawTypeOK /\ LoopComputesRemove
  BY <1>1 DEF DrawInv
<1>. QED
  BY DrawInvInit, DrawInvStep, <1>2, PTL DEF DrawSpec

-----------------------------------------------------------------------------
(***************************************************************************)
(* Formulas.  Inside(S) is computed in as many rounds as there are items.  *)
(* That is enough (InsideClosed): a round that adds nothing is the last    *)
(* one, and every other adds an item.  So it is the least set that holds S *)
(* and what its members are made of (InsideLeast, InsideClosed), which is  *)
(* what the cycle check of a saved formula rests on (NoNewCycle).          *)
(***************************************************************************)
Rounds(S, g, n) == g = [k \in 0..n |-> IF k = 0 THEN S ELSE Opened(g[k - 1])]

\* The rounds can be carried on for as long as one likes.
LEMMA RoundsExist ==
  ASSUME NEW S
  PROVE  \A n \in Nat : \E g : Rounds(S, g, n)
<1>. DEFINE T == {n \in Nat : \E g : Rounds(S, g, n)}
<1>1. 0 \in T
  <2>. DEFINE g == [k \in 0..0 |-> S]
  <2>1. g = [k \in 0..0 |-> IF k = 0 THEN S ELSE Opened(g[k - 1])]
    OBVIOUS
  <2>. HIDE DEF g
  <2>. QED
    BY <2>1 DEF Rounds
<1>2. ASSUME NEW n \in Nat, n \in T
      PROVE  n + 1 \in T
  <2>1. PICK g : Rounds(S, g, n)
    BY <1>2
  <2>. DEFINE h == [k \in 0..(n + 1) |-> IF k = n + 1 THEN Opened(g[n]) ELSE g[k]]
              e == [k \in 0..(n + 1) |-> IF k = 0 THEN S ELSE Opened(h[k - 1])]
  <2>2. ASSUME NEW k \in 0..(n + 1)
        PROVE  h[k] = IF k = 0 THEN S ELSE Opened(h[k - 1])
    <3>1. CASE k = n + 1
      <4>1. h[k] = Opened(g[n]) /\ h[k - 1] = g[n]
        BY <3>1
      <4>. QED
        BY <3>1, <4>1
    <3>2. CASE k \in 0..n
      <4>1. g[k] = IF k = 0 THEN S ELSE Opened(g[k - 1])
        BY <2>1, <3>2 DEF Rounds
      <4>2. k # 0 => h[k - 1] = g[k - 1]
        BY <3>2
      <4>3. h[k] = g[k]
        BY <3>2
      <4>. QED
        BY <4>1, <4>2, <4>3
    <3>. QED
      BY <3>1, <3>2
  <2>3. h = e
    <3>1. DOMAIN h = DOMAIN e /\ \A k \in DOMAIN h : h[k] = e[k]
      BY <2>2
    <3>2. h = [k \in DOMAIN h |-> h[k]] /\ e = [k \in DOMAIN e |-> e[k]]
      OBVIOUS
    <3>. QED
      BY <3>1, <3>2
  <2>. HIDE DEF h
  <2>. QED
    BY <2>3 DEF Rounds
<1>3. \A n \in Nat : n \in T
  <2>. HIDE DEF T
  <2>. QED
    BY <1>1, <1>2, SetInduction
<1>. QED
  BY <1>3

\* There are finitely many items.
LEMMA ItemsCounted == IsFiniteSet(Goods) /\ Cardinality(Goods) \in Nat
BY CatalogAssumption, FS_CardinalityType DEF CatalogAssumption

\* Inside(S) is the result of the last round.
LEMMA InsideRounds ==
  ASSUME NEW S
  PROVE  \E g : Rounds(S, g, Cardinality(Goods)) /\ Inside(S) = g[Cardinality(Goods)]
<1>. DEFINE N == Cardinality(Goods)
            G == CHOOSE g : g = [n \in 0..N |-> IF n = 0 THEN S ELSE Opened(g[n - 1])]
<1>1. \E g : g = [n \in 0..N |-> IF n = 0 THEN S ELSE Opened(g[n - 1])]
  BY ItemsCounted, RoundsExist DEF Rounds
<1>2. G = [n \in 0..N |-> IF n = 0 THEN S ELSE Opened(G[n - 1])]
  <2>. HIDE DEF N
  <2>. QED
    BY <1>1
<1>3. Inside(S) = G[N]
  BY DEF Inside
<1>. HIDE DEF G
<1>. QED
  BY <1>2, <1>3 DEF Rounds

\* A round by itself: the first is S, each other opens what is in the one before.
LEMMA OneRound ==
  ASSUME NEW S, NEW g, NEW N \in Nat, Rounds(S, g, N)
  PROVE  /\ g[0] = S
         /\ \A n \in Nat : n + 1 <= N => g[n + 1] = Opened(g[n])
BY DEF Rounds

\* No smaller set holds S and what its members are made of.
LEMMA InsideLeast ==
  ASSUME NEW S, NEW T, S \subseteq T, Opened(T) \subseteq T
  PROVE  Inside(S) \subseteq T
<1>. DEFINE N == Cardinality(Goods)
<1>1. N \in Nat
  BY ItemsCounted
<1>2. PICK g : Rounds(S, g, N) /\ Inside(S) = g[N]
  BY InsideRounds
<1>. HIDE DEF N
<1>3. g[0] = S /\ \A n \in Nat : n + 1 <= N => g[n + 1] = Opened(g[n])
  BY <1>1, <1>2, OneRound
<1>. DEFINE P == {n \in Nat : n <= N => g[n] \subseteq T}
<1>4. 0 \in P
  BY <1>3
<1>5. ASSUME NEW n \in Nat, n \in P
      PROVE  n + 1 \in P
  <2>. SUFFICES ASSUME n + 1 <= N PROVE g[n + 1] \subseteq T
    OBVIOUS
  <2>1. g[n] \subseteq T
    BY <1>1, <1>5
  <2>2. Opened(g[n]) \subseteq Opened(T)
    BY <2>1 DEF Opened
  <2>. QED
    BY <1>3, <2>2
<1>6. \A n \in Nat : n \in P
  <2>. HIDE DEF P
  <2>. QED
    BY <1>4, <1>5, SetInduction
<1>. QED
  BY <1>1, <1>2, <1>6

\* What is mixed into items is an item.
MixesFit == DOMAIN formulas = FormulaIds /\ \A f \in FormulaIds : DOMAIN formulas[f].mix \subseteq Goods

\* Opening adds the components, all of them items.
LEMMA OpenedGrows ==
  ASSUME MixesFit, NEW S \in SUBSET Goods
  PROVE  S \subseteq Opened(S) /\ Opened(S) \in SUBSET Goods
<1>1. \A i : Makes(i) \subseteq Goods
  BY DEF Makes, FormulasOf, FormulasIn, MixesFit
<1>. QED
  BY <1>1 DEF Opened

\* The last round leaves nothing to open.
LEMMA InsideClosed ==
  ASSUME MixesFit, NEW S \in SUBSET Goods
  PROVE  S \subseteq Inside(S) /\ Inside(S) \in SUBSET Goods /\ Opened(Inside(S)) \subseteq Inside(S)
<1>. DEFINE N == Cardinality(Goods)
<1>1. N \in Nat /\ IsFiniteSet(Goods)
  BY ItemsCounted
<1>2. PICK g : Rounds(S, g, N) /\ Inside(S) = g[N]
  BY InsideRounds
<1>3. \A X \in SUBSET Goods : IsFiniteSet(X) /\ Cardinality(X) \in Nat /\ Cardinality(X) <= N
  BY <1>1, FS_Subset, FS_CardinalityType
<1>. HIDE DEF N
<1>4. g[0] = S /\ \A n \in Nat : n + 1 <= N => g[n + 1] = Opened(g[n])
  BY <1>1, <1>2, OneRound
<1>. DEFINE Settled(X) == Opened(X) \subseteq X
            P == {n \in Nat : n <= N =>
                    /\ g[n] \in SUBSET Goods /\ S \subseteq g[n]
                    /\ Settled(g[n]) \/ n < Cardinality(g[n])}
<1>5. 0 \in P
  <2>1. CASE S = {}
    <3>1. Settled({})
      BY DEF Opened
    <3>. QED
      BY <2>1, <3>1, <1>4
  <2>2. CASE S # {}
    <3>1. 0 < Cardinality(S)
      BY <2>2, <1>3, FS_EmptySet
    <3>. QED
      BY <3>1, <1>4
  <2>. QED
    BY <2>1, <2>2
<1>6. ASSUME NEW n \in Nat, n \in P
      PROVE  n + 1 \in P
  <2>. SUFFICES ASSUME n + 1 <= N
                PROVE  /\ g[n + 1] \in SUBSET Goods /\ S \subseteq g[n + 1]
                       /\ Settled(g[n + 1]) \/ n + 1 < Cardinality(g[n + 1])
    OBVIOUS
  <2>. DEFINE X == g[n]
  <2>1. X \in SUBSET Goods /\ S \subseteq X /\ (Settled(X) \/ n < Cardinality(X))
    BY <1>1, <1>6
  <2>2. g[n + 1] = Opened(X)
    BY <1>4
  <2>. HIDE DEF X
  <2>3. X \subseteq Opened(X) /\ Opened(X) \in SUBSET Goods
    BY <2>1, OpenedGrows
  <2>4. CASE Settled(X)
    <3>1. Opened(X) = X
      BY <2>3, <2>4
    <3>. QED
      BY <2>1, <2>2, <2>4, <3>1
  <2>5. CASE ~ Settled(X)
    <3>1. Cardinality(X) < Cardinality(Opened(X))
      <4>1. X # Opened(X)
        BY <2>5
      <4>2. Cardinality(X) <= Cardinality(Opened(X)) /\ Cardinality(X) # Cardinality(Opened(X))
        BY <1>3, <2>3, <4>1, FS_Subset
      <4>. QED
        BY <1>3, <2>1, <2>3, <4>2
    <3>2. Cardinality(X) \in Nat /\ Cardinality(Opened(X)) \in Nat
      BY <1>3, <2>1, <2>3
    <3>3. n + 1 < Cardinality(Opened(X))
      BY <2>1, <2>5, <3>1, <3>2
    <3>. QED
      BY <2>1, <2>2, <2>3, <3>3
  <2>. QED
    BY <2>4, <2>5
<1>7. \A n \in Nat : n \in P
  <2>. HIDE DEF P
  <2>. QED
    BY <1>5, <1>6, SetInduction
<1>8. g[N] \in SUBSET Goods /\ S \subseteq g[N] /\ (Settled(g[N]) \/ N < Cardinality(g[N]))
  BY <1>1, <1>7
<1>9. Cardinality(g[N]) \in Nat /\ Cardinality(g[N]) <= N
  BY <1>3, <1>8
<1>10. Settled(g[N])
  BY <1>1, <1>8, <1>9
<1>. QED
  BY <1>2, <1>8, <1>10

\* What is inside an item, in terms of its components.
LEMMA InsideAnItem ==
  \A i, T : Makes(i) \subseteq T /\ (\A j \in T : Makes(j) \subseteq T) => Inside(Makes(i)) \subseteq T
<1>. SUFFICES ASSUME NEW i, NEW T, Makes(i) \subseteq T, \A j \in T : Makes(j) \subseteq T
              PROVE  Inside(Makes(i)) \subseteq T
  OBVIOUS
<1>1. Opened(T) \subseteq T
  BY DEF Opened
<1>. QED
  BY <1>1, InsideLeast

\* The same after a step.
LEMMA InsideAnItemNext ==
  (\A i, T : Makes(i) \subseteq T /\ (\A j \in T : Makes(j) \subseteq T) =>
     Inside(Makes(i)) \subseteq T)'
BY InsideAnItem, PTL

(***************************************************************************)
(* Items that are free of cycles stay so when components that do not       *)
(* contain an item are added to it, and when components are removed.       *)
(***************************************************************************)
LEMMA NoNewCycle ==
  ASSUME MixesFit, NoCircularFormula,
         NEW t, NEW D \in SUBSET Goods, t \notin Inside(D),
         \A j \in Goods : j # t => Makes(j)' \subseteq Makes(j),
         Makes(t)' \subseteq Makes(t) \cup D
  PROVE  NoCircularFormula'
<1>1. ASSUME NEW S \in SUBSET Goods
      PROVE  /\ S \subseteq Inside(S) /\ Inside(S) \in SUBSET Goods
             /\ \A j \in Inside(S) : Makes(j) \subseteq Inside(S)
  <2>1. S \subseteq Inside(S) /\ Inside(S) \in SUBSET Goods /\ Opened(Inside(S)) \subseteq Inside(S)
    BY <1>1, InsideClosed
  <2>. HIDE DEF Inside
  <2>. QED
    BY <2>1 DEF Opened
<1>2. \A i : Makes(i) \in SUBSET Goods
  BY DEF Makes, FormulasOf, FormulasIn, MixesFit
<1>3. \A i \in Goods : i \notin Inside(Makes(i))
  BY DEF NoCircularFormula
<1>. SUFFICES ASSUME NEW i \in Goods
              PROVE  i \notin Inside(Makes(i))'
  BY DEF NoCircularFormula
<1>. DEFINE A == Inside(Makes(i))
            B == Inside(D)
<1>4. /\ Makes(i) \subseteq A /\ A \in SUBSET Goods /\ \A j \in A : Makes(j) \subseteq A
      /\ D \subseteq B /\ B \in SUBSET Goods /\ \A j \in B : Makes(j) \subseteq B
  BY <1>1, <1>2
<1>5. i \notin A
  BY <1>3
<1>6. ASSUME NEW T, Makes(i)' \subseteq T, \A j \in T : Makes(j)' \subseteq T, i \notin T
      PROVE  i \notin Inside(Makes(i))'
  BY <1>6, InsideAnItemNext
<1>7. i \in B => A \subseteq B
  <2>. SUFFICES ASSUME i \in B PROVE A \subseteq B
    OBVIOUS
  <2>. HIDE DEF B
  <2>. QED
    BY <1>4, InsideAnItem
<1>. HIDE DEF A, B
<1>8. CASE i = t \/ t \in A
  <2>. DEFINE T == A \cup B
  <2>1. i \notin B
    BY <1>7, <1>8 DEF B
  <2>2. i \notin T /\ T \in SUBSET Goods
    BY <1>4, <1>5, <2>1
  <2>3. Makes(i)' \subseteq T
    BY <1>4, <1>8
  <2>4. ASSUME NEW j \in T
        PROVE  Makes(j)' \subseteq T
    <3>1. CASE j # t
      BY <1>4, <2>2, <2>4, <3>1
    <3>2. CASE j = t
      <4>1. j \in A
        BY <2>4, <3>2 DEF B
      <4>. QED
        BY <1>4, <3>2, <4>1
    <3>. QED
      BY <3>1, <3>2
  <2>. HIDE DEF T
  <2>. QED
    BY <1>6, <2>2, <2>3, <2>4
<1>9. CASE i # t /\ t \notin A
  <2>1. Makes(i)' \subseteq A /\ \A j \in A : Makes(j)' \subseteq A
    BY <1>4, <1>9
  <2>. QED
    BY <1>5, <1>6, <2>1
<1>. QED
  BY <1>8, <1>9

\* A component of an item stands in one of the formulas that make it.
LEMMA MadeOf ==
  \A i, c : c \in Makes(i) <=>
             \E f \in FormulaIds : formulas[f].target = i /\ c \in DOMAIN formulas[f].mix
BY DEF Makes, FormulasOf, FormulasIn

\* The same after a step.
LEMMA MadeOfNext ==
  (\A i, c : c \in Makes(i) <=>
     \E f \in FormulaIds : formulas[f].target = i /\ c \in DOMAIN formulas[f].mix)'
BY MadeOf, PTL

(***************************************************************************)
(* Writing a formula, a new one or a new version of the lines of an old    *)
(* one, for a target that its components do not contain.                   *)
(***************************************************************************)
LEMMA WrittenOK ==
  ASSUME MixesFit, NoCircularFormula,
         NEW f \in FormulaIds, NEW r, DOMAIN r.mix \subseteq Goods,
         r.target \notin Inside(DOMAIN r.mix),
         formulas' = [formulas EXCEPT ![f] = r]
  PROVE  MixesFit' /\ NoCircularFormula'
<1>1. DOMAIN formulas' = FormulaIds /\ formulas'[f] = r
  BY DEF MixesFit
<1>2. \A g \in FormulaIds : g # f => formulas'[g] = formulas[g]
  BY DEF MixesFit
<1>3. MixesFit'
  BY <1>1, <1>2 DEF MixesFit
<1>4. ASSUME NEW j, NEW c \in Makes(j)', c \notin Makes(j)
      PROVE  j = r.target /\ c \in DOMAIN r.mix
  <2>1. PICK g \in FormulaIds : formulas'[g].target = j /\ c \in DOMAIN formulas'[g].mix
    BY <1>4, MadeOfNext
  <2>2. g = f
    <3>1. ~ (formulas[g].target = j /\ c \in DOMAIN formulas[g].mix)
      BY <1>4, MadeOf
    <3>. QED
      BY <1>2, <2>1, <3>1
  <2>. QED
    BY <1>1, <2>1, <2>2
<1>5. NoCircularFormula'
  <2>1. \A j \in Goods : j # r.target => Makes(j)' \subseteq Makes(j)
    BY <1>4
  <2>2. Makes(r.target)' \subseteq Makes(r.target) \cup DOMAIN r.mix
    BY <1>4
  <2>. QED
    BY <2>1, <2>2, NoNewCycle
<1>. QED
  BY <1>3, <1>5

\* The components of a request are items.
LEMMA RequestedMix == \A mix \in Mixes : DOMAIN mix \subseteq Goods
BY CatalogAssumption DEF CatalogAssumption

\* Saving a new formula that passed validateComposition.
LEMMA SaveOK ==
  ASSUME MixesFit, NoCircularFormula,
         NEW f \in FormulaIds, NEW target, NEW mix \in Mixes, NEW version, NEW active, NEW items,
         Composable(items, target, mix), SaveFormula(f, target, mix, version, active)
  PROVE  MixesFit' /\ NoCircularFormula'
<1>1. PICK v : formulas' = [formulas EXCEPT ![f] =
                 [target |-> target, version |-> v, active |-> active, mix |-> mix]]
  BY DEF SaveFormula, Saved
<1>2. target \notin Inside(DOMAIN mix)
  BY DEF Composable
<1>3. DOMAIN mix \subseteq Goods
  BY RequestedMix
<1>. DEFINE r == [target |-> target, version |-> v, active |-> active, mix |-> mix]
<1>4. r.target = target /\ r.mix = mix
  OBVIOUS
<1>. HIDE DEF r
<1>5. formulas' = [formulas EXCEPT ![f] = r]
  BY <1>1 DEF r
<1>6. DOMAIN r.mix \subseteq Goods /\ r.target \notin Inside(DOMAIN r.mix)
  BY <1>2, <1>3, <1>4
<1>. QED
  BY <1>5, <1>6, WrittenOK

\* Editing one: the cycle check is the same.
LEMMA UpdateFormulaOK ==
  ASSUME MixesFit, NoCircularFormula,
         NEW f \in FormulaIds, NEW mix \in Mixes, NEW version, NEW active,
         UpdateFormula(f, mix, active, version)
  PROVE  MixesFit' /\ NoCircularFormula'
<1>. DEFINE target == formulas[f].target
<1>1. PICK v : formulas' = [formulas EXCEPT ![f] =
                 [target |-> target, version |-> v, active |-> active, mix |-> mix]]
  BY DEF UpdateFormula, Rewritten
<1>2. target \notin Inside(DOMAIN mix)
  BY DEF UpdateFormula, EditFits, Composable
<1>3. DOMAIN mix \subseteq Goods
  BY RequestedMix
<1>. HIDE DEF target
<1>. DEFINE r == [target |-> target, version |-> v, active |-> active, mix |-> mix]
<1>4. r.target = target /\ r.mix = mix
  OBVIOUS
<1>. HIDE DEF r
<1>5. formulas' = [formulas EXCEPT ![f] = r]
  BY <1>1 DEF r
<1>6. DOMAIN r.mix \subseteq Goods /\ r.target \notin Inside(DOMAIN r.mix)
  BY <1>2, <1>3, <1>4
<1>. QED
  BY <1>5, <1>6, WrittenOK

\* Removing one takes components away.
LEMMA RemoveFormulaOK ==
  ASSUME MixesFit, NoCircularFormula, NEW f \in FormulaIds, RemoveFormula(f)
  PROVE  MixesFit' /\ NoCircularFormula'
<1>1. NoFormula.mix = <<>> /\ DOMAIN NoFormula.mix = {} /\ NoFormula.target = "NONE"
  BY DEF NoFormula
<1>2. formulas' = [formulas EXCEPT ![f] = NoFormula]
  BY DEF RemoveFormula
<1>3. Inside({}) \subseteq {}
  <2>1. Opened({}) \subseteq {}
    BY DEF Opened
  <2>. QED
    BY <2>1, InsideLeast
<1>. HIDE DEF NoFormula
<1>4. DOMAIN NoFormula.mix \subseteq Goods /\ NoFormula.target \notin Inside(DOMAIN NoFormula.mix)
  BY <1>1, <1>3
<1>. QED
  BY <1>2, <1>4, WrittenOK

-----------------------------------------------------------------------------
\* The recipe of an open form is one of those that a request may carry.
FormFits == form # NoRecipe => form[2] \in Mixes

CatalogInv == MixesFit /\ FormFits /\ NoCircularFormula

LEMMA CatalogInitOK == CatalogInit => CatalogInv
<1>. SUFFICES ASSUME CatalogInit PROVE CatalogInv
  OBVIOUS
<1>1. MixesFit
  BY DEF CatalogInit, MixesFit, NoFormula
<1>2. FormFits
  BY DEF CatalogInit, FormFits
<1>3. \A i : Makes(i) = {}
  <2>1. \A f \in FormulaIds : DOMAIN formulas[f].mix = {}
    BY DEF CatalogInit, NoFormula
  <2>. QED
    BY <2>1 DEF Makes, FormulasOf, FormulasIn
<1>4. \A i \in Goods : i \notin Inside(Makes(i))
  <2>1. \A i : Inside(Makes(i)) \subseteq {}
    BY <1>3, InsideAnItem
  <2>. QED
    BY <2>1
<1>. QED
  BY <1>1, <1>2, <1>4 DEF CatalogInv, NoCircularFormula

\* Whether there is a cycle depends on the formulas alone.
LEMMA FormulasKept ==
  ASSUME CatalogInv, UNCHANGED formulas
  PROVE  MixesFit' /\ NoCircularFormula'
<1>1. MixesFit'
  BY DEF CatalogInv, MixesFit
<1>2. NoCircularFormula'
  <2>1. \A i, c : c \in Makes(i)' => c \in Makes(i)
    BY MadeOf, MadeOfNext
  <2>2. Inside({}) \subseteq {}
    <3>1. Opened({}) \subseteq {}
      BY DEF Opened
    <3>. QED
      BY <3>1, InsideLeast
  <2>3. NoCircularFormula /\ MixesFit
    BY DEF CatalogInv
  <2>4. \A j \in Goods : Makes(j)' \subseteq Makes(j)
    BY <2>1
  <2>5. "NONE" \notin Inside({}) /\ Makes("NONE")' \subseteq Makes("NONE") \cup {}
    BY <2>1, <2>2
  <2>. QED
    BY <2>3, <2>4, <2>5, NoNewCycle
<1>. QED
  BY <1>1, <1>2

LEMMA CatalogNextOK == CatalogInv /\ [CatalogNext]_catalogVars => CatalogInv'
<1>. SUFFICES ASSUME CatalogInv, [CatalogNext]_catalogVars PROVE CatalogInv'
  OBVIOUS
<1>1. MixesFit /\ FormFits /\ NoCircularFormula
  BY DEF CatalogInv
<1>2. ASSUME UNCHANGED form
      PROVE  FormFits'
  BY <1>1, <1>2 DEF FormFits
<1>3. ASSUME NEW i \in Goods, NEW type, CreateItem(i, type) \/ UpdateItem(i, type)
      PROVE  CatalogInv'
  <2>1. UNCHANGED <<formulas, form>>
    BY <1>3 DEF CreateItem, UpdateItem
  <2>. QED
    BY <1>2, <2>1, FormulasKept DEF CatalogInv
<1>4. ASSUME NEW f \in FormulaIds, NEW mix \in Mixes, NEW active, NEW i \in Goods, NEW v,
             CreateFormula(f, i, mix, v, active)
      PROVE  CatalogInv'
  <2>1. Composable(goods, i, mix) /\ SaveFormula(f, i, mix, v, active) /\ UNCHANGED form
    BY <1>4 DEF CreateFormula
  <2>. QED
    BY <1>1, <1>2, <2>1, SaveOK DEF CatalogInv
<1>5. ASSUME NEW f \in FormulaIds, NEW mix \in Mixes, NEW active, NEW i \in Goods, NEW type,
             CreateFormulaAndTarget(f, i, type, mix, active)
      PROVE  CatalogInv'
  <2>1. PICK items : Composable(items, i, mix)
    BY <1>5 DEF CreateFormulaAndTarget
  <2>2. SaveFormula(f, i, mix, 0, active) /\ UNCHANGED form
    BY <1>5 DEF CreateFormulaAndTarget
  <2>. QED
    BY <1>1, <1>2, <2>1, <2>2, SaveOK DEF CatalogInv
<1>6. ASSUME NEW f \in FormulaIds, NEW mix \in Mixes, NEW active, NEW v,
             UpdateFormula(f, mix, active, v)
      PROVE  CatalogInv'
  <2>1. UNCHANGED form
    BY <1>6 DEF UpdateFormula
  <2>. QED
    BY <1>1, <1>2, <1>6, <2>1, UpdateFormulaOK DEF CatalogInv
<1>7. ASSUME NEW f \in FormulaIds, RemoveFormula(f)
      PROVE  CatalogInv'
  <2>1. UNCHANGED form
    BY <1>7 DEF RemoveFormula
  <2>. QED
    BY <1>1, <1>2, <1>7, <2>1, RemoveFormulaOK DEF CatalogInv
<1>8. ASSUME NEW i \in Goods, NEW mix \in Mixes, NEW type, SubmitItem(i, type, mix)
      PROVE  CatalogInv'
  <2>1. UNCHANGED formulas /\ form' = <<i, mix>>
    BY <1>8 DEF SubmitItem
  <2>2. FormFits'
    BY <2>1 DEF FormFits
  <2>. QED
    BY <2>1, <2>2, FormulasKept DEF CatalogInv
<1>9. ASSUME SubmitRecipe
      PROVE  CatalogInv'
  <2>1. FormFits'
    BY <1>9 DEF SubmitRecipe, FormFits
  <2>2. form[2] \in Mixes
    BY <1>1, <1>9 DEF SubmitRecipe, FormFits
  <2>3. CASE Composable(goods, form[1], form[2])
    <3>1. PICK f \in FormulaIds : SaveFormula(f, form[1], form[2], 0, TRUE)
      BY <1>9, <2>3 DEF SubmitRecipe
    <3>. QED
      BY <1>1, <2>1, <2>2, <2>3, <3>1, SaveOK DEF CatalogInv
  <2>4. CASE ~ Composable(goods, form[1], form[2])
    <3>1. UNCHANGED formulas
      BY <1>9, <2>4 DEF SubmitRecipe
    <3>. QED
      BY <2>1, <3>1, FormulasKept DEF CatalogInv
  <2>. QED
    BY <2>3, <2>4
<1>10. CASE UNCHANGED catalogVars
  <2>1. UNCHANGED <<formulas, form>>
    BY <1>10 DEF catalogVars
  <2>. QED
    BY <1>2, <2>1, FormulasKept DEF CatalogInv
<1>11. ASSUME CatalogNext
       PROVE  CatalogInv'
  <2>1. Retyped \subseteq Goods
    BY CatalogAssumption DEF CatalogAssumption
  <2>2. CASE \/ \E i \in Goods : \E type \in NewTypes[i] : CreateItem(i, type)
             \/ \E i \in Retyped, type \in ItemTypes : UpdateItem(i, type)
    BY <1>3, <2>1, <2>2
  <2>3. CASE \E f \in FormulaIds, mix \in Mixes, active \in BOOLEAN :
               \/ \E i \in Goods, v \in GivenVersions \cup {0} :
                    CreateFormula(f, i, mix, v, active)
               \/ \E i \in Goods : \E type \in NewTypes[i] :
                    CreateFormulaAndTarget(f, i, type, mix, active)
               \/ \E v \in GivenVersions \cup {0} : UpdateFormula(f, mix, active, v)
    BY <1>4, <1>5, <1>6, <2>3
  <2>4. CASE \E f \in FormulaIds : RemoveFormula(f)
    BY <1>7, <2>4
  <2>5. CASE \E i \in Goods, mix \in Mixes : \E type \in NewTypes[i] : SubmitItem(i, type, mix)
    BY <1>8, <2>5
  <2>6. CASE SubmitRecipe
    BY <1>9, <2>6
  <2>. QED
    BY <1>11, <2>2, <2>3, <2>4, <2>5, <2>6 DEF CatalogNext
<1>. QED
  BY <1>10, <1>11

(***************************************************************************)
(* formula.service.ts 348-352, "formulas form a DAG": no item contains     *)
(* itself, through any number of formulas and versions, for every set of   *)
(* items and formulas and in every order of requests, also those of the    *)
(* item form whose formula is saved in a second request.                   *)
(***************************************************************************)
THEOREM FormulasStayAcyclic == CatalogSpec => []NoCircularFormula
<1>1. CatalogInv => NoCircularFormula
  BY DEF CatalogInv
<1>2. QED
  BY <1>1, CatalogInitOK, CatalogNextOK, PTL DEF CatalogSpec

-----------------------------------------------------------------------------
(***************************************************************************)
(* The versions of an item.  VersionsInv adds to CatalogInv that rows are  *)
(* typed, that the components of a formula stay items, and that no two     *)
(* formulas of an item have one version; so one of them is listed first.   *)
(***************************************************************************)
RecipeRows == [target : Goods, version : 1..MaxVersion, active : BOOLEAN, mix : Mixes]

MixExists(items, r) == \A c \in DOMAIN r.mix : items[c] \in ItemTypes

Apart(r, s) == r.target = s.target => r.version # s.version

VersionsOK(items, table) ==
  /\ items \in [Goods -> ItemTypes \cup {NoType}]
  /\ table \in [FormulaIds -> RecipeRows \cup {NoFormula}]
  /\ \A f \in FormulaIds : table[f] # NoFormula => MixExists(items, table[f])
  /\ \A f, g \in FormulaIds :
       f # g /\ table[f] # NoFormula /\ table[g] # NoFormula => Apart(table[f], table[g])

\* What is written into row f.
RowFits(items, table, f, r) ==
  /\ r \in RecipeRows
  /\ MixExists(items, r)
  /\ \A g \in FormulaIds : g # f => Apart(r, table[g]) /\ Apart(table[g], r)

FormTarget == form # NoRecipe => form[1] \in Goods

VersionsInv == CatalogInv /\ VersionsOK(goods, formulas) /\ FormTarget

\* Writing a row, a free one for a removal, keeps the versions apart.
LEMMA RowWritten ==
  ASSUME NEW items, NEW table, NEW items2, NEW after, NEW f \in FormulaIds, NEW r,
         VersionsOK(items, table),
         items2 \in [Goods -> ItemTypes \cup {NoType}],
         \A i \in Goods : items[i] \in ItemTypes => items2[i] \in ItemTypes,
         r = NoFormula \/ RowFits(items2, table, f, r),
         after = [table EXCEPT ![f] = r]
  PROVE  VersionsOK(items2, after)
<1>1. /\ table \in [FormulaIds -> RecipeRows \cup {NoFormula}]
      /\ \A g \in FormulaIds : table[g] # NoFormula => MixExists(items, table[g])
      /\ \A g, h \in FormulaIds :
           g # h /\ table[g] # NoFormula /\ table[h] # NoFormula => Apart(table[g], table[h])
  BY DEF VersionsOK
<1>2. after \in [FormulaIds -> RecipeRows \cup {NoFormula}]
  BY <1>1 DEF RowFits
<1>3. after[f] = r /\ \A g \in FormulaIds : g # f => after[g] = table[g]
  BY <1>1
<1>4. ASSUME NEW g \in FormulaIds, after[g] # NoFormula
      PROVE  MixExists(items2, after[g])
  <2>1. CASE g = f
    BY <1>3, <1>4, <2>1 DEF RowFits
  <2>2. CASE g # f
    <3>1. table[g] \in RecipeRows /\ MixExists(items, table[g])
      BY <1>1, <1>3, <1>4, <2>2
    <3>2. DOMAIN table[g].mix \subseteq Goods
      BY <3>1, RequestedMix DEF RecipeRows
    <3>. QED
      BY <1>3, <2>2, <3>1, <3>2 DEF MixExists
  <2>. QED
    BY <2>1, <2>2
<1>5. ASSUME NEW g \in FormulaIds, NEW h \in FormulaIds, g # h,
             after[g] # NoFormula, after[h] # NoFormula
      PROVE  Apart(after[g], after[h])
  <2>1. CASE g = f
    BY <1>3, <1>5, <2>1 DEF RowFits
  <2>2. CASE h = f
    BY <1>3, <1>5, <2>2 DEF RowFits
  <2>3. CASE g # f /\ h # f
    BY <1>1, <1>3, <1>5, <2>3
  <2>. QED
    BY <2>1, <2>2, <2>3
<1>. QED
  BY <1>2, <1>4, <1>5 DEF VersionsOK

\* A formula of an item is not a free row, and holds what was written.
LEMMA FormulaOfItem ==
  ASSUME VersionsOK(goods, formulas), NEW i \in Goods, NEW f \in FormulasOf(i)
  PROVE  /\ f \in FormulaIds /\ formulas[f] \in RecipeRows /\ formulas[f] # NoFormula
         /\ formulas[f].target = i
<1>1. f \in FormulaIds /\ formulas[f].target = i
  BY DEF FormulasOf, FormulasIn
<1>2. formulas[f] \in RecipeRows \cup {NoFormula}
  BY <1>1 DEF VersionsOK
<1>3. i # "NONE"
  BY CatalogAssumption DEF CatalogAssumption
<1>4. formulas[f] # NoFormula
  BY <1>1, <1>3 DEF NoFormula
<1>. QED
  BY <1>1, <1>2, <1>4

\* The versions that are numbered.
LEMMA VersionBound == MaxVersion \in Nat /\ GivenVersions \subseteq 1..MaxVersion
BY CatalogAssumption DEF CatalogAssumption

\* A nonempty set of numbers up to M has a greatest element.
LEMMA GreatestNumber ==
  ASSUME NEW M \in Nat, NEW S \in SUBSET (1..M), S # {}
  PROVE  \E m \in S : \A k \in S : m >= k
<1>. DEFINE T == {M - m : m \in S}
<1>1. T \in SUBSET Nat /\ T # {}
  <2>1. \A m \in S : M - m \in Nat
    OBVIOUS
  <2>. QED
    BY <2>1
<1>2. PICK t \in T : \A k \in T : t <= k
  <2>. HIDE DEF T
  <2>. QED
    BY <1>1, LeastNumber
<1>3. PICK m \in S : t = M - m
  OBVIOUS
<1>4. \A k \in S : M - m <= M - k
  BY <1>2, <1>3
<1>. QED
  BY <1>4

\* The next version is past all others.
LEMMA NextVersionAbove ==
  ASSUME VersionsOK(goods, formulas), NEW i \in Goods
  PROVE  /\ NextVersion(i) \in Nat \ {0}
         /\ \A f \in FormulasOf(i) : formulas[f].version < NextVersion(i)
<1>. DEFINE versions == {formulas[f].version : f \in FormulasOf(i)}
            nexts == {1} \cup {1 + formulas[f].version : f \in FormulasOf(i)}
            Past(v) == \A f \in FormulasOf(i) : formulas[f].version < v
<1>1. \A f \in FormulasOf(i) : formulas[f].version \in 1..MaxVersion
  BY FormulaOfItem DEF RecipeRows
<1>2. nexts \in SUBSET (Nat \ {0})
  BY <1>1, VersionBound
<1>3. \E v \in nexts : Past(v)
  <2>1. CASE FormulasOf(i) = {}
    BY <2>1
  <2>2. CASE FormulasOf(i) # {}
    <3>1. versions \in SUBSET (1..MaxVersion) /\ versions # {}
      BY <1>1, <2>2
    <3>2. PICK m \in versions : \A k \in versions : m >= k
      <4>. HIDE DEF versions
      <4>. QED
        BY <3>1, VersionBound, GreatestNumber
    <3>3. 1 + m \in nexts
      OBVIOUS
    <3>4. \A f \in FormulasOf(i) : formulas[f].version <= m
      BY <1>1, <3>1, <3>2
    <3>5. m \in 1..MaxVersion
      BY <3>1
    <3>6. Past(1 + m)
      <4>. HIDE DEF versions, nexts
      <4>. QED
        BY <1>1, <3>4, <3>5, VersionBound
    <3>. QED
      BY <3>3, <3>6
  <2>. QED
    BY <2>1, <2>2
<1>4. NextVersion(i) = CHOOSE v \in nexts : Past(v)
  BY DEF NextVersion
<1>5. NextVersion(i) \in nexts /\ Past(NextVersion(i))
  <2>. HIDE DEF nexts, Past
  <2>. QED
    BY <1>3, <1>4
<1>. QED
  BY <1>2, <1>5

\* Saving a new formula.
LEMMA SaveKeepsApart ==
  ASSUME VersionsOK(goods, formulas), NEW items, NEW f \in FormulaIds, NEW target \in Goods,
         NEW mix \in Mixes, NEW version \in GivenVersions \cup {0}, NEW active \in BOOLEAN,
         items \in [Goods -> ItemTypes \cup {NoType}],
         \A i \in Goods : goods[i] \in ItemTypes => items[i] \in ItemTypes,
         Composable(items, target, mix), SaveFits(f, target, version)
  PROVE  VersionsOK(items, Saved(f, target, mix, version, active))
<1>. DEFINE v == Numbered(target, version)
            r == [target |-> target, version |-> v, active |-> active, mix |-> mix]
<1>1. v \in 1..MaxVersion
  <2>1. v \in Nat \ {0}
    <3>1. NextVersion(target) \in Nat \ {0}
      BY NextVersionAbove
    <3>2. version # 0 => version \in Nat \ {0}
      BY VersionBound
    <3>. QED
      BY <3>1, <3>2 DEF Numbered
  <2>. QED
    BY <2>1, VersionBound DEF SaveFits
<1>2. r \in RecipeRows
  BY <1>1 DEF RecipeRows
<1>3. r.target = target /\ r.version = v /\ r.mix = mix
  OBVIOUS
<1>4. MixExists(items, r)
  BY <1>3 DEF MixExists, Composable
<1>5. ASSUME NEW g \in FormulaIds, g # f, formulas[g].target = target
      PROVE  formulas[g].version # v
  BY <1>5 DEF SaveFits, VersionFree, FormulasOf, FormulasIn
<1>6. Saved(f, target, mix, version, active) = [formulas EXCEPT ![f] = r]
  BY DEF Saved
<1>. HIDE DEF v, r
<1>7. \A g \in FormulaIds : g # f => Apart(r, formulas[g]) /\ Apart(formulas[g], r)
  BY <1>3, <1>5 DEF Apart
<1>8. RowFits(items, formulas, f, r)
  BY <1>2, <1>4, <1>7 DEF RowFits
<1>. QED
  BY <1>6, <1>8, RowWritten

\* Editing one.
LEMMA EditKeepsApart ==
  ASSUME VersionsOK(goods, formulas), NEW f \in FormulaIds, NEW mix \in Mixes,
         NEW version \in GivenVersions \cup {0}, NEW active \in BOOLEAN,
         EditFits(f, mix, version)
  PROVE  VersionsOK(goods, Rewritten(f, mix, active, version))
<1>. DEFINE t == formulas[f].target
            v == KeptOr(f, version)
            r == [target |-> t, version |-> v, active |-> active, mix |-> mix]
<1>1. formulas[f] \in RecipeRows
  BY DEF VersionsOK, EditFits
<1>2. t \in Goods /\ v \in 1..MaxVersion
  BY <1>1, VersionBound DEF RecipeRows, KeptOr
<1>3. r \in RecipeRows
  BY <1>2 DEF RecipeRows
<1>4. r.target = t /\ r.version = v /\ r.mix = mix
  OBVIOUS
<1>5. MixExists(goods, r)
  BY <1>4 DEF MixExists, Composable, EditFits
<1>6. ASSUME NEW g \in FormulaIds, g # f, formulas[g].target = t
      PROVE  formulas[g].version # v
  BY <1>6 DEF EditFits, VersionFree, FormulasOf, FormulasIn
<1>7. Rewritten(f, mix, active, version) = [formulas EXCEPT ![f] = r]
  BY DEF Rewritten
<1>. HIDE DEF t, v, r
<1>8. \A g \in FormulaIds : g # f => Apart(r, formulas[g]) /\ Apart(formulas[g], r)
  BY <1>4, <1>6 DEF Apart
<1>9. goods \in [Goods -> ItemTypes \cup {NoType}]
  BY DEF VersionsOK
<1>10. RowFits(goods, formulas, f, r)
  BY <1>3, <1>5, <1>8 DEF RowFits
<1>. QED
  BY <1>7, <1>9, <1>10, RowWritten

\* Edits of items keep what exists.
LEMMA ItemsKeepVersions ==
  ASSUME VersionsOK(goods, formulas), NEW i \in Goods, NEW type \in ItemTypes
  PROVE  /\ VersionsOK([goods EXCEPT ![i] = type], formulas)
         /\ [goods EXCEPT ![i] = type] \in [Goods -> ItemTypes \cup {NoType}]
         /\ \A j \in Goods : goods[j] \in ItemTypes => [goods EXCEPT ![i] = type][j] \in ItemTypes
<1>. DEFINE items == [goods EXCEPT ![i] = type]
<1>1. goods \in [Goods -> ItemTypes \cup {NoType}]
  BY DEF VersionsOK
<1>2. items \in [Goods -> ItemTypes \cup {NoType}]
  BY <1>1
<1>3. \A j \in Goods : goods[j] \in ItemTypes => items[j] \in ItemTypes
  BY <1>1
<1>. HIDE DEF items
<1>4. ASSUME NEW f \in FormulaIds, formulas[f] # NoFormula
      PROVE  MixExists(items, formulas[f])
  <2>1. formulas[f] \in RecipeRows /\ MixExists(goods, formulas[f])
    BY <1>4 DEF VersionsOK
  <2>2. DOMAIN formulas[f].mix \subseteq Goods
    BY <2>1, RequestedMix DEF RecipeRows
  <2>. QED
    BY <1>3, <2>1, <2>2 DEF MixExists
<1>5. VersionsOK(items, formulas)
  BY <1>2, <1>4 DEF VersionsOK
<1>. QED
  BY <1>2, <1>3, <1>5 DEF items

LEMMA VersionsInitOK == CatalogInit => VersionsInv
<1>. SUFFICES ASSUME CatalogInit PROVE VersionsInv
  OBVIOUS
<1>1. VersionsOK(goods, formulas)
  BY DEF CatalogInit, VersionsOK
<1>. QED
  BY <1>1, CatalogInitOK DEF VersionsInv, FormTarget, CatalogInit

LEMMA VersionsNextOK == VersionsInv /\ [CatalogNext]_catalogVars => VersionsInv'
<1>. SUFFICES ASSUME VersionsInv, [CatalogNext]_catalogVars PROVE VersionsInv'
  OBVIOUS
<1>1. CatalogInv /\ VersionsOK(goods, formulas) /\ FormTarget
  BY DEF VersionsInv
<1>2. CatalogInv'
  BY <1>1, CatalogNextOK
<1>3. ASSUME VersionsOK(goods', formulas'), FormTarget'
      PROVE  VersionsInv'
  BY <1>2, <1>3 DEF VersionsInv
<1>4. ASSUME UNCHANGED form
      PROVE  FormTarget'
  BY <1>1, <1>4 DEF FormTarget
<1>5. \A i \in Goods : NewTypes[i] \subseteq ItemTypes
  BY CatalogAssumption DEF CatalogAssumption
<1>6. Retyped \subseteq Goods /\ Made \subseteq ItemTypes
  BY CatalogAssumption DEF CatalogAssumption, Made, ItemTypes
<1>7. goods \in [Goods -> ItemTypes \cup {NoType}]
  BY <1>1 DEF VersionsOK
<1>8. ASSUME NEW i \in Goods, NEW type \in ItemTypes, CreateItem(i, type) \/ UpdateItem(i, type)
      PROVE  VersionsInv'
  <2>1. goods' = [goods EXCEPT ![i] = type] /\ UNCHANGED <<formulas, form>>
    BY <1>8 DEF CreateItem, UpdateItem
  <2>. QED
    BY <1>1, <1>3, <1>4, <2>1, ItemsKeepVersions
<1>9. ASSUME NEW f \in FormulaIds, NEW mix \in Mixes, NEW active \in BOOLEAN, NEW i \in Goods,
             NEW v \in GivenVersions \cup {0}, CreateFormula(f, i, mix, v, active)
      PROVE  VersionsInv'
  <2>1. /\ Composable(goods, i, mix) /\ SaveFits(f, i, v)
        /\ formulas' = Saved(f, i, mix, v, active) /\ UNCHANGED <<goods, form>>
    BY <1>9 DEF CreateFormula, SaveFormula
  <2>2. VersionsOK(goods, formulas')
    BY <1>1, <1>7, <2>1, SaveKeepsApart
  <2>. QED
    BY <1>3, <1>4, <2>1, <2>2
<1>10. ASSUME NEW f \in FormulaIds, NEW mix \in Mixes, NEW active \in BOOLEAN, NEW i \in Goods,
              NEW type \in NewTypes[i], CreateFormulaAndTarget(f, i, type, mix, active)
       PROVE  VersionsInv'
  <2>. DEFINE items == [goods EXCEPT ![i] = type]
  <2>1. /\ Composable(items, i, mix) /\ SaveFits(f, i, 0) /\ goods' = items
        /\ formulas' = Saved(f, i, mix, 0, active) /\ UNCHANGED form
    BY <1>10 DEF CreateFormulaAndTarget, SaveFormula
  <2>2. type \in ItemTypes
    BY <1>5
  <2>3. /\ items \in [Goods -> ItemTypes \cup {NoType}]
        /\ \A j \in Goods : goods[j] \in ItemTypes => items[j] \in ItemTypes
    BY <1>1, <2>2, ItemsKeepVersions
  <2>. HIDE DEF items
  <2>4. VersionsOK(items, formulas')
    BY <1>1, <2>1, <2>3, SaveKeepsApart
  <2>. QED
    BY <1>3, <1>4, <2>1, <2>4
<1>11. ASSUME NEW f \in FormulaIds, NEW mix \in Mixes, NEW active \in BOOLEAN,
              NEW v \in GivenVersions \cup {0}, UpdateFormula(f, mix, active, v)
       PROVE  VersionsInv'
  <2>1. /\ EditFits(f, mix, v)
        /\ formulas' = Rewritten(f, mix, active, v) /\ UNCHANGED <<goods, form>>
    BY <1>11 DEF UpdateFormula
  <2>2. VersionsOK(goods, formulas')
    BY <1>1, <2>1, EditKeepsApart
  <2>. QED
    BY <1>3, <1>4, <2>1, <2>2
<1>12. ASSUME NEW f \in FormulaIds, RemoveFormula(f)
       PROVE  VersionsInv'
  <2>1. formulas' = [formulas EXCEPT ![f] = NoFormula] /\ UNCHANGED <<goods, form>>
    BY <1>12 DEF RemoveFormula
  <2>2. VersionsOK(goods, formulas')
    BY <1>1, <1>7, <2>1, RowWritten
  <2>. QED
    BY <1>3, <1>4, <2>1, <2>2
<1>13. ASSUME NEW i \in Goods, NEW mix \in Mixes, NEW type, SubmitItem(i, type, mix)
       PROVE  VersionsInv'
  <2>1. /\ type \in ItemTypes /\ goods' = [goods EXCEPT ![i] = type]
        /\ form' = <<i, mix>> /\ UNCHANGED formulas
    BY <1>6, <1>13 DEF SubmitItem
  <2>2. FormTarget'
    BY <2>1 DEF FormTarget
  <2>. QED
    BY <1>1, <1>3, <2>1, <2>2, ItemsKeepVersions
<1>14. ASSUME SubmitRecipe
       PROVE  VersionsInv'
  <2>1. form # NoRecipe /\ form' = NoRecipe /\ UNCHANGED goods
    BY <1>14 DEF SubmitRecipe
  <2>2. form[1] \in Goods /\ form[2] \in Mixes
    BY <1>1, <2>1 DEF CatalogInv, FormFits, FormTarget
  <2>3. FormTarget'
    BY <2>1 DEF FormTarget
  <2>4. CASE Composable(goods, form[1], form[2])
    <3>1. PICK f \in FormulaIds : /\ SaveFits(f, form[1], 0)
                                  /\ formulas' = Saved(f, form[1], form[2], 0, TRUE)
      BY <1>14, <2>4 DEF SubmitRecipe, SaveFormula
    <3>2. VersionsOK(goods, formulas')
      BY <1>1, <1>7, <2>2, <2>4, <3>1, SaveKeepsApart
    <3>. QED
      BY <1>3, <2>1, <2>3, <3>2
  <2>5. CASE ~ Composable(goods, form[1], form[2])
    <3>1. UNCHANGED formulas
      BY <1>14, <2>5 DEF SubmitRecipe
    <3>. QED
      BY <1>1, <1>3, <2>1, <2>3, <3>1
  <2>. QED
    BY <2>4, <2>5
<1>15. CASE UNCHANGED catalogVars
  <2>1. UNCHANGED <<goods, formulas, form>>
    BY <1>15 DEF catalogVars
  <2>. QED
    BY <1>1, <1>3, <1>4, <2>1
<1>16. ASSUME CatalogNext
       PROVE  VersionsInv'
  <2>1. CASE \/ \E i \in Goods : \E type \in NewTypes[i] : CreateItem(i, type)
             \/ \E i \in Retyped, type \in ItemTypes : UpdateItem(i, type)
    BY <1>5, <1>6, <1>8, <2>1
  <2>2. CASE \E f \in FormulaIds, mix \in Mixes, active \in BOOLEAN :
               \/ \E i \in Goods, v \in GivenVersions \cup {0} :
                    CreateFormula(f, i, mix, v, active)
               \/ \E i \in Goods : \E type \in NewTypes[i] :
                    CreateFormulaAndTarget(f, i, type, mix, active)
               \/ \E v \in GivenVersions \cup {0} : UpdateFormula(f, mix, active, v)
    BY <1>9, <1>10, <1>11, <2>2
  <2>3. CASE \E f \in FormulaIds : RemoveFormula(f)
    BY <1>12, <2>3
  <2>4. CASE \E i \in Goods, mix \in Mixes : \E type \in NewTypes[i] : SubmitItem(i, type, mix)
    BY <1>13, <2>4
  <2>5. CASE SubmitRecipe
    BY <1>14, <2>5
  <2>. QED
    BY <1>16, <2>1, <2>2, <2>3, <2>4, <2>5 DEF CatalogNext
<1>. QED
  BY <1>15, <1>16

-----------------------------------------------------------------------------
\* The item page: its order of two rows, with the flags as truth values.
LEMMA ListedOrder ==
  ASSUME NEW r, NEW s, r.active \in BOOLEAN, s.active \in BOOLEAN
  PROVE  ListedBefore(r, s) <=> \/ r.active /\ ~ s.active
                                \/ (r.active <=> s.active) /\ r.version > s.version
<1>1. (r.active = s.active) <=> (r.active <=> s.active)
  BY Zenon
<1>. QED
  BY <1>1, Zenon DEF ListedBefore

(***************************************************************************)
(* Three definitions choose the formula of an item; they choose the same   *)
(* when one is active and listed before all others.                        *)
(***************************************************************************)
LEMMA FirstLeads ==
  ASSUME NEW table, NEW i, NEW f \in FormulasIn(table, i), table[f].active,
         \A g \in FormulasIn(table, i) : table[g].active \in BOOLEAN /\ table[g].version \in Nat,
         \A g \in FormulasIn(table, i) \ {f} : ListedBefore(table[f], table[g])
  PROVE  Leads(table, i, f)
<1>. DEFINE S == FormulasIn(table, i)
            First(h) == \A g \in S \ {h} : ListedBefore(table[h], table[g])
            Newest(h) == /\ table[h].active
                         /\ \A g \in S : table[g].active => table[g].version <= table[h].version
<1>1. First(f) /\ f \in S
  OBVIOUS
<1>2. ASSUME NEW h \in S, First(h)
      PROVE  h = f
  <2>. SUFFICES ASSUME h # f PROVE FALSE
    OBVIOUS
  <2>1. ListedBefore(table[f], table[h]) /\ ListedBefore(table[h], table[f])
    BY <1>2
  <2>2. /\ table[f].active \in BOOLEAN /\ table[h].active \in BOOLEAN
        /\ table[f].version \in Nat /\ table[h].version \in Nat
    OBVIOUS
  <2>. QED
    BY <2>1, <2>2, ListedOrder
<1>3. Shown(table, i) = f
  <2>1. Shown(table, i) = CHOOSE h \in S : First(h)
    BY DEF Shown
  <2>. HIDE DEF S, First
  <2>. QED
    BY <1>1, <1>2, <2>1
<1>4. PreferredIn(table, i) = f
  <2>1. PreferredIn(table, i) = CHOOSE h \in S : First(h)
    BY DEF PreferredIn, ListedBefore
  <2>. HIDE DEF S, First
  <2>. QED
    BY <1>1, <1>2, <2>1
<1>5. ToProduce(table, i) = f
  <2>1. ToProduce(table, i) = CHOOSE h \in S : Newest(h)
    BY DEF ToProduce
  <2>2. Newest(f)
    <3>. SUFFICES ASSUME NEW g \in S, table[g].active PROVE table[g].version <= table[f].version
      OBVIOUS
    <3>1. CASE g = f
      BY <3>1
    <3>2. CASE g # f
      <4>1. ListedBefore(table[f], table[g])
        BY <3>2
      <4>2. /\ table[f].active \in BOOLEAN /\ table[g].active \in BOOLEAN
            /\ table[f].version \in Nat /\ table[g].version \in Nat
        OBVIOUS
      <4>. QED
        BY <4>1, <4>2, ListedOrder
    <3>. QED
      BY <3>1, <3>2
  <2>3. ASSUME NEW h \in S, Newest(h)
        PROVE  h = f
    <3>. SUFFICES ASSUME h # f PROVE FALSE
      OBVIOUS
    <3>1. ListedBefore(table[f], table[h]) /\ table[f].version <= table[h].version
      BY <2>3
    <3>. QED
      BY <2>3, <3>1 DEF ListedBefore
  <2>. HIDE DEF S, Newest
  <2>. QED
    BY <1>1, <2>1, <2>2, <2>3
<1>. QED
  BY <1>3, <1>4, <1>5 DEF Leads

\* If a formula of an item is active, the newest active one is listed first.
LEMMA ActiveLeads ==
  ASSUME VersionsOK(goods, formulas), NEW i \in Goods, Producible(formulas, i)
  PROVE  \E f \in FormulasOf(i) : Leads(formulas, i, f)
<1>. DEFINE S == FormulasOf(i)
            versions == {formulas[f].version : f \in {g \in S : formulas[g].active}}
<1>1. \A f \in S : /\ f \in FormulaIds /\ formulas[f] \in RecipeRows /\ formulas[f] # NoFormula
                   /\ formulas[f].target = i
  BY FormulaOfItem
<1>2. \A f \in S : formulas[f].active \in BOOLEAN /\ formulas[f].version \in 1..MaxVersion
  BY <1>1 DEF RecipeRows
<1>3. versions \in SUBSET (1..MaxVersion) /\ versions # {}
  BY <1>2 DEF Producible, FormulasOf
<1>4. PICK v \in versions : \A k \in versions : v >= k
  <2>. HIDE DEF versions
  <2>. QED
    BY <1>3, VersionBound, GreatestNumber
<1>5. PICK f \in S : formulas[f].active /\ v = formulas[f].version
  OBVIOUS
<1>6. \A g \in S : formulas[g].active => formulas[g].version <= formulas[f].version
  BY <1>2, <1>4, <1>5
<1>7. \A g \in S \ {f} : formulas[g].version # formulas[f].version
  BY <1>1 DEF VersionsOK, Apart
<1>8. \A g \in S \ {f} : ListedBefore(formulas[f], formulas[g])
  <2>. SUFFICES ASSUME NEW g \in S \ {f} PROVE ListedBefore(formulas[f], formulas[g])
    OBVIOUS
  <2>1. /\ formulas[f].active \in BOOLEAN /\ formulas[g].active \in BOOLEAN
        /\ formulas[f].version \in Nat /\ formulas[g].version \in Nat
    BY <1>2, VersionBound
  <2>2. formulas[g].active => formulas[g].version < formulas[f].version
    BY <1>6, <1>7, <2>1
  <2>3. \/ formulas[f].active /\ ~ formulas[g].active
        \/ /\ formulas[f].active <=> formulas[g].active
           /\ formulas[f].version > formulas[g].version
    <3>1. formulas[f].active
      BY <1>5
    <3>2. CASE formulas[g].active
      BY <2>1, <2>2, <3>1, <3>2
    <3>3. CASE ~ formulas[g].active
      BY <3>1, <3>3
    <3>. QED
      BY <3>2, <3>3
  <2>4. ListedBefore(formulas[f], formulas[g]) <=>
          \/ formulas[f].active /\ ~ formulas[g].active
          \/ /\ formulas[f].active <=> formulas[g].active
             /\ formulas[f].version > formulas[g].version
    BY <2>1, ListedOrder
  <2>. QED
    BY <2>3, <2>4
<1>9. Leads(formulas, i, f)
  <2>1. \A g \in S : formulas[g].active \in BOOLEAN /\ formulas[g].version \in Nat
    BY <1>2, VersionBound
  <2>2. S = FormulasIn(formulas, i)
    BY DEF FormulasOf
  <2>. HIDE DEF S
  <2>. QED
    BY <1>5, <1>8, <2>1, <2>2, FirstLeads
<1>. QED
  BY <1>5, <1>9

\* What was accepted once is accepted again, while the types fit.
LEMMA StaysComposable ==
  ASSUME VersionsInv, NEW i \in Goods, NEW f \in FormulasOf(i), TypesFit(f)
  PROVE  Composable(goods, i, formulas[f].mix)
<1>1. /\ f \in FormulaIds /\ formulas[f] \in RecipeRows /\ formulas[f] # NoFormula
      /\ formulas[f].target = i
  BY FormulaOfItem DEF VersionsInv
<1>2. MixExists(goods, formulas[f])
  BY <1>1 DEF VersionsInv, VersionsOK
<1>. DEFINE D == DOMAIN formulas[f].mix
            A == Inside(Makes(i))
<1>3. MixesFit /\ i \notin A
  BY DEF VersionsInv, CatalogInv, NoCircularFormula
<1>4. D \subseteq Makes(i)
  BY <1>1, MadeOf
<1>5. Makes(i) \in SUBSET Goods
  BY <1>3 DEF Makes, FormulasOf, FormulasIn, MixesFit
<1>6. Makes(i) \subseteq A /\ Opened(A) \subseteq A
  BY <1>3, <1>5, InsideClosed
<1>7. i \notin Inside(D)
  <2>. HIDE DEF A, D
  <2>. QED
    BY <1>3, <1>4, <1>6, InsideLeast
<1>. QED
  BY <1>1, <1>2, <1>7 DEF Composable, TypesFit, MixExists, ItemTypes

\* The page saves a version that it loaded.
LEMMA UntouchedSaves ==
  ASSUME VersionsInv, NEW i \in Goods, NEW f \in FormulasOf(i), TypesFit(f)
  PROVE  SavesUntouched(f)
<1>. DEFINE r == formulas[f]
<1>1. VersionsOK(goods, formulas)
  BY DEF VersionsInv
<1>2. f \in FormulaIds /\ r \in RecipeRows /\ r # NoFormula /\ r.target = i
  BY <1>1, FormulaOfItem
<1>3. \A g \in FormulasOf(i) \ {f} : formulas[g].version # r.version
  BY <1>1, <1>2, FormulaOfItem DEF VersionsOK, Apart
<1>4. EditFits(f, r.mix, 0)
  BY <1>2, <1>3, StaysComposable DEF EditFits, VersionFree, KeptOr
<1>5. r = [target |-> r.target, version |-> r.version, active |-> r.active, mix |-> r.mix]
  BY <1>2 DEF RecipeRows
<1>6. Rewritten(f, r.mix, r.active, 0) = [formulas EXCEPT ![f] = r]
  BY <1>5 DEF Rewritten, KeptOr
<1>7. [formulas EXCEPT ![f] = r] = formulas
  BY <1>1 DEF VersionsOK
<1>. QED
  BY <1>4, <1>6, <1>7 DEF SavesUntouched

\* A copy of a version is saved, and leads if it is active.
LEMMA CopyTakesOver ==
  ASSUME VersionsInv, NEW i \in Goods, NEW f \in FormulasOf(i), TypesFit(f), Room(i)
  PROVE  \E new \in FormulaIds : TakesOver(f, new)
<1>. DEFINE r == formulas[f]
            free == {g \in FormulaIds : formulas[g] = NoFormula}
            v == NextVersion(i)
<1>1. VersionsOK(goods, formulas)
  BY DEF VersionsInv
<1>2. f \in FormulaIds /\ r \in RecipeRows /\ r # NoFormula /\ r.target = i
  BY <1>1, FormulaOfItem
<1>3. free # {} /\ free \in SUBSET Nat
  BY CatalogAssumption DEF Room, CatalogAssumption
<1>4. PICK new \in free : \A g \in free : new <= g
  <2>. HIDE DEF free
  <2>. QED
    BY <1>3, LeastNumber
<1>5. new \in FormulaIds /\ formulas[new] = NoFormula
  OBVIOUS
<1>6. v \in Nat \ {0} /\ \A g \in FormulasOf(i) : formulas[g].version < v
  BY <1>1, NextVersionAbove
<1>7. \A g \in FormulasOf(i) : formulas[g] \in RecipeRows
  BY <1>1, FormulaOfItem
<1>8. \A g \in FormulasOf(i) : formulas[g].active \in BOOLEAN /\ formulas[g].version \in Nat
  BY <1>7 DEF RecipeRows
<1>9. SaveFits(new, i, 0)
  <2>1. \A g \in FormulasOf(i) : formulas[g].version # v
    BY <1>6, <1>8
  <2>. QED
    BY <1>4, <1>5, <2>1 DEF SaveFits, Numbered, VersionFree, Room
<1>10. ASSUME r.active
       PROVE  Leads(Saved(new, i, r.mix, 0, TRUE), i, new)
  <2>. DEFINE row == [target |-> i, version |-> v, active |-> TRUE, mix |-> r.mix]
              after == Saved(new, i, r.mix, 0, TRUE)
  <2>1. after = [formulas EXCEPT ![new] = row]
    BY DEF Saved, Numbered
  <2>2. row.target = i /\ row.version = v /\ row.active = TRUE
    OBVIOUS
  <2>3. DOMAIN formulas = FormulaIds
    BY <1>1 DEF VersionsOK
  <2>. HIDE DEF row, after, v
  <2>4. after[new] = row /\ \A g \in FormulaIds : g # new => after[g] = formulas[g]
    BY <1>5, <2>1, <2>3
  <2>5. FormulasIn(after, i) = FormulasOf(i) \cup {new}
    BY <1>5, <2>2, <2>4 DEF FormulasIn, FormulasOf
  <2>6. \A g \in FormulasIn(after, i) \ {new} : g \in FormulasOf(i) /\ after[g] = formulas[g]
    BY <2>4, <2>5 DEF FormulasOf, FormulasIn
  <2>7. \A g \in FormulasIn(after, i) : after[g].active \in BOOLEAN /\ after[g].version \in Nat
    BY <1>6, <1>8, <2>2, <2>4, <2>6
  <2>8. \A g \in FormulasIn(after, i) \ {new} : ListedBefore(after[new], after[g])
    BY <1>6, <1>8, <2>2, <2>4, <2>6 DEF ListedBefore
  <2>9. new \in FormulasIn(after, i) /\ after[new].active
    BY <2>2, <2>4, <2>5
  <2>. QED
    BY <2>7, <2>8, <2>9, FirstLeads DEF after
<1>11. Composable(goods, i, r.mix)
  BY StaysComposable
<1>. QED
  BY <1>2, <1>5, <1>9, <1>10, <1>11 DEF TakesOver

(***************************************************************************)
(* The page, the costs and production agree on the formula of an item; a   *)
(* version saves untouched, and a copy of an active one takes over         *)
(* ("smooth revisions", formula.service.ts 103), for any items and mixes   *)
(* and whatever was renumbered, removed or retyped before.                 *)
(***************************************************************************)
THEOREM RevisionsTakeOver == CatalogSpec => []RevisionTakesOver
<1>1. ASSUME VersionsInv
      PROVE  RevisionTakesOver
  <2>1. VersionsOK(goods, formulas)
    BY <1>1 DEF VersionsInv
  <2>2. ASSUME NEW i \in Goods
        PROVE  /\ Shown(formulas, i) = Preferred(i)
               /\ Producible(formulas, i) => Leads(formulas, i, Preferred(i))
    <3>1. Shown(formulas, i) = Preferred(i)
      BY DEF Shown, Preferred, PreferredIn, ListedBefore
    <3>2. ASSUME Producible(formulas, i)
          PROVE  Leads(formulas, i, Preferred(i))
      <4>1. PICK f \in FormulasOf(i) : Leads(formulas, i, f)
        BY <2>1, <3>2, ActiveLeads
      <4>2. f = Preferred(i)
        BY <4>1 DEF Leads, Preferred
      <4>. QED
        BY <4>1, <4>2
    <3>. QED
      BY <3>1, <3>2
  <2>3. ASSUME NEW i \in Goods, NEW f \in FormulasOf(i), TypesFit(f)
        PROVE  SavesUntouched(f) /\ (Room(i) => \E new \in FormulaIds : TakesOver(f, new))
    BY <1>1, <2>3, UntouchedSaves, CopyTakesOver
  <2>4. ASSUME NEW i \in Goods, NEW mix \in Mixes, Composable(goods, i, mix)
        PROVE  DOMAIN mix \subseteq Offered(i)
    <3>1. DOMAIN mix \in SUBSET Goods
      BY RequestedMix
    <3>2. DOMAIN mix \subseteq Inside(DOMAIN mix)
      BY <1>1, <3>1, InsideClosed DEF VersionsInv, CatalogInv
    <3>. QED
      BY <2>4, <3>1, <3>2 DEF Composable, Offered, Exists, ItemTypes, NoType
  <2>. QED
    BY <2>2, <2>3, <2>4 DEF RevisionTakesOver
<1>. QED
  BY <1>1, VersionsInitOK, VersionsNextOK, PTL DEF CatalogSpec

-----------------------------------------------------------------------------
(***************************************************************************)
(* Business variables.  What the list shows for a slot is what getValue    *)
(* returns for it (ListedIsUsed): two code paths, one result.  What a      *)
(* screen saves is the rows of the slots that differ from what it loaded,  *)
(* so a slot that nobody edited keeps its row (ScreenSaveOK).              *)
(***************************************************************************)
SettingsTypeOK ==
  /\ stored \in [Slots -> Nat \cup {Unset}]
  /\ shown \in [Slots -> Nat]
  /\ edits \in [Slots -> Nat]

\* The slots of a variable, by its scope.
LEMMA SlotsByScope ==
  /\ \A sl \in Slots : sl = <<sl[1], sl[2]>> /\ sl[1] \in Keys
  /\ \A sl \in Slots : ScopeOf[sl[1]] = "ROLE" => sl[2] \in Roles /\ sl[2] # Base
  /\ \A sl \in Slots : ScopeOf[sl[1]] = "RATING" =>
       sl[2] \in Ratings \cup {Base} /\ <<sl[1], Base>> \in Slots
  /\ \A sl \in Slots : ScopeOf[sl[1]] = "NONE" => sl[2] = Base
  /\ \A sl \in Slots : ScopeOf[sl[1]] \in {"NONE", "ROLE", "RATING"}
BY SettingsAssumption DEF SettingsAssumption, Slots

\* A slot of the list.
ListedSlot(table, sl) ==
  IF table[sl] # Unset THEN table[sl]
  ELSE IF ScopeOf[sl[1]] = "RATING" /\ table[<<sl[1], Base>>] # Unset THEN table[<<sl[1], Base>>]
  ELSE IF ScopeOf[sl[1]] = "ROLE" THEN CatalogValue[sl[1]][sl[2]]
  ELSE CatalogValue[sl[1]][Base]

LEMMA ListedBySlot ==
  ASSUME NEW table
  PROVE  Listed(table) = [sl \in Slots |-> ListedSlot(table, sl)]
<1>1. ASSUME NEW sl \in Slots
      PROVE  Listed(table)[sl] = ListedSlot(table, sl)
  BY SlotsByScope DEF Listed, ListedSlot
<1>2. Listed(table) = [sl \in Slots |-> Listed(table)[sl]]
  BY DEF Listed
<1>. QED
  BY <1>1, <1>2

\* The list shows for every slot the value that the program uses.
LEMMA ListedIsUsed ==
  \A sl \in Slots : Listed(stored)[sl] = GetValue(sl[1], sl[2])
<1>. SUFFICES ASSUME NEW sl \in Slots
              PROVE  Listed(stored)[sl] = GetValue(sl[1], sl[2])
  OBVIOUS
<1>1. Listed(stored)[sl] = ListedSlot(stored, sl)
  BY ListedBySlot
<1>2. <<sl[1], sl[2]>> = sl
  BY SlotsByScope
<1>3. CASE ScopeOf[sl[1]] = "ROLE"
  BY <1>1, <1>2, <1>3, SlotsByScope DEF ListedSlot, GetValue
<1>4. CASE ScopeOf[sl[1]] = "RATING"
  <2>1. CASE sl[2] = Base
    BY <1>1, <1>2, <1>4, <2>1 DEF ListedSlot, GetValue
  <2>2. CASE sl[2] # Base
    BY <1>1, <1>2, <1>4, <2>2 DEF ListedSlot, GetValue
  <2>. QED
    BY <2>1, <2>2
<1>5. CASE ScopeOf[sl[1]] = "NONE"
  BY <1>1, <1>2, <1>5, SlotsByScope DEF ListedSlot, GetValue
<1>. QED
  BY <1>3, <1>4, <1>5, SlotsByScope

\* The same after a step.
LEMMA ListedIsUsedNext ==
  (\A sl \in Slots : Listed(stored)[sl] = GetValue(sl[1], sl[2]))'
BY ListedIsUsed, PTL

\* The list has a value for every slot.
LEMMA ListedValues ==
  ASSUME NEW table \in [Slots -> Nat \cup {Unset}]
  PROVE  Listed(table) \in [Slots -> Nat]
<1>1. ASSUME NEW sl \in Slots
      PROVE  ListedSlot(table, sl) \in Nat
  <2>1. table[sl] \in Nat \cup {Unset}
    OBVIOUS
  <2>2. ScopeOf[sl[1]] = "RATING" => table[<<sl[1], Base>>] \in Nat \cup {Unset}
    BY SlotsByScope
  <2>3. CatalogValue[sl[1]][Base] \in Nat
    BY SlotsByScope, SettingsAssumption DEF SettingsAssumption
  <2>4. ScopeOf[sl[1]] = "ROLE" => CatalogValue[sl[1]][sl[2]] \in Nat
    BY SlotsByScope, SettingsAssumption DEF SettingsAssumption
  <2>. QED
    BY <2>1, <2>2, <2>3, <2>4 DEF ListedSlot
<1>. QED
  BY <1>1, ListedBySlot

\* A request holds numbers, so the rows it leaves do.
LEMMA AfterValues ==
  ASSUME stored \in [Slots -> Nat \cup {Unset}],
         NEW batch, \A sl \in Slots \cap DOMAIN batch : batch[sl] \in Nat
  PROVE  After(batch) \in [Slots -> Nat \cup {Unset}]
BY DEF After

LEMMA SettingsInitOK == SettingsInit => SettingsTypeOK
<1>. SUFFICES ASSUME SettingsInit PROVE SettingsTypeOK
  OBVIOUS
<1>1. stored \in [Slots -> Nat \cup {Unset}]
  BY DEF SettingsInit
<1>2. Listed(stored) \in [Slots -> Nat]
  BY <1>1, ListedValues
<1>. QED
  BY <1>1, <1>2 DEF SettingsInit, SettingsTypeOK

\* What saving leaves in the rows and on the screen.
LEMMA ScreenSaveOK ==
  ASSUME SettingsTypeOK, Save
  PROVE  /\ stored' = [sl \in Slots |-> IF sl \in Dirty THEN edits[sl] ELSE stored[sl]]
         /\ stored' \in [Slots -> Nat \cup {Unset}]
         /\ shown' = Listed(stored)' /\ edits' = shown'
<1>1. stored' = After(Changed) /\ shown' = Listed(stored') /\ edits' = shown'
  BY DEF Save
<1>2. DOMAIN Changed = Dirty /\ \A sl \in Dirty : Changed[sl] = edits[sl]
  BY DEF Changed
<1>3. Dirty \subseteq Slots
  BY DEF Dirty
<1>4. After(Changed) = [sl \in Slots |-> IF sl \in Dirty THEN edits[sl] ELSE stored[sl]]
  <2>1. After(Changed) =
          [sl \in Slots |-> IF sl \in DOMAIN Changed THEN Changed[sl] ELSE stored[sl]]
    BY DEF After
  <2>. HIDE DEF Changed, Dirty
  <2>. QED
    BY <1>2, <2>1
<1>5. After(Changed) \in [Slots -> Nat \cup {Unset}]
  BY <1>2, <1>3, AfterValues DEF SettingsTypeOK
<1>. QED
  BY <1>1, <1>4, <1>5

LEMMA SettingsNextOK == SettingsTypeOK /\ [SettingsNext]_settingsVars => SettingsTypeOK'
<1>. SUFFICES ASSUME SettingsTypeOK, [SettingsNext]_settingsVars PROVE SettingsTypeOK'
  OBVIOUS
<1>1. CASE LoadScreen
  <2>1. Listed(stored) \in [Slots -> Nat]
    BY ListedValues DEF SettingsTypeOK
  <2>. QED
    BY <1>1, <2>1 DEF LoadScreen, SettingsTypeOK
<1>2. CASE Save
  <2>1. stored' \in [Slots -> Nat \cup {Unset}] /\ shown' = Listed(stored') /\ edits' = shown'
    BY <1>2, ScreenSaveOK DEF Save
  <2>2. Listed(stored') \in [Slots -> Nat]
    BY <2>1, ListedValues
  <2>. QED
    BY <2>1, <2>2 DEF SettingsTypeOK
<1>3. ASSUME NEW sl \in Slots, NEW v \in Entered, Type(sl, v)
      PROVE  SettingsTypeOK'
  BY <1>3, SettingsAssumption DEF Type, SettingsTypeOK, SettingsAssumption
<1>4. ASSUME NEW sl \in Slots, NEW v \in Entered, UpdateSettings([t \in {sl} |-> v])
      PROVE  SettingsTypeOK'
  <2>. DEFINE batch == [t \in {sl} |-> v]
  <2>1. \A t \in Slots \cap DOMAIN batch : batch[t] \in Nat
    BY SettingsAssumption DEF SettingsAssumption
  <2>. HIDE DEF batch
  <2>2. After(batch) \in [Slots -> Nat \cup {Unset}]
    BY <2>1, AfterValues DEF SettingsTypeOK
  <2>3. UpdateSettings(batch)
    BY <1>4 DEF batch
  <2>. QED
    BY <2>2, <2>3 DEF UpdateSettings, SettingsTypeOK
<1>5. CASE RouteOrder \/ (\E p \in Pours, place \in {"FLOOR", "LAB", "ROBOT"} : SetLineLocation(p, place))
  <2>1. UNCHANGED <<stored, shown, edits>>
    BY <1>5 DEF RouteOrder, SetLineLocation
  <2>. QED
    BY <2>1 DEF SettingsTypeOK
<1>6. CASE UNCHANGED settingsVars
  BY <1>6 DEF settingsVars, SettingsTypeOK
<1>. QED
  BY <1>1, <1>2, <1>3, <1>4, <1>5, <1>6 DEF SettingsNext

\* The row that a slot takes its value from, and that of the base it may follow.
LEMMA SameRowsSameValue ==
  ASSUME NEW k \in Keys, NEW s,
         <<k, s>> \in Slots, stored'[<<k, s>>] = stored[<<k, s>>],
         ScopeOf[k] = "RATING" /\ stored[<<k, s>>] = Unset =>
           stored'[<<k, Base>>] = stored[<<k, Base>>]
  PROVE  GetValue(k, s)' = GetValue(k, s)
BY DEF GetValue

(***************************************************************************)
(* Saving gives every edited slot its new value, a rating without a row    *)
(* that of its edited base, and leaves the others with what they had.      *)
(***************************************************************************)
LEMMA SavedSlot ==
  ASSUME SettingsTypeOK, Save, NEW sl \in Slots
  PROVE  /\ shown'[sl] = GetValue(sl[1], sl[2])'
         /\ sl \in Dirty => GetValue(sl[1], sl[2])' = edits[sl]
         /\ sl \notin Dirty /\ Follows(sl) => GetValue(sl[1], sl[2])' = edits[<<sl[1], Base>>]
         /\ sl \notin Dirty /\ ~ Follows(sl) => GetValue(sl[1], sl[2])' = GetValue(sl[1], sl[2])
<1>. DEFINE k == sl[1]
            s == sl[2]
<1>1. sl = <<k, s>> /\ k \in Keys
  BY SlotsByScope
<1>2. stored' = [t \in Slots |-> IF t \in Dirty THEN edits[t] ELSE stored[t]]
  BY ScreenSaveOK
<1>3. shown'[sl] = GetValue(k, s)'
  <2>1. shown' = Listed(stored)'
    BY ScreenSaveOK
  <2>. QED
    BY <2>1, ListedIsUsedNext
<1>4. \A t \in Slots : edits[t] # Unset
  BY DEF SettingsTypeOK, Unset
<1>. HIDE DEF k, s
<1>5. ASSUME sl \in Dirty
      PROVE  GetValue(k, s)' = edits[sl]
  <2>1. stored'[sl] = edits[sl] /\ stored'[sl] # Unset
    BY <1>2, <1>4, <1>5
  <2>. QED
    BY <1>1, <2>1 DEF GetValue
<1>6. ASSUME sl \notin Dirty, Follows(sl)
      PROVE  GetValue(k, s)' = edits[<<k, Base>>]
  <2>1. ScopeOf[k] = "RATING" /\ stored[sl] = Unset /\ <<k, Base>> \in Dirty
    BY <1>6 DEF Follows, k
  <2>2. <<k, Base>> \in Slots
    BY <2>1 DEF Dirty
  <2>3. stored'[<<k, Base>>] = edits[<<k, Base>>] /\ stored'[<<k, Base>>] # Unset
    BY <1>2, <1>4, <2>1, <2>2
  <2>4. stored'[sl] = Unset /\ s # Base
    BY <1>1, <1>2, <1>6, <2>1
  <2>. QED
    BY <1>1, <2>1, <2>3, <2>4 DEF GetValue
<1>7. ASSUME sl \notin Dirty, ~ Follows(sl)
      PROVE  GetValue(k, s)' = GetValue(k, s)
  <2>1. stored'[sl] = stored[sl]
    BY <1>2, <1>7
  <2>2. ASSUME ScopeOf[k] = "RATING", stored[sl] = Unset
        PROVE  stored'[<<k, Base>>] = stored[<<k, Base>>]
    <3>1. <<k, Base>> \in Slots
      BY <2>2, SlotsByScope DEF k
    <3>2. <<k, Base>> \notin Dirty
      BY <1>7, <2>2 DEF Follows, k
    <3>. QED
      BY <1>2, <3>1, <3>2
  <2>. QED
    BY <1>1, <2>1, <2>2, SameRowsSameValue
<1>. QED
  BY <1>3, <1>5, <1>6, <1>7 DEF k, s

\* A step that changes rows and leaves a screen that had edits without them is a save.
LEMMA OnlySaveSaves ==
  ASSUME SettingsTypeOK, [SettingsNext]_settingsVars,
         edits # shown, edits' = shown', stored' # stored
  PROVE  Save
<1>1. ~ LoadScreen
  BY DEF LoadScreen
<1>2. \A sl, v : ~ Type(sl, v)
  BY DEF Type
<1>3. \A batch : ~ UpdateSettings(batch)
  BY DEF UpdateSettings
<1>4. ~ RouteOrder /\ \A p, place : ~ SetLineLocation(p, place)
  BY DEF RouteOrder, SetLineLocation
<1>5. ~ UNCHANGED settingsVars
  BY DEF settingsVars
<1>. QED
  BY <1>1, <1>2, <1>3, <1>4, <1>5 DEF SettingsNext

(***************************************************************************)
(* BusinessVariablesView.vue 43-48, "so we only send what actually         *)
(* changed": saving from a screen, however old, changes the values that    *)
(* the program uses in the edited slots and in the ratings that follow an  *)
(* edited base, nowhere else, and the screen then shows what getValue      *)
(* returns; for every catalog of variables, roles and ratings.             *)
(***************************************************************************)
THEOREM ScreensSaveTheirEdits == SettingsSpec => SavedAsEdited
<1>1. ASSUME SettingsTypeOK, [SettingsNext]_settingsVars,
             edits # shown, edits' = shown', stored' # stored, NEW sl \in Slots
      PROVE  /\ shown'[sl] = GetValue(sl[1], sl[2])'
             /\ GetValue(sl[1], sl[2])' =
                  CASE sl \in Dirty -> edits[sl]
                    [] sl \notin Dirty /\ Follows(sl) -> edits[<<sl[1], Base>>]
                    [] OTHER -> GetValue(sl[1], sl[2])
  <2>1. Save
    BY <1>1, OnlySaveSaves
  <2>2. /\ shown'[sl] = GetValue(sl[1], sl[2])'
        /\ sl \in Dirty => GetValue(sl[1], sl[2])' = edits[sl]
        /\ sl \notin Dirty /\ Follows(sl) => GetValue(sl[1], sl[2])' = edits[<<sl[1], Base>>]
        /\ sl \notin Dirty /\ ~ Follows(sl) => GetValue(sl[1], sl[2])' = GetValue(sl[1], sl[2])
    BY <1>1, <2>1, SavedSlot
  <2>. QED
    BY <2>2
<1>2. SettingsTypeOK /\ [SettingsNext]_settingsVars =>
        [edits # shown /\ edits' = shown' /\ stored' # stored =>
           \A sl \in Slots :
             LET kept == GetValue(sl[1], sl[2])'
             IN  /\ shown'[sl] = kept
                 /\ kept = CASE sl \in Dirty -> edits[sl]
                             [] sl \notin Dirty /\ Follows(sl) -> edits[<<sl[1], Base>>]
                             [] OTHER -> GetValue(sl[1], sl[2])]_settingsVars
  BY <1>1
<1>3. QED
  BY <1>2, SettingsInitOK, SettingsNextOK, PTL DEF SettingsSpec, SavedAsEdited

-----------------------------------------------------------------------------
(***************************************************************************)
(* The closure calendar.  The days of a month that fall on a week day are  *)
(* seven apart, so the offset of the first of them from the first of the   *)
(* month, and that of the last of them from the last, give each of them    *)
(* (NthDates, LastDates).                                                  *)
(***************************************************************************)
LEMMA MonthLength ==
  ASSUME NEW y, NEW m
  PROVE  MonthDays(y, m) \in 28..31
BY DEF MonthDays

\* From year 1 on, days are counted from zero, and a year has at least 365 of them.
LEMMA YearLength ==
  ASSUME NEW y \in Nat \ {0}
  PROVE  /\ YearStart(y) \in Nat
         /\ 365 * (y - 1) <= YearStart(y) /\ YearStart(y) <= 366 * (y - 1)
         /\ YearStart(y) + 365 <= YearStart(y + 1)
<1>. DEFINE p == y - 1
<1>1. p \in Nat /\ y + 1 - 1 = p + 1
  OBVIOUS
<1>2. YearStart(y) = 365 * p + (p \div 4) - (p \div 100) + (p \div 400)
  BY DEF YearStart
<1>3. YearStart(y + 1) =
        365 * (p + 1) + ((p + 1) \div 4) - ((p + 1) \div 100) + ((p + 1) \div 400)
  BY <1>1 DEF YearStart
<1>. HIDE DEF p
<1>4. p \div 4 \in Nat /\ p \div 100 \in Nat /\ p \div 400 \in Nat /\ p \div 100 <= p \div 4
      /\ p \div 400 <= p \div 100 /\ p \div 4 <= p
  BY <1>1
<1>5. ((p + 1) \div 100) - (p \div 100) <= ((p + 1) \div 4) - (p \div 4)
  BY <1>1
<1>6. p \div 400 <= (p + 1) \div 400 /\ (p + 1) \div 400 \in Nat
      /\ (p + 1) \div 100 \in Nat /\ (p + 1) \div 4 \in Nat
  BY <1>1
<1>7. y - 1 = p
  BY DEF p
<1>. QED
  BY <1>1, <1>2, <1>3, <1>4, <1>5, <1>6, <1>7

LEMMA MonthStartNat ==
  ASSUME NEW y \in Nat \ {0}, NEW m \in 1..12
  PROVE  MonthStart(y, m) \in Nat
<1>. DEFINE f == [n \in 1..(m - 1) |-> MonthDays(y, n)]
<1>1. m - 1 \in Nat /\ \A k \in 1..(m - 1) : f[k] \in Nat
  BY MonthLength
<1>2. MonthStart(y, m) = YearStart(y) + Sum(f, m - 1)
  BY DEF MonthStart
<1>. HIDE DEF f
<1>3. \A k \in 0..(m - 1) : Sum(f, k) \in Nat
  BY <1>1, SumNat
<1>4. Sum(f, m - 1) \in Nat
  BY <1>1, <1>3
<1>5. YearStart(y) \in Nat
  BY YearLength
<1>. QED
  BY <1>2, <1>4, <1>5

-----------------------------------------------------------------------------
\* The days M..(M + D - 1) of a month that fall on week day w, from the first of them.
FirstOn(M, w) == M + ((w - WeekDay(M) + 7) % 7)

OnWeekDay(M, D, w) == {d \in M..(M + D - 1) : WeekDay(d) = w}

\* The first is in the first week.
LEMMA FirstWeek ==
  ASSUME NEW M \in Nat, NEW w \in 0..6
  PROVE  /\ FirstOn(M, w) \in M..(M + 6)
         /\ WeekDay(FirstOn(M, w)) = w
<1>. DEFINE v == (M + 1) % 7
            t == (w - v + 7) % 7
<1>1. v \in 0..6 /\ \E a \in Nat : M + 1 = 7 * a + v
  <2>1. M + 1 = 7 * ((M + 1) \div 7) + v /\ (M + 1) \div 7 \in Nat
    OBVIOUS
  <2>. QED
    BY <2>1
<1>2. FirstOn(M, w) = M + t
  BY DEF FirstOn, WeekDay
<1>. HIDE DEF v
<1>3. t = IF v <= w THEN w - v ELSE w - v + 7
  BY <1>1
<1>. HIDE DEF t
<1>4. t \in 0..6 /\ (M + t + 1) % 7 = w
  BY <1>1, <1>3
<1>. QED
  BY <1>2, <1>4 DEF WeekDay

\* The others follow every seven days.
LEMMA EverySevenDays ==
  ASSUME NEW M \in Nat, NEW D \in Nat, NEW w \in 0..6, NEW d \in Int
  PROVE  d \in OnWeekDay(M, D, w) <=>
           d <= M + D - 1 /\ \E k \in Nat : d = FirstOn(M, w) + 7 * k
<1>. DEFINE x == FirstOn(M, w)
<1>1. x \in M..(M + 6) /\ WeekDay(x) = w
  BY FirstWeek
<1>. HIDE DEF x
<1>2. ASSUME d \in OnWeekDay(M, D, w)
      PROVE  d <= M + D - 1 /\ \E k \in Nat : d = x + 7 * k
  <2>1. M <= d /\ d <= M + D - 1 /\ (d + 1) % 7 = w /\ (x + 1) % 7 = w
    BY <1>1, <1>2 DEF OnWeekDay, WeekDay
  <2>. DEFINE k == ((d + 1) \div 7) - ((x + 1) \div 7)
  <2>2. d + 1 = 7 * ((d + 1) \div 7) + w /\ x + 1 = 7 * ((x + 1) \div 7) + w
    BY <1>1, <2>1
  <2>3. k \in Int /\ d = x + 7 * k
    BY <1>1, <2>2
  <2>. HIDE DEF k
  <2>4. k \in Nat
    BY <1>1, <2>1, <2>3
  <2>. QED
    BY <2>1, <2>3, <2>4
<1>3. ASSUME d <= M + D - 1, NEW k \in Nat, d = x + 7 * k
      PROVE  d \in OnWeekDay(M, D, w)
  <2>1. M <= d /\ (x + 1) % 7 = w
    BY <1>1, <1>3 DEF WeekDay
  <2>2. (d + 1) % 7 = (x + 1) % 7
    BY <1>1, <1>3
  <2>. QED
    BY <1>3, <2>1, <2>2 DEF OnWeekDay, WeekDay
<1>4. d \in OnWeekDay(M, D, w) <=> d <= M + D - 1 /\ \E k \in Nat : d = x + 7 * k
  BY <1>2, <1>3
<1>. QED
  BY <1>4 DEF x

\* So many of them are no later than the k-th.
LEMMA CountUpTo ==
  ASSUME NEW M \in Nat, NEW D \in Nat, NEW w \in 0..6,
         NEW k \in Nat, FirstOn(M, w) + 7 * k <= M + D - 1
  PROVE  Cardinality({e \in OnWeekDay(M, D, w) : e <= FirstOn(M, w) + 7 * k}) = k + 1
<1>. DEFINE x == FirstOn(M, w)
            E == {e \in OnWeekDay(M, D, w) : e <= FirstOn(M, w) + 7 * k}
            b == [j \in 1..(k + 1) |-> x + 7 * (j - 1)]
<1>1. x \in Int
  <2>1. x \in M..(M + 6)
    BY FirstWeek
  <2>. HIDE DEF x
  <2>. QED
    BY <2>1
<1>2. /\ \A e \in E : e \in Int /\ \E j \in 0..k : e = x + 7 * j
      /\ \A j \in 0..k : x + 7 * j \in E
  <2>1. ASSUME NEW e \in E
        PROVE  e \in Int /\ \E j \in 0..k : e = x + 7 * j
    <3>1. e \in Int /\ e \in OnWeekDay(M, D, w) /\ e <= x + 7 * k
      BY DEF OnWeekDay
    <3>2. PICK j \in Nat : e = x + 7 * j
      BY <3>1, EverySevenDays
    <3>. HIDE DEF x, E
    <3>3. j \in 0..k
      BY <1>1, <3>1, <3>2
    <3>. QED
      BY <3>1, <3>2, <3>3
  <2>2. ASSUME NEW j \in 0..k
        PROVE  x + 7 * j \in E
    <3>1. x + 7 * j \in Int /\ x + 7 * j <= x + 7 * k /\ x + 7 * j <= M + D - 1 /\ j \in Nat
      BY <1>1
    <3>2. x + 7 * j \in OnWeekDay(M, D, w)
      BY <3>1, EverySevenDays
    <3>. QED
      BY <3>1, <3>2
  <2>. QED
    BY <2>1, <2>2
<1>. HIDE DEF x, E
<1>3. b \in Bijection(1..(k + 1), E)
  <2>1. ASSUME NEW j \in 1..(k + 1)
        PROVE  b[j] \in E
    <3>1. j - 1 \in 0..k /\ b[j] = x + 7 * (j - 1)
      OBVIOUS
    <3>. QED
      BY <1>2, <3>1
  <2>2. \A i, j \in 1..(k + 1) : b[i] = b[j] => i = j
    BY <1>1
  <2>3. \A e \in E : \E j \in 1..(k + 1) : b[j] = e
    <3>. SUFFICES ASSUME NEW e \in E PROVE \E j \in 1..(k + 1) : b[j] = e
      OBVIOUS
    <3>1. PICK i \in 0..k : e = x + 7 * i
      BY <1>2
    <3>2. i + 1 \in 1..(k + 1) /\ b[i + 1] = e
      BY <1>1, <3>1
    <3>. QED
      BY <3>2
  <2>. HIDE DEF b
  <2>4. b \in [1..(k + 1) -> E]
    <3>1. DOMAIN b = 1..(k + 1) /\ b = [j \in 1..(k + 1) |-> b[j]]
      BY DEF b
    <3>. QED
      BY <2>1, <3>1
  <2>5. \A i, j \in DOMAIN b : b[i] = b[j] => i = j
    BY <2>2, <2>4
  <2>. QED
    BY <2>3, <2>4, <2>5 DEF Bijection, Injection, Surjection, IsInjective
<1>4. Cardinality(E) = Cardinality(1..(k + 1))
  <2>1. IsFiniteSet(1..(k + 1))
    BY FS_Interval
  <2>2. ExistsBijection(1..(k + 1), E)
    BY <1>3 DEF ExistsBijection
  <2>. QED
    BY <2>1, <2>2, FS_Bijection
<1>5. Cardinality(1..(k + 1)) = k + 1
  BY FS_Interval
<1>. QED
  BY <1>4, <1>5 DEF E

\* The n-th of them, if the month has so many.
LEMMA NthDates ==
  ASSUME NEW M \in Nat, NEW D \in Nat, NEW w \in 0..6, NEW n \in Nat \ {0}
  PROVE  \A d : /\ d \in OnWeekDay(M, D, w)
                /\ Cardinality({e \in OnWeekDay(M, D, w) : e <= d}) = n
                <=> d = FirstOn(M, w) + (n - 1) * 7 /\ d \in M..(M + D - 1)
<1>. DEFINE x == FirstOn(M, w)
            S == OnWeekDay(M, D, w)
            upTo(d) == Cardinality({e \in S : e <= d})
<1>1. x \in M..(M + 6)
  BY FirstWeek
<1>2. \A d \in Int : d \in S <=> d <= M + D - 1 /\ \E k \in Nat : d = x + 7 * k
  BY EverySevenDays
<1>3. \A k \in Nat : x + 7 * k <= M + D - 1 => upTo(x + 7 * k) = k + 1
  BY CountUpTo
<1>4. S \subseteq M..(M + D - 1)
  BY DEF OnWeekDay
<1>. HIDE DEF x, S, upTo
<1>5. ASSUME NEW d \in S, upTo(d) = n
      PROVE  d = x + (n - 1) * 7 /\ d \in M..(M + D - 1)
  <2>1. d \in Int /\ d \in M..(M + D - 1)
    BY <1>4, <1>5
  <2>2. PICK k \in Nat : d = x + 7 * k
    BY <1>2, <1>5, <2>1
  <2>3. upTo(d) = k + 1
    BY <1>1, <1>3, <2>1, <2>2
  <2>4. k = n - 1
    BY <1>5, <2>3
  <2>. QED
    BY <1>1, <2>1, <2>2, <2>4
<1>6. ASSUME NEW d, d = x + (n - 1) * 7, d \in M..(M + D - 1)
      PROVE  d \in S /\ upTo(d) = n
  <2>1. PICK k \in Nat : k = n - 1
    OBVIOUS
  <2>2. d \in Int /\ d = x + 7 * k /\ d <= M + D - 1
    BY <1>1, <1>6, <2>1
  <2>3. d \in S
    BY <1>2, <2>2
  <2>4. x + 7 * k <= M + D - 1
    BY <2>2
  <2>5. upTo(x + 7 * k) = k + 1
    BY <1>3, <2>4
  <2>6. upTo(d) = k + 1 /\ k + 1 = n
    BY <2>1, <2>2, <2>5
  <2>. QED
    BY <2>3, <2>6
<1>7. \A d : d \in S /\ upTo(d) = n <=> d = x + (n - 1) * 7 /\ d \in M..(M + D - 1)
  BY <1>5, <1>6
<1>. QED
  BY <1>7 DEF x, S, upTo

\* The last of them, from the last of the month.
LEMMA LastDates ==
  ASSUME NEW M \in Nat, NEW D \in 28..31, NEW w \in 0..6
  PROVE  \A d : /\ d \in OnWeekDay(M, D, w)
                /\ \A e \in OnWeekDay(M, D, w) : e <= d
                <=> d = (M + D - 1) - ((WeekDay(M + D - 1) - w + 7) % 7)
<1>. DEFINE L == M + D - 1
            v == (L + 1) % 7
            t == (v - w + 7) % 7
            x == L - t
            S == OnWeekDay(M, D, w)
<1>1. L \in Nat /\ M + 27 <= L
  OBVIOUS
<1>2. v \in 0..6 /\ \E a \in Nat : L + 1 = 7 * a + v
  <2>. HIDE DEF L
  <2>1. L + 1 = 7 * ((L + 1) \div 7) + v /\ (L + 1) \div 7 \in Nat
    BY <1>1
  <2>. QED
    BY <1>1, <2>1
<1>3. (M + D - 1) - ((WeekDay(M + D - 1) - w + 7) % 7) = x
  BY DEF WeekDay
<1>4. S = {d \in M..L : (d + 1) % 7 = w}
  BY DEF OnWeekDay, WeekDay
<1>. HIDE DEF L, v, S
<1>5. t = IF w <= v THEN v - w ELSE v - w + 7
  BY <1>2
<1>. HIDE DEF t
<1>6. t \in 0..6 /\ (x + 1) % 7 = w
  BY <1>1, <1>2, <1>5
<1>7. x \in S
  BY <1>1, <1>4, <1>6
<1>8. ASSUME NEW e \in S
      PROVE  e <= x
  <2>1. e \in M..L /\ (e + 1) % 7 = w
    BY <1>4, <1>8
  <2>2. x \in Int /\ L <= x + 6
    BY <1>1, <1>6
  <2>. HIDE DEF x
  <2>. QED
    BY <1>1, <1>6, <2>1, <2>2
<1>9. S \subseteq Int /\ x \in Int
  BY <1>1, <1>4, <1>6
<1>. HIDE DEF x
<1>10. ASSUME NEW d \in S, \A e \in S : e <= d
       PROVE  d = x
  <2>1. x <= d /\ d <= x /\ d \in Int
    BY <1>7, <1>8, <1>9, <1>10
  <2>. QED
    BY <1>9, <2>1
<1>11. \A d : d \in S /\ (\A e \in S : e <= d) <=> d = x
  BY <1>7, <1>8, <1>10
<1>. QED
  BY <1>3, <1>11 DEF S

(***************************************************************************)
(* For one year: the date that resolveForYear computes for a rule is the   *)
(* day of the month that the rule describes, and there is none otherwise.  *)
(***************************************************************************)
LEMMA RuleDates ==
  ASSUME NEW r \in RuleRows, r.ruleType # "EXPLICIT", NEW z \in Nat \ {0}
  PROVE  DatesOf(r, z) = {ResolveForYear(r, z)} \ {NoDate}
<1>. DEFINE M == MonthStart(z, r.month)
            D == MonthDays(z, r.month)
            w == r.weekday
<1>1. r.month \in 1..12
  BY DEF RuleRows
<1>2. M \in Nat /\ D \in 28..31
  BY <1>1, MonthStartNat, MonthLength
<1>3. \A d : d \in M..(M + D - 1) => d # NoDate
  <2>. HIDE DEF M, D
  <2>. QED
    BY <1>2 DEF NoDate
<1>4. CASE r.ruleType = "FIXED"
  <2>. DEFINE date == Utc(z, r.month, r.day)
  <2>1. r.day \in 1..31
    BY <1>4 DEF RuleRows
  <2>2. date = M + r.day - 1
    BY DEF Utc
  <2>3. DatesOf(r, z) = {d \in M..(M + D - 1) : d - M = r.day - 1}
    BY <1>4 DEF DatesOf
  <2>4. ResolveForYear(r, z) = IF date \in M..(M + D - 1) THEN date ELSE NoDate
    BY <1>4 DEF ResolveForYear, InMonth
  <2>. HIDE DEF M, D, date
  <2>5. \A d \in M..(M + D - 1) : d - M = r.day - 1 <=> d = date
    <3>1. \A d \in M..(M + D - 1) : d \in Int
      OBVIOUS
    <3>2. PICK c \in 1..31 : c = r.day
      BY <2>1
    <3>3. \A d \in Int : d - M = c - 1 <=> d = M + c - 1
      BY <1>2
    <3>. QED
      BY <2>2, <3>1, <3>2, <3>3
  <2>6. DatesOf(r, z) = {d \in M..(M + D - 1) : d = date}
    BY <2>3, <2>5
  <2>. QED
    BY <1>3, <2>4, <2>6
<1>5. CASE r.ruleType = "NTH_WEEKDAY" /\ r.nth = -1
  <2>. DEFINE date == LastOfMonth(r, z)
              S == OnWeekDay(M, D, w)
  <2>1. w \in 0..6
    BY <1>5 DEF RuleRows
  <2>2. date = (M + D - 1) - ((WeekDay(M + D - 1) - w + 7) % 7)
    BY DEF LastOfMonth, Utc
  <2>3. DatesOf(r, z) = {d \in S : \A e \in S : e <= d}
    BY <1>5 DEF DatesOf, OnWeekDay
  <2>4. ResolveForYear(r, z) = date
    BY <1>5 DEF ResolveForYear
  <2>5. S \subseteq M..(M + D - 1)
    BY DEF OnWeekDay
  <2>. HIDE DEF M, D, w, date
  <2>6. \A d : d \in S /\ (\A e \in S : e <= d) <=> d = date
    BY <1>2, <2>1, <2>2, LastDates
  <2>. HIDE DEF S
  <2>7. DatesOf(r, z) = {date}
    BY <2>3, <2>6
  <2>8. date \in S
    BY <2>6
  <2>9. date # NoDate
    BY <1>3, <2>5, <2>8
  <2>. QED
    BY <2>4, <2>7, <2>9
<1>6. CASE r.ruleType = "NTH_WEEKDAY" /\ r.nth # -1
  <2>. DEFINE date == M + ((w - WeekDay(M) + 7) % 7) + (r.nth - 1) * 7
              S == OnWeekDay(M, D, w)
              upTo(d) == Cardinality({e \in S : e <= d})
  <2>1. w \in 0..6 /\ r.nth \in Nat \ {0}
    BY <1>6 DEF RuleRows
  <2>2. Utc(z, r.month, 1) = M
    <3>1. Utc(z, r.month, 1) = M + 1 - 1
      BY DEF Utc
    <3>. HIDE DEF M
    <3>. QED
      BY <1>2, <3>1
  <2>3. DatesOf(r, z) = {d \in S : upTo(d) = r.nth}
    BY <1>6 DEF DatesOf, OnWeekDay
  <2>4. Nth(r, z) = IF date \in M..(M + D - 1) THEN date ELSE NoDate
    BY <2>2 DEF Nth, InMonth
  <2>5. ResolveForYear(r, z) = Nth(r, z)
    BY <1>6 DEF ResolveForYear
  <2>6. date = FirstOn(M, w) + (r.nth - 1) * 7
    BY DEF FirstOn
  <2>. HIDE DEF M, D, w, date
  <2>7. \A d : d \in S /\ upTo(d) = r.nth <=> d = date /\ d \in M..(M + D - 1)
    <3>1. PICK n \in Nat \ {0} : n = r.nth
      BY <2>1
    <3>2. M \in Nat /\ D \in Nat
      BY <1>2
    <3>3. \A d : /\ d \in OnWeekDay(M, D, w)
                 /\ Cardinality({e \in OnWeekDay(M, D, w) : e <= d}) = n
                 <=> d = FirstOn(M, w) + (n - 1) * 7 /\ d \in M..(M + D - 1)
      BY <2>1, <3>2, NthDates
    <3>. QED
      BY <2>6, <3>1, <3>3
  <2>. HIDE DEF S, upTo
  <2>8. \A d : d \in DatesOf(r, z) <=> d = date /\ d \in M..(M + D - 1)
    BY <2>3, <2>7
  <2>. QED
    BY <1>3, <2>4, <2>5, <2>8
<1>7. r.ruleType \in {"FIXED", "NTH_WEEKDAY"}
  BY DEF RuleRows
<1>. QED
  BY <1>4, <1>5, <1>6, <1>7

-----------------------------------------------------------------------------
\* The calendar is read in one of the years, and its rows hold rules.
CalendarInv ==
  /\ \E y \in Years, d \in ReadingDays : now = Utc(y, 1, 1) + d - 1
  /\ holidays \in [HolidayIds -> {NoHoliday} \cup [rule : Rules, active : BOOLEAN]]

LEMMA CalendarInitOK == HolidaysInit => CalendarInv
BY DEF HolidaysInit, CalendarInv

LEMMA CalendarNextOK == CalendarInv /\ [HolidaysNext]_holidayVars => CalendarInv'
<1>. SUFFICES ASSUME CalendarInv, [HolidaysNext]_holidayVars PROVE CalendarInv'
  OBVIOUS
<1>. USE DEF CalendarInv
<1>1. ASSUME NEW h \in HolidayIds, NEW r \in Rules, NEW active \in BOOLEAN,
             CreateHoliday(h, r, active)
      PROVE  CalendarInv'
  BY <1>1 DEF CreateHoliday
<1>2. ASSUME NEW h \in HolidayIds, NEW active \in BOOLEAN, UpdateHoliday(h, active)
      PROVE  CalendarInv'
  <2>1. holidays[h] \in [rule : Rules, active : BOOLEAN]
    BY <1>2 DEF UpdateHoliday
  <2>. QED
    BY <1>2, <2>1 DEF UpdateHoliday
<1>3. ASSUME NEW h \in HolidayIds, RemoveHoliday(h)
      PROVE  CalendarInv'
  BY <1>3 DEF RemoveHoliday
<1>4. CASE UNCHANGED holidayVars
  BY <1>4 DEF holidayVars
<1>. QED
  BY <1>1, <1>2, <1>3, <1>4 DEF HolidaysNext

\* The year of a day that is in one.
LEMMA YearFound ==
  ASSUME CalendarInv
  PROVE  YearOf(now) \in Nat \ {0}
<1>1. PICK y \in Years, d \in ReadingDays : now = Utc(y, 1, 1) + d - 1
  BY DEF CalendarInv
<1>2. y \in Nat \ {0} /\ d \in 1..365
  BY HolidaysAssumption DEF HolidaysAssumption
<1>3. Utc(y, 1, 1) = YearStart(y)
  <2>. DEFINE f == [n \in 1..(1 - 1) |-> MonthDays(y, n)]
  <2>1. MonthStart(y, 1) = YearStart(y) + Sum(f, 1 - 1)
    BY DEF MonthStart
  <2>. HIDE DEF f
  <2>2. Sum(f, 0) = 0
    BY SumUnfold
  <2>3. YearStart(y) \in Nat
    BY <1>2, YearLength
  <2>4. MonthStart(y, 1) = YearStart(y)
    BY <2>1, <2>2, <2>3
  <2>. QED
    BY <2>3, <2>4 DEF Utc
<1>. DEFINE Y(u) == u \in (now \div 366)..(now \div 365 + 1)
                    /\ now \in YearStart(u)..(YearStart(u + 1) - 1)
<1>4. now \in Nat /\ Y(y)
  <2>1. now = YearStart(y) + d - 1
    BY <1>1, <1>3
  <2>2. /\ YearStart(y) \in Nat /\ YearStart(y + 1) \in Nat
        /\ 365 * (y - 1) <= YearStart(y) /\ YearStart(y) <= 366 * (y - 1)
        /\ YearStart(y) + 365 <= YearStart(y + 1)
    BY <1>2, YearLength
  <2>3. now \in Nat /\ now \in YearStart(y)..(YearStart(y + 1) - 1)
    BY <1>2, <2>1, <2>2
  <2>4. 365 * (y - 1) <= now /\ now < 366 * y
    BY <1>2, <2>1, <2>2
  <2>5. y \in (now \div 366)..(now \div 365 + 1)
    BY <1>2, <2>3, <2>4
  <2>. QED
    BY <2>3, <2>5
<1>5. Y(YearOf(now))
  BY <1>4 DEF YearOf
<1>6. YearOf(now) \in Nat
  <2>1. now \div 366 \in Nat /\ now \div 365 + 1 \in Nat
    BY <1>4
  <2>2. YearOf(now) \in (now \div 366)..(now \div 365 + 1)
    BY <1>5
  <2>. QED
    BY <2>1, <2>2
<1>7. YearOf(now) # 0
  <2>1. YearStart(0 + 1) = 0
    BY DEF YearStart
  <2>. QED
    BY <1>4, <1>5, <2>1
<1>. QED
  BY <1>6, <1>7

(***************************************************************************)
(* company-holidays.service.ts (resolveForYear, upcoming): the arithmetic  *)
(* on week days finds the date that the calendar has for a rule, and none  *)
(* where it has none, in every year and month and for every week day; and  *)
(* the date on the list is the next one that this year or the next has.    *)
(***************************************************************************)
THEOREM HolidaysFallOnRule == HolidaysSpec => []HolidaysOnRule
<1>1. ASSUME CalendarInv
      PROVE  HolidaysOnRule
  <2>. SUFFICES ASSUME NEW h \in HolidayIds, holidays[h] # NoHoliday,
                       holidays[h].rule.ruleType # "EXPLICIT",
                       NEW r, r = holidays[h].rule, NEW y, y = YearOf(now),
                       NEW ahead, ahead = {d \in DatesOf(r, y) \cup DatesOf(r, y + 1) : d >= now}
                PROVE  /\ \A z \in {y, y + 1} : DatesOf(r, z) = {ResolveForYear(r, z)} \ {NoDate}
                       /\ ahead # {} => Upcoming(r) = Earliest(ahead)
    BY DEF HolidaysOnRule
  <2>1. r \in RuleRows /\ r.ruleType # "EXPLICIT"
    <3>1. holidays[h] \in [rule : Rules, active : BOOLEAN]
      BY <1>1 DEF CalendarInv
    <3>. QED
      BY <3>1, HolidaysAssumption DEF HolidaysAssumption
  <2>2. y \in Nat \ {0} /\ y + 1 \in Nat \ {0}
    BY <1>1, YearFound
  <2>3. \A z \in {y, y + 1} : DatesOf(r, z) = {ResolveForYear(r, z)} \ {NoDate}
    BY <2>1, <2>2, RuleDates
  <2>. DEFINE coming == {ResolveForYear(r, z) : z \in {y, y + 1}}
              next == {d \in coming : d # NoDate /\ d >= now}
  <2>4. ahead = next
    BY <2>3
  <2>5. next # {} => Upcoming(r) = Earliest(next)
    BY <2>1 DEF Upcoming
  <2>. QED
    BY <2>3, <2>4, <2>5
<1>2. QED
  BY <1>1, CalendarInitOK, CalendarNextOK, PTL DEF HolidaysSpec

-----------------------------------------------------------------------------
(***************************************************************************)
(* The purchase order form.  A good line is of a kind that the vendor is   *)
(* known to supply and refers to nothing yet, or to what is offered for    *)
(* that kind; what is offered exists, as no item is ever removed.          *)
(***************************************************************************)
VendorRows == VendorConfigs \cup {NotCreated}

PlacedRows ==
  [number : PoNumbers, vendor : Vendors \cup {NoVendor},
   refs : SUBSET (Skus \cup Packaging \cup {""}), status : {"OPEN", "CANCELLED"}]

GoodLines(v) ==
  {l \in DraftLines : /\ l.kind \in AllowedKinds(v)
                      /\ l.ref = Blank \/ l.ref \in RefsOffered(l.kind)}

SuppliersInv ==
  /\ vendors \in [Vendors -> VendorRows]
  /\ Existing \subseteq stocked /\ stocked \subseteq Skus
  /\ placed \in Seq(PlacedRows)
  /\ known.vendors \in [Vendors -> VendorRows] /\ known.stocked \subseteq stocked
  /\ draft \in [open : BOOLEAN, vendor : Vendors \cup {NoVendor}, lines : Seq(DraftLines)]
  /\ draft.lines \in Seq(GoodLines(draft.vendor))

\* A vendor may supply something, so that a line of it can start over.
LEMMA SomeKindAllowed ==
  ASSUME SuppliersInv, NEW v \in Vendors \cup {NoVendor}
  PROVE  /\ AllowedKinds(v) \subseteq Both
         /\ FirstKind(AllowedKinds(v)) \in AllowedKinds(v)
<1>1. AllowedKinds(v) \subseteq Both /\ AllowedKinds(v) # {}
  <2>1. CASE v = NoVendor \/ known.vendors[v].kinds = {}
    BY <2>1 DEF AllowedKinds, Both
  <2>2. CASE v # NoVendor /\ known.vendors[v].kinds # {}
    <3>1. known.vendors[v] \in VendorRows
      BY <2>2 DEF SuppliersInv
    <3>2. known.vendors[v].kinds \subseteq Both
      BY <3>1 DEF VendorRows, VendorConfigs, NotCreated
    <3>. QED
      BY <2>2, <3>2 DEF AllowedKinds
  <2>. QED
    BY <2>1, <2>2
<1>. QED
  BY <1>1 DEF FirstKind, Both

LEMMA BlankLineGood ==
  ASSUME SuppliersInv, NEW v \in Vendors \cup {NoVendor}, NEW kind \in AllowedKinds(v)
  PROVE  [kind |-> kind, ref |-> Blank] \in GoodLines(v)
<1>1. kind \in Both
  BY SomeKindAllowed
<1>2. Blank \in [sku : Skus \cup Packaging \cup {""}, new : BOOLEAN]
  BY DEF Blank
<1>. QED
  BY <1>1, <1>2 DEF GoodLines, DraftLines

\* What is offered can be put on a line.
LEMMA OfferedRefs ==
  ASSUME SuppliersInv, NEW kind \in Both
  PROVE  RefsOffered(kind) \subseteq [sku : Skus \cup Packaging \cup {""}, new : BOOLEAN]
<1>1. known.stocked \subseteq Skus
  BY DEF SuppliersInv
<1>. QED
  BY <1>1 DEF RefsOffered

-----------------------------------------------------------------------------
LEMMA SuppliersInitOK == SuppliersInit => SuppliersInv
<1>. SUFFICES ASSUME SuppliersInit PROVE SuppliersInv
  OBVIOUS
<1>1. NotCreated \in VendorRows /\ vendors \in [Vendors -> VendorRows]
  BY DEF SuppliersInit, VendorRows
<1>2. known.vendors = vendors /\ known.stocked = stocked
  BY DEF SuppliersInit, Snapshot
<1>3. /\ draft = [open |-> FALSE, vendor |-> NoVendor, lines |-> <<>>]
      /\ placed = <<>> /\ stocked = Existing
  BY DEF SuppliersInit, Closed
<1>4. Existing \subseteq Skus
  BY SuppliersAssumption DEF SuppliersAssumption
<1>5. draft.lines = <<>> /\ draft.vendor = NoVendor /\ draft.open = FALSE
  BY <1>3
<1>6. draft.lines \in Seq(GoodLines(draft.vendor))
  BY <1>5
<1>7. draft \in [open : BOOLEAN, vendor : Vendors \cup {NoVendor}, lines : Seq(DraftLines)]
  BY <1>3
<1>8. placed \in Seq(PlacedRows)
  BY <1>3
<1>. QED
  BY <1>1, <1>2, <1>3, <1>4, <1>6, <1>7, <1>8 DEF SuppliersInv

\* An edit of the form leaves the rest alone; its lines stay good.
LEMMA EditOK ==
  ASSUME SuppliersInv, NEW new, Edit(new),
         new \in [open : BOOLEAN, vendor : Vendors \cup {NoVendor}, lines : Seq(DraftLines)],
         new.lines \in Seq(GoodLines(new.vendor))
  PROVE  SuppliersInv'
<1>1. draft' = new /\ UNCHANGED <<vendors, stocked, placed, known>>
  BY DEF Edit
<1>2. GoodLines(new.vendor)' = GoodLines(new.vendor)
  BY <1>1 DEF GoodLines, AllowedKinds, RefsOffered
<1>. QED
  BY <1>1, <1>2 DEF SuppliersInv

\* One of the lines is replaced by a good one.
LEMMA LineOK ==
  ASSUME SuppliersInv, NEW n \in DOMAIN draft.lines, NEW l \in GoodLines(draft.vendor),
         Edit([draft EXCEPT !.lines[n] = l])
  PROVE  SuppliersInv'
<1>. DEFINE lines == [draft.lines EXCEPT ![n] = l]
            new == [draft EXCEPT !.lines = lines]
<1>1. [draft EXCEPT !.lines[n] = l] = new
  BY DEF SuppliersInv
<1>2. GoodLines(draft.vendor) \subseteq DraftLines
  BY DEF GoodLines
<1>3. lines \in Seq(GoodLines(draft.vendor)) /\ lines \in Seq(DraftLines)
  BY <1>2 DEF SuppliersInv
<1>. HIDE DEF lines
<1>4. /\ new \in [open : BOOLEAN, vendor : Vendors \cup {NoVendor}, lines : Seq(DraftLines)]
      /\ new.lines = lines /\ new.vendor = draft.vendor
  BY <1>3 DEF SuppliersInv
<1>. QED
  BY <1>1, <1>3, <1>4, EditOK

\* What is typed of the form as a whole: its lines are replaced by good ones.
LEMMA LinesOK ==
  ASSUME SuppliersInv, NEW v \in Vendors \cup {NoVendor}, NEW lines \in Seq(GoodLines(v)),
         Edit([draft EXCEPT !.vendor = v, !.lines = lines])
  PROVE  SuppliersInv'
<1>. DEFINE new == [draft EXCEPT !.vendor = v, !.lines = lines]
<1>1. GoodLines(v) \subseteq DraftLines
  BY DEF GoodLines
<1>2. lines \in Seq(DraftLines)
  BY <1>1
<1>3. /\ new \in [open : BOOLEAN, vendor : Vendors \cup {NoVendor}, lines : Seq(DraftLines)]
      /\ new.lines = lines /\ new.vendor = v
  BY <1>2 DEF SuppliersInv
<1>. QED
  BY <1>3, EditOK

LEMMA SuppliersNextOK == SuppliersInv /\ [SuppliersNext]_supplierVars => SuppliersInv'
<1>. SUFFICES ASSUME SuppliersInv, [SuppliersNext]_supplierVars PROVE SuppliersInv'
  OBVIOUS
<1>0. /\ draft.vendor \in Vendors \cup {NoVendor}
      /\ draft.lines \in Seq(GoodLines(draft.vendor)) /\ draft.lines \in Seq(DraftLines)
      /\ draft \in [open : BOOLEAN, vendor : Vendors \cup {NoVendor}, lines : Seq(DraftLines)]
      /\ \A v : GoodLines(v) \subseteq DraftLines
  BY DEF SuppliersInv, GoodLines
<1>1. ASSUME UNCHANGED <<stocked, placed, known, draft>>, vendors' \in [Vendors -> VendorRows]
      PROVE  SuppliersInv'
  <2>1. GoodLines(draft.vendor)' = GoodLines(draft.vendor)
    BY <1>1 DEF GoodLines, AllowedKinds, RefsOffered
  <2>. QED
    BY <1>1, <2>1 DEF SuppliersInv
<1>2. ASSUME NEW v \in Vendors, NEW config \in Configs,
             CreateVendor(v, config) \/ UpdateVendor(v, config)
      PROVE  SuppliersInv'
  <2>1. config \in VendorRows
    BY SuppliersAssumption DEF SuppliersAssumption, VendorRows
  <2>2. vendors' = [vendors EXCEPT ![v] = config] /\ UNCHANGED <<stocked, placed, known, draft>>
    BY <1>2 DEF CreateVendor, UpdateVendor
  <2>3. vendors' \in [Vendors -> VendorRows]
    BY <2>1, <2>2 DEF SuppliersInv
  <2>. QED
    BY <1>1, <2>2, <2>3
<1>3. ASSUME OpenForm
      PROVE  SuppliersInv'
  <2>1. /\ known'.vendors = vendors /\ known'.stocked = stocked
        /\ UNCHANGED <<vendors, stocked, placed>>
        /\ draft' = [open |-> TRUE, vendor |-> NoVendor, lines |-> <<NewDraftLine(NoVendor)>>]
    BY <1>3 DEF OpenForm, Snapshot
  <2>2. NewDraftLine(NoVendor) = [kind |-> "ITEM", ref |-> Blank]
    BY DEF NewDraftLine, AllowedKinds, FirstKind, Both
  <2>3. NewDraftLine(NoVendor) \in DraftLines
    <3>1. Blank \in [sku : Skus \cup Packaging \cup {""}, new : BOOLEAN]
      BY DEF Blank
    <3>2. [kind |-> "ITEM", ref |-> Blank] \in DraftLines
      BY <3>1 DEF DraftLines, Both
    <3>. QED
      BY <2>2, <3>2
  <2>4. NewDraftLine(NoVendor) \in GoodLines(NoVendor)'
    BY <2>2, <2>3 DEF GoodLines, AllowedKinds, Both
  <2>5. /\ draft'.lines \in Seq(GoodLines(NoVendor)') /\ draft'.vendor = NoVendor
        /\ draft' \in [open : BOOLEAN, vendor : Vendors \cup {NoVendor}, lines : Seq(DraftLines)]
    <3>. HIDE DEF NewDraftLine
    <3>. QED
      BY <2>1, <2>3, <2>4
  <2>6. (draft.lines \in Seq(GoodLines(draft.vendor)))'
    BY <2>5
  <2>. QED
    BY <2>1, <2>5, <2>6 DEF SuppliersInv
<1>4. ASSUME NEW v \in Vendors, PickVendor(v)
      PROVE  SuppliersInv'
  <2>. DEFINE lines == [n \in DOMAIN draft.lines |-> FitLine(draft.lines[n], AllowedKinds(v))]
  <2>1. Edit([draft EXCEPT !.vendor = v, !.lines = lines])
    BY <1>4 DEF PickVendor
  <2>2. ASSUME NEW n \in DOMAIN draft.lines
        PROVE  lines[n] \in GoodLines(v)
    <3>1. draft.lines[n] \in GoodLines(draft.vendor)
      BY <1>0
    <3>2. [kind |-> FirstKind(AllowedKinds(v)), ref |-> Blank] \in GoodLines(v)
      BY SomeKindAllowed, BlankLineGood
    <3>. QED
      BY <3>1, <3>2 DEF FitLine, GoodLines
  <2>3. lines \in Seq(GoodLines(v))
    <3>1. DOMAIN draft.lines = 1..Len(draft.lines) /\ Len(draft.lines) \in Nat
      BY <1>0
    <3>2. DOMAIN lines = 1..Len(draft.lines) /\ lines = [n \in 1..Len(draft.lines) |-> lines[n]]
      BY <3>1
    <3>. HIDE DEF lines
    <3>. QED
      BY <2>2, <3>1, <3>2
  <2>. HIDE DEF lines
  <2>. QED
    BY <2>1, <2>3, LinesOK
<1>5. ASSUME AddDraftLine
      PROVE  SuppliersInv'
  <2>1. NewDraftLine(draft.vendor) \in GoodLines(draft.vendor)
    BY <1>0, SomeKindAllowed, BlankLineGood DEF NewDraftLine
  <2>2. Append(draft.lines, NewDraftLine(draft.vendor)) \in Seq(GoodLines(draft.vendor))
    BY <1>0, <2>1
  <2>3. Edit([draft EXCEPT !.vendor = draft.vendor,
                !.lines = Append(draft.lines, NewDraftLine(draft.vendor))])
    BY <1>0, <1>5 DEF AddDraftLine
  <2>. QED
    BY <1>0, <2>2, <2>3, LinesOK
<1>6. ASSUME NEW n \in DOMAIN draft.lines, RemoveDraftLine(n)
      PROVE  SuppliersInv'
  <2>. DEFINE lines == SubSeq(draft.lines, 1, n - 1) \o SubSeq(draft.lines, n + 1, Len(draft.lines))
  <2>1. n \in 1..Len(draft.lines) /\ Len(draft.lines) \in Nat
    BY <1>0
  <2>2. lines \in Seq(GoodLines(draft.vendor))
    <3>1. SubSeq(draft.lines, 1, n - 1) \in Seq(GoodLines(draft.vendor))
      BY <1>0, <2>1
    <3>2. SubSeq(draft.lines, n + 1, Len(draft.lines)) \in Seq(GoodLines(draft.vendor))
      BY <1>0, <2>1
    <3>. QED
      BY <3>1, <3>2
  <2>3. Edit([draft EXCEPT !.vendor = draft.vendor, !.lines = lines])
    BY <1>0, <1>6 DEF RemoveDraftLine
  <2>. HIDE DEF lines
  <2>. QED
    BY <1>0, <2>2, <2>3, LinesOK
<1>7. ASSUME NEW n \in DOMAIN draft.lines, NEW kind \in Both, PickKind(n, kind)
      PROVE  SuppliersInv'
  <2>1. kind \in AllowedKinds(draft.vendor)
        /\ Edit([draft EXCEPT !.lines[n] = [kind |-> kind, ref |-> Blank]])
    BY <1>7 DEF PickKind
  <2>2. [kind |-> kind, ref |-> Blank] \in GoodLines(draft.vendor)
    BY <1>0, <2>1, BlankLineGood
  <2>. QED
    BY <2>1, <2>2, LineOK
<1>8. ASSUME NEW n \in DOMAIN draft.lines, NEW ref, PickRef(n, ref)
      PROVE  SuppliersInv'
  <2>. DEFINE l == [draft.lines[n] EXCEPT !.ref = ref]
  <2>1. draft.lines[n] \in GoodLines(draft.vendor) /\ draft.lines[n] \in DraftLines
    BY <1>0
  <2>2. ref \in RefsOffered(draft.lines[n].kind) /\ Edit([draft EXCEPT !.lines[n].ref = ref])
    BY <1>8 DEF PickRef
  <2>3. ref \in [sku : Skus \cup Packaging \cup {""}, new : BOOLEAN]
    BY <2>1, <2>2, OfferedRefs DEF DraftLines
  <2>4. l \in DraftLines /\ l.kind = draft.lines[n].kind /\ l.ref = ref
    BY <2>1, <2>3 DEF DraftLines
  <2>5. l \in GoodLines(draft.vendor)
    BY <2>1, <2>2, <2>4 DEF GoodLines
  <2>6. [draft EXCEPT !.lines[n].ref = ref] = [draft EXCEPT !.lines[n] = l]
    BY <1>0
  <2>. HIDE DEF l
  <2>. QED
    BY <2>2, <2>5, <2>6, LineOK
<1>9. ASSUME NEW number \in PoNumbers, SubmitDraft(number)
      PROVE  SuppliersInv'
  <2>1. /\ stocked' = stocked \cup {draft.lines[n].ref.sku : n \in NewLinesOf(draft.lines)}
        /\ placed' = Append(placed, OrderFrom(draft, number)) /\ draft' = Closed
        /\ UNCHANGED <<vendors, known>> /\ NewSkusFree(draft.lines)
    BY <1>9 DEF SubmitDraft, Orderable
  <2>2. stocked \subseteq stocked' /\ stocked' \subseteq Skus
    BY <2>1 DEF NewSkusFree, SuppliersInv
  <2>3. OrderFrom(draft, number) \in PlacedRows
    <3>1. \A n \in DOMAIN draft.lines : draft.lines[n] \in DraftLines
      BY <1>0
    <3>2. RefsOf(draft.lines) \subseteq Skus \cup Packaging \cup {""}
      BY <3>1 DEF RefsOf, DraftLines
    <3>. QED
      BY <1>0, <3>2 DEF OrderFrom, PlacedRows
  <2>4. placed' \in Seq(PlacedRows)
    <3>. HIDE DEF OrderFrom, PlacedRows
    <3>. QED
      BY <2>1, <2>3 DEF SuppliersInv
  <2>5. /\ draft' \in [open : BOOLEAN, vendor : Vendors \cup {NoVendor}, lines : Seq(DraftLines)]
        /\ (draft.lines \in Seq(GoodLines(draft.vendor)))'
    BY <2>1 DEF Closed
  <2>. QED
    BY <2>1, <2>2, <2>4, <2>5 DEF SuppliersInv
<1>10. ASSUME NEW n \in DOMAIN placed, CancelPlaced(n)
       PROVE  SuppliersInv'
  <2>1. /\ placed' = [placed EXCEPT ![n].status = "CANCELLED"]
        /\ UNCHANGED <<vendors, stocked, known, draft>>
    BY <1>10 DEF CancelPlaced
  <2>2. placed' \in Seq(PlacedRows)
    <3>1. placed[n] \in PlacedRows
      BY DEF SuppliersInv
    <3>2. [placed[n] EXCEPT !.status = "CANCELLED"] \in PlacedRows
      BY <3>1 DEF PlacedRows
    <3>3. placed' = [placed EXCEPT ![n] = [placed[n] EXCEPT !.status = "CANCELLED"]]
      BY <2>1
    <3>. QED
      BY <3>2, <3>3 DEF SuppliersInv
  <2>3. GoodLines(draft.vendor)' = GoodLines(draft.vendor)
    BY <2>1 DEF GoodLines, AllowedKinds, RefsOffered
  <2>. QED
    BY <2>1, <2>2, <2>3 DEF SuppliersInv
<1>11. CASE UNCHANGED supplierVars
  BY <1>1, <1>11 DEF supplierVars, SuppliersInv
<1>12. CASE SuppliersNext
  BY <1>2, <1>3, <1>4, <1>5, <1>6, <1>7, <1>8, <1>9, <1>10, <1>12, SuppliersAssumption
     DEF SuppliersNext, SuppliersAssumption
<1>. QED
  BY <1>11, <1>12

-----------------------------------------------------------------------------
\* What was offered to a line exists.
LEMMA OfferedExists ==
  ASSUME SuppliersInv, NEW l \in GoodLines(draft.vendor), l.ref # Blank,
         ~ (l.kind = "ITEM" /\ l.ref.new)
  PROVE  Procurable(l)
<1>1. l.ref \in RefsOffered(l.kind)
  BY DEF GoodLines
<1>2. known.stocked \subseteq stocked
  BY DEF SuppliersInv
<1>3. CASE l.kind = "ITEM"
  <2>1. l.ref \in [sku : known.stocked, new : {FALSE}]
    BY <1>1, <1>3 DEF RefsOffered
  <2>. QED
    BY <1>2, <1>3, <2>1 DEF Procurable
<1>4. CASE l.kind # "ITEM"
  <2>1. l.ref \in [sku : Packaging, new : {FALSE}]
    BY <1>1, <1>4 DEF RefsOffered
  <2>. QED
    BY <1>4, <2>1 DEF Procurable
<1>. QED
  BY <1>3, <1>4

\* Every field filled: the server finds what a line refers to.
LEMMA FilledIsOrderable ==
  ASSUME SuppliersInv, NEW number, Filled, NewSkusFree(draft.lines), NumberFree(number)
  PROVE  Orderable(draft, number)
<1>1. ASSUME NEW n \in DOMAIN draft.lines \ NewLinesOf(draft.lines)
      PROVE  Procurable(draft.lines[n])
  <2>1. draft.lines[n] \in GoodLines(draft.vendor)
    BY DEF SuppliersInv
  <2>2. draft.lines[n].ref # Blank
    BY DEF Filled
  <2>3. ~ (draft.lines[n].kind = "ITEM" /\ draft.lines[n].ref.new)
    BY DEF NewLinesOf
  <2>. QED
    BY <2>1, <2>2, <2>3, OfferedExists
<1>. QED
  BY <1>1 DEF Orderable, Filled

LEMMA RefsFinite ==
  ASSUME NEW S, NEW lines \in Seq(S)
  PROVE  IsFiniteSet(RefsOf(lines))
<1>. DEFINE f == [n \in DOMAIN lines |-> lines[n].ref.sku]
<1>1. DOMAIN lines = 1..Len(lines) /\ Len(lines) \in Nat
  OBVIOUS
<1>2. IsFiniteSet(DOMAIN lines)
  BY <1>1, FS_Interval
<1>3. f \in Surjection(DOMAIN lines, RefsOf(lines))
  BY DEF RefsOf, Surjection
<1>. HIDE DEF f
<1>. QED
  BY <1>2, <1>3, FS_Surjection

\* A vendor matches as many of the references as there are only if it matches them all.
LEMMA FullMatch ==
  ASSUME NEW refs, IsFiniteSet(refs), NEW T
  PROVE  /\ Cardinality(T \cap refs) \in Nat
         /\ Cardinality(T \cap refs) <= Cardinality(refs)
         /\ Cardinality(T \cap refs) = Cardinality(refs) <=> refs \subseteq T
<1>. DEFINE both == T \cap refs
<1>1. both \in SUBSET refs
  OBVIOUS
<1>2. /\ IsFiniteSet(both) /\ Cardinality(both) <= Cardinality(refs)
      /\ Cardinality(refs) = Cardinality(both) => refs = both
  <2>. HIDE DEF both
  <2>. QED
    BY <1>1, FS_Subset
<1>3. Cardinality(both) \in Nat
  BY <1>2, FS_CardinalityType
<1>4. refs = both <=> refs \subseteq T
  OBVIOUS
<1>. QED
  BY <1>2, <1>3, <1>4

\* The order that is placed says that its vendor supplies what it asks for.
LEMMA PlacedIsSupplied ==
  ASSUME SuppliersInv, NEW number, draft.vendor \in Vendors
  PROVE  RefsOf(draft.lines) \subseteq
           SupplySummary(Append(placed, OrderFrom(draft, number)))[draft.vendor]
<1>. DEFINE orders == Append(placed, OrderFrom(draft, number))
            last == Len(placed) + 1
<1>1. last \in DOMAIN orders /\ orders[last] = OrderFrom(draft, number)
  <2>1. placed \in Seq(PlacedRows)
    BY DEF SuppliersInv
  <2>. QED
    BY <2>1
<1>2. /\ orders[last].vendor = draft.vendor /\ orders[last].status # "CANCELLED"
      /\ orders[last].refs = RefsOf(draft.lines)
  BY <1>1 DEF OrderFrom
<1>. HIDE DEF orders, last
<1>3. RefsOf(draft.lines) \subseteq SupplySummary(orders)[draft.vendor]
  BY <1>1, <1>2 DEF SupplySummary
<1>. QED
  BY <1>3 DEF orders

(***************************************************************************)
(* The first by name of the vendors that supplied all of the references:   *)
(* none ranks above it, so it is among the three that are suggested.       *)
(***************************************************************************)
LEMMA FirstFullMatch ==
  ASSUME NEW supplied, NEW refs, IsFiniteSet(refs), refs # {},
         NEW v \in Vendors, refs \subseteq supplied[v]
  PROVE  /\ \A u \in Vendors : RanksAbove(supplied, u, v, refs) => refs \subseteq supplied[u]
         /\ \E u \in SuggestedVendors(supplied, refs) : refs \subseteq supplied[u]
<1>. DEFINE full == {u \in Vendors : refs \subseteq supplied[u]}
            all == Cardinality(refs)
<1>1. all \in Nat /\ all # 0
  BY FS_CardinalityType, FS_EmptySet
<1>2. ASSUME NEW u \in Vendors
      PROVE  /\ PriorMatches(supplied, u, refs) \in Nat
             /\ PriorMatches(supplied, u, refs) <= all
             /\ PriorMatches(supplied, u, refs) = all <=> u \in full
  BY FullMatch DEF PriorMatches
<1>3. Vendors \subseteq Nat
  BY SuppliersAssumption DEF SuppliersAssumption
<1>4. v \in full /\ full \in SUBSET Nat
  BY <1>3
<1>5. PICK w \in full : \A u \in full : w <= u
  <2>. HIDE DEF full
  <2>. QED
    BY <1>4, LeastNumber
<1>6. w \in Vendors /\ refs \subseteq supplied[w]
  OBVIOUS
<1>7. \A u \in Vendors : RanksAbove(supplied, u, v, refs) => u \in full
  <2>. HIDE DEF full, all
  <2>. QED
    BY <1>1, <1>2, <1>4 DEF RanksAbove
<1>8. {u \in Vendors : RanksAbove(supplied, u, w, refs)} = {}
  <2>. SUFFICES ASSUME NEW u \in Vendors, RanksAbove(supplied, u, w, refs) PROVE FALSE
    OBVIOUS
  <2>. HIDE DEF full, all
  <2>1. PriorMatches(supplied, w, refs) = all
    BY <1>2, <1>5, <1>6
  <2>2. /\ PriorMatches(supplied, u, refs) \in Nat /\ PriorMatches(supplied, u, refs) <= all
        /\ PriorMatches(supplied, u, refs) = all => u \in full
    BY <1>2
  <2>3. PriorMatches(supplied, u, refs) = all /\ u < w
    BY <1>1, <2>1, <2>2 DEF RanksAbove
  <2>4. w <= u /\ u \in Nat /\ w \in Nat
    BY <1>3, <1>5, <1>6, <2>2, <2>3
  <2>. QED
    BY <2>3, <2>4
<1>9. w \in SuggestedVendors(supplied, refs)
  <2>1. PriorMatches(supplied, w, refs) > 0
    <3>. HIDE DEF full, all
    <3>. QED
      BY <1>1, <1>2, <1>5, <1>6
  <2>2. Cardinality({u \in Vendors : RanksAbove(supplied, u, w, refs)}) < 3
    BY <1>8, FS_EmptySet
  <2>. QED
    BY <1>6, <2>1, <2>2 DEF SuggestedVendors
<1>. QED
  BY <1>6, <1>7, <1>9

LEMMA FilledAccepted == SuppliersInv => FilledFormAccepted
<1>. SUFFICES ASSUME SuppliersInv PROVE FilledFormAccepted
  OBVIOUS
<1>1. \A n \in DOMAIN draft.lines : draft.lines[n].kind \in AllowedKinds(draft.vendor)
  BY DEF SuppliersInv, GoodLines
<1>2. ASSUME NEW number \in PoNumbers, Filled, NewSkusFree(draft.lines), NumberFree(number)
      PROVE  Orderable(draft, number) /\ Remembered(draft, number)
  <2>1. Orderable(draft, number)
    BY <1>2, FilledIsOrderable
  <2>2. draft.vendor \in Vendors /\ draft.lines \in Seq(DraftLines) /\ draft.lines # <<>>
    BY <1>2 DEF Filled, SuppliersInv
  <2>3. IsFiniteSet(RefsOf(draft.lines))
    BY <2>2, RefsFinite
  <2>4. RefsOf(draft.lines) # {}
    <3>1. 1 \in DOMAIN draft.lines
      BY <2>2
    <3>. QED
      BY <3>1 DEF RefsOf
  <2>5. RefsOf(draft.lines) \subseteq
          SupplySummary(Append(placed, OrderFrom(draft, number)))[draft.vendor]
    BY <2>2, PlacedIsSupplied
  <2>6. Remembered(draft, number)
    BY <2>2, <2>3, <2>4, <2>5, FirstFullMatch DEF Remembered
  <2>. QED
    BY <2>1, <2>6
<1>. QED
  BY <1>1, <1>2 DEF FilledFormAccepted

(***************************************************************************)
(* However the vendor and the lines of the form are changed, a form with   *)
(* all its fields filled is accepted unless its number or the SKU of a new *)
(* item is taken, and its vendor is remembered for what it asked for: for  *)
(* any vendors, items, containers and numbers.                             *)
(***************************************************************************)
THEOREM FilledFormsAccepted == SuppliersSpec => []FilledFormAccepted
<1>1. SuppliersSpec => []SuppliersInv
  BY SuppliersInitOK, SuppliersNextOK, PTL DEF SuppliersSpec
<1>. QED
  BY <1>1, FilledAccepted, PTL
=============================================================================
