----------------------------- MODULE PlantProofs -----------------------------
(***************************************************************************)
(* Proofs about the stock book and about the lots.  Each posting keeps the *)
(* facts of BookOK: the bucket is the sum of its ledger lines, and its     *)
(* location rows hold no more than the bucket.  Every operation on stock   *)
(* keeps StockInv: the types of the state, and BookOK for the book of      *)
(* every item.  Every step on lots and stock, whichever module creates the *)
(* lots, keeps PlantInv and TraceInv: a lot never packs off more than it   *)
(* has, an approved lot has passed its suite, and the ledger lines of a    *)
(* lot agree with its row. A posted count brings one row after the other   *)
(* to what was counted (CountedUpTo), and keeps the books. What the        *)
(* screens offer exists and is accepted, from PagesInv.                    *)
(***************************************************************************)
EXTENDS Quality, StockPages, QuantitiesProofs

Columns == [Locs -> Nat]

Wheres == Locs \cup {NoLoc}

\* The counts of leaves and lots are naturals.
LEMMA NumLocsNat == NumLocs \in Nat /\ NumLots \in Nat
BY CountsAssumption

-----------------------------------------------------------------------------
\* Putting q down adds at most q to the rows of a bucket.
LEMMA PlaceOK ==
  ASSUME NEW c \in Columns, NEW q \in Nat, NEW loc \in Wheres
  PROVE  /\ Place(c, q, loc) \in Columns
         /\ Sum(Place(c, q, loc), NumLocs) <= Sum(c, NumLocs) + q
         /\ Sum(c, NumLocs) \in Nat
         /\ Sum(Place(c, q, loc), NumLocs) \in Nat
<1>. USE NumLocsNat
<1>. DEFINE d == Place(c, q, loc)
            a == At(loc, q, NumLocs)
<1>1. d \in Columns
  BY DEF Columns, Place
<1>2. \A k \in 1..NumLocs : c[k] \in Int /\ a[k] \in Int /\ d[k] = c[k] + a[k]
  BY DEF Columns, Place, At, Locs
<1>3. Sum(d, NumLocs) = Sum(c, NumLocs) + Sum(a, NumLocs)
  <2>. HIDE DEF d, a
  <2>. QED
    BY <1>2, SumAdd
<1>4. Sum(a, NumLocs) \in 0..q
  <2>1. loc \in Int /\ q \in Int
    BY DEF Wheres, Locs, NoLoc
  <2>. HIDE DEF a
  <2>2. Sum(a, NumLocs) = IF loc \in 1..NumLocs THEN q ELSE 0
    BY <2>1, SumAt DEF a
  <2>. QED
    BY <2>2
<1>5. Sum(c, NumLocs) \in Nat
  <2>1. \A k \in 1..NumLocs : c[k] \in Nat
    BY DEF Columns, Locs
  <2>. QED
    BY <2>1, SumNat
<1>. HIDE DEF d, a
<1>. QED
  BY <1>1, <1>3, <1>4, <1>5 DEF d

-----------------------------------------------------------------------------
(***************************************************************************)
(* Taking q out of the rows leaves what the rows held beyond q, and no     *)
(* row goes below zero.                                                    *)
(***************************************************************************)
LEMMA TakeRows ==
  ASSUME NEW c \in Columns, NEW S, NEW q \in Nat
  PROVE  LET t == Take(Rows(c, S), NumLocs, q)
         IN  /\ t \in Columns
             /\ \A k \in Locs : t[k] <= Rows(c, S)[k]
             /\ Sum(t, NumLocs) = MinOf(q, Sum(Rows(c, S), NumLocs))
             /\ Sum(Rows(c, S), NumLocs) \in Nat
<1>. USE NumLocsNat
<1>. DEFINE r == Rows(c, S)
            t == Take(r, NumLocs, q)
            a == Available(r, NumLocs)
<1>1. r \in Columns
  BY DEF Columns, Rows
<1>2. a = r
  <2>1. \A k \in Locs : r[k] \in Nat /\ Positive(r[k]) = r[k]
    BY <1>1 DEF Columns, Positive
  <2>2. r = [k \in Locs |-> r[k]]
    BY DEF Rows
  <2>. HIDE DEF r
  <2>. QED
    BY <2>1, <2>2 DEF Available, Locs
<1>3. \A k \in 1..NumLocs : r[k] \in Nat
  BY <1>1 DEF Columns, Locs
<1>. HIDE DEF r
<1>4. t \in [1..NumLocs -> Nat] /\ \A k \in 1..NumLocs : t[k] <= Positive(r[k])
  <2>1. q \in Int /\ \A k \in 1..NumLocs : r[k] \in Int
    BY <1>3
  <2>. QED
    BY <2>1, TakeBounds
<1>5. Sum(t, NumLocs) = MinOf(q, Sum(a, NumLocs))
  BY <1>3, SumTake
<1>6. Sum(r, NumLocs) \in Nat
  BY <1>3, SumNat
<1>7. \A k \in Locs : t[k] <= r[k]
  BY <1>3, <1>4 DEF Positive, Locs
<1>. HIDE DEF t, a
<1>. QED
  BY <1>2, <1>4, <1>5, <1>6, <1>7 DEF r, t, Columns, Locs

\* When A, B and C split the locations, their parts of a column add up to its sum.
LEMMA RowsSplit ==
  ASSUME NEW c \in Columns, NEW A, NEW B, NEW C,
         \A k \in Locs : /\ k \in A \/ k \in B \/ k \in C
                         /\ ~ (k \in A /\ k \in B)
                         /\ ~ (k \in A /\ k \in C)
                         /\ ~ (k \in B /\ k \in C)
  PROVE  Sum(c, NumLocs) =
           (Sum(Rows(c, A), NumLocs) + Sum(Rows(c, B), NumLocs))
             + Sum(Rows(c, C), NumLocs)
<1>. USE NumLocsNat
<1>. DEFINE a == Rows(c, A)
            b == Rows(c, B)
            d == Rows(c, C)
            e == [k \in Locs |-> a[k] + b[k]]
<1>1. \A k \in 1..NumLocs : /\ a[k] \in Int /\ b[k] \in Int /\ d[k] \in Int
                            /\ e[k] \in Int /\ e[k] = a[k] + b[k] /\ c[k] = e[k] + d[k]
  BY DEF Rows, Columns, Locs
<1>. HIDE DEF a, b, d, e
<1>2. Sum(e, NumLocs) = Sum(a, NumLocs) + Sum(b, NumLocs)
  BY <1>1, SumAdd
<1>3. Sum(c, NumLocs) = Sum(e, NumLocs) + Sum(d, NumLocs)
  BY <1>1, SumAdd
<1>. QED
  BY <1>2, <1>3 DEF a, b, d

\* A draw-down (removeFromLocations) takes the smaller of the request and what the
\* rows hold, and leaves no row below zero.
LEMMA RemoveOK ==
  ASSUME NEW c \in Columns, NEW q \in Nat, NEW pref, NEW defaults
  PROVE  /\ Remove(c, q, pref, defaults) \in Columns
         /\ Sum(c, NumLocs) \in Nat
         /\ Sum(Remove(c, q, pref, defaults), NumLocs)
              = Sum(c, NumLocs) - MinOf(q, Sum(c, NumLocs))
<1>. USE NumLocsNat
<1>. DEFINE A == {pref}
            B == defaults \ {pref}
            C == Locs \ (defaults \cup {pref})
            first == Take(Rows(c, A), NumLocs, q)
            left1 == q - Sum(first, NumLocs)
            second == Take(Rows(c, B), NumLocs, left1)
            left2 == left1 - Sum(second, NumLocs)
            third == Take(Rows(c, C), NumLocs, left2)
            all == [k \in Locs |-> first[k] + second[k]]
            taken == [k \in Locs |-> all[k] + third[k]]
            d == Remove(c, q, pref, defaults)
<1>1. /\ first \in Columns
      /\ \A k \in Locs : first[k] <= Rows(c, A)[k]
      /\ Sum(first, NumLocs) = MinOf(q, Sum(Rows(c, A), NumLocs))
      /\ Sum(Rows(c, A), NumLocs) \in Nat
  BY TakeRows
<1>2. left1 \in Nat
  BY <1>1 DEF MinOf
<1>3. /\ second \in Columns
      /\ \A k \in Locs : second[k] <= Rows(c, B)[k]
      /\ Sum(second, NumLocs) = MinOf(left1, Sum(Rows(c, B), NumLocs))
      /\ Sum(Rows(c, B), NumLocs) \in Nat
  <2>. HIDE DEF left1, B
  <2>. QED
    BY <1>2, TakeRows
<1>4. left2 \in Nat
  <2>. HIDE DEF left1, second
  <2>. QED
    BY <1>2, <1>3 DEF MinOf
<1>5. /\ third \in Columns
      /\ \A k \in Locs : third[k] <= Rows(c, C)[k]
      /\ Sum(third, NumLocs) = MinOf(left2, Sum(Rows(c, C), NumLocs))
      /\ Sum(Rows(c, C), NumLocs) \in Nat
  <2>. HIDE DEF left2, C
  <2>. QED
    BY <1>4, TakeRows
<1>6. Sum(c, NumLocs) =
        (Sum(Rows(c, A), NumLocs) + Sum(Rows(c, B), NumLocs)) + Sum(Rows(c, C), NumLocs)
  BY RowsSplit
<1>7. d = [k \in Locs |-> c[k] - first[k] - second[k] - third[k]]
  BY DEF Remove
<1>8. \A k \in Locs : /\ c[k] \in Nat /\ first[k] \in Nat /\ second[k] \in Nat
                      /\ third[k] \in Nat
                      /\ first[k] + second[k] + third[k] <= c[k]
  <2>1. \A k \in Locs : c[k] \in Nat /\ first[k] \in Nat /\ second[k] \in Nat /\ third[k] \in Nat
    <3>. HIDE DEF first, second, third
    <3>. QED
      BY <1>1, <1>3, <1>5 DEF Columns
  <2>2. \A k \in Locs : /\ Rows(c, A)[k] = (IF k \in A THEN c[k] ELSE 0)
                        /\ Rows(c, B)[k] = (IF k \in B THEN c[k] ELSE 0)
                        /\ Rows(c, C)[k] = (IF k \in C THEN c[k] ELSE 0)
    BY DEF Rows
  <2>3. \A k \in Locs : ~ (k \in A /\ k \in B) /\ ~ (k \in A /\ k \in C) /\ ~ (k \in B /\ k \in C)
    OBVIOUS
  <2>. HIDE DEF A, B, C, first, second, third
  <2>. QED
    BY <1>1, <1>3, <1>5, <2>1, <2>2, <2>3
<1>9. d \in Columns
  <2>. HIDE DEF first, second, third, d
  <2>. QED
    BY <1>7, <1>8 DEF Columns
<1>10. Sum(all, NumLocs) = Sum(first, NumLocs) + Sum(second, NumLocs)
  <2>1. \A k \in 1..NumLocs : /\ first[k] \in Int /\ second[k] \in Int
                              /\ all[k] = first[k] + second[k]
    <3>. HIDE DEF first, second
    <3>. QED
      BY <1>8 DEF Locs
  <2>. HIDE DEF first, second, all
  <2>. QED
    BY <2>1, SumAdd
<1>11. Sum(taken, NumLocs) = Sum(all, NumLocs) + Sum(third, NumLocs)
  <2>1. \A k \in 1..NumLocs : /\ all[k] \in Int /\ third[k] \in Int
                              /\ taken[k] = all[k] + third[k]
    <3>. HIDE DEF first, second, third
    <3>. QED
      BY <1>8 DEF Locs
  <2>. HIDE DEF third, all, taken
  <2>. QED
    BY <2>1, SumAdd
<1>12. Sum(c, NumLocs) = Sum(d, NumLocs) + Sum(taken, NumLocs)
  <2>1. \A k \in 1..NumLocs : /\ d[k] \in Int /\ taken[k] \in Int
                              /\ c[k] = d[k] + taken[k]
    <3>. HIDE DEF first, second, third, d
    <3>. QED
      BY <1>7, <1>8 DEF Locs
  <2>. HIDE DEF d, taken
  <2>. QED
    BY <2>1, SumAdd
<1>13. Sum(d, NumLocs) \in Int
  <2>1. \A k \in 1..NumLocs : d[k] \in Nat
    <3>. HIDE DEF d
    <3>. QED
      BY <1>9 DEF Columns, Locs
  <2>. HIDE DEF d
  <2>. QED
    BY <2>1, SumNat
<1>14. Sum(d, NumLocs) = Sum(c, NumLocs) - MinOf(q, Sum(c, NumLocs))
  <2>1. left1 = q - Sum(first, NumLocs) /\ left2 = left1 - Sum(second, NumLocs)
    OBVIOUS
  <2>. HIDE DEF A, B, C, first, second, third, left1, left2, all, taken, d
  <2>. QED
    BY <1>1, <1>2, <1>3, <1>4, <1>5, <1>6, <1>10, <1>11, <1>12, <1>13, <2>1 DEF MinOf
<1>15. Sum(c, NumLocs) \in Nat
  <2>1. \A k \in 1..NumLocs : c[k] \in Nat
    BY DEF Columns, Locs
  <2>. QED
    BY <2>1, SumNat
<1>. HIDE DEF first, second, third, d
<1>. QED
  BY <1>9, <1>14, <1>15 DEF d

-----------------------------------------------------------------------------
(***************************************************************************)
(* The ledger lines of a posting add up to the change of the bucket.       *)
(***************************************************************************)
LEMMA LotSum ==
  ASSUME NEW f \in [Lots -> Int]
  PROVE  Sum(f, NumLots) \in Int
<1>1. \A k \in 1..NumLots : f[k] \in Int
  BY DEF Lots
<1>. QED
  BY <1>1, SumInt, NumLocsNat

\* What a posting adds to the lots is the sum of its slices.
LEMMA LotSumAdd ==
  ASSUME NEW f \in [Lots -> Int], NEW g \in [Lots -> Int]
  PROVE  Sum([l \in Lots |-> f[l] + g[l]], NumLots) = Sum(f, NumLots) + Sum(g, NumLots)
<1>. DEFINE h == [l \in Lots |-> f[l] + g[l]]
<1>1. \A k \in 1..NumLots : f[k] \in Int /\ g[k] \in Int /\ h[k] = f[k] + g[k]
  BY DEF Lots
<1>. HIDE DEF h
<1>2. Sum(h, NumLots) = Sum(f, NumLots) + Sum(g, NumLots)
  BY <1>1, SumAdd, NumLocsNat
<1>. QED
  BY <1>2 DEF h

\* What a posting takes from the lots is the sum of its slices.
LEMMA LotSumSub ==
  ASSUME NEW f \in [Lots -> Int], NEW g \in [Lots -> Int]
  PROVE  Sum([l \in Lots |-> f[l] - g[l]], NumLots) = Sum(f, NumLots) - Sum(g, NumLots)
<1>. DEFINE h == [l \in Lots |-> f[l] - g[l]]
<1>1. \A k \in 1..NumLots : h[k] \in Int /\ g[k] \in Int /\ f[k] = h[k] + g[k]
  BY DEF Lots
<1>2. h \in [Lots -> Int]
  OBVIOUS
<1>. HIDE DEF h
<1>3. Sum(f, NumLots) = Sum(h, NumLots) + Sum(g, NumLots)
  BY <1>1, SumAdd, NumLocsNat
<1>4. Sum(h, NumLots) \in Int /\ Sum(g, NumLots) \in Int
  BY <1>2, LotSum
<1>5. Sum(h, NumLots) = Sum(f, NumLots) - Sum(g, NumLots)
  BY <1>3, <1>4
<1>. QED
  BY <1>5 DEF h

\* A good book, field by field.
LEMMA BookFields ==
  ASSUME NEW b, BookOK(b)
  PROVE  /\ b = [onHand |-> b.onHand, unlotted |-> b.unlotted,
                 lotQty |-> b.lotQty, cell |-> b.cell]
         /\ b.onHand \in [Statuses -> Nat]
         /\ b.unlotted \in [Statuses -> Int]
         /\ b.lotQty \in [Statuses -> [Lots -> Int]]
         /\ b.cell \in [Located -> Columns]
         /\ \A t \in Statuses : b.onHand[t] = b.unlotted[t] + Sum(b.lotQty[t], NumLots)
         /\ \A t \in Located : Sum(b.cell[t], NumLocs) <= b.onHand[t]
BY DEF BookOK, Books, BookBalances, CellsWithinBook, Columns

\* An item without any movement has a good book.
LEMMA EmptyBookOK == BookOK(EmptyBook)
<1>1. EmptyBook \in Books
  BY DEF EmptyBook, Books, Zero, Lots, Locs
<1>2. Sum(Zero(NumLots), NumLots) = 0
  <2>1. \A k \in 1..NumLots : Zero(NumLots)[k] = 0
    BY DEF Zero
  <2>. QED
    BY <2>1, SumZero, NumLocsNat
<1>3. Sum(Zero(NumLocs), NumLocs) = 0
  <2>1. \A k \in 1..NumLocs : Zero(NumLocs)[k] = 0
    BY DEF Zero
  <2>. QED
    BY <2>1, SumZero, NumLocsNat
<1>4. BookBalances(EmptyBook)
  BY <1>2 DEF BookBalances, EmptyBook
<1>5. CellsWithinBook(EmptyBook)
  BY <1>3 DEF CellsWithinBook, EmptyBook, Located, Statuses
<1>. QED
  BY <1>1, <1>4, <1>5 DEF BookOK

\* An inbound posting, placed at a leaf or nowhere, keeps a book good (post).
LEMMA PostInOK ==
  ASSUME NEW b, BookOK(b), NEW s \in Statuses, NEW slices \in [Lots -> Int],
         NEW q \in Nat, NEW loc \in Wheres
  PROVE  BookOK(PostIn(b, s, slices, q, loc))
<1>. DEFINE rest == q - Sum(slices, NumLots)
            onHand == [b.onHand EXCEPT ![s] = @ + q]
            unlotted == [b.unlotted EXCEPT ![s] = @ + rest]
            lotQty == [b.lotQty EXCEPT ![s] = [l \in Lots |-> @[l] + slices[l]]]
            cell == [t \in Located |-> IF t = s THEN Place(b.cell[t], q, loc) ELSE b.cell[t]]
            d == PostIn(b, s, slices, q, loc)
<1>1. d = [onHand |-> onHand, unlotted |-> unlotted, lotQty |-> lotQty, cell |-> cell]
  BY DEF PostIn
<1>2. rest \in Int /\ Sum(slices, NumLots) \in Int
  BY LotSum
<1>3. onHand \in [Statuses -> Nat] /\ \A t \in Statuses : onHand[t] >= b.onHand[t]
  BY BookFields
<1>4. unlotted \in [Statuses -> Int]
  <2>. HIDE DEF rest
  <2>. QED
    BY <1>2, BookFields
<1>5. lotQty \in [Statuses -> [Lots -> Int]]
  BY BookFields
<1>6. ASSUME NEW t \in Located
      PROVE  cell[t] \in Columns /\ Sum(cell[t], NumLocs) <= onHand[t]
  <2>1. b.cell[t] \in Columns /\ Sum(b.cell[t], NumLocs) <= b.onHand[t]
    BY BookFields
  <2>2. t \in Statuses
    BY DEF Located, Statuses
  <2>3. CASE t = s
    <3>1. /\ Place(b.cell[t], q, loc) \in Columns
          /\ Sum(Place(b.cell[t], q, loc), NumLocs) <= Sum(b.cell[t], NumLocs) + q
          /\ Sum(b.cell[t], NumLocs) \in Nat
          /\ Sum(Place(b.cell[t], q, loc), NumLocs) \in Nat
      BY <2>1, PlaceOK
    <3>2. onHand[t] = b.onHand[t] + q /\ b.onHand[t] \in Nat
      BY <2>2, <2>3, BookFields
    <3>3. cell[t] = Place(b.cell[t], q, loc)
      BY <2>3
    <3>. HIDE DEF onHand, cell
    <3>. QED
      BY <2>1, <3>1, <3>2, <3>3
  <2>4. CASE t # s
    <3>1. onHand[t] = b.onHand[t] /\ cell[t] = b.cell[t]
      BY <2>2, <2>4, BookFields
    <3>. QED
      BY <2>1, <3>1
  <2>. QED
    BY <2>3, <2>4
<1>7. ASSUME NEW t \in Statuses
      PROVE  onHand[t] = unlotted[t] + Sum(lotQty[t], NumLots)
  <2>1. /\ b.onHand[t] = b.unlotted[t] + Sum(b.lotQty[t], NumLots)
        /\ b.lotQty[t] \in [Lots -> Int] /\ b.unlotted[t] \in Int /\ b.onHand[t] \in Nat
    BY BookFields
  <2>2. Sum(b.lotQty[t], NumLots) \in Int
    BY <2>1, LotSum
  <2>3. CASE t = s
    <3>1. lotQty[t] = [l \in Lots |-> b.lotQty[t][l] + slices[l]]
      BY <2>3, BookFields
    <3>2. Sum(lotQty[t], NumLots) = Sum(b.lotQty[t], NumLots) + Sum(slices, NumLots)
      BY <2>1, <3>1, LotSumAdd
    <3>3. onHand[t] = b.onHand[t] + q /\ unlotted[t] = b.unlotted[t] + rest
      BY <2>3, BookFields
    <3>4. rest = q - Sum(slices, NumLots)
      OBVIOUS
    <3>. HIDE DEF onHand, unlotted, lotQty, rest
    <3>. QED
      BY <1>2, <2>1, <2>2, <3>2, <3>3, <3>4
  <2>4. CASE t # s
    <3>1. onHand[t] = b.onHand[t] /\ unlotted[t] = b.unlotted[t] /\ lotQty[t] = b.lotQty[t]
      BY <2>4, BookFields
    <3>. QED
      BY <2>1, <3>1
  <2>. QED
    BY <2>3, <2>4
<1>8. cell \in [Located -> Columns]
  BY <1>6
<1>. HIDE DEF onHand, unlotted, lotQty, cell, d
<1>9. d \in Books
  BY <1>1, <1>3, <1>4, <1>5, <1>8 DEF Books, Columns
<1>10. BookBalances(d)
  BY <1>1, <1>7 DEF BookBalances
<1>11. CellsWithinBook(d)
  BY <1>1, <1>6 DEF CellsWithinBook
<1>. QED
  BY <1>9, <1>10, <1>11 DEF BookOK, d

\* An outbound posting that the bucket covers keeps a book good (post).
LEMMA PostOutOK ==
  ASSUME NEW b, BookOK(b), NEW s \in Statuses, NEW slices \in [Lots -> Int],
         NEW q \in Nat, NEW pref, NEW defaults, Covers(b, s, q)
  PROVE  BookOK(PostOut(b, s, slices, q, pref, defaults))
<1>. DEFINE rest == q - Sum(slices, NumLots)
            onHand == [b.onHand EXCEPT ![s] = @ - q]
            unlotted == [b.unlotted EXCEPT ![s] = @ - rest]
            lotQty == [b.lotQty EXCEPT ![s] = [l \in Lots |-> @[l] - slices[l]]]
            cell == [t \in Located |-> IF t = s THEN Remove(b.cell[t], q, pref, defaults)
                                                ELSE b.cell[t]]
            d == PostOut(b, s, slices, q, pref, defaults)
<1>1. d = [onHand |-> onHand, unlotted |-> unlotted, lotQty |-> lotQty, cell |-> cell]
  BY DEF PostOut
<1>2. rest \in Int /\ Sum(slices, NumLots) \in Int
  BY LotSum
<1>3. onHand \in [Statuses -> Nat]
  <2>1. q <= b.onHand[s]
    BY DEF Covers
  <2>. QED
    BY <2>1, BookFields
<1>4. unlotted \in [Statuses -> Int]
  <2>. HIDE DEF rest
  <2>. QED
    BY <1>2, BookFields
<1>5. lotQty \in [Statuses -> [Lots -> Int]]
  BY BookFields
<1>6. ASSUME NEW t \in Located
      PROVE  cell[t] \in Columns /\ Sum(cell[t], NumLocs) <= onHand[t]
  <2>1. b.cell[t] \in Columns /\ Sum(b.cell[t], NumLocs) <= b.onHand[t]
    BY BookFields
  <2>2. t \in Statuses
    BY DEF Located, Statuses
  <2>3. CASE t = s
    <3>1. /\ Remove(b.cell[t], q, pref, defaults) \in Columns
          /\ Sum(b.cell[t], NumLocs) \in Nat
          /\ Sum(Remove(b.cell[t], q, pref, defaults), NumLocs)
               = Sum(b.cell[t], NumLocs) - MinOf(q, Sum(b.cell[t], NumLocs))
      BY <2>1, RemoveOK
    <3>2. onHand[t] = b.onHand[t] - q /\ b.onHand[t] \in Nat /\ q <= b.onHand[t]
      BY <2>2, <2>3, BookFields DEF Covers
    <3>3. cell[t] = Remove(b.cell[t], q, pref, defaults)
      BY <2>3
    <3>. HIDE DEF onHand, cell
    <3>. QED
      BY <2>1, <3>1, <3>2, <3>3 DEF MinOf
  <2>4. CASE t # s
    <3>1. onHand[t] = b.onHand[t] /\ cell[t] = b.cell[t]
      BY <2>2, <2>4, BookFields
    <3>. QED
      BY <2>1, <3>1
  <2>. QED
    BY <2>3, <2>4
<1>7. ASSUME NEW t \in Statuses
      PROVE  onHand[t] = unlotted[t] + Sum(lotQty[t], NumLots)
  <2>1. /\ b.onHand[t] = b.unlotted[t] + Sum(b.lotQty[t], NumLots)
        /\ b.lotQty[t] \in [Lots -> Int] /\ b.unlotted[t] \in Int /\ b.onHand[t] \in Nat
    BY BookFields
  <2>2. Sum(b.lotQty[t], NumLots) \in Int
    BY <2>1, LotSum
  <2>3. CASE t = s
    <3>1. lotQty[t] = [l \in Lots |-> b.lotQty[t][l] - slices[l]]
      BY <2>3, BookFields
    <3>2. Sum(lotQty[t], NumLots) = Sum(b.lotQty[t], NumLots) - Sum(slices, NumLots)
      BY <2>1, <3>1, LotSumSub
    <3>3. onHand[t] = b.onHand[t] - q /\ unlotted[t] = b.unlotted[t] - rest
      BY <2>3, BookFields
    <3>4. rest = q - Sum(slices, NumLots)
      OBVIOUS
    <3>. HIDE DEF onHand, unlotted, lotQty, rest
    <3>. QED
      BY <1>2, <2>1, <2>2, <3>2, <3>3, <3>4
  <2>4. CASE t # s
    <3>1. onHand[t] = b.onHand[t] /\ unlotted[t] = b.unlotted[t] /\ lotQty[t] = b.lotQty[t]
      BY <2>4, BookFields
    <3>. QED
      BY <2>1, <3>1
  <2>. QED
    BY <2>3, <2>4
<1>8. cell \in [Located -> Columns]
  BY <1>6
<1>. HIDE DEF onHand, unlotted, lotQty, cell, d
<1>9. d \in Books
  BY <1>1, <1>3, <1>4, <1>5, <1>8 DEF Books, Columns
<1>10. BookBalances(d)
  BY <1>1, <1>7 DEF BookBalances
<1>11. CellsWithinBook(d)
  BY <1>1, <1>6 DEF CellsWithinBook
<1>. QED
  BY <1>9, <1>10, <1>11 DEF BookOK, d

-----------------------------------------------------------------------------
(***************************************************************************)
(* The part of a bucket that no location row holds: a posting that is      *)
(* placed does not change it, and a draw-down does not increase it.        *)
(***************************************************************************)
Gap(b, s) == b.onHand[s] - Sum(b.cell[s], NumLocs)

\* A placement adds its whole quantity to the rows.
LEMMA PlacedWhole ==
  ASSUME NEW c \in Columns, NEW q \in Nat, NEW loc \in Locs
  PROVE  Sum(Place(c, q, loc), NumLocs) = Sum(c, NumLocs) + q
<1>. DEFINE d == Place(c, q, loc)
            a == At(loc, q, NumLocs)
<1>1. \A k \in 1..NumLocs : c[k] \in Int /\ a[k] \in Int /\ d[k] = c[k] + a[k]
  BY DEF Columns, Place, At, Locs
<1>2. loc \in Int /\ q \in Int /\ loc \in 1..NumLocs
  BY DEF Locs
<1>3. Sum(a, NumLocs) = q
  BY <1>2, SumAt, NumLocsNat
<1>4. Sum(d, NumLocs) = Sum(c, NumLocs) + Sum(a, NumLocs)
  <2>. HIDE DEF d, a
  <2>. QED
    BY <1>1, SumAdd, NumLocsNat
<1>. QED
  BY <1>3, <1>4

\* The gap of a bucket is an integer.
LEMMA GapInt ==
  ASSUME NEW b, BookOK(b), NEW t \in Located
  PROVE  Gap(b, t) \in Int
<1>1. b.cell[t] \in Columns /\ t \in Statuses
  BY BookFields DEF Located, Statuses
<1>2. Sum(b.cell[t], NumLocs) \in Nat
  <2>1. 0 \in Nat /\ NoLoc \in Wheres
    BY DEF Wheres
  <2>. QED
    BY <1>1, <2>1, PlaceOK
<1>. QED
  BY <1>1, <1>2, BookFields DEF Gap

\* An inbound posting that is placed keeps the gap of every bucket.
LEMMA PostInGap ==
  ASSUME NEW b, BookOK(b), NEW s \in Statuses, NEW slices \in [Lots -> Int],
         NEW q \in Nat, NEW loc \in Locs, NEW t \in Located
  PROVE  Gap(PostIn(b, s, slices, q, loc), t) = Gap(b, t)
<1>. DEFINE d == PostIn(b, s, slices, q, loc)
<1>1. b.cell[t] \in Columns /\ t \in Statuses
  BY BookFields DEF Located, Statuses
<1>2. b.onHand[t] \in Nat /\ Sum(b.cell[t], NumLocs) \in Nat
  BY <1>1, PlaceOK, BookFields DEF Wheres
<1>3. CASE t = s
  <2>1. d.onHand[t] = b.onHand[t] + q /\ d.cell[t] = Place(b.cell[t], q, loc)
    BY <1>1, <1>3, BookFields DEF PostIn
  <2>2. Sum(Place(b.cell[t], q, loc), NumLocs) = Sum(b.cell[t], NumLocs) + q
    BY <1>1, PlacedWhole
  <2>. HIDE DEF d
  <2>. QED
    BY <1>2, <2>1, <2>2 DEF Gap, d
<1>4. CASE t # s
  <2>1. d.onHand[t] = b.onHand[t] /\ d.cell[t] = b.cell[t]
    BY <1>1, <1>4, BookFields DEF PostIn
  <2>. HIDE DEF d
  <2>. QED
    BY <2>1 DEF Gap, d
<1>. QED
  BY <1>3, <1>4

\* An outbound posting does not widen the gap of any bucket.
LEMMA PostOutGap ==
  ASSUME NEW b, BookOK(b), NEW s \in Statuses, NEW slices \in [Lots -> Int],
         NEW q \in Nat, NEW pref, NEW defaults, NEW t \in Located
  PROVE  Gap(PostOut(b, s, slices, q, pref, defaults), t) <= Gap(b, t)
<1>. DEFINE d == PostOut(b, s, slices, q, pref, defaults)
<1>1. b.cell[t] \in Columns /\ t \in Statuses
  BY BookFields DEF Located, Statuses
<1>2. /\ Sum(b.cell[t], NumLocs) \in Nat
      /\ Sum(Remove(b.cell[t], q, pref, defaults), NumLocs)
           = Sum(b.cell[t], NumLocs) - MinOf(q, Sum(b.cell[t], NumLocs))
  BY <1>1, RemoveOK
<1>3. b.onHand[t] \in Nat /\ Gap(b, t) \in Int
  BY <1>1, <1>2, BookFields DEF Gap
<1>4. CASE t = s
  <2>1. d.onHand[t] = b.onHand[t] - q /\ d.cell[t] = Remove(b.cell[t], q, pref, defaults)
    BY <1>1, <1>4, BookFields DEF PostOut
  <2>. HIDE DEF d
  <2>. QED
    BY <1>2, <1>3, <2>1 DEF Gap, MinOf, d
<1>5. CASE t # s
  <2>1. d.onHand[t] = b.onHand[t] /\ d.cell[t] = b.cell[t]
    BY <1>1, <1>5, BookFields DEF PostOut
  <2>. HIDE DEF d
  <2>. QED
    BY <1>3, <2>1 DEF Gap, d
<1>. QED
  BY <1>3, <1>4, <1>5

-----------------------------------------------------------------------------
BooksOK(bk) == DOMAIN bk = Items /\ bk = [i \in Items |-> bk[i]] /\ \A i \in Items : BookOK(bk[i])

StockInv == LocationTypeOK /\ BooksOK(book)

\* What StockInv says about the books, in the terms of the specification.
LEMMA StockInvFacts ==
  ASSUME BooksOK(book)
  PROVE  book \in [Items -> Books] /\ LedgerBalances /\ LocationsWithinStock
BY DEF BooksOK, BookOK, LedgerBalances, LocationsWithinStock

\* A posting without a lot has well-typed slices.
LEMMA NoSlicesType == NoSlices \in [Lots -> Int]
BY DEF NoSlices, Zero, Lots

-----------------------------------------------------------------------------
\* An inbound posting lands at a location or at none.
LEMMA FirstByCodeType ==
  ASSUME NEW S \in SUBSET Locs
  PROVE  IF S = {} THEN FirstByCode(S) = NoLoc ELSE FirstByCode(S) \in S
<1>1. CASE S = {}
  BY <1>1 DEF FirstByCode
<1>2. CASE S # {}
  <2>. DEFINE R == {CodeRank[j] : j \in S}
  <2>1. R \in SUBSET Nat /\ R # {}
    BY <1>2, LocationAssumption
  <2>2. PICK m \in R : \A r \in R : m <= r
    <3>. HIDE DEF R
    <3>. QED
      BY <2>1, LeastNumber
  <2>3. \E k \in S : \A j \in S : CodeRank[k] <= CodeRank[j]
    BY <2>2
  <2>4. (CHOOSE k \in S : \A j \in S : CodeRank[k] <= CodeRank[j]) \in S
    BY <2>3
  <2>. QED
    BY <1>2, <2>4 DEF FirstByCode
<1>. QED
  BY <1>1, <1>2

\* Inbound stock lands at an active leaf, or nowhere when there is none.
LEMMA ResolveInboundType ==
  \A s : /\ IF ActiveLocs = {} THEN ResolveInbound(s) = NoLoc
                               ELSE ResolveInbound(s) \in ActiveLocs
         /\ ResolveInbound(s) \in Wheres
<1>. TAKE s
<1>. DEFINE flagged == ActiveLocs \cap (IF s = "QUARANTINE" THEN Receiving ELSE Defaults)
<1>1. ActiveLocs \in SUBSET Locs
  BY DEF ActiveLocs
<1>2. IF ActiveLocs = {} THEN FirstByCode(ActiveLocs) = NoLoc
                         ELSE FirstByCode(ActiveLocs) \in ActiveLocs
  BY <1>1, FirstByCodeType
<1>3. flagged # {} => FirstByCode(flagged) \in flagged
  <2>1. flagged \in SUBSET Locs
    BY <1>1
  <2>. HIDE DEF flagged
  <2>. QED
    BY <2>1, FirstByCodeType
<1>4. ResolveInbound(s) = IF flagged # {} THEN FirstByCode(flagged) ELSE FirstByCode(ActiveLocs)
  BY DEF ResolveInbound
<1>5. flagged \subseteq ActiveLocs
  OBVIOUS
<1>. HIDE DEF flagged
<1>. QED
  BY <1>1, <1>2, <1>3, <1>4, <1>5 DEF Wheres

-----------------------------------------------------------------------------
\* Creating or editing a leaf keeps the flags well typed.
LEMMA LocationNextType ==
  ASSUME LocationTypeOK, LocationNext
  PROVE  LocationTypeOK'
<1>. DEFINE All == Flags \cup {"exists"}
<1>1. \A l \in Locs : \A flags : ClearOthers(l, flags) \in [Locs -> SUBSET All]
  BY DEF LocationTypeOK, ClearOthers
<1>2. ASSUME NEW l \in Locs, NEW flags \in NewFlags, CreateLocation(l, flags)
      PROVE  LocationTypeOK'
  <2>1. flags \cup {"exists"} \in SUBSET All
    BY LocationAssumption
  <2>. QED
    BY <1>1, <1>2, <2>1 DEF CreateLocation, LocationTypeOK
<1>3. ASSUME NEW l \in Locs, NEW p \in Patches, UpdateLocation(l, p.on, p.off)
      PROVE  LocationTypeOK'
  <2>1. p.on \in SUBSET Flags
    BY LocationAssumption
  <2>2. ClearOthers(l, p.on) \in [Locs -> SUBSET All]
    BY <1>1
  <2>3. locs' = [ClearOthers(l, p.on) EXCEPT ![l] = (@ \cup p.on) \ p.off]
    BY <1>3 DEF UpdateLocation, UpdatedLocs
  <2>4. ((ClearOthers(l, p.on)[l] \cup p.on) \ p.off) \in SUBSET All
    BY <2>1, <2>2
  <2>5. locs' \in [Locs -> SUBSET All]
    <3>. HIDE DEF All
    <3>. QED
      BY <2>2, <2>3, <2>4
  <2>. QED
    BY <2>5 DEF LocationTypeOK
<1>. QED
  BY <1>2, <1>3 DEF LocationNext

\* Replacing the book of one item by a good one keeps BooksOK.
LEMMA OneBook ==
  ASSUME BooksOK(book), NEW i \in Items, NEW b, BookOK(b),
         book' = [book EXCEPT ![i] = b]
  PROVE  BooksOK(book')
BY DEF BooksOK

\* An inbound adjustment keeps the invariant.
LEMMA AdjustInOK ==
  ASSUME StockInv, NEW i \in Items, NEW q \in Quantity, AdjustIn(i, q)
  PROVE  StockInv'
<1>. DEFINE b == PostIn(book[i], "INV", NoSlices, q, ResolveInbound("INV"))
<1>1. BookOK(book[i]) /\ q \in Nat /\ "INV" \in Statuses
  BY StockAssumption DEF StockInv, BooksOK, Statuses
<1>2. BookOK(b)
  BY <1>1, PostInOK, NoSlicesType, ResolveInboundType
<1>3. book' = [book EXCEPT ![i] = b] /\ locs' = locs
  BY DEF AdjustIn
<1>. HIDE DEF b
<1>. QED
  BY <1>2, <1>3, OneBook DEF StockInv, LocationTypeOK

\* An outbound adjustment keeps the invariant.
LEMMA AdjustOutOK ==
  ASSUME StockInv, NEW i \in Items, NEW q \in Quantity, AdjustOut(i, q)
  PROVE  StockInv'
<1>. DEFINE b == PostOut(book[i], "INV", NoSlices, q, NoLoc, Defaults)
<1>1. BookOK(book[i]) /\ q \in Nat /\ "INV" \in Statuses /\ Covers(book[i], "INV", q)
  BY StockAssumption DEF StockInv, BooksOK, Statuses, AdjustOut, AdjustedOut
<1>2. BookOK(b)
  BY <1>1, PostOutOK, NoSlicesType
<1>3. book' = [book EXCEPT ![i] = b] /\ locs' = locs
  BY DEF AdjustOut, AdjustedOut
<1>. HIDE DEF b
<1>. QED
  BY <1>2, <1>3, OneBook DEF StockInv, LocationTypeOK

\* Scrap keeps the invariant, wherever it is taken from.
LEMMA ScrapOK ==
  ASSUME StockInv, NEW i \in Items, NEW q \in Quantity, NEW s \in Statuses, NEW loc,
         Scrap(i, s, q, loc)
  PROVE  StockInv'
<1>. DEFINE b == PostOut(book[i], s, NoSlices, q, loc, Defaults)
<1>1. BookOK(book[i]) /\ q \in Nat /\ Covers(book[i], s, q)
  BY StockAssumption DEF StockInv, BooksOK, Scrap, ScrapFits, Scrapped
<1>2. BookOK(b)
  BY <1>1, PostOutOK, NoSlicesType
<1>3. book' = [book EXCEPT ![i] = b] /\ locs' = locs
  BY DEF Scrap, ScrapFits, Scrapped
<1>. HIDE DEF b
<1>. QED
  BY <1>2, <1>3, OneBook DEF StockInv, LocationTypeOK

\* No row holds more than all rows.
LEMMA RowWithinSum ==
  ASSUME NEW c \in Columns, NEW k \in Locs
  PROVE  c[k] <= Sum(c, NumLocs)
<1>. DEFINE A == {k}
            B == Locs \ {k}
            C == {}
            a == At(k, c[k], NumLocs)
<1>1. Sum(c, NumLocs) = (Sum(Rows(c, A), NumLocs) + Sum(Rows(c, B), NumLocs))
                          + Sum(Rows(c, C), NumLocs)
  BY RowsSplit
<1>2. Sum(Rows(c, B), NumLocs) \in Nat /\ Sum(Rows(c, C), NumLocs) \in Nat
  <2>1. 0 \in Nat
    OBVIOUS
  <2>. HIDE DEF B, C
  <2>. QED
    BY <2>1, TakeRows
<1>3. Rows(c, A) = a
  BY DEF Rows, At, Locs
<1>4. Sum(a, NumLocs) = c[k] /\ c[k] \in Nat
  <2>1. k \in Int /\ c[k] \in Int /\ c[k] \in Nat /\ k \in 1..NumLocs
    BY DEF Columns, Locs
  <2>. HIDE DEF a
  <2>. QED
    BY <2>1, SumAt, NumLocsNat DEF a
<1>. HIDE DEF A, B, C, a
<1>. QED
  BY <1>1, <1>2, <1>3, <1>4

\* A move puts back what it takes, so the rows of the bucket add up to the same.
LEMMA MoveKeepsSum ==
  ASSUME NEW c \in Columns, NEW q \in Nat, NEW from \in Locs, NEW to \in Locs,
         NEW defaults, q <= c[from]
  PROVE  LET e == Place(Remove(c, q, from, defaults), q, to)
         IN  e \in Columns /\ Sum(e, NumLocs) = Sum(c, NumLocs)
<1>. DEFINE d == Remove(c, q, from, defaults)
            e == Place(d, q, to)
<1>1. /\ d \in Columns /\ Sum(c, NumLocs) \in Nat
      /\ Sum(d, NumLocs) = Sum(c, NumLocs) - MinOf(q, Sum(c, NumLocs))
  BY RemoveOK
<1>2. q <= Sum(c, NumLocs)
  <2>1. c[from] <= Sum(c, NumLocs) /\ c[from] \in Nat
    BY RowWithinSum DEF Columns
  <2>. QED
    BY <1>1, <2>1
<1>3. e \in Columns /\ Sum(e, NumLocs) = Sum(d, NumLocs) + q
  <2>1. to \in Wheres
    BY DEF Wheres
  <2>. HIDE DEF d
  <2>. QED
    BY <1>1, <2>1, PlaceOK, PlacedWhole
<1>. HIDE DEF d, e
<1>. QED
  BY <1>1, <1>2, <1>3 DEF MinOf, d, e

\* A move keeps the invariant: the bucket is untouched and its rows add up to no more.
LEMMA MoveLocationOK ==
  ASSUME StockInv, NEW i \in Items, NEW q \in Quantity, NEW s \in Located,
         NEW from \in Locs, NEW to \in Locs, MoveLocation(i, s, from, to, q)
  PROVE  StockInv'
<1>. DEFINE c == book[i].cell[s]
            e == Place(Remove(c, q, from, Defaults), q, to)
            b == [book[i] EXCEPT !.cell[s] = e]
<1>1. BookOK(book[i]) /\ q \in Nat
  BY StockAssumption DEF StockInv, BooksOK
<1>2. c \in Columns /\ Sum(c, NumLocs) <= book[i].onHand[s]
  <2>1. s \in Statuses
    BY DEF Located, Statuses
  <2>. QED
    BY <1>1, <2>1, BookFields
<1>3. q <= c[from]
  BY DEF MoveLocation, MoveFits, MovedRows
<1>4. e \in Columns /\ Sum(e, NumLocs) = Sum(c, NumLocs)
  <2>. HIDE DEF c
  <2>. QED
    BY <1>1, <1>2, <1>3, MoveKeepsSum
<1>5. Sum(e, NumLocs) <= book[i].onHand[s]
  <2>. HIDE DEF c, e
  <2>. QED
    BY <1>2, <1>4
<1>6. BookOK(b)
  <2>. HIDE DEF e
  <2>1. b = [onHand |-> book[i].onHand, unlotted |-> book[i].unlotted,
             lotQty |-> book[i].lotQty, cell |-> [book[i].cell EXCEPT ![s] = e]]
    BY <1>1, BookFields
  <2>2. [book[i].cell EXCEPT ![s] = e] \in [Located -> Columns]
    BY <1>1, <1>4, BookFields
  <2>3. b \in Books
    BY <1>1, <2>1, <2>2, BookFields DEF Books, Columns
  <2>4. BookBalances(b)
    BY <1>1, <2>1, BookFields DEF BookBalances
  <2>5. CellsWithinBook(b)
    <3>1. \A t \in Located : t # s => b.cell[t] = book[i].cell[t] /\ b.onHand[t] = book[i].onHand[t]
      BY <1>1, <2>1, BookFields
    <3>2. b.cell[s] = e /\ b.onHand[s] = book[i].onHand[s]
      BY <1>1, <2>1, BookFields
    <3>. HIDE DEF b
    <3>. QED
      BY <1>1, <1>5, <3>1, <3>2, BookFields DEF CellsWithinBook
  <2>. QED
    BY <2>3, <2>4, <2>5 DEF BookOK
<1>7. book' = [book EXCEPT ![i] = b] /\ locs' = locs
  BY DEF MoveLocation, MoveFits, MovedRows
<1>. HIDE DEF b
<1>. QED
  BY <1>6, <1>7, OneBook DEF StockInv, LocationTypeOK

\* The invariant holds before any operation.
LEMMA StockInitOK ==
  ASSUME StockInit
  PROVE  StockInv
BY EmptyBookOK DEF StockInit, LocationInit, StockInv, BooksOK, LocationTypeOK

\* Every operation keeps the invariant.
LEMMA StockNextOK ==
  ASSUME StockInv, StockNext
  PROVE  StockInv'
<1>1. CASE LocationStep
  BY <1>1, LocationNextType DEF LocationStep, StockInv, BooksOK
<1>2. CASE StockStep
  BY <1>2, AdjustInOK, AdjustOutOK, ScrapOK, MoveLocationOK DEF StockStep
<1>. QED
  BY <1>1, <1>2 DEF StockNext

\* Every step, stuttering steps included, keeps the invariant.
LEMMA StockStepOK == StockInv /\ [StockNext]_stockVars => StockInv'
<1>. SUFFICES ASSUME StockInv, [StockNext]_stockVars PROVE StockInv'
  OBVIOUS
<1>1. CASE UNCHANGED stockVars
  BY <1>1 DEF stockVars, StockInv, LocationTypeOK, BooksOK
<1>2. CASE StockNext
  BY <1>2, StockNextOK
<1>. QED
  BY <1>1, <1>2

(***************************************************************************)
(* For every number of locations and every set of items: the stock book is *)
(* well typed, every bucket is the sum of its ledger lines and its         *)
(* location rows never hold more than it does.                             *)
(***************************************************************************)
THEOREM StockCorrect ==
  StockSpec => [](StockTypeOK /\ LedgerBalances /\ LocationsWithinStock)
<1>1. StockInit => StockInv
  BY StockInitOK
<1>2. StockInv /\ [StockNext]_stockVars => StockInv'
  BY StockStepOK
<1>3. StockInv => StockTypeOK /\ LedgerBalances /\ LocationsWithinStock
  BY StockInvFacts DEF StockInv, StockTypeOK
<1>. QED
  BY <1>1, <1>2, <1>3, PTL DEF StockSpec
-----------------------------------------------------------------------------
(***************************************************************************)
(* A leaf that is given a flag takes it from the others of its building;   *)
(* any other leaf keeps at most what it had.  This is all that             *)
(* OneFlagPerBuilding needs of an edit.                                    *)
(***************************************************************************)
LEMMA GivenFlags ==
  ASSUME LocationTypeOK, OneFlagPerBuilding, NEW l \in Locs, NEW on, NEW held,
         held \subseteq locs[l] \cup on \cup {"exists"},
         locs' = [ClearOthers(l, on) EXCEPT ![l] = held]
  PROVE  OneFlagPerBuilding'
<1>. SUFFICES ASSUME NEW j \in Locs, NEW k \in Locs, j # k, Building[j] = Building[k],
                     NEW f \in Scoped, f \in locs'[j], f \in locs'[k]
              PROVE  FALSE
  BY DEF OneFlagPerBuilding
<1>1. f # "exists"
  BY DEF Scoped
<1>2. locs'[l] = held
  BY DEF ClearOthers
<1>3. ASSUME NEW m \in Locs, m # l, f \in locs'[m]
      PROVE  f \in locs[m] /\ (Building[m] = Building[l] => f \notin on)
  <2>1. locs'[m] = IF Building[m] = Building[l] THEN locs[m] \ (on \cap Scoped) ELSE locs[m]
    BY <1>3 DEF ClearOthers
  <2>2. CASE Building[m] = Building[l]
    BY <1>3, <2>1, <2>2
  <2>3. CASE Building[m] # Building[l]
    BY <1>3, <2>1, <2>3
  <2>. QED
    BY <2>2, <2>3
<1>4. ~ (f \in locs[j] /\ f \in locs[k])
  BY DEF OneFlagPerBuilding
<1>5. f \in locs'[l] => f \in locs[l] \/ f \in on
  BY <1>1, <1>2
<1>6. CASE j = l
  <2>1. k # l /\ Building[k] = Building[l]
    BY <1>6
  <2>2. f \in locs[k] /\ f \notin on
    BY <1>3, <2>1
  <2>. QED
    BY <1>4, <1>5, <1>6, <2>2
<1>7. CASE k = l
  <2>1. j # l /\ Building[j] = Building[l]
    BY <1>7
  <2>2. f \in locs[j] /\ f \notin on
    BY <1>3, <2>1
  <2>. QED
    BY <1>4, <1>5, <1>7, <2>2
<1>8. CASE j # l /\ k # l
  BY <1>3, <1>4, <1>8
<1>. QED
  BY <1>6, <1>7, <1>8

LEMMA FlagsStep ==
  LocationTypeOK /\ OneFlagPerBuilding /\ [StockNext]_stockVars =>
    LocationTypeOK' /\ OneFlagPerBuilding'
<1>. SUFFICES ASSUME LocationTypeOK, OneFlagPerBuilding, [StockNext]_stockVars
              PROVE  LocationTypeOK' /\ OneFlagPerBuilding'
  OBVIOUS
<1>1. CASE locs' = locs
  BY <1>1 DEF LocationTypeOK, OneFlagPerBuilding
<1>2. CASE LocationNext
  <2>1. ASSUME NEW l \in Locs, NEW flags \in NewFlags, CreateLocation(l, flags)
        PROVE  OneFlagPerBuilding'
    BY <2>1, GivenFlags DEF CreateLocation
  <2>2. ASSUME NEW l \in Locs, NEW p \in Patches, UpdateLocation(l, p.on, p.off)
        PROVE  OneFlagPerBuilding'
    <3>1. ClearOthers(l, p.on)[l] = locs[l]
      BY DEF ClearOthers
    <3>2. locs' = [ClearOthers(l, p.on) EXCEPT ![l] = (locs[l] \cup p.on) \ p.off]
      BY <2>2, <3>1 DEF UpdateLocation, UpdatedLocs
    <3>3. (locs[l] \cup p.on) \ p.off \subseteq locs[l] \cup p.on \cup {"exists"}
      OBVIOUS
    <3>. QED
      BY <3>2, <3>3, GivenFlags
  <2>. QED
    BY <1>2, <2>1, <2>2, LocationNextType DEF LocationNext
<1>3. StockStep => locs' = locs
  BY DEF StockStep, AdjustIn, AdjustOut, Scrap, MoveLocation
<1>. QED
  BY <1>1, <1>2, <1>3 DEF StockNext, LocationStep, stockVars

(***************************************************************************)
(* For every tree of locations and every sequence of creations and edits:  *)
(* a building has at most one default and one receiving leaf.              *)
(***************************************************************************)
THEOREM OneHolderOfEachFlag == StockSpec => []OneFlagPerBuilding
<1>. DEFINE Inv == LocationTypeOK /\ OneFlagPerBuilding
<1>1. StockInit => Inv
  BY DEF StockInit, LocationInit, LocationTypeOK, OneFlagPerBuilding
<1>2. Inv /\ [StockNext]_stockVars => Inv'
  BY FlagsStep
<1>3. Inv => OneFlagPerBuilding
  OBVIOUS
<1>. QED
  BY <1>1, <1>2, <1>3, PTL DEF StockSpec

-----------------------------------------------------------------------------
\* A step that replaces one book by one whose gap is no wider widens no gap.
LEMMA OneGap ==
  ASSUME BooksOK(book), NEW i \in Items, NEW b, BookOK(b), book' = [book EXCEPT ![i] = b],
         NEW s \in Located, Gap(b, s) <= Gap(book[i], s)
  PROVE  \A j \in Items : ~ (Unplaced(j, s)' > Unplaced(j, s))
<1>. TAKE j \in Items
<1>1. BookOK(book[i]) /\ BookOK(book[j])
  BY DEF BooksOK
<1>2. Gap(book[i], s) \in Int /\ Gap(book[j], s) \in Int /\ Gap(b, s) \in Int
  BY <1>1, GapInt
<1>3. Unplaced(j, s) = Gap(book[j], s) /\ Unplaced(j, s)' = Gap(book'[j], s)
  BY DEF Unplaced, Gap
<1>4. book'[j] = IF j = i THEN b ELSE book[j]
  BY DEF BooksOK
<1>. QED
  BY <1>2, <1>3, <1>4

(***************************************************************************)
(* One operation of StockNext: only an inbound adjustment without an       *)
(* active leaf leaves more of a bucket unplaced than before.               *)
(***************************************************************************)
LEMMA GapStep ==
  ASSUME StockInv, StockNext, ActiveLocs # {}, NEW s \in Located
  PROVE  \A j \in Items : ~ (Unplaced(j, s)' > Unplaced(j, s))
<1>1. BooksOK(book) /\ StockInv'
  BY StockNextOK DEF StockInv
<1>2. \A i \in Items : BookOK(book[i])
  BY <1>1 DEF BooksOK
<1>3. CASE LocationStep
  <2>1. book' = book
    BY <1>3 DEF LocationStep
  <2>. SUFFICES ASSUME NEW j \in Items PROVE ~ (Unplaced(j, s)' > Unplaced(j, s))
    OBVIOUS
  <2>2. Unplaced(j, s)' = Unplaced(j, s)
    BY <2>1 DEF Unplaced
  <2>3. Unplaced(j, s) \in Int
    BY <1>2, GapInt DEF Gap, Unplaced
  <2>. QED
    BY <2>2, <2>3
<1>4. ASSUME NEW i \in Items, NEW q \in Quantity, AdjustIn(i, q)
      PROVE  \A j \in Items : ~ (Unplaced(j, s)' > Unplaced(j, s))
  <2>. DEFINE b == PostIn(book[i], "INV", NoSlices, q, ResolveInbound("INV"))
  <2>1. q \in Nat /\ "INV" \in Statuses /\ ResolveInbound("INV") \in Locs
    BY StockAssumption, ResolveInboundType DEF Statuses, ActiveLocs
  <2>2. BookOK(b) /\ Gap(b, s) = Gap(book[i], s) /\ Gap(b, s) \in Int
    <3>1. BookOK(b)
      BY <1>2, <2>1, PostInOK, NoSlicesType, ResolveInboundType
    <3>2. Gap(b, s) = Gap(book[i], s)
      BY <1>2, <2>1, PostInGap, NoSlicesType
    <3>. HIDE DEF b
    <3>. QED
      BY <3>1, <3>2, GapInt
  <2>3. book' = [book EXCEPT ![i] = b]
    BY <1>4 DEF AdjustIn
  <2>. HIDE DEF b
  <2>4. Gap(b, s) <= Gap(book[i], s)
    BY <2>2
  <2>. QED
    BY <1>1, <2>2, <2>3, <2>4, OneGap
<1>5. ASSUME NEW i \in Items, NEW q \in Quantity, NEW t \in Statuses, NEW loc,
             Covers(book[i], t, q),
             book' = [book EXCEPT ![i] = PostOut(@, t, NoSlices, q, loc, Defaults)]
      PROVE  \A j \in Items : ~ (Unplaced(j, s)' > Unplaced(j, s))
  <2>. DEFINE b == PostOut(book[i], t, NoSlices, q, loc, Defaults)
  <2>1. q \in Nat
    BY StockAssumption
  <2>2. BookOK(b) /\ Gap(b, s) <= Gap(book[i], s)
    BY <1>2, <1>5, <2>1, PostOutOK, PostOutGap, NoSlicesType
  <2>3. book' = [book EXCEPT ![i] = b]
    BY <1>5
  <2>. HIDE DEF b
  <2>. QED
    BY <1>1, <2>2, <2>3, OneGap
<1>6. ASSUME NEW i \in Items, NEW q \in Quantity, NEW t \in Located,
             NEW from \in Locs, NEW to \in Locs, MoveLocation(i, t, from, to, q)
      PROVE  \A j \in Items : ~ (Unplaced(j, s)' > Unplaced(j, s))
  <2>. DEFINE c == book[i].cell[t]
              e == Place(Remove(c, q, from, Defaults), q, to)
              b == [book[i] EXCEPT !.cell[t] = e]
  <2>1. book' = [book EXCEPT ![i] = b]
    BY <1>6 DEF MoveLocation, MoveFits, MovedRows
  <2>2. BookOK(b)
    <3>1. BookOK(book'[i])
      BY <1>1 DEF StockInv, BooksOK
    <3>2. book'[i] = b
      BY <1>1, <2>1 DEF BooksOK
    <3>. QED
      BY <3>1, <3>2
  <2>3. c \in Columns /\ q \in Nat /\ q <= c[from]
    BY <1>2, <1>6, BookFields, StockAssumption DEF MoveLocation, MoveFits, MovedRows
  <2>4. Sum(e, NumLocs) = Sum(c, NumLocs)
    <3>. HIDE DEF c
    <3>. QED
      BY <2>3, MoveKeepsSum
  <2>5. b.onHand = book[i].onHand /\ b.cell[s] = IF s = t THEN e ELSE book[i].cell[s]
    <3>. HIDE DEF e
    <3>. QED
      BY <1>2, BookFields
  <2>6. Gap(b, s) = Gap(book[i], s)
    <3>. HIDE DEF b, e
    <3>. QED
      BY <2>4, <2>5 DEF Gap
  <2>7. Gap(b, s) <= Gap(book[i], s)
    <3>. HIDE DEF b
    <3>. QED
      BY <2>2, <2>6, GapInt
  <2>. HIDE DEF b
  <2>. QED
    BY <1>1, <2>1, <2>2, <2>7, OneGap
<1>7. CASE StockStep
  <2>1. "INV" \in Statuses
    BY DEF Statuses
  <2>. QED
    BY <1>4, <1>5, <1>6, <1>7, <2>1 DEF StockStep, AdjustOut, AdjustedOut, Scrap, ScrapFits, Scrapped
<1>. QED
  BY <1>3, <1>7 DEF StockNext

(***************************************************************************)
(* For every number of items and locations: no step widens the gap between *)
(* a bucket and its location rows while there is an active leaf.           *)
(***************************************************************************)
THEOREM BreakdownKeepsUp == StockSpec => UnplacedOnlyWithoutLeaf
<1>. DEFINE Widens(i, s) == Unplaced(i, s)' > Unplaced(i, s)
<1>1. StockInit => StockInv
  BY StockInitOK
<1>2. StockInv /\ [StockNext]_stockVars => StockInv'
  BY StockStepOK
<1>3. StockInv /\ [StockNext]_stockVars =>
        [\A i \in Items, s \in Located : Widens(i, s) => ActiveLocs = {}]_stockVars
  <2>. SUFFICES ASSUME StockInv, StockNext, NEW i \in Items, NEW s \in Located,
                       ActiveLocs # {}
                PROVE  ~ Widens(i, s)
    OBVIOUS
  <2>. QED
    BY GapStep
<1>. QED
  BY <1>1, <1>2, <1>3, PTL DEF StockSpec, UnplacedOnlyWithoutLeaf

-----------------------------------------------------------------------------
(***************************************************************************)
(* Lots.                                                                   *)
(***************************************************************************)
LotOK(r) ==
  /\ r \in LotRows
  /\ r.packed <= r.qty
  /\ r.qc # "NONE" => \A t \in Suite : r.tests[t] # "ABSENT"
  /\ r.qc = "APPROVED" => \A t \in Tests : r.tests[t] \in {"PASS", "ABSENT"}

LotsOK(ls) == DOMAIN ls = Lots /\ ls = [l \in Lots |-> ls[l]] /\ \A l \in Lots : LotOK(ls[l])

PlantInv == StockInv /\ LotsOK(lots)

\* What PlantInv says, in the terms of the specification.
LEMMA PlantInvFacts ==
  ASSUME PlantInv
  PROVE  QualityTypeOK /\ LedgerBalances /\ LocationsWithinStock /\ ApprovedPassed
<1>1. StockTypeOK /\ LedgerBalances /\ LocationsWithinStock
  BY StockInvFacts DEF PlantInv, StockInv, StockTypeOK
<1>2. lots \in [Lots -> LotRows]
  BY DEF PlantInv, LotsOK, LotOK
<1>3. ASSUME NEW l \in Lots, lots[l].qc = "APPROVED"
      PROVE  /\ \A t \in Suite : lots[l].tests[t] = "PASS"
             /\ \A t \in Tests : lots[l].tests[t] \notin {"UNSET", "FAIL"}
  <2>1. LotOK(lots[l])
    BY DEF PlantInv, LotsOK
  <2>2. /\ \A t \in Suite : lots[l].tests[t] # "ABSENT"
        /\ \A t \in Tests : lots[l].tests[t] \in {"PASS", "ABSENT"}
    BY <1>3, <2>1 DEF LotOK
  <2>. QED
    BY <2>2, QualityAssumption
<1>. QED
  BY <1>1, <1>2, <1>3 DEF QualityTypeOK, ApprovedPassed

\* A lot that was just created is in order.
LEMMA NewLotOK ==
  ASSUME NEW item \in Items, NEW origin \in Origins, NEW source \in Nat \X Nat,
         NEW qty \in Nat, NEW loc \in Wheres
  PROVE  LotOK(NewLot(item, origin, source, qty, loc))
<1>1. NewTests \in [Tests -> Outcomes] /\ \A t \in Suite : NewTests[t] # "ABSENT"
  BY QualityAssumption DEF NewTests, Outcomes, Recorded
<1>. QED
  BY <1>1 DEF NewLot, LotOK, LotRows, QcStatuses, Wheres

\* So is the row of a lot that does not exist yet.
LEMMA NoLotOK == LotOK(NoLotRow)
<1>1. (CHOOSE i \in Items : TRUE) \in Items
  BY QualityAssumption
<1>. QED
  BY <1>1 DEF NoLotRow, LotOK, LotRows, QcStatuses, Origins, Outcomes

\* Replacing the row of one lot by a good one keeps LotsOK.
LEMMA OneLot ==
  ASSUME LotsOK(lots), NEW l \in Lots, NEW r, LotOK(r), lots' = [lots EXCEPT ![l] = r]
  PROVE  LotsOK(lots')
BY DEF LotsOK

\* The fields of a lot row.
LEMMA LotFields ==
  ASSUME NEW r, LotOK(r)
  PROVE  /\ r = [item |-> r.item, origin |-> r.origin, source |-> r.source,
                 qty |-> r.qty, packed |-> r.packed, returned |-> r.returned,
                 qc |-> r.qc, tests |-> r.tests, loc |-> r.loc]
         /\ r.item \in Items /\ r.qty \in Nat /\ r.packed \in Nat /\ r.returned \in Nat
         /\ r.loc \in Wheres /\ r.tests \in [Tests -> Outcomes] /\ r.packed <= r.qty
BY DEF LotOK, LotRows, Wheres

\* The column that holds q at one lot is a well-typed slice list.
LEMMA AtType ==
  ASSUME NEW l, NEW q \in Nat
  PROVE  At(l, q, NumLots) \in [Lots -> Int]
BY DEF At, Lots

-----------------------------------------------------------------------------
\* Recording results keeps the invariant: only a lot under review is recorded.
LEMMA RecordResultsOK ==
  ASSUME PlantInv, NEW l \in Lots, NEW T \in SUBSET Tests, NEW results \in [T -> Recorded],
         RecordResults(l, results)
  PROVE  PlantInv'
<1>. DEFINE tests == [t \in Tests |-> IF t \in DOMAIN results THEN results[t]
                                                              ELSE lots[l].tests[t]]
            r == [lots[l] EXCEPT !.tests = tests]
<1>1. LotOK(lots[l]) /\ lots[l].qc = "PENDING"
  BY DEF PlantInv, LotsOK, RecordResults, ResultsAfter
<1>2. /\ tests \in [Tests -> Outcomes]
      /\ \A t \in Suite : lots[l].tests[t] # "ABSENT" => tests[t] # "ABSENT"
  BY <1>1, LotFields, QualityAssumption DEF Outcomes, Recorded
<1>3. LotOK(r)
  <2>. HIDE DEF tests
  <2>. QED
    BY <1>1, <1>2 DEF LotOK, LotRows
<1>4. lots' = [lots EXCEPT ![l] = r] /\ book' = book /\ locs' = locs
  BY DEF RecordResults, ResultsAfter, PlantInv, LotsOK
<1>. HIDE DEF r
<1>. QED
  BY <1>3, <1>4, OneLot DEF PlantInv, StockInv, LocationTypeOK, BooksOK

\* Replacing the book of one item and keeping the leaves keeps StockInv.
LEMMA OneStockBook ==
  ASSUME StockInv, NEW i \in Items, NEW b, BookOK(b),
         book' = [book EXCEPT ![i] = b], locs' = locs
  PROVE  StockInv'
<1>1. BooksOK(book')
  BY OneBook DEF StockInv
<1>. QED
  BY <1>1 DEF StockInv, LocationTypeOK

\* Posting out of one bucket and into another keeps a book good.
LEMMA OutThenInOK ==
  ASSUME NEW b, BookOK(b), NEW s \in Statuses, NEW t \in Statuses,
         NEW out \in [Lots -> Int], NEW in \in [Lots -> Int], NEW q \in Nat,
         NEW pref, NEW to \in Wheres, NEW defaults, Covers(b, s, q)
  PROVE  BookOK(PostIn(PostOut(b, s, out, q, pref, defaults), t, in, q, to))
<1>. DEFINE c == PostOut(b, s, out, q, pref, defaults)
<1>1. BookOK(c)
  BY PostOutOK
<1>. HIDE DEF c
<1>2. BookOK(PostIn(c, t, in, q, to))
  BY <1>1, PostInOK
<1>. QED
  BY <1>2 DEF c

\* An approved receipt lands at a leaf or nowhere.
LEMMA PutAwayType == \A l : PutAway(l) \subseteq Wheres
BY ResolveInboundType DEF PutAway, ActiveLocs, Wheres

\* Approval keeps the invariant: the lot has passed, and moves as a whole.
LEMMA ApproveOK ==
  ASSUME PlantInv, NEW l \in Lots, Approve(l)
  PROVE  PlantInv'
<1>. DEFINE r == [lots[l] EXCEPT !.qc = "APPROVED"]
            i == lots[l].item
            q == lots[l].qty
<1>1. LotOK(lots[l]) /\ lots[l].qc = "PENDING" /\ AllPassed(l)
  BY DEF PlantInv, LotsOK, Approve
<1>2. i \in Items /\ q \in Nat
  BY <1>1, LotFields
<1>3. LotOK(r)
  BY <1>1 DEF LotOK, LotRows, QcStatuses, AllPassed, Passing
<1>4. lots' = [lots EXCEPT ![l] = r] /\ locs' = locs
  BY DEF Approve, PlantInv, LotsOK
<1>5. LotsOK(lots')
  <2>. HIDE DEF r
  <2>. QED
    BY <1>3, <1>4, OneLot DEF PlantInv
<1>6. CASE UNCHANGED book
  BY <1>4, <1>5, <1>6 DEF PlantInv, StockInv, LocationTypeOK, BooksOK
<1>7. ASSUME NEW to \in PutAway(l), Covers(book[i], "QUARANTINE", q),
             book' = [book EXCEPT ![i] =
               Transfer(@, "QUARANTINE", "INV", l, q, lots[l].loc, to, Defaults)]
      PROVE  PlantInv'
  <2>. DEFINE b == Transfer(book[i], "QUARANTINE", "INV", l, q, lots[l].loc, to, Defaults)
  <2>1. BookOK(book[i]) /\ StockInv
    BY <1>2 DEF PlantInv, StockInv, BooksOK
  <2>2. to \in Wheres /\ "QUARANTINE" \in Statuses /\ "INV" \in Statuses
    BY PutAwayType DEF Statuses
  <2>. HIDE DEF i, q
  <2>3. BookOK(b)
    BY <1>2, <1>7, <2>1, <2>2, AtType, OutThenInOK DEF Transfer
  <2>4. book' = [book EXCEPT ![i] = b]
    BY <1>7
  <2>. HIDE DEF b
  <2>5. StockInv'
    BY <1>2, <1>4, <2>1, <2>3, <2>4, OneStockBook
  <2>. QED
    BY <1>5, <2>5 DEF PlantInv
<1>. QED
  BY <1>6, <1>7 DEF Approve

\* Rejection keeps the invariant.
LEMMA RejectOK ==
  ASSUME PlantInv, NEW l \in Lots, Reject(l)
  PROVE  PlantInv'
<1>. DEFINE r == [lots[l] EXCEPT !.qc = "REJECTED"]
<1>1. LotOK(lots[l]) /\ lots[l].qc = "PENDING"
  BY DEF PlantInv, LotsOK, Reject
<1>2. LotOK(r)
  BY <1>1 DEF LotOK, LotRows, QcStatuses
<1>3. lots' = [lots EXCEPT ![l] = r] /\ book' = book /\ locs' = locs
  BY DEF Reject, PlantInv, LotsOK
<1>. HIDE DEF r
<1>. QED
  BY <1>2, <1>3, OneLot DEF PlantInv, StockInv, LocationTypeOK, BooksOK

\* A return keeps the invariant.
LEMMA ReturnToVendorOK ==
  ASSUME PlantInv, NEW l \in Lots, NEW q \in Quantity, ReturnToVendor(l, q)
  PROVE  PlantInv'
<1>. DEFINE i == lots[l].item
            returned == lots[l].returned + q
            qc == IF returned >= lots[l].qty THEN "RETURNED" ELSE lots[l].qc
            r == [lots[l] EXCEPT !.returned = returned, !.qc = qc]
            b == PostOut(book[i], "QUARANTINE", At(l, q, NumLots), q, lots[l].loc, Defaults)
<1>1. LotOK(lots[l]) /\ lots[l].qc = "REJECTED" /\ q \in Nat
  BY StockAssumption DEF PlantInv, LotsOK, ReturnToVendor, ReturnFits, LotReturned
<1>2. i \in Items /\ returned \in Nat
  BY <1>1, LotFields
<1>3. qc \in {"RETURNED", "REJECTED"}
  BY <1>1
<1>4. LotOK(r)
  <2>. HIDE DEF returned, qc
  <2>. QED
    BY <1>1, <1>2, <1>3 DEF LotOK, LotRows, QcStatuses
<1>5. lots' = [lots EXCEPT ![l] = r] /\ locs' = locs
  BY DEF ReturnToVendor, ReturnFits, LotReturned, PlantInv, LotsOK
<1>6. LotsOK(lots')
  <2>. HIDE DEF r
  <2>. QED
    BY <1>4, <1>5, OneLot DEF PlantInv
<1>7. BookOK(b)
  <2>1. BookOK(book[i]) /\ Covers(book[i], "QUARANTINE", q) /\ "QUARANTINE" \in Statuses
    BY <1>2 DEF PlantInv, StockInv, BooksOK, ReturnToVendor, ReturnFits, LotReturned, Statuses
  <2>. HIDE DEF i
  <2>. QED
    BY <1>1, <2>1, AtType, PostOutOK
<1>8. book' = [book EXCEPT ![i] = b]
  BY DEF ReturnToVendor, ReturnFits, LotReturned
<1>9. StockInv'
  <2>. HIDE DEF b, i
  <2>. QED
    BY <1>2, <1>5, <1>7, <1>8, OneStockBook DEF PlantInv
<1>. QED
  BY <1>6, <1>9 DEF PlantInv

(***************************************************************************)
(* Pack-off keeps the invariant: what is drawn from a lot is no more than  *)
(* what the lot has left to pack.                                          *)
(***************************************************************************)
LEMMA PackOffOK ==
  ASSUME PlantInv, NEW i \in Items, NEW q \in Quantity, PackOff(i, q)
  PROVE  PlantInv'
<1>. DEFINE slices == Take(Packable(i), NumLots, q)
            b == PostIn(PostOut(book[i], "WIP", slices, q, NoLoc, Defaults),
                        "INV", slices, q, ResolveInbound("INV"))
<1>1. \A l \in Lots : LotOK(lots[l])
  BY DEF PlantInv, LotsOK
<1>2. \A l \in 1..NumLots : Packable(i)[l] \in Int
  BY <1>1, LotFields DEF Packable, Lots
<1>3. q \in Nat /\ q \in Int
  BY StockAssumption
<1>4. /\ slices \in [Lots -> Nat]
      /\ \A l \in Lots : slices[l] <= Positive(Packable(i)[l])
  BY <1>2, <1>3, TakeBounds, NumLocsNat DEF Lots
<1>5. ASSUME NEW l \in Lots
      PROVE  LotOK([lots[l] EXCEPT !.packed = @ + slices[l]])
  <2>1. LotOK(lots[l]) /\ slices[l] \in Nat
    BY <1>1, <1>4
  <2>2. Packable(i)[l] \in {0, lots[l].qty - lots[l].packed}
    BY DEF Packable
  <2>3. slices[l] <= lots[l].qty - lots[l].packed
    BY <1>4, <2>1, <2>2, LotFields DEF Positive
  <2>. HIDE DEF slices
  <2>. QED
    BY <2>1, <2>3, LotFields DEF LotOK, LotRows
<1>6. lots' = [l \in Lots |-> [lots[l] EXCEPT !.packed = @ + slices[l]]]
  BY DEF PackOff
<1>7. LotsOK(lots')
  <2>. HIDE DEF slices
  <2>. QED
    BY <1>5, <1>6 DEF LotsOK
<1>8. BookOK(b)
  <2>1. BookOK(book[i]) /\ Covers(book[i], "WIP", q) /\ "WIP" \in Statuses /\ "INV" \in Statuses
    BY DEF PlantInv, StockInv, BooksOK, PackOff, Statuses
  <2>2. slices \in [Lots -> Int]
    BY <1>4
  <2>3. ResolveInbound("INV") \in Wheres
    BY ResolveInboundType
  <2>. HIDE DEF slices
  <2>. QED
    BY <1>3, <2>1, <2>2, <2>3, OutThenInOK
<1>9. book' = [book EXCEPT ![i] = b] /\ locs' = locs
  BY DEF PackOff
<1>10. StockInv'
  <2>. HIDE DEF b
  <2>. QED
    BY <1>8, <1>9, OneStockBook DEF PlantInv
<1>. QED
  BY <1>7, <1>10 DEF PlantInv

-----------------------------------------------------------------------------
\* The invariant holds before any operation.
LEMMA QualityInitOK ==
  ASSUME QualityInit
  PROVE  PlantInv
BY StockInitOK, NoLotOK DEF QualityInit, PlantInv, LotsOK

\* Every step on lots and stock keeps the invariant.
LEMMA PlantStepOK ==
  ASSUME PlantInv, PlantStep
  PROVE  PlantInv'
<1>1. CASE QualityStep
  BY <1>1, RecordResultsOK, ApproveOK, RejectOK, ReturnToVendorOK, PackOffOK DEF QualityStep
<1>2. CASE StockNext /\ UNCHANGED lots
  BY <1>2, StockNextOK DEF PlantInv, LotsOK
<1>. QED
  BY <1>1, <1>2 DEF PlantStep

\* A step that leaves lots and stock alone keeps the invariant.
LEMMA PlantIdle ==
  ASSUME PlantInv, UNCHANGED <<locs, book, lots>>
  PROVE  PlantInv'
BY DEF PlantInv, LotsOK, StockInv, LocationTypeOK, BooksOK

-----------------------------------------------------------------------------
(***************************************************************************)
(* Traceability.  TracedLot(l) is what LotsTraceable says of lot l, and    *)
(* what makes it inductive: a number without a lot is a receipt row of     *)
(* zeros, and nothing of a lot under review has been returned.             *)
(***************************************************************************)
TracedLot(l) ==
  /\ lots[l].origin = "RECEIPT" => ReceiptTraced(l)
  /\ lots[l].origin = "PRODUCTION" => ProductionTraced(l)
  /\ \A i \in Items \ {lots[l].item}, s \in Statuses : book[i].lotQty[s][l] = 0
  /\ lots[l].qc = "NONE" => lots[l].origin = "RECEIPT"
  /\ lots[l].qc = "PENDING" => lots[l].returned = 0

\* Lots are created in the order of their numbers.
LotsInOrder == \A k, l \in Lots : k < l /\ lots[k].qc = "NONE" => lots[l].qc = "NONE"

TraceInv == LotsInOrder /\ \A l \in Lots : TracedLot(l)

LEMMA TraceInvFacts == TraceInv => LotsTraceable
BY DEF TraceInv, TracedLot, LotsTraceable

\* The sums of a lot under PlantInv are integers.
LEMMA LotQtyType ==
  ASSUME PlantInv, NEW i \in Items, NEW s \in Statuses, NEW l \in Lots
  PROVE  book[i].lotQty[s][l] \in Int
<1>1. BookOK(book[i])
  BY DEF PlantInv, StockInv, BooksOK
<1>. QED
  BY <1>1, BookFields

\* An inbound posting adds its slices to the sums of its bucket, and changes no other sums.
LEMMA LotsIn ==
  ASSUME NEW b, BookOK(b), NEW s \in Statuses, NEW slices, NEW q, NEW loc,
         NEW t \in Statuses, NEW l \in Lots
  PROVE  PostIn(b, s, slices, q, loc).lotQty[t][l] =
           IF t = s THEN b.lotQty[t][l] + slices[l] ELSE b.lotQty[t][l]
BY BookFields DEF PostIn

\* An outbound posting takes its slices from them.
LEMMA LotsOut ==
  ASSUME NEW b, BookOK(b), NEW s \in Statuses, NEW slices, NEW q, NEW pref,
         NEW defaults, NEW t \in Statuses, NEW l \in Lots
  PROVE  PostOut(b, s, slices, q, pref, defaults).lotQty[t][l] =
           IF t = s THEN b.lotQty[t][l] - slices[l] ELSE b.lotQty[t][l]
BY BookFields DEF PostOut

\* A posting without lots changes no sums of lots.
LEMMA NoLotsIn ==
  ASSUME NEW b, BookOK(b), NEW s \in Statuses, NEW q, NEW loc,
         NEW t \in Statuses, NEW l \in Lots
  PROVE  PostIn(b, s, NoSlices, q, loc).lotQty[t][l] = b.lotQty[t][l]
<1>1. NoSlices[l] = 0
  BY DEF NoSlices, Zero, Lots
<1>2. b.lotQty[t][l] \in Int
  BY BookFields
<1>. QED
  BY <1>1, <1>2, LotsIn

LEMMA NoLotsOut ==
  ASSUME NEW b, BookOK(b), NEW s \in Statuses, NEW q, NEW pref,
         NEW defaults, NEW t \in Statuses, NEW l \in Lots
  PROVE  PostOut(b, s, NoSlices, q, pref, defaults).lotQty[t][l] = b.lotQty[t][l]
<1>1. NoSlices[l] = 0
  BY DEF NoSlices, Zero, Lots
<1>2. b.lotQty[t][l] \in Int
  BY BookFields
<1>. QED
  BY <1>1, <1>2, LotsOut

\* Out of one bucket and into another under the same slices.
LEMMA MovedLots ==
  ASSUME NEW b, BookOK(b), NEW s \in Statuses, NEW u \in Statuses \ {s},
         NEW slices \in [Lots -> Int], NEW q \in Nat, Covers(b, s, q), NEW pref,
         NEW to \in Wheres, NEW defaults, NEW t \in Statuses, NEW l \in Lots
  PROVE  PostIn(PostOut(b, s, slices, q, pref, defaults), u, slices, q, to).lotQty[t][l] =
           CASE t = s -> b.lotQty[t][l] - slices[l]
             [] t = u -> b.lotQty[t][l] + slices[l]
             [] OTHER -> b.lotQty[t][l]
<1>. DEFINE c == PostOut(b, s, slices, q, pref, defaults)
<1>1. BookOK(c)
  BY PostOutOK
<1>2. c.lotQty[t][l] = IF t = s THEN b.lotQty[t][l] - slices[l] ELSE b.lotQty[t][l]
  BY LotsOut
<1>. HIDE DEF c
<1>3. PostIn(c, u, slices, q, to).lotQty[t][l] =
        IF t = u THEN c.lotQty[t][l] + slices[l] ELSE c.lotQty[t][l]
  BY <1>1, LotsIn
<1>. QED
  BY <1>2, <1>3 DEF c

\* A lot whose row stays, and of which stock leaves INV at most, stays traced.
LEMMA DrawnLot ==
  ASSUME PlantInv, NEW l \in Lots, TracedLot(l), lots'[l] = lots[l],
         \A i \in Items, s \in Statuses :
           \/ book'[i].lotQty[s][l] = book[i].lotQty[s][l]
           \/ /\ s = "INV" /\ book'[i].lotQty[s][l] \in Nat
              /\ book'[i].lotQty[s][l] <= book[i].lotQty[s][l]
  PROVE  TracedLot(l)'
<1>1. LotOK(lots[l])
  BY DEF PlantInv, LotsOK
<1>2. \A i \in Items, s \in Statuses : book[i].lotQty[s][l] \in Int
  BY LotQtyType
<1>3. "INV" \in Statuses /\ "WIP" \in Statuses /\ "QUARANTINE" \in Statuses
  BY DEF Statuses
<1>4. lots[l].item \in Items /\ lots[l].qty \in Nat /\ lots[l].packed \in Nat
  BY <1>1, LotFields
<1>5. \A i \in Items \ {lots[l].item}, s \in Statuses : book'[i].lotQty[s][l] = 0
  BY <1>2 DEF TracedLot
<1>6. lots[l].origin = "RECEIPT" => ReceiptTraced(l)'
  BY <1>2, <1>3, <1>4 DEF TracedLot, ReceiptTraced, InBucket
<1>7. lots[l].origin = "PRODUCTION" => ProductionTraced(l)'
  BY <1>2, <1>3, <1>4 DEF TracedLot, ProductionTraced, InBucket
<1>. QED
  BY <1>5, <1>6, <1>7 DEF TracedLot

\* Steps that create no lot and unmake none keep the order of creation.
LEMMA OrderKept ==
  ASSUME LotsInOrder, \A l \in Lots : lots'[l].qc = "NONE" <=> lots[l].qc = "NONE"
  PROVE  LotsInOrder'
BY DEF LotsInOrder

\* The rows of all lots stay, and stock leaves INV at most.
LEMMA DrawnLots ==
  ASSUME PlantInv, TraceInv, lots' = lots,
         \A l \in Lots, i \in Items, s \in Statuses :
           \/ book'[i].lotQty[s][l] = book[i].lotQty[s][l]
           \/ /\ s = "INV" /\ book'[i].lotQty[s][l] \in Nat
              /\ book'[i].lotQty[s][l] <= book[i].lotQty[s][l]
  PROVE  TraceInv'
<1>1. LotsInOrder'
  BY DEF TraceInv, LotsInOrder
<1>2. \A l \in Lots : TracedLot(l)'
  BY DrawnLot DEF TraceInv
<1>. QED
  BY <1>1, <1>2 DEF TraceInv

\* The operations of users on stock move no lot: their lines carry none.
LEMMA StockKeepsLots ==
  ASSUME StockInv, StockNext, NEW i \in Items, NEW s \in Statuses, NEW l \in Lots
  PROVE  book'[i].lotQty[s][l] = book[i].lotQty[s][l]
<1>1. \A j \in Items : BookOK(book[j])
  BY DEF StockInv, BooksOK
<1>2. book = [j \in Items |-> book[j]] /\ "INV" \in Statuses
  BY DEF StockInv, BooksOK, Statuses
<1>3. ASSUME NEW j \in Items, NEW q \in Quantity, AdjustIn(j, q)
      PROVE  book'[i].lotQty[s][l] = book[i].lotQty[s][l]
  BY <1>1, <1>2, <1>3, NoLotsIn DEF AdjustIn
<1>4. ASSUME NEW j \in Items, NEW q \in Quantity, AdjustOut(j, q)
      PROVE  book'[i].lotQty[s][l] = book[i].lotQty[s][l]
  BY <1>1, <1>2, <1>4, NoLotsOut DEF AdjustOut, AdjustedOut
<1>5. ASSUME NEW j \in Items, NEW q \in Quantity, NEW u \in Statuses, NEW loc \in Locs \cup {NoLoc},
             Scrap(j, u, q, loc)
      PROVE  book'[i].lotQty[s][l] = book[i].lotQty[s][l]
  BY <1>1, <1>2, <1>5, NoLotsOut DEF Scrap, ScrapFits, Scrapped
<1>6. ASSUME NEW j \in Items, NEW q \in Quantity, NEW u \in Located, NEW from \in Locs,
             NEW to \in Locs, MoveLocation(j, u, from, to, q)
      PROVE  book'[i].lotQty[s][l] = book[i].lotQty[s][l]
  BY <1>1, <1>2, <1>6, BookFields DEF MoveLocation, MoveFits, MovedRows
<1>7. CASE LocationStep
  BY <1>7 DEF LocationStep
<1>. QED
  BY <1>3, <1>4, <1>5, <1>6, <1>7 DEF StockNext, StockStep

\* Recording results changes no column that the trace reads.
LEMMA RecordResultsTraced ==
  ASSUME PlantInv, TraceInv, NEW l \in Lots, NEW results, RecordResults(l, results)
  PROVE  TraceInv'
<1>1. ASSUME NEW k \in Lots
      PROVE  /\ lots'[k].item = lots[k].item /\ lots'[k].origin = lots[k].origin
             /\ lots'[k].qty = lots[k].qty /\ lots'[k].packed = lots[k].packed
             /\ lots'[k].returned = lots[k].returned /\ lots'[k].qc = lots[k].qc
  BY LotFields DEF RecordResults, ResultsAfter, PlantInv, LotsOK
<1>2. book' = book
  BY DEF RecordResults, ResultsAfter
<1>3. LotsInOrder'
  BY <1>1, OrderKept DEF TraceInv
<1>4. ASSUME NEW k \in Lots
      PROVE  TracedLot(k)'
  <2>1. TracedLot(k)
    BY DEF TraceInv
  <2>. QED
    BY <1>1, <1>2, <2>1 DEF TracedLot, ReceiptTraced, ProductionTraced, InBucket
<1>. QED
  BY <1>3, <1>4 DEF TraceInv

\* Rejecting a lot moves nothing.
LEMMA RejectTraced ==
  ASSUME PlantInv, TraceInv, NEW l \in Lots, Reject(l)
  PROVE  TraceInv'
<1>1. LotOK(lots[l]) /\ lots[l].qc = "PENDING" /\ TracedLot(l)
  BY DEF PlantInv, LotsOK, Reject, TraceInv
<1>2. /\ lots' = [lots EXCEPT ![l] = [lots[l] EXCEPT !.qc = "REJECTED"]]
      /\ lots = [k \in Lots |-> lots[k]] /\ book' = book
  BY DEF Reject, PlantInv, LotsOK
<1>3. LotsInOrder'
  BY <1>1, <1>2, OrderKept, LotFields DEF TraceInv
<1>4. \A k \in Lots \ {l} : TracedLot(k)'
  BY <1>2, DrawnLot DEF TraceInv
<1>5. TracedLot(l)'
  <2>1. /\ lots'[l].item = lots[l].item /\ lots'[l].origin = lots[l].origin
        /\ lots'[l].qty = lots[l].qty /\ lots'[l].packed = lots[l].packed
        /\ lots'[l].returned = lots[l].returned /\ lots'[l].qc = "REJECTED"
    BY <1>1, <1>2, LotFields
  <2>2. lots[l].qty \in Nat /\ lots[l].returned = 0 /\ lots[l].packed \in Nat
    BY <1>1, LotFields DEF TracedLot
  <2>3. \A j \in Items \ {lots[l].item}, s \in Statuses : book'[j].lotQty[s][l] = 0
    BY <1>1, <1>2 DEF TracedLot
  <2>4. lots[l].origin = "RECEIPT" => ReceiptTraced(l)'
    BY <1>1, <1>2, <2>1, <2>2 DEF TracedLot, ReceiptTraced, InBucket
  <2>5. lots[l].origin = "PRODUCTION" => ProductionTraced(l)'
    BY <1>1, <1>2, <2>1, <2>2 DEF TracedLot, ProductionTraced, InBucket
  <2>. QED
    BY <2>1, <2>3, <2>4, <2>5 DEF TracedLot
<1>. QED
  BY <1>3, <1>4, <1>5 DEF TraceInv

\* An approved receipt goes into INV whole; an approved output stays where it is.
LEMMA ApproveTraced ==
  ASSUME PlantInv, TraceInv, NEW l \in Lots, Approve(l)
  PROVE  TraceInv'
<1>. DEFINE i == lots[l].item
            q == lots[l].qty
<1>1. LotOK(lots[l]) /\ lots[l].qc = "PENDING" /\ TracedLot(l)
  BY DEF PlantInv, LotsOK, Approve, TraceInv
<1>2. i \in Items /\ q \in Nat /\ lots[l].origin \in Origins
  BY <1>1, LotFields DEF LotOK, LotRows
<1>3. /\ lots' = [lots EXCEPT ![l] = [lots[l] EXCEPT !.qc = "APPROVED"]]
      /\ lots = [k \in Lots |-> lots[k]] /\ book = [j \in Items |-> book[j]]
  BY DEF Approve, PlantInv, LotsOK, StockInv, BooksOK
<1>4. /\ lots'[l].item = i /\ lots'[l].origin = lots[l].origin
      /\ lots'[l].qty = q /\ lots'[l].packed = lots[l].packed
      /\ lots'[l].returned = lots[l].returned /\ lots'[l].qc = "APPROVED"
  BY <1>1, <1>3, LotFields
<1>5. LotsInOrder'
  BY <1>1, <1>3, <1>4, OrderKept DEF TraceInv
<1>6. CASE lots[l].origin = "PRODUCTION"
  <2>1. book' = book
    BY <1>6 DEF Approve
  <2>2. \A k \in Lots \ {l} : TracedLot(k)'
    BY <1>3, <2>1, DrawnLot DEF TraceInv
  <2>3. TracedLot(l)'
    <3>1. ProductionTraced(l) /\ lots[l].packed \in Nat
      BY <1>1, <1>6, LotFields DEF TracedLot
    <3>2. ProductionTraced(l)'
      BY <1>1, <1>2, <1>4, <2>1, <3>1 DEF ProductionTraced, InBucket
    <3>3. \A j \in Items \ {i}, s \in Statuses : book'[j].lotQty[s][l] = 0
      BY <1>1, <2>1 DEF TracedLot
    <3>. QED
      BY <1>4, <1>6, <3>2, <3>3 DEF TracedLot
  <2>. QED
    BY <1>5, <2>2, <2>3 DEF TraceInv
<1>7. CASE lots[l].origin = "RECEIPT"
  <2>1. PICK to \in PutAway(l) :
          book' = [book EXCEPT ![i] =
            Transfer(@, "QUARANTINE", "INV", l, q, lots[l].loc, to, Defaults)]
    BY <1>7 DEF Approve
  <2>2. BookOK(book[i]) /\ Covers(book[i], "QUARANTINE", q) /\ to \in Wheres
    BY <1>2, <1>7, PutAwayType DEF PlantInv, StockInv, BooksOK, Approve
  <2>3. "QUARANTINE" \in Statuses /\ "INV" \in Statuses \ {"QUARANTINE"} /\ "WIP" \in Statuses
    BY DEF Statuses
  <2>. DEFINE slices == At(l, q, NumLots)
              b == Transfer(book[i], "QUARANTINE", "INV", l, q, lots[l].loc, to, Defaults)
  <2>4. slices \in [Lots -> Int] /\ slices[l] = q /\ \A k \in Lots \ {l} : slices[k] = 0
    BY <1>2 DEF At, Lots
  <2>5. ASSUME NEW k \in Lots, NEW s \in Statuses
        PROVE  b.lotQty[s][k] =
                 CASE s = "QUARANTINE" -> book[i].lotQty[s][k] - slices[k]
                   [] s = "INV" -> book[i].lotQty[s][k] + slices[k]
                   [] OTHER -> book[i].lotQty[s][k]
    <3>. HIDE DEF slices, i, q
    <3>1. b = PostIn(PostOut(book[i], "QUARANTINE", slices, q, lots[l].loc, Defaults),
                     "INV", slices, q, to)
      BY DEF Transfer, slices
    <3>. HIDE DEF b
    <3>. QED
      BY <1>2, <2>2, <2>3, <2>4, <3>1, MovedLots
  <2>6. book' = [book EXCEPT ![i] = b]
    BY <2>1
  <2>7. \A k \in Lots, j \in Items, s \in Statuses : book[j].lotQty[s][k] \in Int
    BY LotQtyType
  <2>. HIDE DEF b, slices
  <2>8. \A k \in Lots \ {l}, j \in Items, s \in Statuses :
          book'[j].lotQty[s][k] = book[j].lotQty[s][k]
    BY <1>2, <1>3, <2>4, <2>5, <2>6, <2>7
  <2>9. \A j \in Items \ {i}, s \in Statuses : book'[j].lotQty[s][l] = book[j].lotQty[s][l]
    BY <1>2, <1>3, <2>6
  <2>10. /\ book'[i].lotQty["QUARANTINE"][l] = book[i].lotQty["QUARANTINE"][l] - q
         /\ book'[i].lotQty["INV"][l] = book[i].lotQty["INV"][l] + q
         /\ book'[i].lotQty["WIP"][l] = book[i].lotQty["WIP"][l]
    BY <1>2, <1>3, <2>3, <2>4, <2>5, <2>6
  <2>11. \A k \in Lots \ {l} : TracedLot(k)'
    BY <1>3, <2>8, DrawnLot DEF TraceInv
  <2>12. /\ book[i].lotQty["QUARANTINE"][l] = q /\ book[i].lotQty["INV"][l] = 0
         /\ book[i].lotQty["WIP"][l] = 0
         /\ \A j \in Items \ {i}, s \in Statuses : book[j].lotQty[s][l] = 0
    BY <1>1, <1>7 DEF TracedLot, ReceiptTraced, InBucket
  <2>13. TracedLot(l)'
    <3>. HIDE DEF i, q
    <3>1. /\ book'[i].lotQty["QUARANTINE"][l] = 0 /\ book'[i].lotQty["INV"][l] \in 0..q
          /\ book'[i].lotQty["WIP"][l] = 0
      BY <1>2, <2>10, <2>12
    <3>2. \A j \in Items \ {i}, s \in Statuses : book'[j].lotQty[s][l] = 0
      BY <2>9, <2>12
    <3>. QED
      BY <1>4, <1>7, <3>1, <3>2 DEF TracedLot, ReceiptTraced, InBucket
  <2>. QED
    BY <1>5, <2>11, <2>13 DEF TraceInv
<1>. QED
  BY <1>2, <1>6, <1>7 DEF Origins

\* What goes back to the vendor leaves QUARANTINE under the lot.
LEMMA ReturnTraced ==
  ASSUME PlantInv, TraceInv, NEW l \in Lots, NEW q \in Quantity, ReturnToVendor(l, q)
  PROVE  TraceInv'
<1>. DEFINE i == lots[l].item
            slices == At(l, q, NumLots)
            b == PostOut(book[i], "QUARANTINE", slices, q, lots[l].loc, Defaults)
            returned == lots[l].returned + q
            qc == IF returned >= lots[l].qty THEN "RETURNED" ELSE lots[l].qc
<1>1. /\ LotOK(lots[l]) /\ lots[l].qc = "REJECTED" /\ lots[l].origin = "RECEIPT"
      /\ TracedLot(l) /\ q \in Nat
  BY StockAssumption DEF PlantInv, LotsOK, ReturnToVendor, ReturnFits, LotReturned, TraceInv
<1>2. i \in Items /\ lots[l].qty \in Nat /\ lots[l].returned \in Nat
  BY <1>1, LotFields
<1>3. /\ lots' = [lots EXCEPT ![l] = [lots[l] EXCEPT !.returned = returned, !.qc = qc]]
      /\ lots = [k \in Lots |-> lots[k]] /\ book = [j \in Items |-> book[j]]
      /\ book' = [book EXCEPT ![i] = b]
  BY DEF ReturnToVendor, ReturnFits, LotReturned, PlantInv, LotsOK, StockInv, BooksOK
<1>4. qc \in {"REJECTED", "RETURNED"}
  BY <1>1
<1>5. /\ lots'[l].item = i /\ lots'[l].origin = "RECEIPT" /\ lots'[l].qty = lots[l].qty
      /\ lots'[l].returned = returned /\ lots'[l].qc \in {"REJECTED", "RETURNED"}
  <2>1. lots'[l] = [lots[l] EXCEPT !.returned = returned, !.qc = qc]
    BY <1>3
  <2>2. lots[l] = [item |-> lots[l].item, origin |-> lots[l].origin, source |-> lots[l].source,
                   qty |-> lots[l].qty, packed |-> lots[l].packed, returned |-> lots[l].returned,
                   qc |-> lots[l].qc, tests |-> lots[l].tests, loc |-> lots[l].loc]
    BY <1>1, LotFields
  <2>. HIDE DEF qc, returned
  <2>. QED
    BY <1>1, <1>4, <2>1, <2>2
<1>6. LotsInOrder'
  <2>1. \A k \in Lots \ {l} : lots'[k] = lots[k]
    BY <1>3
  <2>. QED
    BY <1>1, <1>5, <2>1, OrderKept DEF TraceInv
<1>7. slices[l] = q /\ \A k \in Lots \ {l} : slices[k] = 0
  BY <1>1 DEF At, Lots
<1>8. ASSUME NEW k \in Lots, NEW s \in Statuses
      PROVE  b.lotQty[s][k] = IF s = "QUARANTINE" THEN book[i].lotQty[s][k] - slices[k]
                              ELSE book[i].lotQty[s][k]
  <2>1. BookOK(book[i]) /\ "QUARANTINE" \in Statuses
    BY <1>2 DEF PlantInv, StockInv, BooksOK, Statuses
  <2>. HIDE DEF slices, i
  <2>. QED
    BY <2>1, LotsOut
<1>9. \A k \in Lots, j \in Items, s \in Statuses : book[j].lotQty[s][k] \in Int
  BY LotQtyType
<1>. HIDE DEF b, slices
<1>10. \A k \in Lots \ {l}, j \in Items, s \in Statuses :
         book'[j].lotQty[s][k] = book[j].lotQty[s][k]
  BY <1>2, <1>3, <1>7, <1>8, <1>9
<1>11. \A k \in Lots \ {l} : TracedLot(k)'
  BY <1>3, <1>10, DrawnLot DEF TraceInv
<1>12. TracedLot(l)'
  <2>1. "INV" \in Statuses /\ "WIP" \in Statuses /\ "QUARANTINE" \in Statuses
    BY DEF Statuses
  <2>2. /\ book[i].lotQty["QUARANTINE"][l] = lots[l].qty - lots[l].returned
        /\ book[i].lotQty["INV"][l] = 0 /\ book[i].lotQty["WIP"][l] = 0
        /\ \A j \in Items \ {i}, s \in Statuses : book[j].lotQty[s][l] = 0
    BY <1>1, <1>2 DEF TracedLot, ReceiptTraced, InBucket
  <2>3. /\ book'[i].lotQty["QUARANTINE"][l] = lots[l].qty - returned
        /\ book'[i].lotQty["INV"][l] = 0 /\ book'[i].lotQty["WIP"][l] = 0
    BY <1>1, <1>2, <1>3, <1>7, <1>8, <2>1, <2>2
  <2>4. \A j \in Items \ {i}, s \in Statuses : book'[j].lotQty[s][l] = 0
    BY <1>2, <1>3, <2>2
  <2>. HIDE DEF i, returned
  <2>. QED
    BY <1>5, <2>3, <2>4 DEF TracedLot, ReceiptTraced, InBucket
<1>. QED
  BY <1>6, <1>11, <1>12 DEF TraceInv

\* Traceability follows the lot into INV: a slice leaves WIP and enters INV under it.
LEMMA PackOffTraced ==
  ASSUME PlantInv, TraceInv, NEW i \in Items, NEW q \in Quantity, PackOff(i, q)
  PROVE  TraceInv'
<1>. DEFINE slices == Take(Packable(i), NumLots, q)
            b == PostIn(PostOut(book[i], "WIP", slices, q, NoLoc, Defaults),
                        "INV", slices, q, ResolveInbound("INV"))
<1>1. \A l \in Lots : LotOK(lots[l]) /\ TracedLot(l)
  BY DEF PlantInv, LotsOK, TraceInv
<1>2. \A l \in 1..NumLots : Packable(i)[l] \in Int
  BY <1>1, LotFields DEF Packable, Lots
<1>3. q \in Nat /\ q \in Int
  BY StockAssumption
<1>4. /\ slices \in [Lots -> Nat]
      /\ \A l \in Lots : slices[l] <= Positive(Packable(i)[l])
  BY <1>2, <1>3, TakeBounds, NumLocsNat DEF Lots
<1>5. /\ lots' = [l \in Lots |-> [lots[l] EXCEPT !.packed = @ + slices[l]]]
      /\ book' = [book EXCEPT ![i] = b]
      /\ book = [j \in Items |-> book[j]]
  BY DEF PackOff, PlantInv, StockInv, BooksOK
<1>6. ASSUME NEW l \in Lots, NEW s \in Statuses
      PROVE  b.lotQty[s][l] =
               CASE s = "WIP" -> book[i].lotQty[s][l] - slices[l]
                 [] s = "INV" -> book[i].lotQty[s][l] + slices[l]
                 [] OTHER -> book[i].lotQty[s][l]
  <2>1. BookOK(book[i]) /\ Covers(book[i], "WIP", q)
    BY DEF PlantInv, StockInv, BooksOK, PackOff
  <2>2. "WIP" \in Statuses /\ "INV" \in Statuses \ {"WIP"}
    BY DEF Statuses
  <2>3. slices \in [Lots -> Int] /\ ResolveInbound("INV") \in Wheres
    BY <1>4, ResolveInboundType
  <2>. HIDE DEF slices
  <2>. QED
    BY <1>3, <2>1, <2>2, <2>3, MovedLots
<1>7. \A l \in Lots, j \in Items, s \in Statuses : book[j].lotQty[s][l] \in Int
  BY LotQtyType
<1>8. ASSUME NEW l \in Lots
      PROVE  IF lots[l].item = i /\ lots[l].origin = "PRODUCTION" /\ lots[l].qc = "APPROVED"
             THEN slices[l] <= lots[l].qty - lots[l].packed
             ELSE slices[l] = 0
  <2>1. slices[l] \in Nat /\ slices[l] <= Positive(Packable(i)[l])
    BY <1>4
  <2>2. lots[l].qty \in Nat /\ lots[l].packed \in Nat /\ lots[l].packed <= lots[l].qty
    BY <1>1, LotFields
  <2>. HIDE DEF slices
  <2>. QED
    BY <2>1, <2>2 DEF Packable, Positive
<1>. HIDE DEF b, slices
<1>9. ASSUME NEW l \in Lots
      PROVE  /\ lots'[l].item = lots[l].item /\ lots'[l].origin = lots[l].origin
             /\ lots'[l].qty = lots[l].qty /\ lots'[l].packed = lots[l].packed + slices[l]
             /\ lots'[l].returned = lots[l].returned /\ lots'[l].qc = lots[l].qc
  BY <1>1, <1>5, LotFields
<1>10. LotsInOrder'
  BY <1>9, OrderKept DEF TraceInv
<1>11. ASSUME NEW l \in Lots
       PROVE  TracedLot(l)'
  <2>1. LotOK(lots[l]) /\ TracedLot(l) /\ slices[l] \in Nat
    BY <1>1, <1>4
  <2>2. \A j \in Items \ {i}, s \in Statuses : book'[j].lotQty[s][l] = book[j].lotQty[s][l]
    BY <1>5
  <2>3. CASE slices[l] = 0
    <3>1. lots'[l].packed = lots[l].packed
      BY <1>9, <2>1, <2>3, LotFields
    <3>2. \A s \in Statuses : book'[i].lotQty[s][l] = book[i].lotQty[s][l]
      BY <1>5, <1>6, <1>7, <2>3
    <3>3. \A j \in Items, s \in Statuses : book'[j].lotQty[s][l] = book[j].lotQty[s][l]
      BY <2>2, <3>2
    <3>4. lots[l].item \in Items /\ "INV" \in Statuses /\ "WIP" \in Statuses /\ "QUARANTINE" \in Statuses
      BY <2>1, LotFields DEF Statuses
    <3>5. \A s \in {"INV", "WIP", "QUARANTINE"} : InBucket(s, l)' = InBucket(s, l)
      BY <1>9, <3>3, <3>4 DEF InBucket
    <3>6. ReceiptTraced(l) => ReceiptTraced(l)'
      BY <1>9, <3>5 DEF ReceiptTraced
    <3>7. ProductionTraced(l) => ProductionTraced(l)'
      BY <1>9, <3>1, <3>5 DEF ProductionTraced
    <3>8. \A j \in Items \ {lots'[l].item}, s \in Statuses : book'[j].lotQty[s][l] = 0
      BY <1>9, <2>1, <3>3 DEF TracedLot
    <3>. QED
      BY <1>9, <2>1, <3>6, <3>7, <3>8 DEF TracedLot
  <2>4. CASE slices[l] # 0
    <3>1. /\ lots[l].item = i /\ lots[l].origin = "PRODUCTION" /\ lots[l].qc = "APPROVED"
          /\ slices[l] <= lots[l].qty - lots[l].packed
      BY <1>8, <2>4
    <3>2. lots[l].qty \in Nat /\ lots[l].packed \in Nat
      BY <2>1, LotFields
    <3>3. /\ book[i].lotQty["QUARANTINE"][l] = 0
          /\ book[i].lotQty["WIP"][l] = lots[l].qty - lots[l].packed
          /\ book[i].lotQty["INV"][l] \in 0..lots[l].packed
          /\ \A j \in Items \ {i}, s \in Statuses : book[j].lotQty[s][l] = 0
      BY <2>1, <3>1 DEF TracedLot, ProductionTraced, InBucket
    <3>4. "INV" \in Statuses /\ "WIP" \in Statuses /\ "QUARANTINE" \in Statuses
      BY DEF Statuses
    <3>5. /\ book'[i].lotQty["QUARANTINE"][l] = 0
          /\ book'[i].lotQty["WIP"][l] = lots[l].qty - (lots[l].packed + slices[l])
          /\ book'[i].lotQty["INV"][l] \in 0..(lots[l].packed + slices[l])
      BY <1>5, <1>6, <2>1, <3>2, <3>3, <3>4
    <3>6. \A j \in Items \ {i}, s \in Statuses : book'[j].lotQty[s][l] = 0
      BY <2>2, <3>3
    <3>7. lots[l].packed + slices[l] \in 0..lots[l].qty
      BY <2>1, <3>1, <3>2
    <3>. QED
      BY <1>9, <3>1, <3>5, <3>6, <3>7 DEF TracedLot, ProductionTraced, InBucket
  <2>. QED
    BY <2>3, <2>4
<1>. QED
  BY <1>10, <1>11 DEF TraceInv

-----------------------------------------------------------------------------
\* No line of the ledger names a lot that does not exist yet.
LEMMA NoLotNoStock ==
  ASSUME PlantInv, TraceInv, NEW l \in Lots, lots[l].qc = "NONE",
         NEW i \in Items, NEW s \in Statuses
  PROVE  book[i].lotQty[s][l] = 0
<1>1. TracedLot(l) /\ LotOK(lots[l])
  BY DEF TraceInv, PlantInv, LotsOK
<1>2. ReceiptTraced(l)
  BY <1>1 DEF TracedLot
<1>3. \A u \in Statuses : InBucket(u, l) = 0
  BY <1>2 DEF ReceiptTraced, Statuses
<1>. QED
  BY <1>1, <1>3 DEF TracedLot, InBucket

\* Before any operation there is no lot, and no lot has stock.
LEMMA TraceInitOK ==
  ASSUME QualityInit
  PROVE  TraceInv
<1>1. \A i \in Items, s \in Statuses, l \in Lots : book[i].lotQty[s][l] = 0
  BY DEF QualityInit, StockInit, EmptyBook, Zero, Lots
<1>2. (CHOOSE i \in Items : TRUE) \in Items
  BY QualityAssumption
<1>3. ASSUME NEW l \in Lots
      PROVE  /\ lots[l].item \in Items /\ lots[l].origin = "RECEIPT" /\ lots[l].qty = 0
             /\ lots[l].returned = 0 /\ lots[l].qc = "NONE"
  BY <1>2 DEF QualityInit, NoLotRow
<1>4. "INV" \in Statuses /\ "WIP" \in Statuses /\ "QUARANTINE" \in Statuses
  BY DEF Statuses
<1>5. \A l \in Lots : TracedLot(l)
  BY <1>1, <1>3, <1>4 DEF TracedLot, ReceiptTraced, InBucket
<1>6. LotsInOrder
  BY <1>3 DEF LotsInOrder
<1>. QED
  BY <1>5, <1>6 DEF TraceInv

\* Every step on lots and stock keeps the lots traced.
LEMMA PlantStepTraced ==
  ASSUME PlantInv, TraceInv, PlantStep
  PROVE  TraceInv'
<1>1. CASE QualityStep
  BY <1>1, RecordResultsTraced, ApproveTraced, RejectTraced, ReturnTraced, PackOffTraced
     DEF QualityStep
<1>2. CASE StockNext /\ UNCHANGED lots
  BY <1>2, StockKeepsLots, DrawnLots DEF PlantInv
<1>. QED
  BY <1>1, <1>2 DEF PlantStep

\* A step that leaves lots and stock alone keeps them traced.
LEMMA TraceIdle ==
  ASSUME PlantInv, TraceInv, UNCHANGED <<book, lots>>
  PROVE  TraceInv'
BY DrawnLots

\* The next lot is the least number without a lot.
LEMMA NextLotFree ==
  ASSUME FreeLots # {}
  PROVE  NextLot \in FreeLots /\ \A k \in FreeLots : NextLot <= k
<1>1. FreeLots \in SUBSET Nat
  BY DEF FreeLots, Lots
<1>2. \E m \in FreeLots : \A k \in FreeLots : m <= k
  BY <1>1, LeastNumber
<1>. QED
  BY <1>2 DEF NextLot

\* What a lot is, where it came from and how much it was never changes.
SameLot(l) ==
  /\ lots'[l].item = lots[l].item /\ lots'[l].origin = lots[l].origin
  /\ lots'[l].source = lots[l].source /\ lots'[l].qty = lots[l].qty
  /\ lots'[l].qc = "NONE" <=> lots[l].qc = "NONE"

LEMMA PlantStepKeepsLots ==
  ASSUME PlantInv, PlantStep, NEW l \in Lots
  PROVE  SameLot(l)
<1>1. lots = [k \in Lots |-> lots[k]] /\ LotOK(lots[l])
  BY DEF PlantInv, LotsOK
<1>2. ASSUME NEW k \in Lots, NEW results, RecordResults(k, results)
      PROVE  SameLot(l)
  BY <1>1, <1>2, LotFields DEF RecordResults, ResultsAfter, SameLot
<1>3. ASSUME NEW k \in Lots, Approve(k)
      PROVE  SameLot(l)
  BY <1>1, <1>3, LotFields DEF Approve, SameLot
<1>4. ASSUME NEW k \in Lots, Reject(k)
      PROVE  SameLot(l)
  BY <1>1, <1>4, LotFields DEF Reject, SameLot
<1>5. ASSUME NEW k \in Lots, NEW q \in Quantity, ReturnToVendor(k, q)
      PROVE  SameLot(l)
  BY <1>1, <1>5, LotFields DEF ReturnToVendor, ReturnFits, LotReturned, SameLot
<1>6. ASSUME NEW i \in Items, NEW q \in Quantity, PackOff(i, q)
      PROVE  SameLot(l)
  <2>. DEFINE slices == Take(Packable(i), NumLots, q)
  <2>1. lots' = [k \in Lots |-> [lots[k] EXCEPT !.packed = @ + slices[k]]]
    BY <1>6 DEF PackOff
  <2>. HIDE DEF slices
  <2>. QED
    BY <1>1, <2>1, LotFields DEF SameLot
<1>7. CASE lots' = lots
  BY <1>7 DEF SameLot
<1>. QED
  BY <1>2, <1>3, <1>4, <1>5, <1>6, <1>7 DEF PlantStep, QualityStep

-----------------------------------------------------------------------------
\* The slices of an allocation are of eligible lots that have the stock, and no more than asked.
LEMMA FifoType ==
  ASSUME NEW b, BookOK(b), NEW q \in Nat, NEW eligible
  PROVE  LET slices == FifoSlices(b, "INV", q, eligible)
         IN  /\ slices \in [Lots -> Nat]
             /\ \A l \in Lots : slices[l] <= Positive(b.lotQty["INV"][l])
             /\ \A l \in Lots \ eligible : slices[l] = 0
             /\ Sum(slices, NumLots) \in Nat /\ Sum(slices, NumLots) <= q
<1>. DEFINE avail == [l \in Lots |-> IF l \in eligible THEN b.lotQty["INV"][l] ELSE 0]
            slices == Take(avail, NumLots, q)
<1>1. b.lotQty["INV"] \in [Lots -> Int]
  BY BookFields DEF Statuses
<1>2. /\ \A l \in 1..NumLots : avail[l] \in Int
      /\ \A l \in Lots : avail[l] = IF l \in eligible THEN b.lotQty["INV"][l] ELSE 0
  <2>1. Lots = 1..NumLots
    BY DEF Lots
  <2>2. \A l \in Lots : avail[l] = IF l \in eligible THEN b.lotQty["INV"][l] ELSE 0
    OBVIOUS
  <2>3. \A l \in Lots : b.lotQty["INV"][l] \in Int
    BY <1>1
  <2>. HIDE DEF avail
  <2>. QED
    BY <2>1, <2>2, <2>3
<1>3. q \in Int /\ NumLots \in Nat
  BY NumLocsNat
<1>. HIDE DEF avail
<1>4. slices \in [1..NumLots -> Nat] /\ \A l \in 1..NumLots : slices[l] <= Positive(avail[l])
  BY <1>2, <1>3, TakeBounds
<1>5. \A m \in 0..NumLots : Sum(slices, m) \in Nat
  <2>. HIDE DEF slices
  <2>. QED
    BY <1>3, <1>4, SumNat
<1>6. Sum(slices, NumLots) <= q
  <2>1. Sum(slices, NumLots) = MinOf(q, Sum(Available(avail, NumLots), NumLots))
    BY <1>2, <1>3, SumTake
  <2>2. \A l \in 1..NumLots : Available(avail, NumLots)[l] \in Int
    BY <1>2 DEF Available, Positive
  <2>3. Sum(Available(avail, NumLots), NumLots) \in Int
    BY <1>3, <2>2, SumInt
  <2>. QED
    BY <2>1, <2>3 DEF MinOf
<1>7. FifoSlices(b, "INV", q, eligible) = slices
  BY DEF FifoSlices, avail
<1>. HIDE DEF slices
<1>8. \A l \in Lots : slices[l] \in Nat /\ slices[l] <= Positive(avail[l])
  BY <1>4 DEF Lots
<1>9. \A l \in Lots : /\ slices[l] <= Positive(b.lotQty["INV"][l])
                      /\ l \notin eligible => slices[l] = 0
  BY <1>1, <1>2, <1>8 DEF Positive
<1>10. Sum(slices, NumLots) \in Nat
  BY <1>3, <1>5
<1>. QED
  BY <1>4, <1>6, <1>7, <1>9, <1>10 DEF Lots

\* Moving a component into WIP keeps its book good.
LEMMA StagedOK ==
  ASSUME NEW b, BookOK(b), NEW q \in Nat, Covers(b, "INV", q)
  PROVE  BookOK(Staged(b, q))
<1>. DEFINE slices == FifoSlices(b, "INV", q, Lots)
<1>1. slices \in [Lots -> Int]
  BY FifoType
<1>2. "INV" \in Statuses /\ "WIP" \in Statuses /\ NoLoc \in Wheres
  BY DEF Statuses, Wheres
<1>. HIDE DEF slices
<1>3. BookOK(PostIn(PostOut(b, "INV", slices, q, NoLoc, Defaults),
                    "WIP", NoSlices, q, NoLoc))
  BY <1>1, <1>2, NoSlicesType, OutThenInOK
<1>. QED
  BY <1>3 DEF Staged, slices

\* What staging does to the sums of the lots of a component.
LEMMA StagedLots ==
  ASSUME NEW b, BookOK(b), NEW q \in Nat, Covers(b, "INV", q),
         NEW s \in Statuses, NEW l \in Lots
  PROVE  Staged(b, q).lotQty[s][l] =
           IF s = "INV" THEN b.lotQty[s][l] - FifoSlices(b, "INV", q, Lots)[l]
           ELSE b.lotQty[s][l]
<1>. DEFINE slices == FifoSlices(b, "INV", q, Lots)
            c == PostOut(b, "INV", slices, q, NoLoc, Defaults)
<1>1. slices \in [Lots -> Int] /\ "INV" \in Statuses /\ "WIP" \in Statuses
  BY FifoType DEF Statuses
<1>. HIDE DEF slices
<1>2. BookOK(c)
  BY <1>1, PostOutOK
<1>3. c.lotQty[s][l] = IF s = "INV" THEN b.lotQty[s][l] - slices[l] ELSE b.lotQty[s][l]
  BY <1>1, LotsOut
<1>. HIDE DEF c
<1>4. PostIn(c, "WIP", NoSlices, q, NoLoc).lotQty[s][l] = c.lotQty[s][l]
  BY <1>1, <1>2, NoLotsIn
<1>. QED
  BY <1>3, <1>4 DEF Staged, c, slices

\* What opens the lot of an output: it enters WIP whole, the parts P leave WIP.
OpensLot(item, source, qty, P, out) ==
  /\ FreeLots # {}
  /\ \A i \in P : Covers(book[i], "WIP", out[i])
  /\ book' = [i \in Items |->
       IF i = item THEN PostIn(book[i], "WIP", At(NextLot, qty, NumLots), qty, NoLoc)
       ELSE IF i \in P THEN PostOut(book[i], "WIP", NoSlices, out[i], NoLoc, Defaults)
       ELSE book[i]]
  /\ lots' = [lots EXCEPT ![NextLot] = NewLot(item, "PRODUCTION", source, qty, NoLoc)]
  /\ UNCHANGED locs

\* It keeps the books and the lots good: the output comes in whole under a well-formed lot.
LEMMA OpensLotOK ==
  ASSUME PlantInv, NEW item \in Items, NEW source \in Nat \X Nat, NEW qty \in Nat,
         NEW P \in SUBSET Items, NEW out \in [Items -> Nat],
         OpensLot(item, source, qty, P, out)
  PROVE  PlantInv'
<1>. DEFINE output == At(NextLot, qty, NumLots)
            into(i) == PostIn(book[i], "WIP", output, qty, NoLoc)
            consume(i) == PostOut(book[i], "WIP", NoSlices, out[i], NoLoc, Defaults)
            f(i) == IF i = item THEN into(i) ELSE IF i \in P THEN consume(i) ELSE book[i]
            lot == NewLot(item, "PRODUCTION", source, qty, NoLoc)
<1>1. "WIP" \in Statuses /\ NoLoc \in Wheres /\ output \in [Lots -> Int]
  BY AtType DEF Statuses, Wheres
<1>2. ASSUME NEW i \in Items
      PROVE  BookOK(f(i))
  <2>1. BookOK(book[i])
    BY DEF PlantInv, StockInv, BooksOK
  <2>2. BookOK(into(i))
    <3>. HIDE DEF output
    <3>. QED
      BY <1>1, <2>1, PostInOK
  <2>3. ASSUME i \in P
        PROVE  BookOK(consume(i))
    <3>1. out[i] \in Nat /\ Covers(book[i], "WIP", out[i])
      BY <2>3 DEF OpensLot
    <3>. QED
      BY <1>1, <2>1, <3>1, NoSlicesType, PostOutOK
  <2>. HIDE DEF into, consume
  <2>. QED
    BY <2>1, <2>2, <2>3
<1>3. book' = [i \in Items |-> f(i)] /\ locs' = locs
  BY DEF OpensLot
<1>4. StockInv'
  <2>. HIDE DEF f
  <2>. QED
    BY <1>2, <1>3 DEF PlantInv, StockInv, BooksOK, LocationTypeOK
<1>5. LotOK(lot)
  <2>1. "PRODUCTION" \in Origins
    BY DEF Origins
  <2>. QED
    BY <1>1, <2>1, NewLotOK
<1>6. lots' = [lots EXCEPT ![NextLot] = lot]
  BY DEF OpensLot
<1>7. LotsOK(lots')
  <2>. HIDE DEF lot
  <2>. QED
    BY <1>5, <1>6 DEF PlantInv, LotsOK
<1>. QED
  BY <1>4, <1>7 DEF PlantInv

\* The ledger lines of the lots change in one place: lot n of the item is in WIP whole.
LotArrives(n, item, qty) ==
  \A i \in Items, s \in Statuses, k \in Lots :
    book'[i].lotQty[s][k] = IF i = item /\ s = "WIP" /\ k = n THEN qty ELSE book[i].lotQty[s][k]

\* What it does to the ledger lines of the lots: the new lot is in WIP whole.
LEMMA OpensLotLines ==
  ASSUME PlantInv, TraceInv, NEW item \in Items, NEW source \in Nat \X Nat, NEW qty \in Nat,
         NEW P \in SUBSET Items, NEW out \in [Items -> Nat],
         OpensLot(item, source, qty, P, out)
  PROVE  /\ NextLot \in Lots /\ lots[NextLot].qc = "NONE"
         /\ \A k \in Lots : NextLot > k => lots[k].qc # "NONE"
         /\ lots'[NextLot] = NewLot(item, "PRODUCTION", source, qty, NoLoc)
         /\ \A k \in Lots \ {NextLot} : lots'[k] = lots[k]
         /\ LotArrives(NextLot, item, qty)
<1>. DEFINE output == At(NextLot, qty, NumLots)
            into(i) == PostIn(book[i], "WIP", output, qty, NoLoc)
            consume(i) == PostOut(book[i], "WIP", NoSlices, out[i], NoLoc, Defaults)
<1>1. NextLot \in FreeLots /\ \A k \in FreeLots : NextLot <= k
  BY NextLotFree DEF OpensLot
<1>2. PICK n \in Lots : n = NextLot /\ n \in FreeLots /\ \A k \in FreeLots : n <= k
  BY <1>1 DEF FreeLots
<1>3. lots[n].qc = "NONE" /\ \A k \in Lots : n > k => lots[k].qc # "NONE"
  BY <1>2 DEF FreeLots, Lots
<1>4. /\ lots'[n] = NewLot(item, "PRODUCTION", source, qty, NoLoc)
      /\ \A k \in Lots \ {n} : lots'[k] = lots[k]
  BY <1>2 DEF OpensLot, PlantInv, LotsOK
<1>5. /\ \A i \in Items, s \in Statuses : book[i].lotQty[s][n] = 0
      /\ \A i \in Items, s \in Statuses, k \in Lots : book[i].lotQty[s][k] \in Int
  BY <1>3, NoLotNoStock, LotQtyType
<1>6. "WIP" \in Statuses /\ output[n] = qty /\ \A k \in Lots \ {n} : output[k] = 0
  BY <1>2 DEF At, Lots, Statuses
<1>7. ASSUME NEW i \in Items, NEW s \in Statuses, NEW k \in Lots
      PROVE  /\ into(i).lotQty[s][k] = IF s = "WIP" THEN book[i].lotQty[s][k] + output[k]
                                       ELSE book[i].lotQty[s][k]
             /\ consume(i).lotQty[s][k] = book[i].lotQty[s][k]
  <2>1. BookOK(book[i])
    BY DEF PlantInv, StockInv, BooksOK
  <2>. HIDE DEF output
  <2>. QED
    BY <1>6, <2>1, LotsIn, NoLotsOut
<1>8. book' = [i \in Items |-> IF i = item THEN into(i) ELSE IF i \in P THEN consume(i) ELSE book[i]]
  BY DEF OpensLot
<1>. HIDE DEF into, consume, output
<1>9. LotArrives(n, item, qty)
  BY <1>5, <1>6, <1>7, <1>8 DEF LotArrives
<1>. QED
  BY <1>2, <1>3, <1>4, <1>9

\* And it keeps the lots traced.
LEMMA OpensLotTraced ==
  ASSUME PlantInv, TraceInv, NEW item \in Items, NEW source \in Nat \X Nat, NEW qty \in Nat,
         NEW P \in SUBSET Items, NEW out \in [Items -> Nat],
         OpensLot(item, source, qty, P, out)
  PROVE  TraceInv'
<1>. DEFINE lot == NewLot(item, "PRODUCTION", source, qty, NoLoc)
<1>1. PICK n \in Lots :
         /\ lots[n].qc = "NONE" /\ \A k \in Lots : n > k => lots[k].qc # "NONE"
         /\ lots'[n] = lot /\ \A k \in Lots \ {n} : lots'[k] = lots[k]
         /\ LotArrives(n, item, qty)
  BY OpensLotLines
<1>. HIDE DEF lot
<1>2. /\ lot.item = item /\ lot.origin = "PRODUCTION" /\ lot.qty = qty
      /\ lot.packed = 0 /\ lot.returned = 0 /\ lot.qc = "PENDING"
  BY DEF lot, NewLot
<1>3. "INV" \in Statuses /\ "WIP" \in Statuses /\ "QUARANTINE" \in Statuses
  BY DEF Statuses
<1>4. ASSUME NEW k \in Lots \ {n}
      PROVE  TracedLot(k)'
  <2>1. \A i \in Items, s \in Statuses : book'[i].lotQty[s][k] = book[i].lotQty[s][k]
    BY <1>1 DEF LotArrives
  <2>2. lots'[k] = lots[k] /\ TracedLot(k)
    BY <1>1 DEF TraceInv
  <2>. QED
    BY <2>1, <2>2, DrawnLot
<1>5. \A i \in Items, s \in Statuses : book[i].lotQty[s][n] = 0
  BY <1>1, NoLotNoStock
<1>6. TracedLot(n)'
  <2>1. \A i \in Items \ {item}, s \in Statuses : book'[i].lotQty[s][n] = 0
    BY <1>1, <1>5 DEF LotArrives
  <2>2. \A s \in Statuses : book'[item].lotQty[s][n] = IF s = "WIP" THEN qty ELSE 0
    BY <1>1, <1>5 DEF LotArrives
  <2>3. ProductionTraced(n)'
    BY <1>1, <1>2, <1>3, <2>2 DEF ProductionTraced, InBucket
  <2>. QED
    BY <1>1, <1>2, <2>1, <2>3 DEF TracedLot
<1>7. LotsInOrder'
  <2>1. ASSUME NEW k \in Lots, NEW l \in Lots, k < l, lots'[k].qc = "NONE"
        PROVE  lots'[l].qc = "NONE"
    <3>1. k # n /\ lots[k].qc = "NONE"
      BY <1>1, <1>2, <2>1
    <3>2. lots[l].qc = "NONE"
      BY <2>1, <3>1 DEF TraceInv, LotsInOrder
    <3>3. l # n
      BY <1>1, <2>1, <3>1 DEF Lots
    <3>. QED
      BY <1>1, <3>2, <3>3
  <2>. QED
    BY <2>1 DEF LotsInOrder
<1>. QED
  BY <1>4, <1>6, <1>7 DEF TraceInv

-----------------------------------------------------------------------------
(***************************************************************************)
(* The part of a bucket that no lot accounts for, and what the steps on    *)
(* lots and stock do to it in WIP.                                         *)
(***************************************************************************)
LEMMA UnlottedType ==
  ASSUME PlantInv, NEW i \in Items, NEW s \in Statuses
  PROVE  book[i].unlotted[s] \in Int
<1>1. BookOK(book[i])
  BY DEF PlantInv, StockInv, BooksOK
<1>. QED
  BY <1>1, BookFields

LEMMA UnlottedIn ==
  ASSUME NEW b, BookOK(b), NEW s \in Statuses, NEW slices, NEW q, NEW loc, NEW t \in Statuses
  PROVE  PostIn(b, s, slices, q, loc).unlotted[t] =
           IF t = s THEN b.unlotted[t] + (q - Sum(slices, NumLots)) ELSE b.unlotted[t]
BY BookFields DEF PostIn

LEMMA UnlottedOut ==
  ASSUME NEW b, BookOK(b), NEW s \in Statuses, NEW slices, NEW q, NEW pref, NEW defaults,
         NEW t \in Statuses
  PROVE  PostOut(b, s, slices, q, pref, defaults).unlotted[t] =
           IF t = s THEN b.unlotted[t] - (q - Sum(slices, NumLots)) ELSE b.unlotted[t]
BY BookFields DEF PostOut

LEMMA NoSlicesSum == Sum(NoSlices, NumLots) = 0
<1>1. \A l \in 1..NumLots : NoSlices[l] = 0
  BY DEF NoSlices, Zero
<1>2. NumLots \in Nat /\ NumLots \in 0..NumLots
  BY NumLocsNat
<1>. QED
  BY <1>1, <1>2, SumZero

\* Out of WIP and into INV under lots that cover the quantity, or out of another bucket.
LEMMA MovedUnlotted ==
  ASSUME NEW b, BookOK(b), NEW s \in Statuses, NEW u \in Statuses \ {s}, u # "WIP",
         NEW slices \in [Lots -> Int], NEW q \in Nat, Covers(b, s, q), NEW pref,
         NEW to \in Wheres, NEW defaults, s = "WIP" => Sum(slices, NumLots) = q
  PROVE  PostIn(PostOut(b, s, slices, q, pref, defaults), u, slices, q, to).unlotted["WIP"]
           = b.unlotted["WIP"]
<1>. DEFINE c == PostOut(b, s, slices, q, pref, defaults)
<1>1. BookOK(c) /\ "WIP" \in Statuses
  BY PostOutOK DEF Statuses
<1>2. c.unlotted["WIP"] = b.unlotted["WIP"]
  <2>1. b.unlotted["WIP"] \in Int
    BY <1>1, BookFields
  <2>2. c.unlotted["WIP"] = IF "WIP" = s THEN b.unlotted["WIP"] - (q - Sum(slices, NumLots))
                            ELSE b.unlotted["WIP"]
    BY <1>1, UnlottedOut
  <2>. HIDE DEF c
  <2>. QED
    BY <2>1, <2>2
<1>. HIDE DEF c
<1>3. PostIn(c, u, slices, q, to).unlotted["WIP"] =
        IF "WIP" = u THEN c.unlotted["WIP"] + (q - Sum(slices, NumLots)) ELSE c.unlotted["WIP"]
  BY <1>1, UnlottedIn
<1>. QED
  BY <1>2, <1>3 DEF c

\* What is packed off is covered by the lots it is packed from.
LEMMA PackedWhole ==
  ASSUME PlantInv, NEW i \in Items, NEW q \in Nat, q <= Sum(Packable(i), NumLots)
  PROVE  /\ Take(Packable(i), NumLots, q) \in [Lots -> Nat]
         /\ Sum(Take(Packable(i), NumLots, q), NumLots) = q
<1>. DEFINE avail == Packable(i)
<1>1. ASSUME NEW l \in 1..NumLots
      PROVE  avail[l] \in Nat
  <2>1. l \in Lots /\ LotOK(lots[l])
    BY DEF PlantInv, LotsOK, Lots
  <2>2. lots[l].qty \in Nat /\ lots[l].packed \in Nat /\ lots[l].packed <= lots[l].qty
    BY <2>1, LotFields
  <2>3. avail[l] \in {0, lots[l].qty - lots[l].packed}
    BY <2>1 DEF Packable
  <2>. HIDE DEF avail
  <2>. QED
    BY <2>2, <2>3
<1>2. NumLots \in Nat /\ q \in Int /\ q <= Sum(avail, NumLots)
  BY NumLocsNat
<1>. HIDE DEF avail
<1>3. \A l \in 1..NumLots : avail[l] \in Int /\ Available(avail, NumLots)[l] = avail[l]
  BY <1>1 DEF Available, Positive
<1>4. Sum(Available(avail, NumLots), NumLots) = Sum(avail, NumLots)
  BY <1>2, <1>3, SumSame
<1>5. Sum(Take(avail, NumLots, q), NumLots) = q
  <2>1. Sum(Take(avail, NumLots, q), NumLots) = MinOf(q, Sum(Available(avail, NumLots), NumLots))
    BY <1>2, <1>3, SumTake
  <2>. QED
    BY <1>2, <1>4, <2>1 DEF MinOf
<1>6. Take(avail, NumLots, q) \in [Lots -> Nat]
  BY <1>2, <1>3, TakeBounds DEF Lots
<1>. QED
  BY <1>5, <1>6 DEF avail

\* The operations of users on stock only scrap from the part of WIP without lots.
LEMMA StockUnlotted ==
  ASSUME PlantInv, StockNext, NEW i \in Items
  PROVE  \/ book'[i].unlotted["WIP"] = book[i].unlotted["WIP"]
         \/ book'[i].unlotted["WIP"] < book[i].unlotted["WIP"]
<1>1. \A j \in Items : BookOK(book[j])
  BY DEF PlantInv, StockInv, BooksOK
<1>2. /\ book = [j \in Items |-> book[j]] /\ "INV" \in Statuses /\ "WIP" \in Statuses
      /\ book[i].unlotted["WIP"] \in Int
  BY UnlottedType DEF PlantInv, StockInv, BooksOK, Statuses
<1>3. ASSUME NEW j \in Items, NEW q \in Quantity, AdjustIn(j, q)
      PROVE  book'[i].unlotted["WIP"] = book[i].unlotted["WIP"]
  BY <1>1, <1>2, <1>3, UnlottedIn DEF AdjustIn
<1>4. ASSUME NEW j \in Items, NEW q \in Quantity, AdjustOut(j, q)
      PROVE  book'[i].unlotted["WIP"] = book[i].unlotted["WIP"]
  BY <1>1, <1>2, <1>4, UnlottedOut DEF AdjustOut, AdjustedOut
<1>5. ASSUME NEW j \in Items, NEW q \in Quantity, NEW u \in Statuses, NEW loc \in Locs \cup {NoLoc},
             Scrap(j, u, q, loc)
      PROVE  \/ book'[i].unlotted["WIP"] = book[i].unlotted["WIP"]
             \/ book'[i].unlotted["WIP"] < book[i].unlotted["WIP"]
  <2>1. q \in Nat
    BY StockAssumption
  <2>2. book'[i] = IF i = j THEN PostOut(book[i], u, NoSlices, q, loc, Defaults) ELSE book[i]
    BY <1>2, <1>5 DEF Scrap, ScrapFits, Scrapped
  <2>3. PostOut(book[i], u, NoSlices, q, loc, Defaults).unlotted["WIP"] =
          IF "WIP" = u THEN book[i].unlotted["WIP"] - (q - Sum(NoSlices, NumLots))
          ELSE book[i].unlotted["WIP"]
    BY <1>1, <1>2, UnlottedOut
  <2>. QED
    BY <1>2, <2>1, <2>2, <2>3, NoSlicesSum
<1>6. ASSUME NEW j \in Items, NEW q \in Quantity, NEW u \in Located, NEW from \in Locs,
             NEW to \in Locs, MoveLocation(j, u, from, to, q)
      PROVE  book'[i].unlotted["WIP"] = book[i].unlotted["WIP"]
  BY <1>1, <1>2, <1>6, BookFields DEF MoveLocation, MoveFits, MovedRows
<1>7. CASE LocationStep
  BY <1>7 DEF LocationStep
<1>. QED
  BY <1>3, <1>4, <1>5, <1>6, <1>7 DEF StockNext, StockStep

\* Quality control leaves it alone: what it moves through WIP it moves under lots.
LEMMA QualityUnlotted ==
  ASSUME PlantInv, QualityStep, NEW i \in Items
  PROVE  book'[i].unlotted["WIP"] = book[i].unlotted["WIP"]
<1>1. \A j \in Items : BookOK(book[j])
  BY DEF PlantInv, StockInv, BooksOK
<1>2. book = [j \in Items |-> book[j]] /\ Statuses = {"INV", "WIP", "QUARANTINE"}
  BY DEF PlantInv, StockInv, BooksOK, Statuses
<1>3. ASSUME NEW l \in Lots, Approve(l)
      PROVE  book'[i].unlotted["WIP"] = book[i].unlotted["WIP"]
  <2>1. CASE UNCHANGED book
    BY <2>1
  <2>2. CASE book' # book
    <3>1. PICK to \in PutAway(l) :
            book' = [book EXCEPT ![lots[l].item] =
              Transfer(@, "QUARANTINE", "INV", l, lots[l].qty, lots[l].loc, to, Defaults)]
      BY <1>3, <2>2 DEF Approve
    <3>2. Covers(book[lots[l].item], "QUARANTINE", lots[l].qty)
      BY <1>3, <2>2 DEF Approve
    <3>3. LotOK(lots[l]) /\ to \in Wheres
      BY PutAwayType DEF PlantInv, LotsOK
    <3>4. PICK q \in Nat : q = lots[l].qty
      BY <3>3, LotFields
    <3>5. At(l, q, NumLots) \in [Lots -> Int]
      BY DEF At, Lots
    <3>6. book'[i] = IF i = lots[l].item
                     THEN PostIn(PostOut(book[i], "QUARANTINE", At(l, q, NumLots), q,
                                         lots[l].loc, Defaults),
                                 "INV", At(l, q, NumLots), q, to)
                     ELSE book[i]
      BY <1>2, <3>1, <3>4 DEF Transfer
    <3>. QED
      BY <1>1, <1>2, <3>2, <3>3, <3>4, <3>5, <3>6, MovedUnlotted
  <2>. QED
    BY <2>1, <2>2
<1>4. ASSUME NEW l \in Lots, NEW q \in Quantity, ReturnToVendor(l, q)
      PROVE  book'[i].unlotted["WIP"] = book[i].unlotted["WIP"]
  BY <1>1, <1>2, <1>4, UnlottedOut DEF ReturnToVendor, ReturnFits, LotReturned
<1>5. ASSUME NEW j \in Items, NEW q \in Quantity, PackOff(j, q)
      PROVE  book'[i].unlotted["WIP"] = book[i].unlotted["WIP"]
  <2>1. q \in Nat /\ ResolveInbound("INV") \in Wheres
    BY StockAssumption, ResolveInboundType
  <2>2. PICK slices : slices = Take(Packable(j), NumLots, q)
    OBVIOUS
  <2>3. slices \in [Lots -> Int] /\ Sum(slices, NumLots) = q /\ Covers(book[j], "WIP", q)
    BY <1>5, <2>1, <2>2, PackedWhole DEF PackOff
  <2>4. book'[i] = IF i = j THEN PostIn(PostOut(book[i], "WIP", slices, q, NoLoc, Defaults),
                                        "INV", slices, q, ResolveInbound("INV"))
                   ELSE book[i]
    BY <1>2, <1>5, <2>2 DEF PackOff
  <2>. QED
    BY <1>1, <1>2, <2>1, <2>3, <2>4, MovedUnlotted
<1>6. CASE UNCHANGED book
  BY <1>6
<1>. QED
  BY <1>3, <1>4, <1>5, <1>6 DEF QualityStep, RecordResults, ResultsAfter, Reject
-----------------------------------------------------------------------------
(***************************************************************************)
(* Cycle counts.  An adjustment that names its leaf reaches that row and   *)
(* no other, so posting the lines of a sheet one after the other brings    *)
(* each counted row to what was counted.                                   *)
(***************************************************************************)
\* What is at most in the preferred row is taken from it alone.
LEMMA RemovePreferred ==
  ASSUME NEW c \in Columns, NEW k \in Locs, NEW q \in Nat, q <= c[k], NEW defaults
  PROVE  \A j \in Locs : Remove(c, q, k, defaults)[j] = IF j = k THEN c[j] - q ELSE c[j]
<1>. USE NumLocsNat
<1>. DEFINE A == {k}
            B == defaults \ {k}
            C == Locs \ (defaults \cup {k})
            first == Take(Rows(c, A), NumLocs, q)
            left1 == q - Sum(first, NumLocs)
            second == Take(Rows(c, B), NumLocs, left1)
            left2 == left1 - Sum(second, NumLocs)
            third == Take(Rows(c, C), NumLocs, left2)
<1>1. \A j \in Locs : c[j] \in Nat
  BY DEF Columns
<1>2. /\ first \in Columns
      /\ \A j \in Locs : first[j] <= Rows(c, A)[j]
      /\ Sum(first, NumLocs) = MinOf(q, Sum(Rows(c, A), NumLocs))
  BY TakeRows
<1>3. Sum(Rows(c, A), NumLocs) = c[k]
  <2>. DEFINE a == At(k, c[k], NumLocs)
  <2>1. Rows(c, A) = a
    BY DEF Rows, At, Locs
  <2>2. k \in Int /\ c[k] \in Int /\ k \in 1..NumLocs
    BY <1>1 DEF Locs
  <2>. HIDE DEF a
  <2>3. Sum(a, NumLocs) = c[k]
    BY <2>2, SumAt DEF a
  <2>. QED
    BY <2>1, <2>3
<1>4. Sum(first, NumLocs) = q
  <2>. HIDE DEF first
  <2>. QED
    BY <1>1, <1>2, <1>3 DEF MinOf
<1>5. \A j \in Locs : first[j] = IF j = k THEN q ELSE 0
  <2>1. \A j \in Locs : first[j] \in Nat /\ (j # k => first[j] = 0)
    <3>1. \A j \in Locs : j # k => Rows(c, A)[j] = 0
      BY DEF Rows
    <3>. HIDE DEF first, A
    <3>. QED
      BY <1>2, <3>1 DEF Columns
  <2>2. Rows(first, A) = At(k, first[k], NumLocs)
    <3>. HIDE DEF first
    <3>. QED
      BY DEF Rows, At, Locs
  <2>3. first = At(k, first[k], NumLocs)
    <3>. HIDE DEF first
    <3>1. first = [j \in Locs |-> first[j]]
      BY <1>2 DEF Columns
    <3>2. \A j \in Locs : first[j] = IF j = k THEN first[k] ELSE 0
      BY <2>1
    <3>. QED
      BY <3>1, <3>2 DEF At, Locs
  <2>4. first[k] \in Int /\ k \in Int /\ k \in 1..NumLocs
    <3>. HIDE DEF first
    <3>. QED
      BY <2>1 DEF Locs
  <2>5. Sum(first, NumLocs) = first[k]
    <3>. HIDE DEF first
    <3>. DEFINE v == first[k]
    <3>1. v \in Int /\ k \in Int /\ k \in 1..NumLocs /\ first = At(k, v, NumLocs)
      BY <2>3, <2>4
    <3>. HIDE DEF v
    <3>2. Sum(At(k, v, NumLocs), NumLocs) = v
      BY <3>1, SumAt
    <3>. QED
      BY <3>1, <3>2 DEF v
  <2>. HIDE DEF first
  <2>. QED
    BY <1>4, <2>1, <2>5
<1>6. ASSUME NEW S
      PROVE  \A j \in Locs : Take(Rows(c, S), NumLocs, 0)[j] = 0
  <2>. DEFINE t == Take(Rows(c, S), NumLocs, 0)
  <2>1. /\ t \in Columns /\ Sum(t, NumLocs) = MinOf(0, Sum(Rows(c, S), NumLocs))
        /\ Sum(Rows(c, S), NumLocs) \in Nat
    <3>1. 0 \in Nat
      OBVIOUS
    <3>. QED
      BY <3>1, TakeRows
  <2>2. Sum(t, NumLocs) = 0
    <3>. HIDE DEF t
    <3>. QED
      BY <2>1 DEF MinOf
  <2>. HIDE DEF t
  <2>3. \A j \in Locs : t[j] \in Nat /\ t[j] <= 0
    BY <2>1, <2>2, RowWithinSum DEF Columns
  <2>4. \A j \in Locs : t[j] = 0
    BY <2>3
  <2>. QED
    BY <2>4 DEF t
<1>7. left1 = 0
  <2>. HIDE DEF first
  <2>. QED
    BY <1>4
<1>8. \A j \in Locs : second[j] = 0
  <2>. HIDE DEF left1
  <2>. QED
    BY <1>6, <1>7
<1>9. left2 = 0
  <2>1. Sum(second, NumLocs) = 0
    <3>1. \A j \in 1..NumLocs : second[j] = 0
      BY <1>8 DEF Locs
    <3>2. NumLocs \in 0..NumLocs
      OBVIOUS
    <3>. HIDE DEF second
    <3>. QED
      BY <3>1, <3>2, SumZero
  <2>. HIDE DEF left1, second
  <2>. QED
    BY <1>7, <2>1
<1>10. \A j \in Locs : third[j] = 0
  <2>. HIDE DEF left2
  <2>. QED
    BY <1>6, <1>9
<1>11. Remove(c, q, k, defaults) = [j \in Locs |-> c[j] - first[j] - second[j] - third[j]]
  BY DEF Remove
<1>. HIDE DEF first, second, third
<1>. QED
  BY <1>1, <1>5, <1>8, <1>10, <1>11

\* An adjustment to q brings the row to q and leaves the other rows alone.
LEMMA AdjustedOK ==
  ASSUME NEW b, BookOK(b), NEW s \in Located, NEW k \in Locs, NEW q \in Nat
  PROVE  /\ BookOK(Adjusted(b, s, k, q))
         /\ \A t \in Located, j \in Locs :
              Adjusted(b, s, k, q).cell[t][j] = IF t = s /\ j = k THEN q ELSE b.cell[t][j]
<1>. DEFINE c == b.cell[s]
<1>1. /\ s \in Statuses /\ c \in Columns /\ Sum(c, NumLocs) <= b.onHand[s]
      /\ c[k] \in Nat /\ b.onHand[s] \in Nat
  <2>1. s \in Statuses
    BY DEF Located, Statuses
  <2>2. c \in Columns /\ Sum(c, NumLocs) <= b.onHand[s] /\ b.onHand[s] \in Nat
    BY <2>1, BookFields
  <2>. QED
    BY <2>1, <2>2 DEF Columns
<1>2. CASE q >= c[k]
  <2>. DEFINE d == q - c[k]
  <2>1. Adjusted(b, s, k, q) = PostIn(b, s, NoSlices, d, k)
    BY <1>2 DEF Adjusted
  <2>2. d \in Nat /\ c[k] + d = q /\ k \in Wheres
    BY <1>1, <1>2 DEF Wheres
  <2>. HIDE DEF d
  <2>3. BookOK(PostIn(b, s, NoSlices, d, k))
    BY <1>1, <2>2, NoSlicesType, PostInOK
  <2>4. ASSUME NEW t \in Located, NEW j \in Locs
        PROVE  PostIn(b, s, NoSlices, d, k).cell[t][j] = IF t = s /\ j = k THEN q ELSE b.cell[t][j]
    BY <2>2 DEF PostIn, Place
  <2>. QED
    BY <2>1, <2>3, <2>4
<1>3. CASE ~ q >= c[k]
  <2>. DEFINE d == c[k] - q
  <2>1. Adjusted(b, s, k, q) = PostOut(b, s, NoSlices, d, k, Defaults)
    BY <1>3 DEF Adjusted
  <2>2. d \in Nat /\ c[k] - d = q /\ d <= c[k]
    BY <1>1, <1>3
  <2>3. c[k] <= Sum(c, NumLocs) /\ Sum(c, NumLocs) \in Int
    <3>. HIDE DEF c
    <3>1. \A j \in 1..NumLocs : c[j] \in Int
      BY <1>1 DEF Columns, Locs
    <3>2. NumLocs \in Nat /\ NumLocs \in 0..NumLocs
      BY NumLocsNat
    <3>3. Sum(c, NumLocs) \in Int
      BY <3>1, <3>2, SumInt
    <3>. QED
      BY <1>1, <3>3, RowWithinSum
  <2>. HIDE DEF d
  <2>4. Covers(b, s, d)
    <3>. HIDE DEF c
    <3>. QED
      BY <1>1, <2>2, <2>3 DEF Covers
  <2>5. BookOK(PostOut(b, s, NoSlices, d, k, Defaults))
    BY <1>1, <2>2, <2>4, NoSlicesType, PostOutOK
  <2>6. \A j \in Locs : Remove(c, d, k, Defaults)[j] = IF j = k THEN c[j] - d ELSE c[j]
    <3>. HIDE DEF c
    <3>. QED
      BY <1>1, <2>2, RemovePreferred
  <2>7. ASSUME NEW t \in Located, NEW j \in Locs
        PROVE  PostOut(b, s, NoSlices, d, k, Defaults).cell[t][j]
                 = IF t = s /\ j = k THEN q ELSE b.cell[t][j]
    <3>1. PostOut(b, s, NoSlices, d, k, Defaults).cell[t]
            = IF t = s THEN Remove(c, d, k, Defaults) ELSE b.cell[t]
      BY DEF PostOut
    <3>. QED
      BY <2>2, <2>6, <3>1
  <2>. QED
    BY <2>1, <2>5, <2>7
<1>. QED
  BY <1>2, <1>3

(***************************************************************************)
(* The books between the lines of a sheet, built like the sums of          *)
(* QuantitiesProofs.                                                       *)
(***************************************************************************)
LeafStep(c, i, s, b, g, k) == IF k = 0 THEN b ELSE AfterLeaf(c, i, s, k, g[k - 1])

PartialLeaves(c, i, s, b, g, n) == g = [k \in 0..n |-> LeafStep(c, i, s, b, g, k)]

LEMMA PartialLeavesExist ==
  ASSUME NEW c, NEW i, NEW s, NEW b
  PROVE  \A n \in Nat : \E g : PartialLeaves(c, i, s, b, g, n)
<1>. DEFINE S == {n \in Nat : \E g : PartialLeaves(c, i, s, b, g, n)}
<1>1. 0 \in S
  <2>. DEFINE g == [k \in 0..0 |-> b]
  <2>1. g = [k \in 0..0 |-> LeafStep(c, i, s, b, g, k)]
    BY DEF LeafStep
  <2>. QED
    BY <2>1 DEF PartialLeaves
<1>2. ASSUME NEW n \in Nat, n \in S
      PROVE  n + 1 \in S
  <2>1. PICK g : PartialLeaves(c, i, s, b, g, n)
    BY <1>2
  <2>. DEFINE h == [k \in 0..(n + 1) |->
                      IF k = n + 1 THEN AfterLeaf(c, i, s, n + 1, g[n]) ELSE g[k]]
              e == [k \in 0..(n + 1) |-> LeafStep(c, i, s, b, h, k)]
  <2>2. ASSUME NEW k \in 0..(n + 1)
        PROVE  h[k] = LeafStep(c, i, s, b, h, k)
    <3>1. CASE k = n + 1
      <4>1. h[k - 1] = g[n] /\ k # 0
        BY <3>1
      <4>. QED
        BY <3>1, <4>1 DEF LeafStep
    <3>2. CASE k \in 0..n
      <4>1. g[k] = LeafStep(c, i, s, b, g, k)
        BY <2>1, <3>2 DEF PartialLeaves
      <4>2. k # 0 => h[k - 1] = g[k - 1]
        BY <3>2
      <4>3. h[k] = g[k]
        BY <3>2
      <4>. QED
        BY <4>1, <4>2, <4>3 DEF LeafStep
    <3>. QED
      BY <3>1, <3>2
  <2>3. h = e
    <3>1. DOMAIN h = DOMAIN e /\ \A k \in DOMAIN h : h[k] = e[k]
      BY <2>2
    <3>2. h = [k \in DOMAIN h |-> h[k]] /\ e = [k \in DOMAIN e |-> e[k]]
      OBVIOUS
    <3>. QED
      BY <3>1, <3>2
  <2>4. PartialLeaves(c, i, s, b, h, n + 1)
    <3>1. h = [k \in 0..(n + 1) |-> LeafStep(c, i, s, b, h, k)]
      BY <2>3
    <3>. HIDE DEF h
    <3>. QED
      BY <3>1 DEF PartialLeaves
  <2>. HIDE DEF h
  <2>. QED
    BY <2>4
<1>3. \A n \in Nat : n \in S
  <2>. HIDE DEF S
  <2>. QED
    BY <1>1, <1>2, SetInduction
<1>. QED
  BY <1>3

LEMMA AfterLeavesUnfold ==
  ASSUME NEW c, NEW i, NEW s, NEW b
  PROVE  /\ AfterLeaves(c, i, s, b)[0] = b
         /\ \A k \in 1..NumLocs :
              AfterLeaves(c, i, s, b)[k] = AfterLeaf(c, i, s, k, AfterLeaves(c, i, s, b)[k - 1])
<1>. DEFINE IsAfter(a) ==
              a = [k \in 0..NumLocs |-> IF k = 0 THEN b ELSE AfterLeaf(c, i, s, k, a[k - 1])]
            after == CHOOSE a : IsAfter(a)
<1>1. PICK g : PartialLeaves(c, i, s, b, g, NumLocs)
  BY PartialLeavesExist, NumLocsNat
<1>2. IsAfter(g)
  BY <1>1 DEF PartialLeaves, LeafStep
<1>3. IsAfter(after)
  <2>. HIDE DEF IsAfter
  <2>. QED
    BY <1>2
<1>4. AfterLeaves(c, i, s, b) = after
  BY DEF AfterLeaves
<1>. HIDE DEF after
<1>5. after[0] = b /\ \A k \in 1..NumLocs : after[k] = AfterLeaf(c, i, s, k, after[k - 1])
  <2>1. 0 \in 0..NumLocs /\ \A k \in 1..NumLocs : k \in 0..NumLocs /\ k # 0
    BY NumLocsNat
  <2>. QED
    BY <1>3, <2>1
<1>. QED
  BY <1>4, <1>5

(***************************************************************************)
(* The rows of the counts, and the invariant.                              *)
(***************************************************************************)
CountOK(r) ==
  /\ DOMAIN r = {"status", "items", "leaves", "lines"}
  /\ r.status \in {"NONE", "OPEN", "COMPLETED", "CANCELLED"}
  /\ r.items \subseteq Items /\ r.leaves \subseteq Locs
  /\ DOMAIN r.lines \subseteq CountRows
  /\ \A row \in DOMAIN r.lines : r.lines[row] \in Nat \cup {Uncounted}

CountsOK == DOMAIN counts = CycleCountIds /\ \A c \in CycleCountIds : CountOK(counts[c])

CountInv == StockInv /\ CountsOK

\* What was counted of the rows of bucket s of item i up to leaf k.
CountedUpTo(c, i, s, b, k, a) ==
  /\ BookOK(a)
  /\ \A t \in Located, j \in Locs :
       a.cell[t][j] = IF t = s /\ j <= k /\ CountedOn(c, <<i, s, j>>)
                      THEN counts[c].lines[<<i, s, j>>] ELSE b.cell[t][j]

LEMMA AfterLeafOK ==
  ASSUME CountsOK, NEW c \in CycleCountIds, NEW i \in Items, NEW s \in Located,
         NEW b, NEW k \in Nat, k + 1 \in Locs, NEW a, CountedUpTo(c, i, s, b, k, a)
  PROVE  CountedUpTo(c, i, s, b, k + 1, AfterLeaf(c, i, s, k + 1, a))
<1>. DEFINE row == <<i, s, k + 1>>
            q == counts[c].lines[row]
            d == AfterLeaf(c, i, s, k + 1, a)
<1>1. \A j \in Locs : j \in Nat
  BY DEF Locs
<1>2. BookOK(a)
  BY DEF CountedUpTo
<1>3. CASE CountedOn(c, row)
  <2>1. q \in Nat
    BY <1>3 DEF CountsOK, CountOK, CountedOn
  <2>2. d = Adjusted(a, s, k + 1, q)
    BY <1>3 DEF AfterLeaf
  <2>. HIDE DEF q, d
  <2>3. /\ BookOK(d)
        /\ \A t \in Located, j \in Locs :
             d.cell[t][j] = IF t = s /\ j = k + 1 THEN q ELSE a.cell[t][j]
    BY <1>2, <2>1, <2>2, AdjustedOK
  <2>4. ASSUME NEW t \in Located, NEW j \in Locs
        PROVE  d.cell[t][j] = IF t = s /\ j <= k + 1 /\ CountedOn(c, <<i, s, j>>)
                              THEN counts[c].lines[<<i, s, j>>] ELSE b.cell[t][j]
    <3>1. a.cell[t][j] = IF t = s /\ j <= k /\ CountedOn(c, <<i, s, j>>)
                         THEN counts[c].lines[<<i, s, j>>] ELSE b.cell[t][j]
      BY DEF CountedUpTo
    <3>2. CASE t = s /\ j = k + 1
      BY <1>3, <2>3, <3>2 DEF q
    <3>3. CASE ~ (t = s /\ j = k + 1)
      <4>1. d.cell[t][j] = a.cell[t][j]
        BY <2>3, <3>3
      <4>2. t = s => (j <= k + 1 <=> j <= k)
        BY <1>1, <3>3
      <4>. QED
        BY <3>1, <4>1, <4>2
    <3>. QED
      BY <3>2, <3>3
  <2>5. CountedUpTo(c, i, s, b, k + 1, d)
    BY <2>3, <2>4 DEF CountedUpTo
  <2>. QED
    BY <2>5 DEF d
<1>4. CASE ~ CountedOn(c, row)
  <2>1. d = a
    BY <1>4 DEF AfterLeaf
  <2>. HIDE DEF d
  <2>2. ASSUME NEW t \in Located, NEW j \in Locs
        PROVE  a.cell[t][j] = IF t = s /\ j <= k + 1 /\ CountedOn(c, <<i, s, j>>)
                              THEN counts[c].lines[<<i, s, j>>] ELSE b.cell[t][j]
    <3>1. a.cell[t][j] = IF t = s /\ j <= k /\ CountedOn(c, <<i, s, j>>)
                         THEN counts[c].lines[<<i, s, j>>] ELSE b.cell[t][j]
      BY DEF CountedUpTo
    <3>2. j <= k + 1 <=> j <= k \/ j = k + 1
      BY <1>1
    <3>. QED
      BY <1>4, <3>1, <3>2
  <2>3. CountedUpTo(c, i, s, b, k + 1, a)
    BY <1>2, <2>2 DEF CountedUpTo
  <2>. QED
    BY <2>1, <2>3 DEF d
<1>. QED
  BY <1>3, <1>4

LEMMA AfterLeavesOK ==
  ASSUME CountsOK, NEW c \in CycleCountIds, NEW i \in Items, NEW s \in Located,
         NEW b, BookOK(b)
  PROVE  /\ CountedUpTo(c, i, s, b, NumLocs, AfterLeaves(c, i, s, b)[NumLocs])
         /\ \A k \in 0..NumLocs : CountedUpTo(c, i, s, b, k, AfterLeaves(c, i, s, b)[k])
<1>. DEFINE after == AfterLeaves(c, i, s, b)
            S == {k \in Nat : k <= NumLocs => CountedUpTo(c, i, s, b, k, after[k])}
<1>1. /\ after[0] = b
      /\ \A k \in 1..NumLocs : after[k] = AfterLeaf(c, i, s, k, after[k - 1])
  BY AfterLeavesUnfold
<1>. HIDE DEF after
<1>2. 0 \in S
  <2>1. \A j \in Locs : ~ j <= 0
    BY DEF Locs
  <2>2. CountedUpTo(c, i, s, b, 0, b)
    BY <2>1 DEF CountedUpTo
  <2>. QED
    BY <1>1, <2>2
<1>3. ASSUME NEW k \in Nat, k \in S
      PROVE  k + 1 \in S
  <2>. SUFFICES ASSUME k + 1 <= NumLocs
                PROVE  CountedUpTo(c, i, s, b, k + 1, after[k + 1])
    OBVIOUS
  <2>1. k + 1 \in 1..NumLocs /\ k + 1 \in Locs /\ (k + 1) - 1 = k /\ k <= NumLocs
    BY NumLocsNat DEF Locs
  <2>2. CountedUpTo(c, i, s, b, k, after[k])
    BY <1>3, <2>1
  <2>3. after[k + 1] = AfterLeaf(c, i, s, k + 1, after[k])
    BY <1>1, <2>1
  <2>4. CountedUpTo(c, i, s, b, k + 1, AfterLeaf(c, i, s, k + 1, after[k]))
    BY <2>1, <2>2, AfterLeafOK
  <2>. QED
    BY <2>3, <2>4
<1>4. \A k \in Nat : k \in S
  <2>. HIDE DEF S
  <2>. QED
    BY <1>2, <1>3, SetInduction
<1>5. NumLocs \in Nat /\ NumLocs <= NumLocs
  BY NumLocsNat
<1>6. \A k \in 0..NumLocs : CountedUpTo(c, i, s, b, k, after[k])
  BY <1>4, <1>5
<1>. QED
  BY <1>4, <1>5, <1>6 DEF after

\* Both buckets of an item, counted.
LEMMA ReconciledOK ==
  ASSUME CountsOK, NEW c \in CycleCountIds, NEW i \in Items, BookOK(book[i])
  PROVE  /\ BookOK(Reconciled(c, i))
         /\ \A s \in Located, k \in Locs :
              Reconciled(c, i).cell[s][k] = IF CountedOn(c, <<i, s, k>>)
                                            THEN counts[c].lines[<<i, s, k>>]
                                            ELSE book[i].cell[s][k]
<1>. DEFINE b == AfterLeaves(c, i, "INV", book[i])[NumLocs]
            d == AfterLeaves(c, i, "QUARANTINE", b)[NumLocs]
<1>1. Located = {"INV", "QUARANTINE"} /\ \A k \in Locs : k <= NumLocs
  BY DEF Located, Locs
<1>2. CountedUpTo(c, i, "INV", book[i], NumLocs, b)
  BY <1>1, AfterLeavesOK
<1>3. BookOK(b)
  BY <1>2 DEF CountedUpTo
<1>4. CountedUpTo(c, i, "QUARANTINE", b, NumLocs, d)
  <2>. HIDE DEF b
  <2>. QED
    BY <1>1, <1>3, AfterLeavesOK
<1>5. Reconciled(c, i) = d
  BY DEF Reconciled
<1>. HIDE DEF b, d
<1>6. BookOK(d)
  BY <1>4 DEF CountedUpTo
<1>7. ASSUME NEW s \in Located, NEW k \in Locs
      PROVE  d.cell[s][k] = IF CountedOn(c, <<i, s, k>>)
                            THEN counts[c].lines[<<i, s, k>>] ELSE book[i].cell[s][k]
  <2>1. b.cell[s][k] = IF s = "INV" /\ CountedOn(c, <<i, "INV", k>>)
                       THEN counts[c].lines[<<i, "INV", k>>] ELSE book[i].cell[s][k]
    BY <1>1, <1>2 DEF CountedUpTo
  <2>2. d.cell[s][k] = IF s = "QUARANTINE" /\ CountedOn(c, <<i, "QUARANTINE", k>>)
                       THEN counts[c].lines[<<i, "QUARANTINE", k>>] ELSE b.cell[s][k]
    BY <1>1, <1>4 DEF CountedUpTo
  <2>3. s = "INV" \/ s = "QUARANTINE"
    BY <1>1
  <2>. QED
    BY <2>1, <2>2, <2>3
<1>. QED
  BY <1>5, <1>6, <1>7

LEMMA PostCountOK ==
  ASSUME CountInv, NEW c \in CycleCountIds, PostCount(c)
  PROVE  /\ StockInv'
         /\ \A i \in Items, s \in Located, k \in Locs :
              book'[i].cell[s][k] = IF CountedOn(c, <<i, s, k>>)
                                    THEN counts[c].lines[<<i, s, k>>]
                                    ELSE book[i].cell[s][k]
<1>1. CountsOK /\ LocationTypeOK /\ \A i \in Items : BookOK(book[i])
  BY DEF CountInv, StockInv, BooksOK
<1>2. book' = [i \in Items |-> Reconciled(c, i)] /\ locs' = locs
  BY DEF PostCount
<1>3. ASSUME NEW i \in Items
      PROVE  /\ BookOK(book'[i])
             /\ \A s \in Located, k \in Locs :
                  book'[i].cell[s][k] = IF CountedOn(c, <<i, s, k>>)
                                        THEN counts[c].lines[<<i, s, k>>]
                                        ELSE book[i].cell[s][k]
  BY <1>1, <1>2, ReconciledOK
<1>4. BooksOK(book')
  BY <1>2, <1>3 DEF BooksOK
<1>. QED
  BY <1>1, <1>2, <1>3, <1>4 DEF StockInv, LocationTypeOK

\* A step on the row of one count.
LEMMA OneCount ==
  ASSUME CountsOK, NEW c \in CycleCountIds, NEW r, CountOK(r),
         counts' = [counts EXCEPT ![c] = r]
  PROVE  CountsOK'
BY DEF CountsOK, CountOK

LEMMA OpenCountOK ==
  ASSUME CountsOK, NEW c \in CycleCountIds, NEW scope \in Scopes, OpenCount(c, scope)
  PROVE  CountsOK' /\ counts'[c].status = "OPEN"
<1>. DEFINE held == {row \in scope.items \X Located \X scope.leaves :
                       book[row[1]].cell[row[2]][row[3]] > 0}
            r == [ status |-> "OPEN", items |-> scope.items, leaves |-> scope.leaves,
                   lines |-> [row \in held |-> Uncounted] ]
<1>1. counts' = [counts EXCEPT ![c] = r]
  BY DEF OpenCount
<1>2. scope.items \subseteq Items /\ scope.leaves \subseteq Locs
  BY CycleCountAssumption
<1>3. held \subseteq CountRows
  BY <1>2 DEF CountRows
<1>. HIDE DEF held
<1>4. CountOK(r) /\ r.status = "OPEN"
  BY <1>2, <1>3 DEF CountOK
<1>. HIDE DEF r
<1>. QED
  BY <1>1, <1>4, OneCount DEF CountsOK

LEMMA RecordCountsOK ==
  ASSUME CountsOK, NEW c \in CycleCountIds, NEW sheet \in Sheets, RecordCounts(c, sheet)
  PROVE  CountsOK' /\ counts'[c].status = "OPEN"
<1>. DEFINE lines == counts[c].lines
            rows == [row \in DOMAIN lines \cup DOMAIN sheet |->
                       IF row \in DOMAIN sheet THEN sheet[row] ELSE lines[row]]
            r == [counts[c] EXCEPT !.lines = rows]
<1>1. CountOK(counts[c]) /\ counts[c].status = "OPEN"
  BY DEF CountsOK, RecordCounts, RecordFits
<1>2. counts' = [counts EXCEPT ![c] = r]
  BY DEF RecordCounts, RecordFits
<1>3. DOMAIN sheet \subseteq CountRows /\ \A row \in DOMAIN sheet : sheet[row] \in Nat
  BY CycleCountAssumption DEF Range
<1>4. /\ DOMAIN rows \subseteq CountRows
      /\ \A row \in DOMAIN rows : rows[row] \in Nat \cup {Uncounted}
  BY <1>1, <1>3 DEF CountOK
<1>. HIDE DEF rows
<1>5. CountOK(r) /\ r.status = "OPEN"
  BY <1>1, <1>4 DEF CountOK
<1>. HIDE DEF r
<1>. QED
  BY <1>2, <1>5, OneCount DEF CountsOK

LEMMA CloseCountOK ==
  ASSUME CountsOK, NEW c \in CycleCountIds, NEW status \in {"COMPLETED", "CANCELLED"},
         counts' = [counts EXCEPT ![c].status = status]
  PROVE  /\ CountsOK' /\ counts'[c].status = status
         /\ \A d \in CycleCountIds \ {c} : counts'[d] = counts[d]
<1>. DEFINE r == [counts[c] EXCEPT !.status = status]
<1>1. CountOK(counts[c]) /\ counts' = [counts EXCEPT ![c] = r]
  BY DEF CountsOK
<1>2. CountOK(r) /\ r.status = status
  BY <1>1 DEF CountOK
<1>. HIDE DEF r
<1>. QED
  BY <1>1, <1>2, OneCount DEF CountsOK

LEMMA CountInvInit == CountInit => CountInv
<1>. SUFFICES ASSUME CountInit PROVE CountInv
  OBVIOUS
<1>1. StockInv
  BY StockInitOK DEF CountInit
<1>2. CountOK(NoCount)
  BY DEF CountOK, NoCount
<1>3. CountsOK
  BY <1>2 DEF CountsOK, CountInit
<1>. QED
  BY <1>1, <1>3 DEF CountInv

\* Only posting completes a count, and no other step that completes one changes the books.
Reconciles(c) ==
  counts[c].status = "OPEN" /\ counts'[c].status = "COMPLETED" =>
    \A i \in Items, s \in Located, k \in Locs :
      book'[i].cell[s][k] = IF CountedOn(c, <<i, s, k>>)
                            THEN counts[c].lines[<<i, s, k>>] ELSE book[i].cell[s][k]

LEMMA CountStepOK ==
  ASSUME CountInv, CountNext
  PROVE  CountInv' /\ \A c \in CycleCountIds : Reconciles(c)
<1>1. StockInv /\ CountsOK
  BY DEF CountInv
<1>2. UNCHANGED stockVars => StockInv'
  BY <1>1, StockStepOK
<1>3. ASSUME NEW c \in CycleCountIds, NEW scope \in Scopes, OpenCount(c, scope)
      PROVE  CountInv' /\ \A d \in CycleCountIds : Reconciles(d)
  <2>1. CountsOK' /\ counts'[c].status = "OPEN" /\ StockInv'
    BY <1>1, <1>2, <1>3, OpenCountOK DEF OpenCount
  <2>2. \A d \in CycleCountIds \ {c} : counts'[d] = counts[d]
    BY <1>1, <1>3 DEF OpenCount, CountsOK
  <2>. QED
    BY <2>1, <2>2 DEF CountInv, Reconciles
<1>4. ASSUME NEW c \in CycleCountIds, NEW sheet \in Sheets, RecordCounts(c, sheet)
      PROVE  CountInv' /\ \A d \in CycleCountIds : Reconciles(d)
  <2>1. CountsOK' /\ counts'[c].status = "OPEN" /\ StockInv'
    BY <1>1, <1>2, <1>4, RecordCountsOK DEF RecordCounts, RecordFits
  <2>2. \A d \in CycleCountIds \ {c} : counts'[d] = counts[d]
    BY <1>1, <1>4 DEF RecordCounts, RecordFits, CountsOK
  <2>. QED
    BY <2>1, <2>2 DEF CountInv, Reconciles
<1>5. ASSUME NEW c \in CycleCountIds, PostCount(c)
      PROVE  CountInv' /\ \A d \in CycleCountIds : Reconciles(d)
  <2>1. CountsOK' /\ \A d \in CycleCountIds \ {c} : counts'[d] = counts[d]
    BY <1>1, <1>5, CloseCountOK DEF PostCount
  <2>2. /\ StockInv'
        /\ \A i \in Items, s \in Located, k \in Locs :
             book'[i].cell[s][k] = IF CountedOn(c, <<i, s, k>>)
                                   THEN counts[c].lines[<<i, s, k>>]
                                   ELSE book[i].cell[s][k]
    BY <1>5, PostCountOK
  <2>3. Reconciles(c)
    BY <2>2 DEF Reconciles
  <2>4. \A d \in CycleCountIds \ {c} : Reconciles(d)
    BY <2>1 DEF Reconciles
  <2>. QED
    BY <2>1, <2>2, <2>3, <2>4 DEF CountInv
<1>6. ASSUME NEW c \in CycleCountIds, CancelCount(c)
      PROVE  CountInv' /\ \A d \in CycleCountIds : Reconciles(d)
  <2>1. /\ CountsOK' /\ counts'[c].status = "CANCELLED" /\ StockInv'
        /\ \A d \in CycleCountIds \ {c} : counts'[d] = counts[d]
    BY <1>1, <1>2, <1>6, CloseCountOK DEF CancelCount
  <2>. QED
    BY <2>1 DEF CountInv, Reconciles
<1>7. CASE StockNext /\ UNCHANGED counts
  <2>1. StockInv' /\ CountsOK'
    BY <1>1, <1>7, StockNextOK DEF CountsOK, CountOK
  <2>. QED
    BY <1>7, <2>1 DEF CountInv, Reconciles
<1>. QED
  BY <1>3, <1>4, <1>5, <1>6, <1>7 DEF CountNext, CountStep

LEMMA CountIdle ==
  ASSUME CountInv, UNCHANGED countVars
  PROVE  CountInv'
<1>1. UNCHANGED stockVars /\ counts' = counts
  BY DEF countVars, stockVars
<1>2. StockInv'
  BY <1>1, StockStepOK DEF CountInv
<1>. QED
  BY <1>1, <1>2 DEF CountInv, CountsOK, CountOK

LEMMA CountInvariant == CountSpec => []CountInv
<1>1. CountInv /\ [CountNext]_countVars => CountInv'
  BY CountStepOK, CountIdle
<1>. QED
  BY <1>1, CountInvInit, PTL DEF CountSpec

\* While counts are opened, recorded, posted and cancelled between the movements of the
\* stock, the counts stay well typed and the books as good as without counts.
THEOREM CountsKeepTheBooks ==
  CountSpec => [](CountsTypeOK /\ LedgerBalances /\ LocationsWithinStock)
<1>1. CountInv => CountsTypeOK /\ LedgerBalances /\ LocationsWithinStock
  <2>. SUFFICES ASSUME CountInv
                PROVE  CountsTypeOK /\ LedgerBalances /\ LocationsWithinStock
    OBVIOUS
  <2>1. StockTypeOK /\ LedgerBalances /\ LocationsWithinStock
    BY StockInvFacts DEF CountInv, StockInv, StockTypeOK
  <2>2. \A c \in CycleCountIds :
          /\ counts[c].status \in {"NONE", "OPEN", "COMPLETED", "CANCELLED"}
          /\ DOMAIN counts[c].lines \subseteq CountRows
          /\ Range(counts[c].lines) \subseteq Nat \cup {Uncounted}
    BY DEF CountInv, CountsOK, CountOK, Range
  <2>. QED
    BY <2>1, <2>2 DEF CountsTypeOK
<1>. QED
  BY <1>1, CountInvariant, PTL

\* "Reconcile the location to the counted amount": a posted count leaves every counted row
\* at what was counted and every other row at what it held.
THEOREM CountsReconcile == CountSpec => CountReconciles
<1>1. CountInv /\ [CountNext]_countVars =>
        [\A c \in CycleCountIds :
           counts[c].status = "OPEN" /\ counts'[c].status = "COMPLETED" =>
             \A i \in Items, s \in Located, k \in Locs :
               book'[i].cell[s][k] = IF CountedOn(c, <<i, s, k>>)
                                     THEN counts[c].lines[<<i, s, k>>]
                                     ELSE book[i].cell[s][k]]_countVars
  BY CountStepOK DEF Reconciles
<1>. QED
  BY <1>1, CountInvariant, PTL DEF CountSpec, CountReconciles

-----------------------------------------------------------------------------
(***************************************************************************)
(* The screens of the warehouse.  What they need beyond CountInv: a leaf   *)
(* with a flag, with stock or on a sheet was created.                      *)
(***************************************************************************)
Known(k) == "exists" \in locs[k]

LeavesKnown ==
  /\ \A k \in Locs : locs[k] # {} => Known(k)
  /\ \A i \in Items, s \in Located, k \in Locs : book[i].cell[s][k] > 0 => Known(k)
  /\ \A c \in CycleCountIds : \A row \in DOMAIN counts[c].lines : Known(row[3])

PagesInv == CountInv /\ OneFlagPerBuilding /\ LeavesKnown

\* A draw-down fills no row.
LEMMA RemoveFillsNone ==
  ASSUME NEW c \in Columns, NEW q \in Nat, NEW pref, NEW defaults, NEW k \in Locs,
         Remove(c, q, pref, defaults)[k] > 0
  PROVE  c[k] > 0
<1>. DEFINE first == Take(Rows(c, {pref}), NumLocs, q)
            left1 == q - Sum(first, NumLocs)
            second == Take(Rows(c, defaults \ {pref}), NumLocs, left1)
            left2 == left1 - Sum(second, NumLocs)
            third == Take(Rows(c, Locs \ (defaults \cup {pref})), NumLocs, left2)
<1>1. first \in Columns /\ left1 \in Nat
  <2>1. /\ first \in Columns /\ Sum(first, NumLocs) = MinOf(q, Sum(Rows(c, {pref}), NumLocs))
        /\ Sum(Rows(c, {pref}), NumLocs) \in Nat
    BY TakeRows
  <2>. QED
    BY <2>1 DEF MinOf
<1>2. second \in Columns /\ left2 \in Nat
  <2>. DEFINE B == defaults \ {pref}
  <2>. HIDE DEF left1, B
  <2>1. /\ second \in Columns /\ Sum(second, NumLocs) = MinOf(left1, Sum(Rows(c, B), NumLocs))
        /\ Sum(Rows(c, B), NumLocs) \in Nat
    BY <1>1, TakeRows DEF B
  <2>. HIDE DEF second
  <2>. QED
    BY <1>1, <2>1 DEF MinOf
<1>3. third \in Columns
  <2>. HIDE DEF left2
  <2>. QED
    BY <1>2, TakeRows
<1>4. Remove(c, q, pref, defaults)[k] = c[k] - first[k] - second[k] - third[k]
  BY DEF Remove
<1>. HIDE DEF first, second, third
<1>5. c[k] \in Nat /\ first[k] \in Nat /\ second[k] \in Nat /\ third[k] \in Nat
  BY <1>1, <1>2, <1>3 DEF Columns
<1>. QED
  BY <1>4, <1>5

\* The leaf where inbound stock lands was created.
LEMMA InboundKnown ==
  ASSUME LeavesKnown, NEW s, NEW k \in Locs, k = ResolveInbound(s)
  PROVE  Known(k)
<1>1. k # NoLoc
  BY DEF Locs, NoLoc
<1>2. k \in ActiveLocs
  BY <1>1, ResolveInboundType
<1>. QED
  BY <1>2 DEF ActiveLocs, LeavesKnown

\* Creating or editing a leaf leaves every flag with a leaf that was created.
LEMMA LocationKnown ==
  ASSUME LocationTypeOK, LeavesKnown, LocationNext
  PROVE  \A k \in Locs : /\ Known(k) => Known(k)'
                         /\ locs'[k] # {} => Known(k)'
<1>1. ASSUME NEW l \in Locs, NEW flags \in NewFlags, CreateLocation(l, flags), NEW k \in Locs
      PROVE  (Known(k) => Known(k)') /\ (locs'[k] # {} => Known(k)')
  <2>1. locs'[k] = IF k = l THEN flags \cup {"exists"} ELSE ClearOthers(l, flags)[k]
    BY <1>1 DEF CreateLocation, ClearOthers
  <2>. QED
    BY <2>1 DEF ClearOthers, Scoped, Known, LeavesKnown
<1>2. ASSUME NEW l \in Locs, NEW p \in Patches, UpdateLocation(l, p.on, p.off), NEW k \in Locs
      PROVE  (Known(k) => Known(k)') /\ (locs'[k] # {} => Known(k)')
  <2>1. locs'[k] = IF k = l THEN (locs[k] \cup p.on) \ p.off ELSE ClearOthers(l, p.on)[k]
    BY <1>2 DEF UpdateLocation, UpdatedLocs, ClearOthers
  <2>2. "exists" \in locs[l] /\ "exists" \notin p.off
    BY <1>2, LocationAssumption DEF UpdateLocation, Flags
  <2>. QED
    BY <2>1, <2>2 DEF ClearOthers, Scoped, Known, LeavesKnown
<1>. QED
  BY <1>1, <1>2 DEF LocationNext

\* An operation on the stock fills rows of known leaves only.
LEMMA StockKnown ==
  ASSUME StockInv, LeavesKnown, StockStep, NEW j \in Items, NEW t \in Located, NEW k \in Locs,
         book'[j].cell[t][k] > 0
  PROVE  Known(k)
<1>1. \A i \in Items : BookOK(book[i]) /\ book[i].cell[t] \in Columns
  BY BookFields DEF StockInv, BooksOK
<1>2. book[j].cell[t][k] > 0 => Known(k)
  BY DEF LeavesKnown
<1>3. DOMAIN book = Items
  BY DEF StockInv, BooksOK
<1>4. ASSUME NEW i \in Items, NEW q \in Quantity, AdjustIn(i, q)
      PROVE  Known(k)
  <2>1. CASE j = i /\ t = "INV"
    <3>1. book'[j].cell[t] = Place(book[j].cell[t], q, ResolveInbound("INV"))
      BY <1>3, <1>4, <2>1 DEF AdjustIn, PostIn
    <3>2. k = ResolveInbound("INV") \/ book[j].cell[t][k] > 0
      BY <3>1 DEF Place
    <3>. QED
      BY <1>2, <3>2, InboundKnown
  <2>2. CASE ~ (j = i /\ t = "INV")
    <3>1. book'[j].cell[t] = book[j].cell[t]
      BY <1>3, <1>4, <2>2 DEF AdjustIn, PostIn
    <3>. QED
      BY <1>2, <3>1
  <2>. QED
    BY <2>1, <2>2
<1>5. ASSUME NEW i \in Items, NEW q \in Nat, NEW s, NEW loc,
             book' = [book EXCEPT ![i] = PostOut(@, s, NoSlices, q, loc, Defaults)]
      PROVE  Known(k)
  <2>1. CASE j = i /\ t = s
    <3>1. book'[j].cell[t] = Remove(book[j].cell[t], q, loc, Defaults)
      BY <1>3, <1>5, <2>1 DEF PostOut
    <3>. QED
      BY <1>1, <1>2, <3>1, RemoveFillsNone
  <2>2. CASE ~ (j = i /\ t = s)
    <3>1. book'[j].cell[t] = book[j].cell[t]
      BY <1>3, <1>5, <2>2 DEF PostOut
    <3>. QED
      BY <1>2, <3>1
  <2>. QED
    BY <2>1, <2>2
<1>6. ASSUME NEW i \in Items, NEW q \in Quantity, NEW s \in Located,
             NEW from \in Locs, NEW to \in Locs, MoveLocation(i, s, from, to, q)
      PROVE  Known(k)
  <2>1. q \in Nat /\ Known(to)
    BY <1>6, StockAssumption DEF MoveLocation, MoveFits, ActiveLocs, LeavesKnown
  <2>2. CASE j = i /\ t = s
    <3>1. book'[j].cell[t] = Place(Remove(book[j].cell[t], q, from, Defaults), q, to)
      BY <1>1, <1>3, <1>6, <2>2, BookFields DEF MoveLocation, MovedRows
    <3>2. k = to \/ Remove(book[j].cell[t], q, from, Defaults)[k] > 0
      BY <3>1 DEF Place
    <3>. QED
      BY <1>1, <1>2, <2>1, <3>2, RemoveFillsNone
  <2>3. CASE ~ (j = i /\ t = s)
    <3>1. book'[j].cell[t] = book[j].cell[t]
      BY <1>1, <1>3, <1>6, <2>3, BookFields DEF MoveLocation
    <3>. QED
      BY <1>2, <3>1
  <2>. QED
    BY <2>2, <2>3
<1>. QED
  BY <1>4, <1>5, <1>6, StockAssumption
     DEF StockStep, AdjustOut, AdjustedOut, Scrap, Scrapped

LEMMA PagesInvInit == CountInit => PagesInv
<1>. SUFFICES ASSUME CountInit PROVE PagesInv
  OBVIOUS
<1>1. /\ \A k \in Locs : locs[k] = {}
      /\ \A i \in Items : book[i] = EmptyBook
      /\ \A c \in CycleCountIds : counts[c].lines = <<>>
  BY DEF CountInit, StockInit, LocationInit, NoCount
<1>2. OneFlagPerBuilding
  BY <1>1 DEF OneFlagPerBuilding
<1>3. \A s \in Located, k \in Locs : EmptyBook.cell[s][k] = 0
  BY DEF EmptyBook, Zero, Locs
<1>4. LeavesKnown
  BY <1>1, <1>3 DEF LeavesKnown
<1>. QED
  BY <1>2, <1>4, CountInvInit DEF PagesInv

\* What a count adds to its sheet is a row that holds stock, or one of a known leaf.
LEMMA SheetKnown ==
  ASSUME CountInv, LeavesKnown, NEW c \in CycleCountIds,
         \/ \E scope \in Scopes : OpenCount(c, scope)
         \/ \E sheet \in Sheets : RecordCounts(c, sheet)
         \/ CancelCount(c)
         \/ PostCount(c)
  PROVE  \A d \in CycleCountIds : \A row \in DOMAIN counts'[d].lines : Known(row[3])
<1>0. CountsOK
  BY DEF CountInv
<1>. SUFFICES ASSUME NEW row \in DOMAIN counts'[c].lines PROVE Known(row[3])
  <2>1. \A d \in CycleCountIds \ {c} : counts'[d] = counts[d]
    BY <1>0 DEF CountsOK, OpenCount, RecordCounts, CancelCount, PostCount
  <2>. QED
    BY <2>1 DEF LeavesKnown
<1>1. ASSUME NEW scope \in Scopes, OpenCount(c, scope)
      PROVE  Known(row[3])
  <2>. DEFINE held == {r \in scope.items \X Located \X scope.leaves :
                         book[r[1]].cell[r[2]][r[3]] > 0}
  <2>1. counts'[c].lines = [r \in held |-> Uncounted]
    BY <1>0, <1>1 DEF OpenCount, CountsOK
  <2>2. row \in held
    <3>. HIDE DEF held
    <3>. QED
      BY <2>1
  <2>3. scope.items \subseteq Items /\ scope.leaves \subseteq Locs
    BY CycleCountAssumption
  <2>4. /\ row[1] \in Items /\ row[2] \in Located /\ row[3] \in Locs
        /\ book[row[1]].cell[row[2]][row[3]] > 0
    BY <2>2, <2>3
  <2>. QED
    BY <2>4 DEF LeavesKnown
<1>2. ASSUME NEW sheet \in Sheets, RecordCounts(c, sheet)
      PROVE  Known(row[3])
  <2>1. DOMAIN counts'[c].lines = DOMAIN counts[c].lines \cup DOMAIN sheet
    BY <1>0, <1>2 DEF RecordCounts, CountsOK, CountOK
  <2>. QED
    BY <1>2, <2>1 DEF RecordCounts, RecordFits, LeavesKnown, Known
<1>3. ASSUME CancelCount(c) \/ PostCount(c)
      PROVE  Known(row[3])
  <2>1. counts'[c].lines = counts[c].lines
    BY <1>0, <1>3 DEF CancelCount, PostCount, CountsOK, CountOK
  <2>. QED
    BY <2>1 DEF LeavesKnown
<1>. QED
  BY <1>1, <1>2, <1>3

LEMMA PagesStep == PagesInv /\ [CountNext]_countVars => PagesInv'
<1>. SUFFICES ASSUME PagesInv, [CountNext]_countVars PROVE PagesInv'
  OBVIOUS
<1>1. CountInv /\ StockInv /\ LocationTypeOK /\ LeavesKnown /\ OneFlagPerBuilding
  BY DEF PagesInv, CountInv, StockInv
<1>2. CountInv'
  BY <1>1, CountStepOK, CountIdle
<1>3. OneFlagPerBuilding'
  <2>1. CASE locs' = locs
    BY <1>1, <2>1 DEF OneFlagPerBuilding
  <2>2. CASE StockNext
    BY <1>1, <2>2, FlagsStep
  <2>. QED
    BY <2>1, <2>2
       DEF CountNext, CountStep, OpenCount, RecordCounts, PostCount, CancelCount,
           countVars, stockVars
<1>4. CASE LocationStep /\ UNCHANGED counts
  <2>1. \A k \in Locs : (Known(k) => Known(k)') /\ (locs'[k] # {} => Known(k)')
    BY <1>1, <1>4, LocationKnown DEF LocationStep
  <2>2. \A c \in CycleCountIds : \A row \in DOMAIN counts[c].lines : row[3] \in Locs
    BY <1>1 DEF CountInv, CountsOK, CountOK, CountRows
  <2>3. book' = book /\ counts' = counts
    BY <1>4 DEF LocationStep
  <2>4. LeavesKnown'
    BY <1>1, <2>1, <2>2, <2>3 DEF LeavesKnown
  <2>. QED
    BY <1>2, <1>3, <2>4 DEF PagesInv
<1>5. ASSUME locs' = locs,
             \A i \in Items, s \in Located, k \in Locs : book'[i].cell[s][k] > 0 => Known(k),
             \A c \in CycleCountIds : \A row \in DOMAIN counts'[c].lines : Known(row[3])
      PROVE  PagesInv'
  <2>1. \A k : Known(k)' <=> Known(k)
    BY <1>5 DEF Known
  <2>2. LeavesKnown'
    BY <1>1, <1>5, <2>1 DEF LeavesKnown
  <2>. QED
    BY <1>2, <1>3, <2>2 DEF PagesInv
<1>6. CASE StockStep /\ UNCHANGED counts
  <2>1. locs' = locs /\ counts' = counts
    BY <1>6 DEF StockStep, AdjustIn, AdjustOut, Scrap, MoveLocation
  <2>2. \A i \in Items, s \in Located, k \in Locs : book'[i].cell[s][k] > 0 => Known(k)
    BY <1>1, <1>6, StockKnown
  <2>. QED
    BY <1>1, <1>5, <2>1, <2>2 DEF LeavesKnown
<1>7. ASSUME NEW c \in CycleCountIds, PostCount(c)
      PROVE  PagesInv'
  <2>1. \A i \in Items, s \in Located, k \in Locs :
          book'[i].cell[s][k] = IF CountedOn(c, <<i, s, k>>)
                                THEN counts[c].lines[<<i, s, k>>] ELSE book[i].cell[s][k]
    BY <1>1, <1>7, PostCountOK
  <2>2. ASSUME NEW i \in Items, NEW s \in Located, NEW k \in Locs, book'[i].cell[s][k] > 0
        PROVE  Known(k)
    <3>1. CASE CountedOn(c, <<i, s, k>>)
      <4>1. <<i, s, k>> \in DOMAIN counts[c].lines /\ <<i, s, k>>[3] = k
        BY <3>1 DEF CountedOn
      <4>. QED
        BY <1>1, <4>1 DEF LeavesKnown
    <3>2. CASE ~ CountedOn(c, <<i, s, k>>)
      BY <1>1, <2>1, <2>2, <3>2 DEF LeavesKnown
    <3>. QED
      BY <3>1, <3>2
  <2>3. locs' = locs
    BY <1>7 DEF PostCount
  <2>4. \A d \in CycleCountIds : \A row \in DOMAIN counts'[d].lines : Known(row[3])
    BY <1>1, <1>7, SheetKnown
  <2>. QED
    BY <1>5, <2>2, <2>3, <2>4
<1>8. ASSUME NEW c \in CycleCountIds,
             \/ \E scope \in Scopes : OpenCount(c, scope)
             \/ \E sheet \in Sheets : RecordCounts(c, sheet)
             \/ CancelCount(c)
      PROVE  PagesInv'
  <2>1. locs' = locs /\ book' = book
    BY <1>8 DEF OpenCount, RecordCounts, CancelCount, stockVars
  <2>2. \A d \in CycleCountIds : \A row \in DOMAIN counts'[d].lines : Known(row[3])
    BY <1>1, <1>8, SheetKnown
  <2>. QED
    BY <1>1, <1>5, <2>1, <2>2 DEF LeavesKnown
<1>9. CASE UNCHANGED countVars
  BY <1>1, <1>5, <1>9 DEF countVars, LeavesKnown
<1>10. CASE CountNext
  BY <1>4, <1>6, <1>7, <1>8, <1>10 DEF CountNext, CountStep, StockNext
<1>. QED
  BY <1>9, <1>10

\* The whole of the bucket takes all of its rows.
LEMMA AllOutOK ==
  ASSUME StockInv, NEW i \in Items
  PROVE  AdjustsAllOut(i)
<1>. DEFINE b == book[i]
            q == b.onHand["INV"]
            c == b.cell["INV"]
<1>1. "INV" \in Located /\ "INV" \in Statuses /\ BookOK(b)
  BY DEF Located, Statuses, StockInv, BooksOK
<1>2. /\ b.onHand \in [Statuses -> Nat] /\ q \in Nat /\ c \in Columns
      /\ Sum(c, NumLocs) <= q
  BY <1>1, BookFields
<1>3. /\ AdjustedOut(i, q).onHand["INV"] = q - q
      /\ AdjustedOut(i, q).cell["INV"] = Remove(c, q, NoLoc, Defaults)
  BY <1>1, <1>2 DEF AdjustedOut, PostOut
<1>4. Sum(Remove(c, q, NoLoc, Defaults), NumLocs) = 0
  <2>1. /\ Sum(c, NumLocs) \in Nat
        /\ Sum(Remove(c, q, NoLoc, Defaults), NumLocs) = Sum(c, NumLocs) - MinOf(q, Sum(c, NumLocs))
    <3>. HIDE DEF c, q
    <3>. QED
      BY <1>2, RemoveOK
  <2>2. MinOf(q, Sum(c, NumLocs)) = Sum(c, NumLocs)
    <3>. HIDE DEF c, q
    <3>. QED
      BY <1>2, <2>1 DEF MinOf
  <2>. QED
    BY <2>1, <2>2
<1>5. q <= q /\ q - q = 0
  <2>. HIDE DEF q
  <2>. QED
    BY <1>2
<1>. QED
  BY <1>3, <1>4, <1>5 DEF AdjustsAllOut, OnHandShown, Covers

\* What a row is shown to hold can be scrapped from it, and moved to any active leaf.
LEMMA SourceOK ==
  ASSUME StockInv, LeavesKnown, NEW i \in Items, NEW s \in Located, NEW k \in Sources(i, s)
  PROVE  ScrapsAll(i, s, k) /\ \A to \in Targets(k) : MovesAll(i, s, k, to)
<1>. DEFINE c == book[i].cell[s]
            q == c[k]
<1>1. /\ s \in Statuses /\ BookOK(book[i]) /\ book[i].onHand[s] \in Nat
      /\ c \in Columns /\ Sum(c, NumLocs) <= book[i].onHand[s]
  <2>1. s \in Statuses /\ BookOK(book[i])
    BY DEF Located, Statuses, StockInv, BooksOK
  <2>. QED
    BY <2>1, BookFields
<1>2. k \in Locs /\ "exists" \in locs[k]
  BY DEF Sources, ItemLocations, LeavesKnown, Known
<1>3. q \in Nat /\ q <= q /\ q - q = 0
  <2>. HIDE DEF c
  <2>. QED
    BY <1>1, <1>2 DEF Columns
<1>4. Remove(c, q, k, Defaults) = [c EXCEPT ![k] = 0]
  <2>. HIDE DEF c, q
  <2>1. \A j \in Locs : Remove(c, q, k, Defaults)[j] = IF j = k THEN c[j] - q ELSE c[j]
    BY <1>1, <1>2, <1>3, RemovePreferred DEF q
  <2>2. Remove(c, q, k, Defaults) \in Columns
    BY <1>1, <1>3, RemoveOK
  <2>3. Remove(c, q, k, Defaults) = [j \in Locs |-> Remove(c, q, k, Defaults)[j]]
    BY <2>2 DEF Columns
  <2>4. [c EXCEPT ![k] = 0] = [j \in Locs |-> IF j = k THEN 0 ELSE c[j]]
    BY <1>1, <1>2 DEF Columns
  <2>5. c[k] - q = 0
    BY <1>3 DEF q
  <2>. QED
    BY <2>1, <2>3, <2>4, <2>5
<1>5. ScrapsAll(i, s, k)
  <2>1. Covers(book[i], s, q)
    <3>1. q <= Sum(c, NumLocs) /\ Sum(c, NumLocs) \in Nat
      <4>. HIDE DEF c
      <4>1. 0 \in Nat
        OBVIOUS
      <4>. QED
        BY <1>1, <1>2, <4>1, RowWithinSum, RemoveOK
    <3>. HIDE DEF q, c
    <3>. QED
      BY <1>1, <1>3, <3>1 DEF Covers
  <2>2. Scrapped(i, s, q, k).cell[s] = Remove(c, q, k, Defaults)
    BY DEF Scrapped, PostOut
  <2>. QED
    BY <1>2, <1>4, <2>1, <2>2 DEF ScrapsAll, ScrapFits
<1>6. ASSUME NEW to \in Targets(k)
      PROVE  MovesAll(i, s, k, to)
  <2>1. to \in ActiveLocs /\ to # k /\ to \in Locs
    BY <1>6 DEF Targets, ActiveLocs
  <2>2. MoveFits(i, s, k, to, q)
    BY <1>2, <1>3, <2>1 DEF MoveFits
  <2>3. MovedRows(i, s, k, to, q) = [c EXCEPT ![k] = 0, ![to] = @ + q]
    <3>1. MovedRows(i, s, k, to, q) = Place([c EXCEPT ![k] = 0], q, to)
      BY <1>4 DEF MovedRows
    <3>. HIDE DEF q
    <3>2. [c EXCEPT ![k] = 0, ![to] = @ + q]
            = [j \in Locs |-> IF j = to THEN [c EXCEPT ![k] = 0][j] + q ELSE [c EXCEPT ![k] = 0][j]]
      <4>. HIDE DEF c
      <4>. QED
        BY <1>1, <1>2, <2>1 DEF Columns
    <3>. QED
      BY <3>1, <3>2 DEF Place
  <2>. QED
    BY <2>2, <2>3 DEF MovesAll
<1>. QED
  BY <1>5, <1>6

\* No other leaf of the building holds a flag that the form sends again.
LEMMA UntouchedOK ==
  ASSUME LocationTypeOK, OneFlagPerBuilding, NEW l \in Locs, Known(l)
  PROVE  SavesUntouched(l)
<1>. DEFINE flags == locs[l] \cap Flags
<1>1. locs[l] \subseteq Flags \cup {"exists"} /\ locs = [k \in Locs |-> locs[k]]
  BY DEF LocationTypeOK
<1>2. ASSUME NEW k \in Locs
      PROVE  ClearOthers(l, flags)[k] = locs[k]
  BY DEF ClearOthers, OneFlagPerBuilding
<1>3. (locs[l] \cup flags) \ (Flags \ flags) = locs[l]
  BY <1>1 DEF Flags
<1>4. SavedForm(l, flags) = [k \in Locs |-> IF k = l THEN (ClearOthers(l, flags)[l] \cup flags) \ (Flags \ flags)
                                            ELSE ClearOthers(l, flags)[k]]
  BY DEF SavedForm, UpdatedLocs, ClearOthers
<1>5. SavedForm(l, flags) = locs
  BY <1>1, <1>2, <1>3, <1>4
<1>. QED
  BY <1>5 DEF SavesUntouched

\* Between the lines of a sheet a row never holds more than its bucket.
LEMMA CountPostable ==
  ASSUME CountInv, NEW c \in CycleCountIds
  PROVE  Postable(c)
<1>. SUFFICES ASSUME NEW i \in Items, NEW s \in Located, NEW k \in Locs,
                     CountedOn(c, <<i, s, k>>)
              PROVE  Adjustable(AfterLeaves(c, i, s, book[i])[k - 1], s, k,
                                counts[c].lines[<<i, s, k>>])
  BY DEF Postable
<1>. DEFINE q == counts[c].lines[<<i, s, k>>]
            a == AfterLeaves(c, i, s, book[i])[k - 1]
<1>1. CountsOK /\ BookOK(book[i]) /\ s \in Statuses
  BY DEF CountInv, StockInv, BooksOK, Located, Statuses
<1>2. k - 1 \in 0..NumLocs
  BY NumLocsNat DEF Locs
<1>3. BookOK(a)
  BY <1>1, <1>2, AfterLeavesOK DEF CountedUpTo
<1>4. q \in Nat
  BY <1>1 DEF CountsOK, CountOK, CountedOn
<1>. HIDE DEF q, a
<1>. DEFINE r == a.cell[s]
<1>5. r \in Columns /\ Sum(r, NumLocs) <= a.onHand[s] /\ a.onHand[s] \in Nat
  BY <1>1, <1>3, BookFields
<1>6. r[k] \in Nat /\ r[k] <= Sum(r, NumLocs) /\ Sum(r, NumLocs) \in Nat
  <2>. HIDE DEF r
  <2>1. 0 \in Nat
    OBVIOUS
  <2>. QED
    BY <1>5, <2>1, RowWithinSum, RemoveOK DEF Columns
<1>7. r[k] - q <= a.onHand[s]
  <2>. HIDE DEF r
  <2>. QED
    BY <1>4, <1>5, <1>6
<1>8. Adjustable(a, s, k, q)
  BY <1>7 DEF Adjustable, Covers
<1>. QED
  BY <1>8 DEF q, a

LEMMA ListedOK == PagesInv => ListedCanBeChosen
<1>. SUFFICES ASSUME PagesInv PROVE ListedCanBeChosen
  OBVIOUS
<1>1. CountInv /\ StockInv /\ LocationTypeOK /\ LeavesKnown /\ OneFlagPerBuilding
  BY DEF PagesInv, CountInv, StockInv
<1>2. \A i \in Items : AdjustsAllOut(i)
  BY <1>1, AllOutOK
<1>3. \A i \in Items, s \in Located : \A k \in Sources(i, s) :
        (\A to \in Targets(k) : MovesAll(i, s, k, to)) /\ ScrapsAll(i, s, k)
  BY <1>1, SourceOK
<1>4. \A l \in Locs : "exists" \in locs[l] => SavesUntouched(l)
  BY <1>1, UntouchedOK DEF Known
<1>5. ASSUME NEW c \in CycleCountIds, IsOpen(c), NEW i \in FoundItems(c), NEW s \in Located,
             NEW k \in FoundLeaves(c)
      PROVE  FoundFits(c, i, s, k)
  <2>. DEFINE sheet == [row \in {<<i, s, k>>} |-> 1]
  <2>1. i \in counts[c].items /\ k \in counts[c].leaves /\ k \in Locs /\ locs[k] # {}
    BY <1>5 DEF FoundItems, FoundLeaves, ActiveLocs
  <2>2. InScope(c, <<i, s, k>>) /\ "exists" \in locs[<<i, s, k>>[3]]
    BY <1>1, <2>1 DEF InScope, LeavesKnown, Known
  <2>3. \A row \in DOMAIN sheet : row = <<i, s, k>>
    OBVIOUS
  <2>. HIDE DEF sheet
  <2>4. RecordFits(c, sheet)
    BY <1>5, <2>2, <2>3 DEF RecordFits, IsOpen
  <2>. QED
    BY <2>4 DEF FoundFits, sheet
<1>6. \A c \in CycleCountIds : Postable(c)
  BY <1>1, CountPostable
<1>. QED
  BY <1>2, <1>3, <1>4, <1>5, <1>6 DEF ListedCanBeChosen

\* For any items, locations, scopes and history: what the screens of the warehouse list can
\* be chosen, and does to the stock what it says.
THEOREM ListedIsAccepted == CountSpec => []ListedCanBeChosen
<1>1. CountSpec => []PagesInv
  BY PagesInvInit, PagesStep, PTL DEF CountSpec
<1>. QED
  BY <1>1, ListedOK, PTL
=============================================================================
