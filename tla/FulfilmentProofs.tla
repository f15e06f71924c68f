-------------------------- MODULE FulfilmentProofs --------------------------
(***************************************************************************)
(* Proofs about making and delivering what sales orders ask for            *)
(* (Fulfilment), for every recipe, every number of orders, lots and leaves *)
(* and every list of entries that a ship request may carry.                *)
(*                                                                         *)
(* The inductive invariant joins those of the queue (SalesProofs) and of   *)
(* the lots (PlantProofs), and adds what the trace of a lot to its         *)
(* customers rests on: every lot is the output of a work order, only an    *)
(* approved one was sold, and of a lot that nothing else consumes what was *)
(* packed off is in INV or sold.                                           *)
(***************************************************************************)
EXTENDS OrderPages, PlantProofs, SalesProofs

ProductionOnly ==
  \A l \in Lots :
    /\ lots[l].qc # "NONE" => lots[l].origin = "PRODUCTION"
    /\ lots[l].qc = "NONE" => lots[l].packed = 0

SoldApproved == \A o \in SalesOrders, l \in Lots : sold[o][l] > 0 => lots[l].qc = "APPROVED"

PackedStands ==
  \A l \in Lots : ~ Consumed(lots[l].item) => InBucket("INV", l) + Drawn(l) = lots[l].packed

SoldTypeOK == sold \in [SalesOrders -> [Lots -> Nat]]

SoldInv == SoldTypeOK /\ ProductionOnly /\ SoldApproved /\ PackedStands

FulfilmentInv == SchedulerInv /\ PlantInv /\ TraceInv /\ SoldInv

-----------------------------------------------------------------------------
(***************************************************************************)
(* What shipping draws.  DrawnFrom(b, c, E, q): the book c has at most q   *)
(* less in INV than the book b, all of it under lots of E, and under no    *)
(* lot less than nothing.                                                  *)
(***************************************************************************)
LotsLess(b, c) == [l \in Lots |-> b.lotQty["INV"][l] - c.lotQty["INV"][l]]

DrawnFrom(b, c, E, q) ==
  /\ \A s \in Statuses \ {"INV"}, l \in Lots : c.lotQty[s][l] = b.lotQty[s][l]
  /\ \A l \in Lots : /\ c.lotQty["INV"][l] \in Nat /\ c.lotQty["INV"][l] <= b.lotQty["INV"][l]
                     /\ l \notin E => c.lotQty["INV"][l] = b.lotQty["INV"][l]
  /\ Sum(LotsLess(b, c), NumLots) <= q

Stocked(b) == \A l \in Lots : b.lotQty["INV"][l] \in Nat

LEMMA NothingDrawn ==
  ASSUME NEW b, Stocked(b), NEW E
  PROVE  DrawnFrom(b, b, E, 0)
<1>1. Lots = 1..NumLots /\ NumLots \in Nat /\ NumLots \in 0..NumLots
  BY NumLocsNat DEF Lots
<1>2. \A l \in 1..NumLots : LotsLess(b, b)[l] = 0
  BY <1>1 DEF LotsLess, Stocked
<1>3. Sum(LotsLess(b, b), NumLots) = 0
  <2>. DEFINE f == LotsLess(b, b)
  <2>. HIDE DEF f
  <2>1. \A l \in 1..NumLots : f[l] = 0
    BY <1>2 DEF f
  <2>2. Sum(f, NumLots) = 0
    BY <1>1, <2>1, SumZero
  <2>. QED
    BY <2>2 DEF f
<1>. QED
  BY <1>3 DEF DrawnFrom, Stocked

\* Drawing twice draws the two quantities.
LEMMA DrawnTwice ==
  ASSUME NEW a, NEW b, NEW c, NEW E, NEW p \in Int, NEW q \in Int, Stocked(a),
         DrawnFrom(a, b, E, p), DrawnFrom(b, c, E, q)
  PROVE  DrawnFrom(a, c, E, p + q)
<1>. DEFINE f == LotsLess(a, b)
            g == LotsLess(b, c)
            h == LotsLess(a, c)
<1>1. Lots = 1..NumLots /\ NumLots \in Nat /\ NumLots \in 0..NumLots
  BY NumLocsNat DEF Lots
<1>2. \A l \in Lots : /\ a.lotQty["INV"][l] \in Nat /\ b.lotQty["INV"][l] \in Nat
                      /\ c.lotQty["INV"][l] \in Nat
  BY DEF Stocked, DrawnFrom
<1>3. \A l \in 1..NumLots : f[l] \in Int /\ g[l] \in Int /\ h[l] = f[l] + g[l]
  BY <1>1, <1>2 DEF LotsLess
<1>4. Sum(f, NumLots) <= p /\ Sum(g, NumLots) <= q
  BY DEF DrawnFrom
<1>. HIDE DEF f, g, h
<1>5. Sum(h, NumLots) = Sum(f, NumLots) + Sum(g, NumLots)
  BY <1>1, <1>3, SumAdd
<1>6. Sum(f, NumLots) \in Int /\ Sum(g, NumLots) \in Int
  BY <1>1, <1>3, SumInt
<1>7. Sum(h, NumLots) <= p + q
  BY <1>4, <1>5, <1>6
<1>8. /\ \A s \in Statuses \ {"INV"}, l \in Lots : c.lotQty[s][l] = a.lotQty[s][l]
      /\ \A l \in Lots : l \notin E => c.lotQty["INV"][l] = a.lotQty["INV"][l]
  BY DEF DrawnFrom
<1>9. \A l \in Lots : c.lotQty["INV"][l] <= a.lotQty["INV"][l]
  <2>1. \A l \in Lots : /\ c.lotQty["INV"][l] <= b.lotQty["INV"][l]
                        /\ b.lotQty["INV"][l] <= a.lotQty["INV"][l]
    BY DEF DrawnFrom
  <2>. QED
    BY <1>2, <2>1
<1>. QED
  BY <1>2, <1>7, <1>8, <1>9 DEF DrawnFrom, h

\* A shipment of q leaves a good book, and draws at most q from lots the order may draw.
LEMMA ShippedDraws ==
  ASSUME NEW b, BookOK(b), Stocked(b), NEW o, NEW q \in Nat, Covers(b, "INV", q)
  PROVE  BookOK(Shipped(b, o, q)) /\ DrawnFrom(b, Shipped(b, o, q), Permitted(o), q)
<1>. DEFINE slices == FifoSlices(b, "INV", q, Permitted(o))
            c == PostOut(b, "INV", slices, q, NoLoc, Defaults)
<1>1. /\ slices \in [Lots -> Nat]
      /\ \A l \in Lots : slices[l] <= Positive(b.lotQty["INV"][l])
      /\ \A l \in Lots \ Permitted(o) : slices[l] = 0
      /\ Sum(slices, NumLots) <= q
  BY FifoType
<1>2. "INV" \in Statuses /\ slices \in [Lots -> Int]
  BY <1>1 DEF Statuses
<1>. HIDE DEF slices
<1>3. BookOK(c)
  BY <1>2, PostOutOK
<1>4. \A s \in Statuses, l \in Lots :
        c.lotQty[s][l] = IF s = "INV" THEN b.lotQty[s][l] - slices[l] ELSE b.lotQty[s][l]
  BY <1>2, LotsOut
<1>. HIDE DEF c
<1>5. \A l \in Lots : /\ slices[l] \in Nat /\ slices[l] <= b.lotQty["INV"][l]
                      /\ b.lotQty["INV"][l] \in Nat
  BY <1>1 DEF Stocked, Positive
<1>6. \A l \in Lots : /\ c.lotQty["INV"][l] = b.lotQty["INV"][l] - slices[l]
                      /\ l \notin Permitted(o) => slices[l] = 0
  BY <1>1, <1>2, <1>4
<1>7. LotsLess(b, c) = slices
  <2>1. slices = [l \in Lots |-> slices[l]]
    BY <1>1
  <2>2. \A l \in Lots : b.lotQty["INV"][l] - c.lotQty["INV"][l] = slices[l]
    BY <1>5, <1>6
  <2>. QED
    BY <2>1, <2>2 DEF LotsLess
<1>8. DrawnFrom(b, c, Permitted(o), q)
  <2>1. \A s \in Statuses \ {"INV"}, l \in Lots : c.lotQty[s][l] = b.lotQty[s][l]
    BY <1>4
  <2>2. \A l \in Lots : /\ c.lotQty["INV"][l] \in Nat /\ c.lotQty["INV"][l] <= b.lotQty["INV"][l]
                        /\ l \notin Permitted(o) => c.lotQty["INV"][l] = b.lotQty["INV"][l]
    BY <1>5, <1>6
  <2>. QED
    BY <1>1, <1>7, <2>1, <2>2 DEF DrawnFrom
<1>. QED
  BY <1>3, <1>8 DEF Shipped, c, slices

-----------------------------------------------------------------------------
(***************************************************************************)
(* The books after the first entries of a shipment: like Sum, a recursive  *)
(* function that is built from its initial segments.                       *)
(***************************************************************************)
BooksStep(o, req, g, k) == IF k = 0 THEN book ELSE PostEntry(g[k - 1], o, req[k])

PartialBooks(o, req, g, n) == g = [k \in 0..n |-> BooksStep(o, req, g, k)]

LEMMA PartialBooksExist ==
  ASSUME NEW o, NEW req
  PROVE  \A n \in Nat : \E g : PartialBooks(o, req, g, n)
<1>. DEFINE S == {n \in Nat : \E g : PartialBooks(o, req, g, n)}
<1>1. 0 \in S
  <2>. DEFINE g == [k \in 0..0 |-> book]
  <2>1. g = [k \in 0..0 |-> BooksStep(o, req, g, k)]
    BY DEF BooksStep
  <2>. QED
    BY <2>1 DEF PartialBooks
<1>2. ASSUME NEW n \in Nat, n \in S
      PROVE  n + 1 \in S
  <2>1. PICK g : PartialBooks(o, req, g, n)
    BY <1>2
  <2>. DEFINE h == [k \in 0..(n + 1) |->
                      IF k = n + 1 THEN PostEntry(g[n], o, req[n + 1]) ELSE g[k]]
              e == [k \in 0..(n + 1) |-> BooksStep(o, req, h, k)]
  <2>2. ASSUME NEW k \in 0..(n + 1)
        PROVE  h[k] = BooksStep(o, req, h, k)
    <3>1. CASE k = n + 1
      <4>1. h[k - 1] = g[n] /\ k # 0
        BY <3>1
      <4>. QED
        BY <3>1, <4>1 DEF BooksStep
    <3>2. CASE k \in 0..n
      <4>1. g[k] = BooksStep(o, req, g, k)
        BY <2>1, <3>2 DEF PartialBooks
      <4>2. k # 0 => h[k - 1] = g[k - 1]
        BY <3>2
      <4>3. h[k] = g[k]
        BY <3>2
      <4>. QED
        BY <4>1, <4>2, <4>3 DEF BooksStep
    <3>. QED
      BY <3>1, <3>2
  <2>3. h = e
    <3>1. DOMAIN h = DOMAIN e /\ \A k \in DOMAIN h : h[k] = e[k]
      BY <2>2
    <3>2. h = [k \in DOMAIN h |-> h[k]] /\ e = [k \in DOMAIN e |-> e[k]]
      OBVIOUS
    <3>. QED
      BY <3>1, <3>2
  <2>4. PartialBooks(o, req, h, n + 1)
    <3>1. h = [k \in 0..(n + 1) |-> BooksStep(o, req, h, k)]
      BY <2>3
    <3>. HIDE DEF h
    <3>. QED
      BY <3>1 DEF PartialBooks
  <2>. HIDE DEF h
  <2>. QED
    BY <2>4
<1>3. \A n \in Nat : n \in S
  <2>. HIDE DEF S
  <2>. QED
    BY <1>1, <1>2, SetInduction
<1>. QED
  BY <1>3

LEMMA BooksAfterUnfold ==
  ASSUME NEW o, NEW req, Len(req) \in Nat
  PROVE  /\ BooksAfter(o, req)[0] = book
         /\ \A k \in 1..Len(req) :
              BooksAfter(o, req)[k] = PostEntry(BooksAfter(o, req)[k - 1], o, req[k])
<1>. DEFINE n == Len(req)
            IsAfter(a) == a = [k \in 0..n |-> IF k = 0 THEN book ELSE PostEntry(a[k - 1], o, req[k])]
            after == CHOOSE a : IsAfter(a)
<1>1. PICK g : PartialBooks(o, req, g, n)
  BY PartialBooksExist
<1>2. IsAfter(g)
  BY <1>1 DEF PartialBooks, BooksStep
<1>3. IsAfter(after)
  <2>. HIDE DEF IsAfter
  <2>. QED
    BY <1>2
<1>4. BooksAfter(o, req) = after
  BY DEF BooksAfter
<1>. HIDE DEF after
<1>5. after[0] = book /\ \A k \in 1..n : after[k] = PostEntry(after[k - 1], o, req[k])
  <2>1. 0 \in 0..n /\ \A k \in 1..n : k \in 0..n /\ k # 0
    OBVIOUS
  <2>. QED
    BY <1>3, <2>1
<1>. QED
  BY <1>4, <1>5

(***************************************************************************)
(* Every entry that draws stock finds what it may draw (Ship).             *)
(***************************************************************************)
EntriesPostable(o, req) ==
  \A k \in DOMAIN req :
    LET i == SubjectOf(o, req[k])
    IN  i \in Items => MayShip(BooksAfter(o, req)[k - 1][i], o, req[k].qty)

AskedFor(o, req, i) ==
  [k \in 1..Len(req) |-> IF SubjectOf(o, req[k]) = i THEN req[k].qty ELSE 0]

LEMMA EntryTypes ==
  ASSUME NEW req \in Shipments
  PROVE  /\ Len(req) \in Nat /\ DOMAIN req = 1..Len(req)
         /\ \A k \in 1..Len(req) : req[k].line \in Nat \ {0} /\ req[k].qty \in Nat \ {0}
<1>1. req \in Seq([line : Nat \ {0}, qty : Nat \ {0}])
  BY FulfilmentAssumption
<1>2. \A k \in 1..Len(req) : req[k] \in [line : Nat \ {0}, qty : Nat \ {0}]
  BY <1>1, ListElement
<1>. QED
  BY <1>1, <1>2

LEMMA AskedForType ==
  ASSUME NEW req \in Shipments, NEW o, NEW i
  PROVE  \A k \in 1..Len(req) : AskedFor(o, req, i)[k] \in Nat
BY EntryTypes DEF AskedFor

\* The books after k entries are good, and drew what the first k entries asked for.
LEMMA BooksAfterDraw ==
  ASSUME BooksOK(book), \A i \in Items : Stocked(book[i]), NEW o, NEW req \in Shipments,
         EntriesPostable(o, req)
  PROVE  \A k \in 0..Len(req) :
           /\ BooksOK(BooksAfter(o, req)[k])
           /\ \A i \in Items : DrawnFrom(book[i], BooksAfter(o, req)[k][i], Permitted(o),
                                         Sum(AskedFor(o, req, i), k))
<1>. DEFINE after == BooksAfter(o, req)
            n == Len(req)
            asked(i) == AskedFor(o, req, i)
            Good(k) == /\ BooksOK(after[k])
                       /\ \A i \in Items : DrawnFrom(book[i], after[k][i], Permitted(o), Sum(asked(i), k))
            S == {k \in Nat : k <= n => Good(k)}
<1>1. /\ n \in Nat /\ DOMAIN req = 1..n
      /\ \A k \in 1..n : req[k].qty \in Nat
  BY EntryTypes
<1>2. after[0] = book /\ \A k \in 1..n : after[k] = PostEntry(after[k - 1], o, req[k])
  BY <1>1, BooksAfterUnfold
<1>3. \A i : \A k \in 1..n : asked(i)[k] = IF SubjectOf(o, req[k]) = i THEN req[k].qty ELSE 0
  <2>. TAKE i
  <2>. QED
    BY DEF AskedFor
<1>4. \A k \in 1..n : SubjectOf(o, req[k]) \in Items =>
         MayShip(after[k - 1][SubjectOf(o, req[k])], o, req[k].qty)
  BY <1>1 DEF EntriesPostable
<1>5. \A i : \A k \in 0..n : Sum(asked(i), k) \in Nat
  <2>. TAKE i
  <2>1. \A k \in 1..n : asked(i)[k] \in Nat
    BY AskedForType
  <2>. HIDE DEF asked
  <2>. QED
    BY <1>1, <2>1, SumNat
<1>6. \A i : /\ Sum(asked(i), 0) = 0
             /\ \A k \in Nat \ {0} : Sum(asked(i), k) = Sum(asked(i), k - 1) + asked(i)[k]
  <2>. HIDE DEF asked
  <2>. QED
    BY SumUnfold
<1>. HIDE DEF after, asked
<1>7. Good(0)
  BY <1>2, <1>6, NothingDrawn
<1>8. ASSUME NEW k \in Nat, k \in S
      PROVE  k + 1 \in S
  <2>. SUFFICES ASSUME k + 1 <= n
                PROVE  Good(k + 1)
    OBVIOUS
  <2>. DEFINE e == req[k + 1]
              j == SubjectOf(o, e)
  <2>1. Good(k) /\ k \in 0..n /\ k + 1 \in 1..n /\ k + 1 \in Nat \ {0} /\ (k + 1) - 1 = k
    BY <1>8
  <2>2. /\ after[k + 1] = PostEntry(after[k], o, e)
        /\ j \in Items => MayShip(after[k][j], o, e.qty)
        /\ e.qty \in Nat
    BY <1>1, <1>2, <1>4, <2>1
  <2>3. \A i \in Items : after[k + 1][i] = IF i = j THEN Shipped(after[k][i], o, e.qty) ELSE after[k][i]
    BY <2>2 DEF PostEntry
  <2>4. ASSUME NEW i \in Items
        PROVE  BookOK(after[k][i]) /\ Stocked(after[k][i])
    <3>1. BookOK(after[k][i]) /\ DrawnFrom(book[i], after[k][i], Permitted(o), Sum(asked(i), k))
      BY <2>1 DEF BooksOK
    <3>. QED
      BY <3>1 DEF DrawnFrom, Stocked
  <2>5. ASSUME NEW i \in Items, i = j
        PROVE  /\ BookOK(after[k + 1][i])
               /\ DrawnFrom(after[k][i], after[k + 1][i], Permitted(o), e.qty)
    <3>1. Covers(after[k][i], "INV", e.qty)
      BY <2>2, <2>5 DEF MayShip
    <3>2. after[k + 1][i] = Shipped(after[k][i], o, e.qty)
      BY <2>3, <2>5
    <3>. QED
      BY <2>2, <2>4, <3>1, <3>2, ShippedDraws
  <2>6. ASSUME NEW i \in Items
        PROVE  Sum(asked(i), k + 1) = Sum(asked(i), k) + (IF i = j THEN e.qty ELSE 0)
    BY <1>3, <1>6, <2>1
  <2>. HIDE DEF j, e
  <2>7. \A i \in Items : BookOK(after[k + 1][i])
    BY <2>3, <2>4, <2>5
  <2>8. BooksOK(after[k + 1])
    <3>1. after[k + 1] = [i \in Items |-> after[k + 1][i]] /\ DOMAIN after[k + 1] = Items
      BY <2>2 DEF PostEntry
    <3>. QED
      BY <2>7, <3>1 DEF BooksOK
  <2>9. ASSUME NEW i \in Items
        PROVE  DrawnFrom(book[i], after[k + 1][i], Permitted(o), Sum(asked(i), k + 1))
    <3>1. DrawnFrom(book[i], after[k][i], Permitted(o), Sum(asked(i), k)) /\ Sum(asked(i), k) \in Int
      BY <1>5, <2>1
    <3>2. CASE i = j
      <4>1. DrawnFrom(after[k][i], after[k + 1][i], Permitted(o), e.qty)
        BY <2>5, <3>2
      <4>2. Sum(asked(i), k + 1) = Sum(asked(i), k) + e.qty
        BY <2>6, <3>2
      <4>3. DrawnFrom(book[i], after[k + 1][i], Permitted(o), Sum(asked(i), k) + e.qty)
        BY <2>2, <3>1, <4>1, DrawnTwice
      <4>. QED
        BY <4>2, <4>3
    <3>3. CASE i # j
      <4>1. after[k + 1][i] = after[k][i]
        BY <2>3, <3>3
      <4>2. Sum(asked(i), k + 1) = Sum(asked(i), k)
        BY <2>6, <3>1, <3>3
      <4>. QED
        BY <3>1, <4>1, <4>2
    <3>. QED
      BY <3>2, <3>3
  <2>. QED
    BY <2>8, <2>9
<1>9. \A k \in Nat : k \in S
  <2>1. 0 \in S
    BY <1>7
  <2>. HIDE DEF S
  <2>. QED
    BY <1>8, <2>1, SetInduction
<1>. QED
  BY <1>1, <1>9 DEF after, asked

-----------------------------------------------------------------------------
(***************************************************************************)
(* The invariant, in the parts that each step needs.                       *)
(***************************************************************************)
\* The sum of a lot in INV is a natural.
LEMMA LotsInStock ==
  ASSUME PlantInv, TraceInv, NEW l \in Lots
  PROVE  /\ lots[l].item \in Items /\ InBucket("INV", l) \in Nat
         /\ lots[l].packed \in Nat
<1>1. LotOK(lots[l]) /\ TracedLot(l)
  BY DEF PlantInv, LotsOK, TraceInv
<1>2. lots[l].item \in Items /\ lots[l].qty \in Nat /\ lots[l].packed \in Nat
  BY <1>1, LotFields
<1>3. lots[l].origin \in Origins
  BY <1>1 DEF LotOK, LotRows
<1>4. CASE lots[l].origin = "RECEIPT"
  BY <1>1, <1>2, <1>4 DEF TracedLot, ReceiptTraced
<1>5. CASE lots[l].origin = "PRODUCTION"
  BY <1>1, <1>2, <1>5 DEF TracedLot, ProductionTraced
<1>. QED
  BY <1>2, <1>3, <1>4, <1>5 DEF Origins

LEMMA LotsInStockAfter ==
  (PlantInv /\ TraceInv)' => (\A l \in Lots : InBucket("INV", l) \in Nat)'
<1>1. PlantInv /\ TraceInv => \A l \in Lots : InBucket("INV", l) \in Nat
  BY LotsInStock
<1>. QED
  BY <1>1, PTL

\* So it is in the books of the other items, where it is zero.
LEMMA BooksStocked ==
  ASSUME PlantInv, TraceInv
  PROVE  /\ \A i \in Items : Stocked(book[i])
         /\ \A i \in Items, l \in Lots : i # lots[l].item => book[i].lotQty["INV"][l] = 0
<1>1. "INV" \in Statuses
  BY DEF Statuses
<1>2. ASSUME NEW i \in Items, NEW l \in Lots, i # lots[l].item
      PROVE  book[i].lotQty["INV"][l] = 0
  BY <1>1, <1>2 DEF TraceInv, TracedLot
<1>3. ASSUME NEW i \in Items, NEW l \in Lots
      PROVE  book[i].lotQty["INV"][l] \in Nat
  <2>1. CASE i # lots[l].item
    BY <1>2, <2>1
  <2>2. CASE i = lots[l].item
    BY <2>2, LotsInStock DEF InBucket
  <2>. QED
    BY <2>1, <2>2
<1>. QED
  BY <1>2, <1>3 DEF Stocked

\* A lot is in INV only once it is approved.
LEMMA StockApproved ==
  ASSUME PlantInv, TraceInv, NEW l \in Lots, InBucket("INV", l) > 0
  PROVE  lots[l].qc = "APPROVED"
<1>1. LotOK(lots[l]) /\ TracedLot(l)
  BY DEF PlantInv, LotsOK, TraceInv
<1>2. lots[l].qty \in Nat /\ lots[l].packed \in Nat
  BY <1>1, LotFields
<1>3. lots[l].origin \in Origins
  BY <1>1 DEF LotOK, LotRows
<1>4. CASE lots[l].origin = "RECEIPT"
  BY <1>1, <1>2, <1>4 DEF TracedLot, ReceiptTraced
<1>5. CASE lots[l].origin = "PRODUCTION"
  BY <1>1, <1>2, <1>5 DEF TracedLot, ProductionTraced
<1>. QED
  BY <1>3, <1>4, <1>5 DEF Origins

LEMMA SoldTypes ==
  ASSUME SoldTypeOK, NEW l \in Lots
  PROVE  /\ \A o \in SalesOrders : sold[o][l] \in Nat
         /\ Drawn(l) \in Nat
         /\ (\E o \in SalesOrders : sold[o][l] > 0) \/ Drawn(l) = 0
<1>. DEFINE column == [o \in SalesOrders |-> sold[o][l]]
<1>1. SalesOrders = 1..NumSalesOrders /\ NumSalesOrders \in Nat /\ NumSalesOrders \in 0..NumSalesOrders
  BY SalesAssumption DEF SalesOrders
<1>2. \A o \in SalesOrders : sold[o][l] \in Nat /\ column[o] = sold[o][l]
  BY DEF SoldTypeOK
<1>. HIDE DEF column
<1>3. Sum(column, NumSalesOrders) \in Nat
  BY <1>1, <1>2, SumNat
<1>4. ASSUME \A o \in SalesOrders : ~ sold[o][l] > 0
      PROVE  Sum(column, NumSalesOrders) = 0
  <2>1. \A o \in 1..NumSalesOrders : column[o] = 0
    BY <1>1, <1>2, <1>4
  <2>. QED
    BY <1>1, <2>1, SumZero
<1>. QED
  BY <1>2, <1>3, <1>4 DEF Drawn, column

-----------------------------------------------------------------------------
(***************************************************************************)
(* Shipping.                                                               *)
(***************************************************************************)
LEMMA ShipDraws ==
  ASSUME FulfilmentInv, NEW o \in SalesOrders, NEW req \in Shipments, Ship(o, req)
  PROVE  /\ BooksOK(book')
         /\ \A i \in Items : DrawnFrom(book[i], book'[i], Permitted(o),
                                      Sum(AskedFor(o, req, i), Len(req)))
<1>. DEFINE n == Len(req)
<1>1. n \in Nat /\ DOMAIN req = 1..n
  BY EntryTypes
<1>2. BooksOK(book) /\ \A i \in Items : Stocked(book[i])
  BY BooksStocked DEF FulfilmentInv, PlantInv, StockInv
<1>3. EntriesPostable(o, req) /\ book' = BooksAfter(o, req)[n]
  BY DEF Ship, ShipFits, EntriesPostable
<1>4. n \in 0..n
  BY <1>1
<1>. HIDE DEF n
<1>5. /\ BooksOK(BooksAfter(o, req)[n])
      /\ \A i \in Items : DrawnFrom(book[i], BooksAfter(o, req)[n][i], Permitted(o),
                                   Sum(AskedFor(o, req, i), n))
  <2>1. \A k \in 0..n :
           /\ BooksOK(BooksAfter(o, req)[k])
           /\ \A i \in Items : DrawnFrom(book[i], BooksAfter(o, req)[k][i], Permitted(o),
                                         Sum(AskedFor(o, req, i), k))
    BY <1>2, <1>3, BooksAfterDraw DEF n
  <2>. QED
    BY <1>4, <2>1
<1>. QED
  BY <1>3, <1>5 DEF n

\* It only draws stock of lots from INV, so the lots stay good and traced.
LEMMA ShipPlant ==
  ASSUME FulfilmentInv, NEW o \in SalesOrders, NEW req \in Shipments, Ship(o, req)
  PROVE  PlantInv' /\ TraceInv'
<1>1. UNCHANGED <<locs, lots>>
  BY DEF Ship
<1>2. BooksOK(book') /\ PlantInv /\ TraceInv
  BY ShipDraws DEF FulfilmentInv
<1>3. PlantInv'
  BY <1>1, <1>2 DEF PlantInv, StockInv, LotsOK, LocationTypeOK
<1>4. ASSUME NEW l \in Lots, NEW i \in Items, NEW s \in Statuses
      PROVE  \/ book'[i].lotQty[s][l] = book[i].lotQty[s][l]
             \/ /\ s = "INV" /\ book'[i].lotQty[s][l] \in Nat
                /\ book'[i].lotQty[s][l] <= book[i].lotQty[s][l]
  BY ShipDraws DEF DrawnFrom
<1>5. TraceInv'
  BY <1>1, <1>2, <1>4, DrawnLots
<1>. QED
  BY <1>3, <1>5

\* What the ledger lines of the order gain is what INV loses.
LEMMA ShipSells ==
  ASSUME FulfilmentInv, NEW o \in SalesOrders, NEW req \in Shipments, Ship(o, req)
  PROVE  /\ UNCHANGED <<lots, jobs>>
         /\ \A p \in SalesOrders \ {o} : sold'[p] = sold[p]
         /\ sold' \in [SalesOrders -> [Lots -> Nat]]
         /\ \A l \in Lots :
              /\ InBucket("INV", l)' \in Nat /\ InBucket("INV", l)' <= InBucket("INV", l)
              /\ l \notin Permitted(o) => InBucket("INV", l)' = InBucket("INV", l)
              /\ sold'[o][l] = sold[o][l] + (InBucket("INV", l) - InBucket("INV", l)')
<1>1. UNCHANGED <<lots, jobs>>
  BY DEF Ship
<1>2. sold' = [sold EXCEPT ![o] = [l \in Lots |->
          @[l] + book[lots[l].item].lotQty["INV"][l] - book'[lots[l].item].lotQty["INV"][l]]]
  BY DEF Ship
<1>3. sold \in [SalesOrders -> [Lots -> Nat]]
  BY DEF FulfilmentInv, SoldInv, SoldTypeOK
<1>4. ASSUME NEW l \in Lots
      PROVE  /\ InBucket("INV", l) \in Nat
             /\ InBucket("INV", l)' \in Nat /\ InBucket("INV", l)' <= InBucket("INV", l)
             /\ l \notin Permitted(o) => InBucket("INV", l)' = InBucket("INV", l)
  <2>1. lots[l].item \in Items /\ InBucket("INV", l) \in Nat
    BY LotsInStock DEF FulfilmentInv
  <2>2. InBucket("INV", l)' = book'[lots[l].item].lotQty["INV"][l]
    BY <1>1 DEF InBucket
  <2>3. DrawnFrom(book[lots[l].item], book'[lots[l].item], Permitted(o),
                  Sum(AskedFor(o, req, lots[l].item), Len(req)))
    BY <2>1, ShipDraws
  <2>. QED
    BY <2>1, <2>2, <2>3 DEF DrawnFrom, InBucket
<1>5. ASSUME NEW l \in Lots
      PROVE  sold'[o][l] = sold[o][l] + (InBucket("INV", l) - InBucket("INV", l)')
  <2>1. sold'[o][l] = sold[o][l] + InBucket("INV", l) - InBucket("INV", l)'
    BY <1>1, <1>2, <1>3 DEF InBucket
  <2>2. sold[o][l] \in Nat
    BY <1>3
  <2>. QED
    BY <1>4, <2>1, <2>2
<1>6. sold' \in [SalesOrders -> [Lots -> Nat]]
  <2>1. \A p \in SalesOrders \ {o} : sold'[p] = sold[p]
    BY <1>2, <1>3
  <2>2. \A l \in Lots : sold'[o][l] \in Nat
    BY <1>3, <1>4, <1>5
  <2>3. DOMAIN sold' = SalesOrders /\ sold' = [p \in SalesOrders |-> sold'[p]]
    BY <1>2, <1>3
  <2>4. sold'[o] = [l \in Lots |-> sold'[o][l]]
    BY <1>2, <1>3
  <2>5. sold'[o] \in [Lots -> Nat]
    BY <2>2, <2>4
  <2>. QED
    BY <1>3, <2>1, <2>3, <2>5
<1>. QED
  BY <1>1, <1>2, <1>3, <1>4, <1>5, <1>6

LEMMA ShipSoldInv ==
  ASSUME FulfilmentInv, NEW o \in SalesOrders, NEW req \in Shipments, Ship(o, req)
  PROVE  SoldInv'
<1>1. /\ UNCHANGED <<lots, jobs>>
      /\ \A p \in SalesOrders \ {o} : sold'[p] = sold[p]
      /\ sold' \in [SalesOrders -> [Lots -> Nat]]
      /\ \A l \in Lots :
           /\ InBucket("INV", l)' \in Nat /\ InBucket("INV", l)' <= InBucket("INV", l)
           /\ sold'[o][l] = sold[o][l] + (InBucket("INV", l) - InBucket("INV", l)')
  BY ShipSells
<1>2. SoldTypeOK /\ ProductionOnly /\ SoldApproved /\ PackedStands /\ PlantInv /\ TraceInv
  BY DEF FulfilmentInv, SoldInv
<1>3. \A l \in Lots : /\ InBucket("INV", l) \in Nat
                      /\ \A p \in SalesOrders : sold[p][l] \in Nat /\ sold'[p][l] \in Nat
  BY <1>1, <1>2, LotsInStock DEF SoldTypeOK
<1>4. ProductionOnly'
  BY <1>1, <1>2 DEF ProductionOnly
<1>5. SoldApproved'
  <2>. SUFFICES ASSUME NEW p \in SalesOrders, NEW l \in Lots, sold'[p][l] > 0
                PROVE  lots'[l].qc = "APPROVED"
    BY DEF SoldApproved
  <2>1. sold[p][l] > 0 \/ InBucket("INV", l) > 0
    BY <1>1, <1>3
  <2>2. lots[l].qc = "APPROVED"
    BY <1>2, <2>1, StockApproved DEF SoldApproved
  <2>. QED
    BY <1>1, <2>2
<1>6. ASSUME NEW l \in Lots
      PROVE  Drawn(l)' = Drawn(l) + (InBucket("INV", l) - InBucket("INV", l)')
  <2>. DEFINE f == [p \in SalesOrders |-> sold[p][l]]
              g == [p \in SalesOrders |-> sold'[p][l]]
  <2>1. SalesOrders = 1..NumSalesOrders /\ NumSalesOrders \in Nat
    BY SalesAssumption DEF SalesOrders
  <2>2. \A p \in SalesOrders : /\ f[p] \in Int /\ g[p] \in Int
                               /\ p # o => g[p] = f[p]
    BY <1>1, <1>3
  <2>3. g[o] - f[o] = InBucket("INV", l) - InBucket("INV", l)'
    <3>1. /\ sold'[o][l] = sold[o][l] + (InBucket("INV", l) - InBucket("INV", l)')
          /\ sold[o][l] \in Nat /\ InBucket("INV", l) \in Nat /\ InBucket("INV", l)' \in Nat
      BY <1>1, <1>3
    <3>2. g[o] = sold'[o][l] /\ f[o] = sold[o][l]
      OBVIOUS
    <3>. HIDE DEF f, g
    <3>. QED
      BY <3>1, <3>2
  <2>4. Drawn(l) = Sum(f, NumSalesOrders) /\ Drawn(l)' = Sum(g, NumSalesOrders)
    BY DEF Drawn
  <2>. HIDE DEF f, g
  <2>5. Sum(g, NumSalesOrders) = Sum(f, NumSalesOrders) + (g[o] - f[o])
    <3>1. o \in 1..NumSalesOrders
      BY <2>1
    <3>. QED
      BY <2>1, <2>2, <3>1, SumOneRow
  <2>. QED
    BY <2>3, <2>4, <2>5
<1>7. PackedStands'
  <2>. SUFFICES ASSUME NEW l \in Lots, ~ Consumed(lots[l].item)
                PROVE  InBucket("INV", l)' + Drawn(l)' = lots[l].packed
    BY <1>1 DEF PackedStands, Consumed
  <2>1. InBucket("INV", l) + Drawn(l) = lots[l].packed
    BY <1>2 DEF PackedStands
  <2>2. Drawn(l) \in Nat /\ InBucket("INV", l) \in Nat /\ InBucket("INV", l)' \in Nat
    BY <1>1, <1>2, <1>3, SoldTypes
  <2>. QED
    BY <1>6, <2>1, <2>2
<1>. QED
  BY <1>1, <1>4, <1>5, <1>7 DEF SoldInv, SoldTypeOK

\* Drawing containers that are in stock keeps their counts naturals.
LEMMA LessType ==
  ASSUME ContainersTypeOK, NEW need \in [Containers -> Nat], Holds(need), jars' = Less(need)
  PROVE  ContainersTypeOK'
<1>1. ASSUME NEW c \in Containers
      PROVE  [jars[c] EXCEPT !.qty = @ - need[c]] \in JarRows
  <2>1. jars[c] \in JarRows /\ need[c] \in Nat /\ need[c] <= jars[c].qty
    BY DEF ContainersTypeOK, Holds
  <2>. QED
    BY <2>1 DEF JarRows
<1>. QED
  BY <1>1 DEF Less, ContainersTypeOK

\* The entries of a shipment that are containers are withdrawn from their counts.
LEMMA ContainersOfType ==
  ASSUME NEW o, NEW req \in Shipments
  PROVE  ContainersOf(o, req) \in [Containers -> Nat]
<1>1. ASSUME NEW c \in Containers
      PROVE  ContainersOf(o, req)[c] \in Nat
  <2>. DEFINE f == [k \in DOMAIN req |-> IF SubjectOf(o, req[k]) = c THEN req[k].qty ELSE 0]
  <2>1. /\ Len(req) \in Nat /\ DOMAIN req = 1..Len(req) /\ Len(req) \in 0..Len(req)
        /\ \A k \in 1..Len(req) : req[k].qty \in Nat
    BY EntryTypes
  <2>2. \A k \in 1..Len(req) : f[k] \in Nat
    BY <2>1
  <2>3. ContainersOf(o, req)[c] = Sum(f, Len(req))
    BY DEF ContainersOf
  <2>. HIDE DEF f
  <2>. QED
    BY <2>1, <2>2, <2>3, SumNat
<1>2. ContainersOf(o, req) = [c \in Containers |-> ContainersOf(o, req)[c]]
  BY DEF ContainersOf
<1>. QED
  BY <1>1, <1>2

LEMMA PacksOfType ==
  ASSUME NEW lines \in Seq(SalesLines)
  PROVE  PacksOf(lines) \in [Containers -> Nat]
<1>0. /\ Len(lines) \in Nat /\ DOMAIN lines = 1..Len(lines) /\ Len(lines) \in 0..Len(lines)
      /\ \A n \in 1..Len(lines) : lines[n].packs \in Nat
  <2>1. \A n \in 1..Len(lines) : lines[n] \in SalesLines
    BY ListElement
  <2>. QED
    BY <2>1 DEF SalesLines
<1>1. ASSUME NEW c \in Containers
      PROVE  PacksOf(lines)[c] \in Nat
  <2>. DEFINE f == [n \in DOMAIN lines |-> IF n \in Packed(lines) /\ lines[n].pack = c
                                          THEN lines[n].packs ELSE 0]
  <2>2. \A n \in 1..Len(lines) : f[n] \in Nat
    BY <1>0
  <2>3. PacksOf(lines)[c] = Sum(f, Len(lines))
    BY DEF PacksOf
  <2>. HIDE DEF f
  <2>. QED
    BY <1>0, <2>2, <2>3, SumNat
<1>2. PacksOf(lines) = [c \in Containers |-> PacksOf(lines)[c]]
  BY DEF PacksOf
<1>. QED
  BY <1>1, <1>2

-----------------------------------------------------------------------------
(***************************************************************************)
(* The orders: the rows of a shipment, and the queue that they leave alone.*)
(***************************************************************************)
\* Among the entries for a line there is a last one.
LEMMA LastEntryType ==
  ASSUME NEW req \in Shipments, NEW n, NEW j \in 1..Len(req), req[j].line = n
  PROVE  LastEntry(req, n) \in 1..Len(req) /\ req[LastEntry(req, n)].line = n
<1>. DEFINE m == Len(req)
            T == {m - k : k \in {i \in 1..m : req[i].line = n}}
<1>1. m \in Nat /\ DOMAIN req = 1..m
  BY EntryTypes
<1>2. T \in SUBSET Nat /\ m - j \in T
  BY <1>1
<1>3. PICK t \in T : \A u \in T : t <= u
  <2>. HIDE DEF T
  <2>. QED
    BY <1>2, LeastNumber
<1>4. PICK k \in 1..m : req[k].line = n /\ t = m - k
  BY <1>3
<1>5. \A i \in 1..m : req[i].line = n => i <= k
  <2>. SUFFICES ASSUME NEW i \in 1..m, req[i].line = n
                PROVE  i <= k
    OBVIOUS
  <2>1. m - i \in T
    OBVIOUS
  <2>2. t <= m - i
    BY <1>3, <2>1
  <2>. QED
    BY <1>1, <1>4, <2>2
<1>6. \E i \in DOMAIN req : /\ req[i].line = n
                            /\ \A h \in DOMAIN req : req[h].line = n => h <= i
  BY <1>1, <1>4, <1>5
<1>. QED
  BY <1>1, <1>6 DEF LastEntry

LEMMA ShippedLinesType ==
  ASSUME NEW lines \in Seq(SalesLines), NEW req \in Shipments
  PROVE  /\ ShippedLines(lines, req) \in Seq(SalesLines)
         /\ Len(ShippedLines(lines, req)) = Len(lines)
         /\ DOMAIN ShippedLines(lines, req) = 1..Len(lines)
         /\ \A n \in 1..Len(lines) :
              ShippedLines(lines, req)[n] =
                IF \E k \in 1..Len(req) : req[k].line = n
                THEN [lines[n] EXCEPT !.shipped = @ + req[LastEntry(req, n)].qty] ELSE lines[n]
<1>. DEFINE rows == ShippedLines(lines, req)
<1>1. /\ Len(lines) \in Nat /\ DOMAIN lines = 1..Len(lines)
      /\ \A n \in 1..Len(lines) : lines[n] \in SalesLines
  BY ListElement
<1>2. DOMAIN req = 1..Len(req) /\ \A k \in 1..Len(req) : req[k].qty \in Nat
  BY EntryTypes
<1>3. /\ rows = [n \in 1..Len(lines) |-> rows[n]] /\ DOMAIN rows = 1..Len(lines)
      /\ \A n \in 1..Len(lines) :
           rows[n] = IF \E k \in 1..Len(req) : req[k].line = n
                     THEN [lines[n] EXCEPT !.shipped = @ + req[LastEntry(req, n)].qty] ELSE lines[n]
  BY <1>1, <1>2 DEF ShippedLines
<1>. HIDE DEF rows
<1>4. ASSUME NEW n \in 1..Len(lines)
      PROVE  rows[n] \in SalesLines
  <2>1. CASE \E k \in 1..Len(req) : req[k].line = n
    <3>1. req[LastEntry(req, n)].qty \in Nat
      BY <1>2, <2>1, LastEntryType
    <3>2. rows[n] = [lines[n] EXCEPT !.shipped = @ + req[LastEntry(req, n)].qty]
      BY <1>3, <2>1
    <3>3. lines[n] \in SalesLines
      BY <1>1
    <3>4. ASSUME NEW u \in Nat
          PROVE  [lines[n] EXCEPT !.shipped = @ + u] \in SalesLines
      <4>. DEFINE v == lines[n].shipped + u
      <4>1. v \in Nat
        BY <3>3 DEF SalesLines
      <4>. HIDE DEF v
      <4>2. [lines[n] EXCEPT !.shipped = v] \in SalesLines
        BY <3>3, <4>1 DEF SalesLines
      <4>. QED
        BY <4>2 DEF v
    <3>. QED
      BY <3>1, <3>2, <3>4
  <2>2. CASE ~ \E k \in 1..Len(req) : req[k].line = n
    BY <1>1, <1>3, <2>2
  <2>. QED
    BY <2>1, <2>2
<1>5. rows \in Seq(SalesLines) /\ Len(rows) = Len(lines)
  BY <1>1, <1>3, <1>4
<1>. QED
  BY <1>3, <1>5 DEF rows

\* An order whose lines keep their number and subjects leaves the queue and its reservations alone.
LEMMA LinesKept ==
  ASSUME SchedulerInv, AccountsInv', UNCHANGED jobs,
         \A o \in SalesOrders :
           /\ DOMAIN orders'[o].lines = DOMAIN orders[o].lines
           /\ \A n \in DOMAIN orders[o].lines :
                orders'[o].lines[n].subject = orders[o].lines[n].subject
  PROVE  SchedulerInv'
<1>1. Created' = Created /\ Queued' = Queued /\ Created \subseteq Jobs
  BY DEF Created, Queued, InStatus
<1>2. LinesOfOrders /\ JobsProduceTheirLine /\ MadeByFormula
  BY DEF SchedulerInv, ReservationInv
<1>3. LinesOfOrders' /\ MadeByFormula'
  BY <1>1, <1>2 DEF LinesOfOrders, MadeByFormula
<1>4. JobsProduceTheirLine'
  BY <1>1, <1>2 DEF JobsProduceTheirLine, LinesOfOrders
<1>5. jobs' \in [Jobs -> JobRows] /\ IsFiniteSet(Created')
  BY <1>1 DEF SchedulerInv, QueueInv
<1>6. ReservationInv'
  BY <1>3, <1>4 DEF ReservationInv
<1>. QED
  BY <1>1, <1>5, <1>6, QueueStands

\* A step on the row of an order that also draws containers.
LEMMA DeliveryRow ==
  ASSUME AccountsInv, NEW o \in SalesOrders, NEW r \in OrderRows, OnlyRow(o, r),
         r.refunded <= r.paid, r.status # "NONE", ContainersTypeOK',
         UNCHANGED <<customers, lastNumber, today>>
  PROVE  AccountsInv'
<1>1. orders' \in [SalesOrders -> OrderRows] /\ RefundsWithinPayments' /\ UnusedRowsEmpty'
  BY RowKeepsInv
<1>2. customers' \in [Customers -> ProfileRows] /\ lastNumber' \in Nat /\ today' \in Nat
  BY DEF AccountsInv, AccountsTypeOK
<1>. QED
  BY <1>1, <1>2 DEF AccountsInv, AccountsTypeOK

LEMMA ShipRows ==
  ASSUME FulfilmentInv, NEW o \in SalesOrders, NEW req \in Shipments, Ship(o, req)
  PROVE  /\ SchedulerInv'
         /\ orders[o].lines \in Seq(SalesLines)
         /\ orders'[o].lines = ShippedLines(orders[o].lines, req)
         /\ \A p \in SalesOrders \ {o} : orders'[p] = orders[p]
<1>. DEFINE lines == orders[o].lines
            rows == ShippedLines(lines, req)
            r == [orders[o] EXCEPT !.lines = rows, !.status = SalesStatus(rows)]
<1>1. SchedulerInv /\ AccountsInv /\ AccountsTypeOK /\ ContainersTypeOK
  BY DEF FulfilmentInv, SchedulerInv, AccountsInv, AccountsTypeOK
<1>2. orders \in [SalesOrders -> OrderRows] /\ orders[o] \in OrderRows
  BY <1>1 DEF AccountsTypeOK
<1>3. lines \in Seq(SalesLines)
  BY <1>2 DEF OrderRows
<1>4. rows \in Seq(SalesLines) /\ DOMAIN rows = 1..Len(lines)
  BY <1>3, ShippedLinesType
<1>5. SalesStatus(rows) \in {"SHIPPED", "OPEN", "PARTIAL"}
  BY DEF SalesStatus
<1>6. orders' = [orders EXCEPT ![o] = r]
  BY <1>2 DEF Ship, OrderRows
<1>7. r \in OrderRows /\ r.lines = rows /\ r.paid = orders[o].paid
      /\ r.refunded = orders[o].refunded /\ r.status # "NONE"
  <2>. HIDE DEF rows
  <2>. QED
    BY <1>2, <1>4, <1>5 DEF OrderRows, SalesStatuses
<1>8. r.refunded <= r.paid
  BY <1>1, <1>7 DEF AccountsInv, RefundsWithinPayments
<1>9. ContainersTypeOK'
  <2>1. Holds(ContainersOf(o, req)) /\ jars' = Less(ContainersOf(o, req))
    BY DEF Ship, ShipFits
  <2>. QED
    BY <1>1, <2>1, ContainersOfType, LessType
<1>10. UNCHANGED <<jobs, customers, lastNumber, today>>
  BY DEF Ship
<1>11. orders'[o].lines = rows /\ \A p \in SalesOrders \ {o} : orders'[p] = orders[p]
  <2>. HIDE DEF r
  <2>. QED
    BY <1>2, <1>6, <1>7
<1>. HIDE DEF r
<1>12. AccountsInv'
  BY <1>1, <1>6, <1>7, <1>8, <1>9, <1>10, DeliveryRow DEF OnlyRow
<1>13. ASSUME NEW n \in 1..Len(lines)
       PROVE  rows[n].subject = lines[n].subject
  <2>1. ShippedLines(lines, req)[n] =
          IF \E k \in 1..Len(req) : req[k].line = n
          THEN [lines[n] EXCEPT !.shipped = @ + req[LastEntry(req, n)].qty] ELSE lines[n]
    <3>. HIDE DEF lines
    <3>. QED
      BY <1>3, ShippedLinesType
  <2>2. lines[n] \in SalesLines
    BY <1>3, ListElement
  <2>3. rows[n] = lines[n] \/ \E v : rows[n] = [lines[n] EXCEPT !.shipped = v]
    BY <2>1
  <2>. HIDE DEF rows
  <2>. QED
    BY <2>2, <2>3 DEF SalesLines
<1>14. DOMAIN lines = 1..Len(lines)
  BY <1>3
<1>15. SchedulerInv'
  <2>. HIDE DEF rows
  <2>1. \A p \in SalesOrders :
           /\ DOMAIN orders'[p].lines = DOMAIN orders[p].lines
           /\ \A n \in DOMAIN orders[p].lines :
                orders'[p].lines[n].subject = orders[p].lines[n].subject
    BY <1>4, <1>11, <1>13, <1>14
  <2>. QED
    BY <1>1, <1>10, <1>12, <2>1, LinesKept
<1>. QED
  BY <1>3, <1>11, <1>15

LEMMA PackRows ==
  ASSUME FulfilmentInv, NEW o \in SalesOrders, Pack(o)
  PROVE  /\ SchedulerInv'
         /\ \A p \in SalesOrders : orders'[p].lines = orders[p].lines
<1>. DEFINE r == [orders[o] EXCEPT !.packed = TRUE]
<1>1. SchedulerInv /\ AccountsInv /\ AccountsTypeOK /\ ContainersTypeOK
  BY DEF FulfilmentInv, SchedulerInv, AccountsInv, AccountsTypeOK
<1>2. orders \in [SalesOrders -> OrderRows] /\ orders[o] \in OrderRows
  BY <1>1 DEF AccountsTypeOK
<1>3. orders[o].lines \in Seq(SalesLines)
  BY <1>2 DEF OrderRows
<1>4. orders' = [orders EXCEPT ![o] = r] /\ orders[o].status # "NONE"
  BY <1>2 DEF Pack, PackFits, OrderRows
<1>5. r \in OrderRows /\ r.lines = orders[o].lines /\ r.paid = orders[o].paid
      /\ r.refunded = orders[o].refunded /\ r.status = orders[o].status
  BY <1>2 DEF OrderRows
<1>6. r.refunded <= r.paid
  BY <1>1, <1>5 DEF AccountsInv, RefundsWithinPayments
<1>7. ContainersTypeOK'
  <2>1. Holds(PacksOf(orders[o].lines)) /\ jars' = Less(PacksOf(orders[o].lines))
    BY DEF Pack, PackFits
  <2>. QED
    BY <1>1, <1>3, <2>1, PacksOfType, LessType
<1>8. UNCHANGED <<jobs, customers, lastNumber, today>>
  BY DEF Pack
<1>. HIDE DEF r
<1>9. \A p \in SalesOrders : orders'[p].lines = orders[p].lines
  BY <1>2, <1>4, <1>5
<1>10. AccountsInv'
  BY <1>1, <1>4, <1>5, <1>6, <1>7, <1>8, DeliveryRow DEF OnlyRow
<1>. QED
  BY <1>1, <1>8, <1>9, <1>10, LinesKept

-----------------------------------------------------------------------------
(***************************************************************************)
(* The floor: staging draws what a recipe consumes, completing opens a lot.*)
(***************************************************************************)
LEMMA NeedType ==
  ASSUME SchedulerInv, NEW w \in Jobs, NEW i \in Items
  PROVE  Need(w, i) \in Nat /\ (i \in Parts(w) => Consumed(i))
<1>1. jobs[w].qty \in Nat
  BY DEF SchedulerInv, JobRows
<1>2. ASSUME jobs[w].item \in Formulated
      PROVE  /\ Need(w, i) = jobs[w].qty * Recipe[jobs[w].item][i]
             /\ Recipe[jobs[w].item][i] \in Nat
  BY <1>2, FulfilmentAssumption DEF Need
<1>3. jobs[w].item \notin Formulated => Need(w, i) = 0
  BY DEF Need
<1>4. Need(w, i) \in Nat
  BY <1>1, <1>2, <1>3
<1>5. Need(w, i) > 0 => Consumed(i)
  <2>. SUFFICES ASSUME Need(w, i) > 0, jobs[w].item \in Formulated,
                       ~ Recipe[jobs[w].item][i] > 0
                PROVE  FALSE
    BY <1>3 DEF Consumed
  <2>1. Recipe[jobs[w].item][i] = 0
    BY <1>2
  <2>. QED
    BY <1>1, <1>2, <2>1
<1>. QED
  BY <1>4, <1>5 DEF Parts

\* Steps under which lots and sales stand, but for stock of what other products consume.
LEMMA SalesStand ==
  ASSUME SoldInv, sold' = sold, lots' = lots,
         \A l \in Lots : ~ Consumed(lots[l].item) => InBucket("INV", l)' = InBucket("INV", l)
  PROVE  SoldInv'
<1>1. SoldTypeOK' /\ ProductionOnly' /\ SoldApproved'
  BY DEF SoldInv, SoldTypeOK, ProductionOnly, SoldApproved
<1>2. \A l \in Lots : Drawn(l)' = Drawn(l)
  BY DEF Drawn
<1>3. PackedStands'
  BY <1>2 DEF SoldInv, PackedStands, Consumed
<1>. QED
  BY <1>1, <1>3 DEF SoldInv

LEMMA StageJobOK ==
  ASSUME FulfilmentInv, NEW w \in FloorJobs, StageJob(w)
  PROVE  FulfilmentInv' /\ jobs' # jobs
<1>1. w \in Jobs /\ SchedulerInv /\ PlantInv /\ TraceInv /\ SoldInv
  BY SchedulerAssumption DEF FulfilmentInv
<1>2. SchedulerInv'
  BY <1>1, SchedulerStep DEF StageJob, SchedulerNext, FloorStep
<1>3. jobs'[w].status = "STAGED" /\ jobs[w].status = "PLANNED"
  BY <1>1 DEF StageJob, StartJob, SchedulerInv, JobRows
<1>4. /\ UNCHANGED <<locs, lots, sold>>
      /\ book' = [i \in Items |-> IF i \in Parts(w) THEN Staged(book[i], Need(w, i)) ELSE book[i]]
  BY DEF StageJob
<1>5. ASSUME NEW i \in Items
      PROVE  BookOK(book[i]) /\ Need(w, i) \in Nat
  BY <1>1, NeedType DEF PlantInv, StockInv, BooksOK
<1>6. ASSUME NEW i \in Parts(w)
      PROVE  i \in Items /\ Covers(book[i], "INV", Need(w, i))
  BY DEF StageJob, MaterialCovered, Parts
<1>7. \A i \in Items : BookOK(book'[i])
  <2>1. \A i \in Parts(w) : BookOK(Staged(book[i], Need(w, i)))
    BY <1>5, <1>6, StagedOK
  <2>. QED
    BY <1>4, <1>5, <2>1
<1>8. PlantInv'
  <2>1. book' = [i \in Items |-> book'[i]] /\ DOMAIN book' = Items
    BY <1>4
  <2>2. BooksOK(book')
    BY <1>7, <2>1 DEF BooksOK
  <2>. QED
    BY <1>1, <1>4, <2>2 DEF PlantInv, StockInv, LotsOK, LocationTypeOK
<1>9. ASSUME NEW l \in Lots, NEW i \in Items, NEW s \in Statuses
      PROVE  \/ book'[i].lotQty[s][l] = book[i].lotQty[s][l]
             \/ /\ s = "INV" /\ book'[i].lotQty[s][l] \in Nat
                /\ book'[i].lotQty[s][l] <= book[i].lotQty[s][l]
  <2>1. CASE i \in Parts(w)
    <3>. DEFINE slices == FifoSlices(book[i], "INV", Need(w, i), Lots)
    <3>1. book'[i].lotQty[s][l] = IF s = "INV" THEN book[i].lotQty[s][l] - slices[l]
                                  ELSE book[i].lotQty[s][l]
      BY <1>4, <1>5, <1>6, <2>1, StagedLots
    <3>2. slices[l] \in Nat /\ slices[l] <= Positive(book[i].lotQty["INV"][l])
      BY <1>5, FifoType
    <3>3. book[i].lotQty["INV"][l] \in Nat
      BY <1>1, BooksStocked DEF Stocked
    <3>. HIDE DEF slices
    <3>. QED
      BY <3>1, <3>2, <3>3 DEF Positive
  <2>2. CASE i \notin Parts(w)
    BY <1>4, <2>2
  <2>. QED
    BY <2>1, <2>2
<1>10. TraceInv'
  BY <1>1, <1>4, <1>9, DrawnLots
<1>11. ASSUME NEW l \in Lots, ~ Consumed(lots[l].item)
       PROVE  InBucket("INV", l)' = InBucket("INV", l)
  <2>1. lots[l].item \in Items /\ lots[l].item \notin Parts(w)
    BY <1>1, <1>11, NeedType, LotsInStock
  <2>. QED
    BY <1>4, <2>1 DEF InBucket
<1>12. SoldInv'
  BY <1>1, <1>4, <1>11, SalesStand
<1>. QED
  BY <1>2, <1>3, <1>8, <1>10, <1>12 DEF FulfilmentInv

LEMMA CompleteJobOpens ==
  ASSUME FulfilmentInv, NEW w \in FloorJobs, CompleteJob(w)
  PROVE  /\ jobs[w].item \in Items /\ jobs[w].qty \in Nat /\ <<w, 0>> \in Nat \X Nat
         /\ [i \in Items |-> Need(w, i)] \in [Items -> Nat]
         /\ OpensLot(jobs[w].item, <<w, 0>>, jobs[w].qty, Parts(w), [i \in Items |-> Need(w, i)])
<1>1. w \in Jobs /\ w \in Nat /\ SchedulerInv /\ jobs[w] \in JobRows
  BY SchedulerAssumption DEF FulfilmentInv, SchedulerInv
<1>2. jobs[w].qty \in Nat /\ jobs[w].status = "STAGED"
  BY <1>1 DEF JobRows, CompleteJob, FinishJob
<1>3. jobs[w].item \in Formulated
  <2>1. w \in Created
    BY <1>1, <1>2 DEF Created, InStatus
  <2>. QED
    BY <1>1, <2>1 DEF SchedulerInv, ReservationInv, MadeByFormula
<1>4. jobs[w].item \in Items
  BY <1>3, SchedulerAssumption, FulfilmentAssumption
<1>. DEFINE out == [i \in Items |-> Need(w, i)]
<1>5. out \in [Items -> Nat] /\ \A i \in Items : out[i] = Need(w, i)
  BY <1>1, NeedType
<1>6. Parts(w) \subseteq Items
  BY DEF Parts
<1>. HIDE DEF out
<1>. DEFINE f(i) == IF i = jobs[w].item
                    THEN PostIn(book[i], "WIP", At(NextLot, jobs[w].qty, NumLots), jobs[w].qty, NoLoc)
                    ELSE IF i \in Parts(w)
                         THEN PostOut(book[i], "WIP", NoSlices, out[i], NoLoc, Defaults)
                    ELSE book[i]
            g(i) == IF i = jobs[w].item
                    THEN PostIn(book[i], "WIP", At(NextLot, jobs[w].qty, NumLots), jobs[w].qty, NoLoc)
                    ELSE IF i \in Parts(w)
                         THEN PostOut(book[i], "WIP", NoSlices, Need(w, i), NoLoc, Defaults)
                    ELSE book[i]
<1>7. book' = [i \in Items |-> g(i)]
  BY DEF CompleteJob
<1>8. \A i \in Items : f(i) = g(i)
  BY <1>5
<1>9. book' = [i \in Items |-> f(i)]
  <2>. HIDE DEF f, g
  <2>. QED
    BY <1>7, <1>8
<1>10. /\ FreeLots # {} /\ \A i \in Parts(w) : Covers(book[i], "WIP", out[i])
       /\ lots' = [lots EXCEPT ![NextLot] =
            NewLot(jobs[w].item, "PRODUCTION", <<w, 0>>, jobs[w].qty, NoLoc)]
       /\ UNCHANGED locs
  BY <1>5, <1>6 DEF CompleteJob
<1>11. OpensLot(jobs[w].item, <<w, 0>>, jobs[w].qty, Parts(w), out)
  BY <1>9, <1>10 DEF OpensLot
<1>. QED
  BY <1>1, <1>2, <1>4, <1>5, <1>11 DEF out

\* The new lot has no stock in INV and was not sold; the other lots stand.
LEMMA CompleteJobLots ==
  ASSUME FulfilmentInv, NEW w \in FloorJobs, CompleteJob(w)
  PROVE  \E n \in Lots :
           /\ lots[n].qc = "NONE" /\ lots'[n].qc = "PENDING" /\ lots'[n].packed = 0
           /\ lots'[n].origin = "PRODUCTION" /\ lots'[n].item \in Items
           /\ \A l \in Lots \ {n} : lots'[l] = lots[l]
           /\ \A i \in Items, l \in Lots : book'[i].lotQty["INV"][l] = book[i].lotQty["INV"][l]
<1>1. PlantInv /\ TraceInv
  BY DEF FulfilmentInv
<1>2. /\ NextLot \in Lots /\ lots[NextLot].qc = "NONE"
      /\ \A k \in Lots : NextLot > k => lots[k].qc # "NONE"
      /\ lots'[NextLot] = NewLot(jobs[w].item, "PRODUCTION", <<w, 0>>, jobs[w].qty, NoLoc)
      /\ \A k \in Lots \ {NextLot} : lots'[k] = lots[k]
      /\ LotArrives(NextLot, jobs[w].item, jobs[w].qty)
  <2>. DEFINE out == [i \in Items |-> Need(w, i)]
  <2>1. /\ jobs[w].item \in Items /\ jobs[w].qty \in Nat /\ <<w, 0>> \in Nat \X Nat
        /\ out \in [Items -> Nat]
        /\ OpensLot(jobs[w].item, <<w, 0>>, jobs[w].qty, Parts(w), out)
        /\ Parts(w) \in SUBSET Items
    BY CompleteJobOpens DEF Parts
  <2>. HIDE DEF out
  <2>. QED
    BY <1>1, <2>1, OpensLotLines
<1>3. /\ lots'[NextLot].qc = "PENDING" /\ lots'[NextLot].packed = 0
      /\ lots'[NextLot].origin = "PRODUCTION" /\ lots'[NextLot].item \in Items
  <2>1. jobs[w].item \in Items
    BY CompleteJobOpens
  <2>. QED
    BY <1>2, <2>1 DEF NewLot
<1>4. \A i \in Items, l \in Lots : book'[i].lotQty["INV"][l] = book[i].lotQty["INV"][l]
  BY <1>2 DEF LotArrives, Statuses
<1>. QED
  BY <1>2, <1>3, <1>4

LEMMA CompleteJobOK ==
  ASSUME FulfilmentInv, NEW w \in FloorJobs, CompleteJob(w)
  PROVE  FulfilmentInv' /\ jobs' # jobs
<1>1. w \in Jobs /\ SchedulerInv /\ PlantInv /\ TraceInv
  BY SchedulerAssumption DEF FulfilmentInv
<1>2. SchedulerInv'
  BY <1>1, SchedulerStep DEF CompleteJob, SchedulerNext, FloorStep
<1>3. jobs'[w].status = "COMPLETED" /\ jobs[w].status = "STAGED"
  BY <1>1 DEF CompleteJob, FinishJob, SchedulerInv, JobRows
<1>4. PlantInv' /\ TraceInv'
  <2>. DEFINE out == [i \in Items |-> Need(w, i)]
  <2>1. /\ jobs[w].item \in Items /\ jobs[w].qty \in Nat /\ <<w, 0>> \in Nat \X Nat
        /\ out \in [Items -> Nat]
        /\ OpensLot(jobs[w].item, <<w, 0>>, jobs[w].qty, Parts(w), out)
        /\ Parts(w) \in SUBSET Items
    BY CompleteJobOpens DEF Parts
  <2>. HIDE DEF out
  <2>. QED
    BY <1>1, <2>1, OpensLotOK, OpensLotTraced
<1>5. PICK n \in Lots :
           /\ lots[n].qc = "NONE" /\ lots'[n].qc = "PENDING" /\ lots'[n].packed = 0
           /\ lots'[n].origin = "PRODUCTION" /\ lots'[n].item \in Items
           /\ \A l \in Lots \ {n} : lots'[l] = lots[l]
           /\ \A i \in Items, l \in Lots : book'[i].lotQty["INV"][l] = book[i].lotQty["INV"][l]
  BY CompleteJobLots
<1>6. SoldTypeOK /\ ProductionOnly /\ SoldApproved /\ PackedStands /\ sold' = sold
  BY DEF FulfilmentInv, SoldInv, CompleteJob
<1>7. SoldTypeOK' /\ ProductionOnly'
  BY <1>5, <1>6 DEF SoldTypeOK, ProductionOnly
<1>8. \A o \in SalesOrders : ~ sold[o][n] > 0
  BY <1>5, <1>6 DEF SoldApproved
<1>9. SoldApproved'
  BY <1>5, <1>6, <1>8 DEF SoldApproved
<1>10. \A l \in Lots : Drawn(l)' = Drawn(l)
  BY <1>6 DEF Drawn
<1>11. PackedStands'
  <2>. SUFFICES ASSUME NEW l \in Lots, ~ Consumed(lots'[l].item)
                PROVE  InBucket("INV", l)' + Drawn(l)' = lots'[l].packed
    BY DEF PackedStands, Consumed
  <2>1. CASE l = n
    <3>1. InBucket("INV", n)' = book[lots'[n].item].lotQty["INV"][n]
      BY <1>5 DEF InBucket
    <3>2. book[lots'[n].item].lotQty["INV"][n] = 0
      BY <1>1, <1>5, NoLotNoStock DEF Statuses
    <3>3. Drawn(n) = 0
      BY <1>6, <1>8, SoldTypes
    <3>. QED
      BY <1>5, <1>10, <2>1, <3>1, <3>2, <3>3
  <2>2. CASE l # n
    <3>1. lots'[l] = lots[l] /\ lots[l].item \in Items
      BY <1>1, <1>5, <2>2, LotsInStock
    <3>2. InBucket("INV", l)' = InBucket("INV", l)
      BY <1>5, <3>1 DEF InBucket
    <3>3. InBucket("INV", l) + Drawn(l) = lots[l].packed
      BY <1>6, <3>1 DEF PackedStands
    <3>. QED
      BY <1>10, <3>1, <3>2, <3>3
  <2>. QED
    BY <2>1, <2>2
<1>. QED
  BY <1>2, <1>3, <1>4, <1>7, <1>9, <1>11 DEF FulfilmentInv, SoldInv

-----------------------------------------------------------------------------
(***************************************************************************)
(* The steps on lots and stock.  Every lot being the output of a work      *)
(* order, what enters INV under a lot is what is packed off of it.         *)
(***************************************************************************)
Packs(l) ==
  /\ lots'[l].packed \in Nat /\ lots'[l].packed >= lots[l].packed
  /\ lots[l].qc = "APPROVED" => lots'[l].qc = "APPROVED"
  /\ lots[l].qc = "NONE" => lots'[l].packed = lots[l].packed
  /\ InBucket("INV", l)' = InBucket("INV", l) + (lots'[l].packed - lots[l].packed)

\* A step that leaves the lines of the lot in INV and what was packed off of it alone.
LEMMA PacksNothing ==
  ASSUME PlantInv, TraceInv, NEW l \in Lots,
         lots'[l].packed = lots[l].packed, lots'[l].item = lots[l].item,
         lots[l].qc = "APPROVED" => lots'[l].qc = "APPROVED",
         book'[lots[l].item].lotQty["INV"][l] = book[lots[l].item].lotQty["INV"][l]
  PROVE  Packs(l)
<1>1. InBucket("INV", l) \in Nat /\ lots[l].packed \in Nat
  BY LotsInStock
<1>2. InBucket("INV", l)' = InBucket("INV", l)
  BY DEF InBucket
<1>. QED
  BY <1>1, <1>2 DEF Packs

LEMMA PackOffPacks ==
  ASSUME PlantInv, TraceInv, NEW i \in Items, NEW q \in Quantity, PackOff(i, q), NEW l \in Lots
  PROVE  Packs(l)
<1>. DEFINE slices == Take(Packable(i), NumLots, q)
            b == PostIn(PostOut(book[i], "WIP", slices, q, NoLoc, Defaults),
                        "INV", slices, q, ResolveInbound("INV"))
<1>1. \A k \in Lots : LotOK(lots[k])
  BY DEF PlantInv, LotsOK
<1>2. \A k \in 1..NumLots : Packable(i)[k] \in Int
  BY <1>1, LotFields DEF Packable, Lots
<1>3. q \in Nat /\ q \in Int
  BY StockAssumption
<1>4. /\ slices \in [Lots -> Nat]
      /\ \A k \in Lots : slices[k] <= Positive(Packable(i)[k])
  BY <1>2, <1>3, TakeBounds, NumLocsNat DEF Lots
<1>5. /\ lots' = [k \in Lots |-> [lots[k] EXCEPT !.packed = @ + slices[k]]]
      /\ book' = [book EXCEPT ![i] = b] /\ book = [j \in Items |-> book[j]]
  BY DEF PackOff, PlantInv, StockInv, BooksOK
<1>6. b.lotQty["INV"][l] = book[i].lotQty["INV"][l] + slices[l]
  <2>1. BookOK(book[i]) /\ Covers(book[i], "WIP", q)
    BY DEF PlantInv, StockInv, BooksOK, PackOff
  <2>2. "WIP" \in Statuses /\ "INV" \in Statuses \ {"WIP"}
    BY DEF Statuses
  <2>3. slices \in [Lots -> Int] /\ ResolveInbound("INV") \in Wheres
    BY <1>4, ResolveInboundType
  <2>. HIDE DEF slices
  <2>. QED
    BY <1>3, <2>1, <2>2, <2>3, MovedLots
<1>7. lots[l].item \in Items /\ lots[l].packed \in Nat /\ InBucket("INV", l) \in Nat
  BY LotsInStock
<1>8. slices[l] \in Nat /\ ((lots[l].item # i \/ lots[l].qc = "NONE") => slices[l] = 0)
  <2>1. slices[l] \in Nat /\ slices[l] <= Positive(Packable(i)[l])
    BY <1>4
  <2>2. lots[l].item # i \/ lots[l].qc = "NONE" => Packable(i)[l] = 0
    BY DEF Packable
  <2>. HIDE DEF slices
  <2>. QED
    BY <2>1, <2>2 DEF Positive
<1>. HIDE DEF b, slices
<1>9. /\ lots'[l].item = lots[l].item /\ lots'[l].packed = lots[l].packed + slices[l]
      /\ lots'[l].qc = lots[l].qc
  BY <1>1, <1>5, LotFields
<1>10. InBucket("INV", l)' = InBucket("INV", l) + slices[l]
  <2>1. CASE lots[l].item = i
    BY <1>5, <1>6, <1>9, <2>1 DEF InBucket
  <2>2. CASE lots[l].item # i
    <3>1. book'[lots[l].item] = book[lots[l].item]
      BY <1>5, <1>7, <2>2
    <3>. QED
      BY <1>7, <1>8, <1>9, <2>2, <3>1 DEF InBucket
  <2>. QED
    BY <2>1, <2>2
<1>. QED
  BY <1>7, <1>8, <1>9, <1>10 DEF Packs

LEMMA PlantStepPacks ==
  ASSUME PlantInv, TraceInv, ProductionOnly, PlantStep, NEW l \in Lots
  PROVE  Packs(l)
<1>1. lots = [k \in Lots |-> lots[k]] /\ LotOK(lots[l]) /\ lots[l].item \in Items
  BY LotsInStock DEF PlantInv, LotsOK
<1>2. ASSUME NEW k \in Lots, NEW results, RecordResults(k, results)
      PROVE  Packs(l)
  <2>1. lots'[l].packed = lots[l].packed /\ lots'[l].item = lots[l].item /\ lots'[l].qc = lots[l].qc
    BY <1>1, <1>2, LotFields DEF RecordResults, ResultsAfter
  <2>. QED
    BY <1>2, <2>1, PacksNothing DEF RecordResults, ResultsAfter
<1>3. ASSUME NEW k \in Lots, Approve(k)
      PROVE  Packs(l)
  <2>1. /\ lots'[l].packed = lots[l].packed /\ lots'[l].item = lots[l].item
        /\ lots[l].qc = "APPROVED" => lots'[l].qc = "APPROVED"
    BY <1>1, <1>3, LotFields DEF Approve
  <2>2. lots[k].qc = "PENDING"
    BY <1>3 DEF Approve
  <2>3. lots[k].origin = "PRODUCTION"
    BY <2>2 DEF ProductionOnly
  <2>4. book' = book
    BY <1>3, <2>3 DEF Approve
  <2>. QED
    BY <2>1, <2>4, PacksNothing
<1>4. ASSUME NEW k \in Lots, Reject(k)
      PROVE  Packs(l)
  <2>1. /\ lots'[l].packed = lots[l].packed /\ lots'[l].item = lots[l].item
        /\ lots[l].qc = "APPROVED" => lots'[l].qc = "APPROVED"
    BY <1>1, <1>4, LotFields DEF Reject
  <2>. QED
    BY <1>4, <2>1, PacksNothing DEF Reject
<1>5. ASSUME NEW k \in Lots, NEW q \in Quantity, ReturnToVendor(k, q)
      PROVE  Packs(l)
  <2>1. lots[k].qc = "REJECTED" /\ lots[k].origin = "RECEIPT"
    BY <1>5 DEF ReturnToVendor, ReturnFits, LotReturned
  <2>. QED
    BY <2>1 DEF ProductionOnly
<1>6. CASE StockNext /\ UNCHANGED lots
  <2>1. book'[lots[l].item].lotQty["INV"][l] = book[lots[l].item].lotQty["INV"][l]
    BY <1>1, <1>6, StockKeepsLots DEF PlantInv, Statuses
  <2>. QED
    BY <1>6, <2>1, PacksNothing
<1>. QED
  BY <1>2, <1>3, <1>4, <1>5, <1>6, PackOffPacks DEF PlantStep, QualityStep

LEMMA PlantStepSells ==
  ASSUME FulfilmentInv, PlantStep, UNCHANGED <<schedulerVars, sold>>
  PROVE  SoldInv'
<1>1. /\ PlantInv /\ TraceInv /\ sold' = sold
      /\ SoldTypeOK /\ ProductionOnly /\ SoldApproved /\ PackedStands
  BY DEF FulfilmentInv, SoldInv
<1>2. \A l \in Lots : Packs(l) /\ SameLot(l)
  BY <1>1, PlantStepPacks, PlantStepKeepsLots
<1>3. ProductionOnly'
  BY <1>1, <1>2 DEF ProductionOnly, Packs, SameLot
<1>4. SoldApproved' /\ SoldTypeOK'
  BY <1>1, <1>2 DEF SoldApproved, SoldTypeOK, Packs
<1>5. PackedStands'
  <2>. SUFFICES ASSUME NEW l \in Lots, ~ Consumed(lots'[l].item)
                PROVE  InBucket("INV", l)' + Drawn(l)' = lots'[l].packed
    BY DEF PackedStands, Consumed
  <2>1. Drawn(l)' = Drawn(l)
    BY <1>1 DEF Drawn
  <2>2. Drawn(l) \in Nat
    BY <1>1, SoldTypes
  <2>3. InBucket("INV", l) \in Nat /\ lots[l].packed \in Nat
    BY <1>1, LotsInStock
  <2>4. InBucket("INV", l) + Drawn(l) = lots[l].packed
    BY <1>1, <1>2 DEF PackedStands, SameLot
  <2>5. /\ lots'[l].packed \in Nat
        /\ InBucket("INV", l)' = InBucket("INV", l) + (lots'[l].packed - lots[l].packed)
    BY <1>2 DEF Packs
  <2>. QED
    BY <2>1, <2>2, <2>3, <2>4, <2>5
<1>. QED
  BY <1>3, <1>4, <1>5 DEF SoldInv

\* Steps that leave the floor and the sales alone.
LEMMA FloorIdle ==
  ASSUME FulfilmentInv, UNCHANGED <<floor, sold>>
  PROVE  /\ PlantInv' /\ TraceInv' /\ SoldInv'
         /\ \A l \in Lots : InBucket("INV", l)' = InBucket("INV", l)
<1>1. UNCHANGED <<locs, book, lots>> /\ sold' = sold /\ PlantInv /\ TraceInv /\ SoldInv
  BY DEF floor, FulfilmentInv
<1>2. \A l \in Lots : InBucket("INV", l)' = InBucket("INV", l)
  BY <1>1 DEF InBucket
<1>. QED
  BY <1>1, <1>2, PlantIdle, TraceIdle, SalesStand

\* The queue, the work orders and the orders of customers, by steps that deliver nothing.
LEMMA SalesStepOK ==
  ASSUME FulfilmentInv, QueueStep \/ JobStep \/ OrdersStep, UNCHANGED <<floor, sold>>
  PROVE  FulfilmentInv'
<1>1. SchedulerInv'
  BY SchedulerStep DEF FulfilmentInv, SchedulerNext
<1>. QED
  BY <1>1, FloorIdle DEF FulfilmentInv

\* A step that leaves the sales side alone keeps the invariant of the queue.
LEMMA SchedulerIdle ==
  ASSUME SchedulerInv, UNCHANGED schedulerVars
  PROVE  SchedulerInv'
<1>1. SchedulerInv /\ [SchedulerNext]_schedulerVars
  OBVIOUS
<1>. QED
  BY <1>1, SchedulerInvStep

LEMMA DeliveryStepOK ==
  ASSUME FulfilmentInv, DeliveryStep
  PROVE  FulfilmentInv'
<1>1. ASSUME NEW o \in SalesOrders, NEW req \in Shipments, Ship(o, req)
      PROVE  FulfilmentInv'
  BY <1>1, ShipRows, ShipPlant, ShipSoldInv DEF FulfilmentInv
<1>2. ASSUME NEW o \in SalesOrders, Pack(o)
      PROVE  FulfilmentInv'
  <2>1. UNCHANGED <<floor, sold>>
    BY <1>2 DEF Pack
  <2>. QED
    BY <1>2, <2>1, PackRows, FloorIdle DEF FulfilmentInv
<1>. QED
  BY <1>1, <1>2, StageJobOK, CompleteJobOK DEF DeliveryStep

LEMMA FulfilmentInvInit == FulfilmentInit => FulfilmentInv
<1>. SUFFICES ASSUME FulfilmentInit PROVE FulfilmentInv
  OBVIOUS
<1>1. SchedulerInv
  BY SchedulerInvInit DEF FulfilmentInit
<1>2. PlantInv /\ TraceInv
  BY QualityInitOK, TraceInitOK DEF FulfilmentInit
<1>3. \A o \in SalesOrders, l \in Lots : sold[o][l] = 0
  BY DEF FulfilmentInit, Zero, Lots
<1>4. SoldTypeOK
  <2>1. Zero(NumLots) \in [Lots -> Nat]
    BY DEF Zero, Lots
  <2>. QED
    BY <2>1 DEF FulfilmentInit, SoldTypeOK
<1>5. ASSUME NEW l \in Lots
      PROVE  lots[l].qc = "NONE" /\ lots[l].packed = 0
  <2>1. lots[l] = NoLotRow
    BY DEF FulfilmentInit, QualityInit
  <2>. QED
    BY <2>1 DEF NoLotRow
<1>6. ProductionOnly /\ SoldApproved
  BY <1>3, <1>5 DEF ProductionOnly, SoldApproved
<1>7. PackedStands
  <2>. SUFFICES ASSUME NEW l \in Lots
                PROVE  InBucket("INV", l) + Drawn(l) = lots[l].packed
    BY DEF PackedStands
  <2>1. Drawn(l) = 0
    BY <1>3, <1>4, SoldTypes
  <2>2. lots[l].qc = "NONE" /\ lots[l].packed = 0 /\ lots[l].item \in Items
    BY <1>2, <1>5, LotsInStock
  <2>3. InBucket("INV", l) = 0
    BY <1>2, <2>2, NoLotNoStock DEF InBucket, Statuses
  <2>. QED
    BY <2>1, <2>2, <2>3
<1>. QED
  BY <1>1, <1>2, <1>4, <1>6, <1>7 DEF FulfilmentInv, SoldInv

LEMMA FulfilmentInvStep == FulfilmentInv /\ [FulfilmentNext]_fulfilmentVars => FulfilmentInv'
<1>. SUFFICES ASSUME FulfilmentInv, [FulfilmentNext]_fulfilmentVars
              PROVE  FulfilmentInv'
  OBVIOUS
<1>1. CASE DeliveryStep
  BY <1>1, DeliveryStepOK
<1>2. CASE (QueueStep \/ JobStep \/ OrdersStep) /\ UNCHANGED <<floor, sold>>
  BY <1>2, SalesStepOK
<1>3. CASE PlantStep /\ UNCHANGED <<schedulerVars, sold>>
  BY <1>3, PlantStepOK, PlantStepTraced, PlantStepSells, SchedulerIdle DEF FulfilmentInv
<1>4. CASE UNCHANGED fulfilmentVars
  <2>1. UNCHANGED schedulerVars /\ UNCHANGED <<floor, sold>>
    BY <1>4 DEF fulfilmentVars
  <2>. QED
    BY <2>1, SchedulerIdle, FloorIdle DEF FulfilmentInv
<1>. QED
  BY <1>1, <1>2, <1>3, <1>4 DEF FulfilmentNext

LEMMA FulfilmentInvariant == FulfilmentSpec => []FulfilmentInv
BY FulfilmentInvInit, FulfilmentInvStep, PTL DEF FulfilmentSpec

(***************************************************************************)
(* What the invariant says of the trace of lots and of the parts that this *)
(* module joins: the types, the balance of the ledger, the breakdown by    *)
(* location, the rows of the lots and the queue of the planner.            *)
(***************************************************************************)
LotsSoldAreTraced ==
  \A l \in Lots :
    /\ Drawn(l) > 0 => lots[l].qc = "APPROVED"
    /\ ~ Consumed(lots[l].item) => InBucket("INV", l) + Drawn(l) = lots[l].packed

LEMMA FulfilmentInvFacts ==
  FulfilmentInv =>
    /\ FulfilmentTypeOK /\ LedgerBalances /\ LocationsWithinStock /\ LotsTraceable
    /\ QueueUnambiguous /\ JobsProduceTheirLine /\ LotsSoldAreTraced
<1>. SUFFICES ASSUME FulfilmentInv
              PROVE  /\ FulfilmentTypeOK /\ LedgerBalances /\ LocationsWithinStock /\ LotsTraceable
                     /\ QueueUnambiguous /\ JobsProduceTheirLine /\ LotsSoldAreTraced
  OBVIOUS
<1>1. SchedulerInv /\ PlantInv /\ TraceInv /\ SoldInv
  BY DEF FulfilmentInv
<1>2. SchedulerTypeOK /\ QueueUnambiguous /\ JobsProduceTheirLine
  BY <1>1 DEF SchedulerInv, SchedulerTypeOK, AccountsInv, QueueInv, ReservationInv
<1>3. QualityTypeOK /\ LedgerBalances /\ LocationsWithinStock /\ LotsTraceable
  BY <1>1, PlantInvFacts, TraceInvFacts
<1>4. SoldTypeOK /\ SoldApproved /\ PackedStands
  BY <1>1 DEF SoldInv
<1>5. LotsSoldAreTraced
  <2>1. \A l \in Lots : Drawn(l) > 0 => \E o \in SalesOrders : sold[o][l] > 0
    BY <1>4, SoldTypes
  <2>. QED
    BY <1>4, <2>1 DEF LotsSoldAreTraced, SoldApproved, PackedStands
<1>. QED
  BY <1>2, <1>3, <1>4, <1>5 DEF FulfilmentTypeOK, SoldTypeOK

\* On a floor that delivers to customers, the ledger, the lots, the queue and the trace of
\* sold lots stay right whatever is staged, completed, packed off, shipped or reassigned.
THEOREM FulfilmentCorrect ==
  FulfilmentSpec =>
    [](/\ FulfilmentTypeOK /\ LedgerBalances /\ LocationsWithinStock /\ LotsTraceable
       /\ QueueUnambiguous /\ JobsProduceTheirLine /\ LotsSoldAreTraced)
BY FulfilmentInvariant, FulfilmentInvFacts, PTL

-----------------------------------------------------------------------------
(***************************************************************************)
(* The lots sold to an order are covered by what its lines say was         *)
(* shipped.  Of two entries for one line the code keeps the last, so this  *)
(* needs requests that name each line once.                                *)
(***************************************************************************)
EachLineOnce ==
  \A req \in Shipments : \A j, k \in DOMAIN req : req[j].line = req[k].line => j = k

SalesCovered == \A o \in SalesOrders, i \in Items : SoldOf(o, i) <= ShippedOf(o, i)

ShippedColumn(lines, i) ==
  [n \in DOMAIN lines |-> IF lines[n].subject = i THEN lines[n].shipped ELSE 0]

LEMMA ShippedColumnType ==
  ASSUME NEW lines \in Seq(SalesLines), NEW i
  PROVE  /\ Len(lines) \in Nat /\ DOMAIN lines = 1..Len(lines)
         /\ \A n \in 1..Len(lines) :
              /\ lines[n].shipped \in Nat /\ ShippedColumn(lines, i)[n] \in Nat
              /\ ShippedColumn(lines, i)[n] = IF lines[n].subject = i THEN lines[n].shipped ELSE 0
<1>1. \A n \in 1..Len(lines) : lines[n] \in SalesLines
  BY ListElement
<1>2. \A n \in 1..Len(lines) : lines[n].shipped \in Nat
  BY <1>1 DEF SalesLines
<1>. QED
  BY <1>2 DEF ShippedColumn

LEMMA ShippedOfType ==
  ASSUME orders \in [SalesOrders -> OrderRows], NEW o \in SalesOrders, NEW i
  PROVE  /\ orders[o].lines \in Seq(SalesLines)
         /\ ShippedOf(o, i) = Sum(ShippedColumn(orders[o].lines, i), Len(orders[o].lines))
         /\ ShippedOf(o, i) \in Nat
         /\ Unshipped(orders[o]) => ShippedOf(o, i) = 0
<1>. DEFINE lines == orders[o].lines
            f == ShippedColumn(lines, i)
<1>1. lines \in Seq(SalesLines)
  BY DEF OrderRows
<1>2. ShippedOf(o, i) = Sum(f, Len(lines))
  BY DEF ShippedOf, ShippedColumn
<1>3. /\ Len(lines) \in Nat /\ DOMAIN lines = 1..Len(lines) /\ Len(lines) \in 0..Len(lines)
      /\ \A n \in 1..Len(lines) :
           /\ f[n] \in Nat
           /\ f[n] = IF lines[n].subject = i THEN lines[n].shipped ELSE 0
  BY <1>1, ShippedColumnType
<1>4. Unshipped(orders[o]) => \A n \in 1..Len(lines) : f[n] = 0
  BY <1>3 DEF Unshipped
<1>. HIDE DEF f
<1>5. Sum(f, Len(lines)) \in Nat
  BY <1>3, SumNat
<1>6. Unshipped(orders[o]) => Sum(f, Len(lines)) = 0
  BY <1>3, <1>4, SumZero
<1>. QED
  BY <1>1, <1>2, <1>5, <1>6 DEF f

LEMMA ShippedOfAfter ==
  ASSUME orders' \in [SalesOrders -> OrderRows], NEW o \in SalesOrders, NEW i
  PROVE  ShippedOf(o, i)' \in Nat
<1>. DEFINE lines == orders'[o].lines
            f == ShippedColumn(lines, i)
<1>1. lines \in Seq(SalesLines)
  BY DEF OrderRows
<1>2. ShippedOf(o, i)' = Sum(f, Len(lines))
  BY DEF ShippedOf, ShippedColumn
<1>3. Len(lines) \in Nat /\ Len(lines) \in 0..Len(lines) /\ \A n \in 1..Len(lines) : f[n] \in Nat
  BY <1>1, ShippedColumnType
<1>. HIDE DEF f
<1>4. Sum(f, Len(lines)) \in Nat
  BY <1>3, SumNat
<1>. QED
  BY <1>2, <1>4

SoldColumn(o, i) == [l \in Lots |-> IF lots[l].item = i THEN sold[o][l] ELSE 0]

LEMMA SoldOfType ==
  ASSUME SoldTypeOK, NEW o \in SalesOrders, NEW i
  PROVE  /\ \A l \in 1..NumLots : SoldColumn(o, i)[l] \in Nat
         /\ SoldOf(o, i) = Sum(SoldColumn(o, i), NumLots)
         /\ SoldOf(o, i) \in Nat
<1>. DEFINE f == SoldColumn(o, i)
<1>1. Lots = 1..NumLots /\ NumLots \in Nat /\ NumLots \in 0..NumLots
  BY NumLocsNat DEF Lots
<1>2. \A l \in Lots : f[l] \in Nat
  BY DEF SoldTypeOK, SoldColumn
<1>3. SoldOf(o, i) = Sum(f, NumLots)
  BY DEF SoldOf, SoldColumn
<1>. HIDE DEF f
<1>4. Sum(f, NumLots) \in Nat
  BY <1>1, <1>2, SumNat
<1>. QED
  BY <1>1, <1>2, <1>3, <1>4 DEF f

\* What was sold of an item stands while no lot that was sold changes.
LEMMA SoldOfStands ==
  ASSUME SoldTypeOK, sold' = sold, NEW o \in SalesOrders, NEW i,
         \A l \in Lots : lots'[l].item = lots[l].item \/ ~ sold[o][l] > 0
  PROVE  SoldOf(o, i)' = SoldOf(o, i)
<1>. DEFINE f == SoldColumn(o, i)
            g == [l \in Lots |-> IF lots'[l].item = i THEN sold'[o][l] ELSE 0]
<1>1. Lots = 1..NumLots /\ NumLots \in Nat
  BY NumLocsNat DEF Lots
<1>2. \A l \in Lots : sold[o][l] \in Nat
  BY DEF SoldTypeOK
<1>3. \A l \in Lots : f[l] \in Int /\ g[l] = f[l]
  BY <1>2 DEF SoldColumn
<1>4. SoldOf(o, i) = Sum(f, NumLots) /\ SoldOf(o, i)' = Sum(g, NumLots)
  BY DEF SoldOf, SoldColumn
<1>. HIDE DEF f, g
<1>5. Sum(g, NumLots) = Sum(f, NumLots)
  BY <1>1, <1>3, SumSame
<1>. QED
  BY <1>4, <1>5

\* The lines of a shipment gain what its entries ask for.
LEMMA ShipAddsToLines ==
  ASSUME EachLineOnce, FulfilmentInv, NEW o \in SalesOrders, NEW req \in Shipments,
         Ship(o, req), NEW i
  PROVE  ShippedOf(o, i)' = ShippedOf(o, i) + Sum(AskedFor(o, req, i), Len(req))
<1>. DEFINE lines == orders[o].lines
            rows == ShippedLines(lines, req)
            n == Len(lines)
            m == Len(req)
            old == ShippedColumn(lines, i)
            new == ShippedColumn(rows, i)
            asked == AskedFor(o, req, i)
            to == [k \in 1..m |-> req[k].line]
            add == [k \in 1..n |-> IF lines[k].subject = i /\ \E j \in 1..m : req[j].line = k
                                    THEN req[LastEntry(req, k)].qty ELSE 0]
<1>1. /\ orders \in [SalesOrders -> OrderRows] /\ orders' \in [SalesOrders -> OrderRows]
      /\ lines \in Seq(SalesLines) /\ orders'[o].lines = rows
  BY ShipRows DEF FulfilmentInv, SchedulerInv, AccountsInv, AccountsTypeOK
<1>2. rows \in Seq(SalesLines) /\ Len(rows) = n /\ n \in Nat
  BY <1>1, ShippedLinesType
<1>10. ASSUME NEW k \in 1..Len(lines)
       PROVE  ShippedLines(lines, req)[k] =
                IF \E j \in 1..Len(req) : req[j].line = k
                THEN [lines[k] EXCEPT !.shipped = @ + req[LastEntry(req, k)].qty] ELSE lines[k]
  <2>1. lines \in Seq(SalesLines)
    BY <1>1
  <2>. HIDE DEF lines
  <2>. QED
    BY <2>1, ShippedLinesType
<1>3. /\ m \in Nat /\ DOMAIN req = 1..m
      /\ \A k \in 1..m : req[k].qty \in Nat
  BY EntryTypes
<1>4. \A k \in 1..n, j \in 1..m : req[j].line = k => LastEntry(req, k) = j
  BY <1>3, LastEntryType DEF EachLineOnce
<1>5. ASSUME NEW k \in 1..n
      PROVE  /\ old[k] \in Int /\ add[k] \in Int /\ new[k] = old[k] + add[k]
  <2>1. /\ lines[k] \in SalesLines /\ lines[k].shipped \in Nat
        /\ old[k] = IF lines[k].subject = i THEN lines[k].shipped ELSE 0
        /\ new[k] = IF rows[k].subject = i THEN rows[k].shipped ELSE 0
    BY <1>1, <1>2, ListElement, ShippedColumnType
  <2>2. CASE \E j \in 1..m : req[j].line = k
    <3>. DEFINE q == req[LastEntry(req, k)].qty
    <3>1. q \in Nat
      BY <1>3, <1>4, <2>2
    <3>2. rows[k] = [lines[k] EXCEPT !.shipped = @ + q]
      BY <1>10, <2>2
    <3>3. add[k] = IF lines[k].subject = i THEN q ELSE 0
      BY <2>2
    <3>. HIDE DEF q, add
    <3>4. rows[k].subject = lines[k].subject /\ rows[k].shipped = lines[k].shipped + q
      BY <2>1, <3>2 DEF SalesLines
    <3>. HIDE DEF old, new, rows
    <3>. QED
      BY <2>1, <3>1, <3>3, <3>4
  <2>3. CASE ~ \E j \in 1..m : req[j].line = k
    <3>1. add[k] = 0 /\ rows[k] = lines[k]
      BY <1>10, <2>3
    <3>. HIDE DEF old, new, rows, add
    <3>. QED
      BY <2>1, <3>1
  <2>. QED
    BY <2>2, <2>3
<1>6. Reindexed(asked, m, add, n, to)
  <2>1. ASSUME NEW k \in 1..m
        PROVE  asked[k] \in Int /\ to[k] \in 1..n /\ add[to[k]] = asked[k]
    <3>1. asked[k] = (IF SubjectOf(o, req[k]) = i THEN req[k].qty ELSE 0) /\ req[k].qty \in Nat
      BY <1>3 DEF AskedFor
    <3>2. to[k] = req[k].line /\ req[k].line \in 1..n
      <4>1. req[k].line \in DOMAIN lines
        BY <1>3 DEF Ship, ShipFits
      <4>. QED
        BY <1>1, <4>1
    <3>3. LastEntry(req, req[k].line) = k
      BY <1>4, <3>2
    <3>4. add[req[k].line] = IF lines[req[k].line].subject = i THEN req[k].qty ELSE 0
      BY <3>2, <3>3
    <3>. HIDE DEF asked, to, add
    <3>. QED
      BY <3>1, <3>2, <3>4 DEF SubjectOf
  <2>2. ASSUME NEW j \in 1..m, NEW k \in 1..m, to[j] = to[k]
        PROVE  j = k
    BY <1>3, <2>2 DEF EachLineOnce
  <2>3. ASSUME NEW r \in 1..n, \A k \in 1..m : to[k] # r
        PROVE  add[r] = 0
    BY <2>3
  <2>. HIDE DEF asked, to, add
  <2>. QED
    BY <2>1, <2>2, <2>3 DEF Reindexed
<1>7. ShippedOf(o, i) = Sum(old, n) /\ ShippedOf(o, i)' = Sum(new, n)
  <2>1. ShippedOf(o, i) = Sum(old, n)
    BY <1>1, ShippedOfType
  <2>2. ShippedOf(o, i)' = Sum(ShippedColumn(orders'[o].lines, i), Len(orders'[o].lines))
    BY DEF ShippedOf, ShippedColumn
  <2>. QED
    BY <1>1, <1>2, <2>1, <2>2
<1>. HIDE DEF old, new, add, asked, to, n, m
<1>8. Sum(new, n) = Sum(old, n) + Sum(add, n)
  BY <1>2, <1>5, SumAdd
<1>9. Sum(add, n) = Sum(asked, m)
  BY <1>2, <1>3, <1>6, SumMoved
<1>. QED
  BY <1>7, <1>8, <1>9 DEF asked, m

\* The lots sold to the order gain no more than its entries ask for.
LEMMA ShipSoldBound ==
  ASSUME FulfilmentInv, NEW o \in SalesOrders, NEW req \in Shipments,
         Ship(o, req), NEW i \in Items
  PROVE  /\ SoldOf(o, i) \in Nat /\ Sum(AskedFor(o, req, i), Len(req)) \in Nat
         /\ SoldOf(o, i)' \in Int
         /\ SoldOf(o, i)' <= SoldOf(o, i) + Sum(AskedFor(o, req, i), Len(req))
<1>. DEFINE f == SoldColumn(o, i)
            g == [l \in Lots |-> IF lots'[l].item = i THEN sold'[o][l] ELSE 0]
            d == LotsLess(book[i], book'[i])
<1>1. Lots = 1..NumLots /\ NumLots \in Nat /\ NumLots \in 0..NumLots
  BY NumLocsNat DEF Lots
<1>2. PlantInv /\ TraceInv /\ SoldTypeOK
  BY DEF FulfilmentInv, SoldInv
<1>3. DrawnFrom(book[i], book'[i], Permitted(o), Sum(AskedFor(o, req, i), Len(req)))
  BY ShipDraws
<1>4. ASSUME NEW l \in Lots
      PROVE  f[l] \in Int /\ d[l] \in Int /\ g[l] = f[l] + d[l]
  <2>1. /\ lots'[l] = lots[l]
        /\ sold'[o][l] = sold[o][l] + (InBucket("INV", l) - InBucket("INV", l)')
        /\ sold[o][l] \in Nat
    BY <1>2, ShipSells DEF SoldTypeOK
  <2>2. /\ book[i].lotQty["INV"][l] \in Nat /\ book'[i].lotQty["INV"][l] \in Nat
        /\ book'[i].lotQty["INV"][l] <= book[i].lotQty["INV"][l]
    BY <1>2, <1>3, BooksStocked DEF DrawnFrom, Stocked
  <2>3. d[l] = book[i].lotQty["INV"][l] - book'[i].lotQty["INV"][l]
    BY DEF LotsLess
  <2>4. f[l] = (IF lots[l].item = i THEN sold[o][l] ELSE 0)
        /\ g[l] = (IF lots[l].item = i THEN sold'[o][l] ELSE 0)
    BY <2>1 DEF SoldColumn
  <2>. HIDE DEF f, g, d
  <2>5. CASE lots[l].item = i
    BY <2>1, <2>2, <2>3, <2>4, <2>5 DEF InBucket
  <2>6. CASE lots[l].item # i
    <3>1. book[i].lotQty["INV"][l] = 0
      BY <1>2, <2>6, BooksStocked
    <3>. QED
      BY <2>2, <2>3, <2>4, <2>6, <3>1
  <2>. QED
    BY <2>5, <2>6
<1>5. SoldOf(o, i)' = Sum(g, NumLots)
  BY DEF SoldOf
<1>6. SoldOf(o, i) = Sum(f, NumLots) /\ SoldOf(o, i) \in Nat
  BY <1>2, SoldOfType
<1>7. Sum(d, NumLots) <= Sum(AskedFor(o, req, i), Len(req))
  BY <1>3 DEF DrawnFrom
<1>8. Sum(AskedFor(o, req, i), Len(req)) \in Nat
  <2>. DEFINE a == AskedFor(o, req, i)
  <2>1. \A k \in 1..Len(req) : a[k] \in Nat
    BY AskedForType
  <2>2. Len(req) \in Nat /\ Len(req) \in 0..Len(req)
    BY EntryTypes
  <2>. HIDE DEF a
  <2>3. Sum(a, Len(req)) \in Nat
    BY <2>1, <2>2, SumNat
  <2>. QED
    BY <2>3 DEF a
<1>. HIDE DEF f, g, d
<1>9. Sum(g, NumLots) = Sum(f, NumLots) + Sum(d, NumLots)
  BY <1>1, <1>4, SumAdd
<1>10. Sum(d, NumLots) \in Int
  BY <1>1, <1>4, SumInt
<1>. QED
  BY <1>5, <1>6, <1>7, <1>8, <1>9, <1>10

\* Where the sales of an order stand, the lines that it keeps cover them, and so do new ones
\* in place of lines of which nothing was shipped.
LEMMA CoveredStands ==
  ASSUME FulfilmentInv, SalesCovered, FulfilmentInv', sold' = sold,
         NEW o \in SalesOrders, NEW i \in Items,
         \A l \in Lots : lots'[l].item = lots[l].item \/ ~ sold[o][l] > 0,
         orders'[o].lines = orders[o].lines \/ Unshipped(orders[o])
  PROVE  SoldOf(o, i)' <= ShippedOf(o, i)'
<1>1. /\ orders \in [SalesOrders -> OrderRows] /\ orders' \in [SalesOrders -> OrderRows]
      /\ SoldTypeOK
  BY DEF FulfilmentInv, SchedulerInv, AccountsInv, AccountsTypeOK, SoldInv
<1>2. SoldOf(o, i)' = SoldOf(o, i) /\ SoldOf(o, i) \in Nat
  BY <1>1, SoldOfStands, SoldOfType
<1>3. SoldOf(o, i) <= ShippedOf(o, i)
  BY DEF SalesCovered
<1>4. CASE orders'[o].lines = orders[o].lines
  <2>1. ShippedOf(o, i)' = ShippedOf(o, i)
    BY <1>4 DEF ShippedOf
  <2>. QED
    BY <1>2, <1>3, <2>1
<1>5. CASE Unshipped(orders[o])
  <2>1. SoldOf(o, i)' = 0
    BY <1>1, <1>2, <1>3, <1>5, ShippedOfType
  <2>2. ShippedOf(o, i)' \in Nat
    BY <1>1, ShippedOfAfter
  <2>. QED
    BY <2>1, <2>2
<1>. QED
  BY <1>4, <1>5

\* A step of the orders replaces no line of which something was shipped.
KeepsShippedLines ==
  \A o \in SalesOrders : orders'[o].lines = orders[o].lines \/ Unshipped(orders[o])

LEMMA CreateOrderKeepsLines ==
  ASSUME SchedulerInv, NEW o \in SalesOrders, NEW c, NEW cart, NEW number, NEW due, NEW may,
         CreateOrder(o, c, cart, number, due, may)
  PROVE  KeepsShippedLines
<1>1. /\ \A p \in SalesOrders \ {o} : orders'[p] = orders[p]
      /\ orders[o].status = "NONE"
  BY DEF CreateOrder, SchedulerInv, AccountsInv, AccountsTypeOK
<1>2. orders[o] = NoOrder
  BY <1>1 DEF SchedulerInv, AccountsInv, UnusedRowsEmpty
<1>3. orders[o].lines = << >>
  BY <1>2 DEF NoOrder
<1>4. Unshipped(orders[o])
  BY <1>3 DEF Unshipped
<1>. QED
  BY <1>1, <1>4 DEF KeepsShippedLines

LEMMA OrdersStepKeepsLines ==
  ASSUME SchedulerInv, OrdersStep
  PROVE  KeepsShippedLines
<1>1. /\ orders = [p \in SalesOrders |-> orders[p]]
      /\ \A p \in SalesOrders : orders[p] \in OrderRows
  BY DEF SchedulerInv, AccountsInv, AccountsTypeOK
<1>2. ASSUME NEW o \in SalesOrders, NEW c, NEW cart, NEW number, NEW may,
             CreateOrder(o, c, cart, number, 0, may)
      PROVE  KeepsShippedLines
  BY <1>2, CreateOrderKeepsLines
<1>3. ASSUME NEW o \in SalesOrders, NEW g, ImportOrder(o, g)
      PROVE  KeepsShippedLines
  BY <1>3, CreateOrderKeepsLines DEF ImportOrder
<1>4. ASSUME NEW o \in SalesOrders, CancelOrder(o)
      PROVE  KeepsShippedLines
  BY <1>1, <1>4 DEF CancelOrder, OrderRows, KeepsShippedLines
<1>5. ASSUME NEW o \in SalesOrders, NEW amount, RecordPayment(o, amount) \/ IssueRefund(o, amount)
      PROVE  KeepsShippedLines
  <2>1. /\ \A p \in SalesOrders \ {o} : orders'[p] = orders[p]
        /\ orders'[o].lines = orders[o].lines
    BY <1>1, <1>5 DEF RecordPayment, IssueRefund, AfterPayment, AfterRefund, OrderRows
  <2>. QED
    BY <2>1 DEF KeepsShippedLines
<1>6. ASSUME NEW o \in SalesOrders, NEW e, NEW may, EditOrder(o, e, may)
      PROVE  KeepsShippedLines
  <2>1. /\ Unshipped(orders[o])
        /\ \A p \in SalesOrders \ {o} : orders'[p] = orders[p]
    BY <1>1, <1>6 DEF EditOrder, UpdateOrder
  <2>. QED
    BY <2>1 DEF KeepsShippedLines
<1>7. CASE OtherAccountsStep
  BY <1>7, OtherStepInv DEF SchedulerInv, KeepsShippedLines
<1>. QED
  BY <1>2, <1>3, <1>4, <1>5, <1>6, <1>7 DEF OrdersStep, OrderStep

LEMMA QueueKeepsOrders ==
  ASSUME QueueStep \/ JobStep
  PROVE  orders' = orders
BY DEF QueueStep, JobStep, EnqueueSuggested, Enqueue, Reposition, Drop, Release, ReleaseAll,
       QueueByRules, CancelJob, CreateJob, Reassign, RequestProduction, salesOnly

LEMMA SalesStepKeepsLines ==
  ASSUME FulfilmentInv, QueueStep \/ JobStep \/ OrdersStep
  PROVE  KeepsShippedLines
BY OrdersStepKeepsLines, QueueKeepsOrders DEF FulfilmentInv, KeepsShippedLines

\* Where nothing is sold, the sales stay covered.
LEMMA SalesCoveredStands ==
  ASSUME FulfilmentInv, SalesCovered, FulfilmentInv', sold' = sold, KeepsShippedLines,
         \A l \in Lots : lots'[l].item = lots[l].item \/ lots[l].qc = "NONE"
  PROVE  SalesCovered'
<1>1. \A o \in SalesOrders, l \in Lots : lots[l].qc = "NONE" => ~ sold[o][l] > 0
  BY DEF FulfilmentInv, SoldInv, SoldApproved
<1>2. \A o \in SalesOrders, i \in Items : SoldOf(o, i)' <= ShippedOf(o, i)'
  BY <1>1, CoveredStands DEF KeepsShippedLines
<1>. QED
  BY <1>2 DEF SalesCovered

LEMMA ShipKeepsCovered ==
  ASSUME EachLineOnce, FulfilmentInv, SalesCovered, FulfilmentInv',
         NEW o \in SalesOrders, NEW req \in Shipments, Ship(o, req)
  PROVE  SalesCovered'
<1>. SUFFICES ASSUME NEW p \in SalesOrders, NEW i \in Items
              PROVE  SoldOf(p, i)' <= ShippedOf(p, i)'
  BY DEF SalesCovered
<1>1. /\ orders \in [SalesOrders -> OrderRows] /\ SoldTypeOK /\ SoldTypeOK'
      /\ SoldOf(p, i) <= ShippedOf(p, i)
  BY DEF FulfilmentInv, SchedulerInv, AccountsInv, AccountsTypeOK, SoldInv, SalesCovered
<1>2. ShippedOf(p, i) \in Nat /\ SoldOf(p, i) \in Nat
  BY <1>1, ShippedOfType, SoldOfType
<1>3. CASE p = o
  <2>1. /\ SoldOf(o, i)' \in Int /\ Sum(AskedFor(o, req, i), Len(req)) \in Nat
        /\ SoldOf(o, i)' <= SoldOf(o, i) + Sum(AskedFor(o, req, i), Len(req))
    BY ShipSoldBound
  <2>2. ShippedOf(o, i)' = ShippedOf(o, i) + Sum(AskedFor(o, req, i), Len(req))
    BY ShipAddsToLines
  <2>. QED
    BY <1>1, <1>2, <1>3, <2>1, <2>2
<1>4. CASE p # o
  <2>1. sold'[p] = sold[p] /\ lots' = lots /\ orders'[p] = orders[p]
    BY <1>4, ShipSells, ShipRows
  <2>2. SoldOf(p, i)' = SoldOf(p, i)
    BY <2>1 DEF SoldOf
  <2>3. ShippedOf(p, i)' = ShippedOf(p, i)
    BY <2>1 DEF ShippedOf
  <2>. QED
    BY <1>1, <2>2, <2>3
<1>. QED
  BY <1>3, <1>4

LEMMA SalesCoveredStep ==
  ASSUME EachLineOnce, FulfilmentInv, SalesCovered, FulfilmentInv',
         [FulfilmentNext]_fulfilmentVars
  PROVE  SalesCovered'
<1>1. ASSUME NEW o \in SalesOrders, NEW req \in Shipments, Ship(o, req)
      PROVE  SalesCovered'
  BY <1>1, ShipKeepsCovered
<1>2. ASSUME NEW o \in SalesOrders, Pack(o)
      PROVE  SalesCovered'
  <2>1. sold' = sold /\ lots' = lots
    BY <1>2 DEF Pack, floor
  <2>2. KeepsShippedLines
    BY <1>2, PackRows DEF KeepsShippedLines
  <2>. QED
    BY <2>1, <2>2, SalesCoveredStands
<1>3. ASSUME NEW w \in FloorJobs, StageJob(w)
      PROVE  SalesCovered'
  <2>1. sold' = sold /\ lots' = lots /\ orders' = orders
    BY <1>3 DEF StageJob, StartJob, salesOnly
  <2>. QED
    BY <2>1, SalesCoveredStands DEF KeepsShippedLines
<1>4. ASSUME NEW w \in FloorJobs, CompleteJob(w)
      PROVE  SalesCovered'
  <2>1. sold' = sold /\ orders' = orders
    BY <1>4 DEF CompleteJob, FinishJob, salesOnly
  <2>2. \A l \in Lots : lots'[l].item = lots[l].item \/ lots[l].qc = "NONE"
    BY <1>4, CompleteJobLots
  <2>. QED
    BY <2>1, <2>2, SalesCoveredStands DEF KeepsShippedLines
<1>5. CASE (QueueStep \/ JobStep \/ OrdersStep) /\ UNCHANGED <<floor, sold>>
  <2>1. sold' = sold /\ lots' = lots
    BY <1>5 DEF floor
  <2>. QED
    BY <1>5, <2>1, SalesStepKeepsLines, SalesCoveredStands
<1>6. CASE PlantStep /\ UNCHANGED <<schedulerVars, sold>>
  <2>1. sold' = sold /\ orders' = orders
    BY <1>6 DEF schedulerVars
  <2>2. \A l \in Lots : lots'[l].item = lots[l].item
    BY <1>6, PlantStepKeepsLots DEF SameLot, FulfilmentInv
  <2>. QED
    BY <2>1, <2>2, SalesCoveredStands DEF KeepsShippedLines
<1>7. CASE UNCHANGED fulfilmentVars
  <2>1. sold' = sold /\ lots' = lots /\ orders' = orders
    BY <1>7 DEF fulfilmentVars, floor, schedulerVars
  <2>. QED
    BY <2>1, SalesCoveredStands DEF KeepsShippedLines
<1>. QED
  BY <1>1, <1>2, <1>3, <1>4, <1>5, <1>6, <1>7 DEF FulfilmentNext, DeliveryStep

LEMMA SalesCoveredInit == FulfilmentInit => SalesCovered
<1>. SUFFICES ASSUME FulfilmentInit, NEW o \in SalesOrders, NEW i \in Items
              PROVE  SoldOf(o, i) <= ShippedOf(o, i)
  BY DEF SalesCovered
<1>1. /\ orders \in [SalesOrders -> OrderRows] /\ SoldTypeOK
  BY FulfilmentInvInit DEF FulfilmentInv, SchedulerInv, AccountsInv, AccountsTypeOK, SoldInv
<1>2. Lots = 1..NumLots /\ NumLots \in Nat /\ NumLots \in 0..NumLots
  BY NumLocsNat DEF Lots
<1>. DEFINE f == SoldColumn(o, i)
<1>3. \A l \in 1..NumLots : f[l] = 0
  BY <1>2 DEF SoldColumn, FulfilmentInit, Zero
<1>. HIDE DEF f
<1>4. Sum(f, NumLots) = 0
  BY <1>2, <1>3, SumZero
<1>5. SoldOf(o, i) = 0
  BY <1>1, <1>4, SoldOfType DEF f
<1>6. ShippedOf(o, i) \in Nat
  BY <1>1, ShippedOfType
<1>. QED
  BY <1>5, <1>6

LEMMA ShipmentsTracedFacts == FulfilmentInv /\ SalesCovered => ShipmentsTraced
BY FulfilmentInvFacts DEF ShipmentsTraced, LotsSoldAreTraced, SalesCovered

\* When a request names each line once, the trace of a lot to its customers is right: what was
\* packed off of it is in INV or in their shipments, it had been approved, and no order got
\* more of an item than its lines say.
THEOREM ShipmentsAreTraced == EachLineOnce => (FulfilmentSpec => []ShipmentsTraced)
<1>. SUFFICES ASSUME EachLineOnce PROVE FulfilmentSpec => []ShipmentsTraced
  OBVIOUS
<1>1. FulfilmentInit => SalesCovered
  BY SalesCoveredInit
<1>2. FulfilmentInv /\ FulfilmentInv' /\ SalesCovered /\ [FulfilmentNext]_fulfilmentVars => SalesCovered'
  BY SalesCoveredStep
<1>3. FulfilmentInv /\ SalesCovered => ShipmentsTraced
  BY ShipmentsTracedFacts
<1>. QED
  BY <1>1, <1>2, <1>3, FulfilmentInvariant, PTL DEF FulfilmentSpec

-----------------------------------------------------------------------------
(***************************************************************************)
(* What is reserved for an order leaves INV only with its own shipments.   *)
(***************************************************************************)
ReservedColumn(o) ==
  [l \in Lots |-> IF Reservation(l) = o /\ ~ Consumed(lots[l].item)
                  THEN InBucket("INV", l) ELSE 0]

\* When no reservation changes and every reserved lot keeps its stock, so does the order.
LEMMA ReservationsStand ==
  ASSUME FulfilmentInv, FulfilmentInv', NEW o \in SalesOrders,
         \A l \in Lots :
           /\ Reservation(l)' = Reservation(l) /\ lots'[l].item = lots[l].item
           /\ Reservation(l) = o => InBucket("INV", l)' >= InBucket("INV", l)
  PROVE  ~ ReservedFor(o)' < ReservedFor(o)
<1>. DEFINE f == ReservedColumn(o)
            g == [l \in Lots |-> IF Reservation(l)' = o /\ ~ Consumed(lots'[l].item)
                                 THEN InBucket("INV", l)' ELSE 0]
<1>1. Lots = 1..NumLots /\ NumLots \in Nat
  BY NumLocsNat DEF Lots
<1>2. \A l \in Lots : InBucket("INV", l) \in Nat /\ InBucket("INV", l)' \in Nat
  BY LotsInStock, LotsInStockAfter DEF FulfilmentInv
<1>3. \A l \in Lots : f[l] \in Int /\ g[l] \in Int /\ f[l] <= g[l]
  BY <1>2 DEF ReservedColumn
<1>4. ReservedFor(o) = Sum(f, NumLots) /\ ReservedFor(o)' = Sum(g, NumLots)
  BY DEF ReservedFor, ReservedColumn, Consumed
<1>. HIDE DEF f, g
<1>5. Sum(f, NumLots) \in Int /\ Sum(g, NumLots) \in Int /\ Sum(f, NumLots) <= Sum(g, NumLots)
  BY <1>1, <1>3, SumMonotone
<1>. QED
  BY <1>4, <1>5

LEMMA ReservedStep ==
  ASSUME FulfilmentInv, FulfilmentInv', FulfilmentNext, NEW o \in SalesOrders,
         sold'[o] = sold[o], jobs' = jobs
  PROVE  ~ ReservedFor(o)' < ReservedFor(o)
<1>1. o # 0
  BY DEF SalesOrders
<1>2. ASSUME NEW p \in SalesOrders, NEW req \in Shipments, Ship(p, req)
      PROVE  ~ ReservedFor(o)' < ReservedFor(o)
  <2>1. /\ UNCHANGED <<lots, jobs>>
        /\ sold \in [SalesOrders -> [Lots -> Nat]]
        /\ \A l \in Lots :
             /\ InBucket("INV", l) \in Nat /\ InBucket("INV", l)' \in Nat
             /\ l \notin Permitted(p) => InBucket("INV", l)' = InBucket("INV", l)
             /\ sold'[p][l] = sold[p][l] + (InBucket("INV", l) - InBucket("INV", l)')
    BY <1>2, ShipSells, LotsInStock DEF FulfilmentInv, SoldInv, SoldTypeOK
  <2>2. \A l \in Lots : Reservation(l)' = Reservation(l)
    BY <2>1 DEF Reservation
  <2>3. ASSUME NEW l \in Lots, Reservation(l) = o
        PROVE  InBucket("INV", l)' >= InBucket("INV", l)
    <3>1. CASE p = o
      <4>1. sold[o][l] = sold[o][l] + (InBucket("INV", l) - InBucket("INV", l)')
        BY <2>1, <3>1
      <4>2. sold[o][l] \in Nat
        BY <2>1
      <4>. QED
        BY <2>1, <4>1, <4>2
    <3>2. CASE p # o
      <4>1. l \notin Permitted(p)
        BY <1>1, <2>3, <3>2 DEF Permitted
      <4>. QED
        BY <2>1, <4>1
    <3>. QED
      BY <3>1, <3>2
  <2>. QED
    BY <2>1, <2>2, <2>3, ReservationsStand
<1>3. CASE UNCHANGED <<floor, sold>>
  <2>1. \A l \in Lots : InBucket("INV", l)' = InBucket("INV", l) /\ InBucket("INV", l) \in Nat
    BY <1>3, FloorIdle, LotsInStock DEF FulfilmentInv
  <2>2. lots' = lots
    BY <1>3 DEF floor
  <2>3. \A l \in Lots : Reservation(l)' = Reservation(l)
    BY <2>2 DEF Reservation
  <2>. QED
    BY <2>1, <2>2, <2>3, ReservationsStand
<1>4. CASE PlantStep /\ UNCHANGED <<schedulerVars, sold>>
  <2>1. \A l \in Lots : Packs(l) /\ SameLot(l)
    BY <1>4, PlantStepPacks, PlantStepKeepsLots DEF FulfilmentInv, SoldInv
  <2>2. \A l \in Lots : Reservation(l)' = Reservation(l) /\ lots'[l].item = lots[l].item
    BY <2>1 DEF Reservation, SameLot
  <2>3. ASSUME NEW l \in Lots
        PROVE  InBucket("INV", l)' >= InBucket("INV", l)
    <3>1. InBucket("INV", l) \in Nat /\ lots[l].packed \in Nat
      BY LotsInStock DEF FulfilmentInv
    <3>. QED
      BY <2>1, <3>1 DEF Packs
  <2>. QED
    BY <2>2, <2>3, ReservationsStand
<1>5. \A p \in SalesOrders : Pack(p) => UNCHANGED <<floor, sold>>
  BY DEF Pack
<1>6. \A w \in FloorJobs : ~ StageJob(w) /\ ~ CompleteJob(w)
  BY StageJobOK, CompleteJobOK
<1>. QED
  BY <1>2, <1>3, <1>4, <1>5, <1>6 DEF FulfilmentNext, DeliveryStep

\* "A batch produced for SO-A can't be quietly used to ship SO-B": what is reserved for an
\* order shrinks only when that order ships, or when a work order changes.
THEOREM ReservationsKept == FulfilmentSpec => ReservedStockKept
<1>1. FulfilmentInv /\ FulfilmentInv' /\ [FulfilmentNext]_fulfilmentVars =>
        [\A o \in SalesOrders :
           ReservedFor(o)' < ReservedFor(o) => sold'[o] # sold[o] \/ jobs' # jobs]_fulfilmentVars
  BY ReservedStep
<1>. QED
  BY <1>1, FulfilmentInvariant, PTL DEF FulfilmentSpec, ReservedStockKept

-----------------------------------------------------------------------------
(***************************************************************************)
(* What the pages offer is taken.  The invariant ties the status of an     *)
(* order to what its lines leave to be shipped, and says that a line that  *)
(* names a container says how many.  Both rest on what is ordered: more    *)
(* than the tolerance (0.001 in the code) of some line, and containers     *)
(* with their number, which the schema of a request lets be left out.      *)
(***************************************************************************)
SalesExceedTolerance == \A cart \in Carts : \E n \in DOMAIN cart : cart[n].qty > Tolerance

PacksCounted ==
  \A cart \in Carts : \A n \in DOMAIN cart : cart[n].pack # NoPack => cart[n].packs > 0

MoreToShip(lines) == \E n \in DOMAIN lines : lines[n].ordered - lines[n].shipped > Tolerance

PacksKnown(lines) == \A n \in DOMAIN lines : lines[n].pack # NoPack => lines[n].packs > 0

OfferOK(row) ==
  /\ row.status \in {"OPEN", "PARTIAL"} => MoreToShip(row.lines)
  /\ row.status = "SHIPPED" => ~ MoreToShip(row.lines)
  /\ PacksKnown(row.lines)

OffersInv == \A o \in SalesOrders : OfferOK(orders[o])

\* The lines of a row, and the values they hold.
LEMMA SalesLineValues ==
  ASSUME NEW lines \in Seq(SalesLines)
  PROVE  /\ Len(lines) \in Nat /\ DOMAIN lines = 1..Len(lines)
         /\ \A n \in DOMAIN lines :
              /\ lines[n] \in SalesLines
              /\ lines[n].ordered \in Nat /\ lines[n].shipped \in Nat
<1>1. Len(lines) \in Nat /\ DOMAIN lines = 1..Len(lines)
  OBVIOUS
<1>2. \A n \in DOMAIN lines : lines[n] \in SalesLines
  BY <1>1, ListElement
<1>. QED
  BY <1>1, <1>2 DEF SalesLines

\* New lines leave something to be shipped.
LEMMA NewLinesOffer ==
  ASSUME SalesExceedTolerance, PacksCounted, NEW cart \in Carts,
         NEW row, row.status = "OPEN", row.lines = NewSalesLines(cart)
  PROVE  OfferOK(row)
<1>1. cart \in Seq(CartEntries) /\ DOMAIN cart = 1..Len(cart)
  BY SalesAssumption
<1>2. DOMAIN row.lines = DOMAIN cart /\ \A n \in DOMAIN cart : row.lines[n] = NewSalesLine(cart[n])
  BY DEF NewSalesLines
<1>3. ASSUME NEW n \in DOMAIN cart
      PROVE  /\ row.lines[n].ordered = cart[n].qty /\ row.lines[n].shipped = 0
             /\ cart[n].qty \in Nat
             /\ row.lines[n].pack # NoPack => row.lines[n].packs > 0
  <2>1. cart[n] \in CartEntries
    BY <1>1, ListElement
  <2>2. cart[n].pack # NoPack => cart[n].packs > 0
    BY DEF PacksCounted
  <2>. QED
    BY <1>2, <2>1, <2>2 DEF CartEntries, NewSalesLine
<1>4. PICK n \in DOMAIN cart : cart[n].qty > Tolerance
  BY DEF SalesExceedTolerance
<1>5. row.lines[n].ordered - row.lines[n].shipped > Tolerance
  BY <1>3, <1>4, FulfilmentAssumption
<1>6. MoreToShip(row.lines)
  BY <1>2, <1>5 DEF MoreToShip
<1>7. PacksKnown(row.lines)
  BY <1>2, <1>3 DEF PacksKnown
<1>. QED
  BY <1>6, <1>7 DEF OfferOK

\* The status that a shipment stores says whether something is left.
LEMMA SalesStatusTells ==
  ASSUME NEW lines \in Seq(SalesLines)
  PROVE  /\ SalesStatus(lines) \in {"OPEN", "PARTIAL"} => MoreToShip(lines)
         /\ SalesStatus(lines) = "SHIPPED" => ~ MoreToShip(lines)
<1>1. \A n \in DOMAIN lines : lines[n].ordered \in Nat /\ lines[n].shipped \in Nat
  BY SalesLineValues
<1>2. Tolerance \in Nat
  BY FulfilmentAssumption
<1>3. SalesStatus(lines) = "SHIPPED" <=>
        \A n \in DOMAIN lines : lines[n].shipped >= lines[n].ordered - Tolerance
  BY DEF SalesStatus
<1>4. \A n \in DOMAIN lines : lines[n].shipped >= lines[n].ordered - Tolerance <=>
                              ~ lines[n].ordered - lines[n].shipped > Tolerance
  BY <1>1, <1>2
<1>. QED
  BY <1>3, <1>4 DEF MoreToShip

\* A step that replaces one row by a good one.
LEMMA OfferStands ==
  ASSUME OffersInv, NEW o \in SalesOrders, OfferOK(orders'[o]),
         \A p \in SalesOrders \ {o} : orders'[p] = orders[p]
  PROVE  OffersInv'
BY DEF OffersInv, OfferOK, MoreToShip, PacksKnown

\* The lines stay, and so does the status or the order is cancelled.
LEMMA OfferKept ==
  ASSUME NEW row, NEW new, OfferOK(row), new.lines = row.lines,
         new.status \in {row.status, "CANCELLED"}
  PROVE  OfferOK(new)
BY DEF OfferOK

LEMMA OrdersStepKeepsOffers ==
  ASSUME SalesExceedTolerance, PacksCounted, SchedulerInv, OffersInv, OrdersStep
  PROVE  OffersInv'
<1>1. /\ orders = [p \in SalesOrders |-> orders[p]]
      /\ \A p \in SalesOrders : orders[p] \in OrderRows /\ OfferOK(orders[p])
  BY DEF SchedulerInv, AccountsInv, AccountsTypeOK, OffersInv
<1>2. ASSUME NEW o \in SalesOrders, NEW c, NEW cart \in Carts, NEW number, NEW due, NEW may,
             CreateOrder(o, c, cart, number, due, may)
      PROVE  OffersInv'
  <2>1. /\ orders'[o].status = "OPEN" /\ orders'[o].lines = NewSalesLines(cart)
        /\ \A p \in SalesOrders \ {o} : orders'[p] = orders[p]
    BY <1>1, <1>2 DEF CreateOrder, NoOrder
  <2>2. OfferOK(orders'[o])
    BY <2>1, NewLinesOffer
  <2>. QED
    BY <2>1, <2>2, OfferStands
<1>3. ASSUME NEW o \in SalesOrders, NEW g \in Imports, ImportOrder(o, g)
      PROVE  OffersInv'
  <2>1. g.cart \in Carts
    BY SalesAssumption
  <2>. QED
    BY <1>2, <1>3, <2>1 DEF ImportOrder
<1>4. ASSUME NEW o \in SalesOrders,
             \/ CancelOrder(o)
             \/ \E amount \in Amounts : RecordPayment(o, amount) \/ IssueRefund(o, amount)
      PROVE  OffersInv'
  <2>1. /\ orders'[o].lines = orders[o].lines
        /\ orders'[o].status \in {orders[o].status, "CANCELLED"}
        /\ \A p \in SalesOrders \ {o} : orders'[p] = orders[p]
    BY <1>1, <1>4 DEF CancelOrder, RecordPayment, IssueRefund, AfterPayment, AfterRefund, OrderRows
  <2>2. OfferOK(orders'[o])
    BY <1>1, <2>1, OfferKept
  <2>. QED
    BY <2>1, <2>2, OfferStands
<1>5. ASSUME NEW o \in SalesOrders, NEW e \in Edits, NEW may, EditOrder(o, e, may)
      PROVE  OffersInv'
  <2>1. /\ orders[o].status = "OPEN" /\ orders'[o].status = "OPEN"
        /\ orders'[o].lines = IF "cart" \in DOMAIN e THEN NewSalesLines(e.cart) ELSE orders[o].lines
        /\ \A p \in SalesOrders \ {o} : orders'[p] = orders[p]
    BY <1>1, <1>5 DEF EditOrder, UpdateOrder, OrderRows
  <2>2. "cart" \in DOMAIN e => e.cart \in Carts
    BY SalesAssumption
  <2>3. OfferOK(orders'[o])
    <3>1. CASE "cart" \in DOMAIN e
      BY <2>1, <2>2, <3>1, NewLinesOffer
    <3>2. CASE "cart" \notin DOMAIN e
      BY <1>1, <2>1, <3>2, OfferKept
    <3>. QED
      BY <3>1, <3>2
  <2>. QED
    BY <2>1, <2>3, OfferStands
<1>6. CASE OtherAccountsStep
  <2>1. orders' = orders
    BY <1>6, OtherStepInv DEF SchedulerInv
  <2>. QED
    BY <2>1 DEF OffersInv, OfferOK, MoreToShip, PacksKnown
<1>. QED
  BY <1>2, <1>3, <1>4, <1>5, <1>6 DEF OrdersStep, OrderStep

LEMMA ShipKeepsOffers ==
  ASSUME FulfilmentInv, OffersInv, NEW o \in SalesOrders, NEW req \in Shipments, Ship(o, req)
  PROVE  OffersInv'
<1>. DEFINE lines == orders[o].lines
            rows == ShippedLines(lines, req)
<1>1. /\ lines \in Seq(SalesLines) /\ orders'[o].lines = rows
      /\ \A p \in SalesOrders \ {o} : orders'[p] = orders[p]
  BY ShipRows
<1>2. orders'[o].status = SalesStatus(rows)
  <2>1. orders[o] \in OrderRows /\ orders = [p \in SalesOrders |-> orders[p]]
    BY DEF FulfilmentInv, SchedulerInv, AccountsInv, AccountsTypeOK
  <2>. QED
    BY <2>1 DEF Ship, OrderRows
<1>3. rows \in Seq(SalesLines) /\ DOMAIN rows = DOMAIN lines
  BY <1>1, ShippedLinesType
<1>4. ASSUME NEW n \in DOMAIN lines
      PROVE  rows[n].pack = lines[n].pack /\ rows[n].packs = lines[n].packs
  <2>1. lines[n] \in SalesLines
    BY <1>1, SalesLineValues
  <2>2. rows[n] = lines[n] \/ \E v : rows[n] = [lines[n] EXCEPT !.shipped = v]
    BY DEF ShippedLines
  <2>. HIDE DEF rows
  <2>. QED
    BY <2>1, <2>2 DEF SalesLines
<1>5. PacksKnown(rows)
  <2>1. PacksKnown(lines)
    BY DEF OffersInv, OfferOK
  <2>. HIDE DEF rows, lines
  <2>. QED
    BY <1>3, <1>4, <2>1 DEF PacksKnown
<1>. HIDE DEF rows
<1>6. OfferOK(orders'[o])
  BY <1>1, <1>2, <1>3, <1>5, SalesStatusTells DEF OfferOK
<1>. QED
  BY <1>1, <1>6, OfferStands

LEMMA OffersInvInit == FulfilmentInit => OffersInv
<1>1. FulfilmentInit => \A o \in SalesOrders : orders[o] = NoOrder
  BY DEF FulfilmentInit, SchedulerInit, AccountsInit
<1>2. OfferOK(NoOrder)
  BY DEF NoOrder, OfferOK, PacksKnown
<1>. QED
  BY <1>1, <1>2 DEF OffersInv

LEMMA OffersInvStep ==
  ASSUME SalesExceedTolerance, PacksCounted, FulfilmentInv, OffersInv,
         [FulfilmentNext]_fulfilmentVars
  PROVE  OffersInv'
<1>1. ASSUME orders' = orders
      PROVE  OffersInv'
  BY <1>1 DEF OffersInv, OfferOK, MoreToShip, PacksKnown
<1>2. ASSUME NEW o \in SalesOrders, NEW req \in Shipments, Ship(o, req)
      PROVE  OffersInv'
  BY <1>2, ShipKeepsOffers
<1>3. ASSUME NEW o \in SalesOrders, Pack(o)
      PROVE  OffersInv'
  <2>1. orders[o] \in OrderRows /\ orders = [p \in SalesOrders |-> orders[p]] /\ OfferOK(orders[o])
    BY DEF FulfilmentInv, SchedulerInv, AccountsInv, AccountsTypeOK, OffersInv
  <2>2. /\ orders'[o].lines = orders[o].lines /\ orders'[o].status = orders[o].status
        /\ \A p \in SalesOrders \ {o} : orders'[p] = orders[p]
    BY <1>3, <2>1 DEF Pack, OrderRows
  <2>3. OfferOK(orders'[o])
    BY <2>1, <2>2, OfferKept
  <2>. QED
    BY <2>2, <2>3, OfferStands
<1>4. ASSUME NEW w \in FloorJobs, StageJob(w) \/ CompleteJob(w)
      PROVE  OffersInv'
  BY <1>1, <1>4 DEF StageJob, StartJob, CompleteJob, FinishJob, salesOnly
<1>5. CASE QueueStep \/ JobStep
  BY <1>1, <1>5, QueueKeepsOrders
<1>6. CASE OrdersStep
  BY <1>6, OrdersStepKeepsOffers DEF FulfilmentInv
<1>7. CASE UNCHANGED schedulerVars
  BY <1>1, <1>7 DEF schedulerVars
<1>8. CASE UNCHANGED fulfilmentVars
  BY <1>7, <1>8 DEF fulfilmentVars
<1>. QED
  BY <1>2, <1>3, <1>4, <1>5, <1>6, <1>7, <1>8 DEF FulfilmentNext, DeliveryStep

-----------------------------------------------------------------------------
(***************************************************************************)
(* The offers, one by one.                                                 *)
(***************************************************************************)
LEMMA OrderRowTypes ==
  ASSUME FulfilmentInv, NEW o \in SalesOrders
  PROVE  orders[o] \in OrderRows /\ orders[o].lines \in Seq(SalesLines)
BY DEF FulfilmentInv, SchedulerInv, AccountsInv, AccountsTypeOK, OrderRows

\* What a page reads of the stock of an item.
LEMMA StockTypes ==
  ASSUME FulfilmentInv, NEW i \in Items
  PROVE  /\ OnHand(i) \in Nat
         /\ \A o \in SalesOrders : PermittedQty(book[i], o) \in Nat
<1>1. PlantInv /\ TraceInv /\ BooksOK(book)
  BY DEF FulfilmentInv, PlantInv, StockInv
<1>2. OnHand(i) \in Nat
  BY <1>1 DEF OnHand, BooksOK, BookOK, Books, Statuses
<1>3. ASSUME NEW o \in SalesOrders
      PROVE  PermittedQty(book[i], o) \in Nat
  <2>. DEFINE f == [l \in Lots |-> IF l \in Permitted(o) \cap Lotted(book[i])
                                   THEN book[i].lotQty["INV"][l] ELSE 0]
  <2>1. Lots = 1..NumLots /\ NumLots \in Nat /\ NumLots \in 0..NumLots
    BY NumLocsNat DEF Lots
  <2>2. \A l \in 1..NumLots : f[l] \in Nat
    BY <1>1, <2>1, BooksStocked DEF Stocked
  <2>. HIDE DEF f
  <2>3. Sum(f, NumLots) \in Nat
    BY <2>1, <2>2, SumNat
  <2>. QED
    BY <2>3 DEF PermittedQty, f
<1>. QED
  BY <1>2, <1>3

\* The shipping page lists an order as long as some line leaves more than the tolerance.
LEMMA ListedToShip ==
  ASSUME FulfilmentInv, OffersInv, NEW o \in SalesOrders
  PROVE  CanShip(o) <=> /\ orders[o].status \notin {"NONE", "CANCELLED"}
                        /\ \E n \in EntriesLeft(o) : Remaining(orders[o].lines[n]) > Tolerance
<1>1. orders[o].status \in SalesStatuses /\ OfferOK(orders[o])
  BY OrderRowTypes DEF OrderRows, OffersInv
<1>2. MoreToShip(orders[o].lines) <=>
        \E n \in EntriesLeft(o) : Remaining(orders[o].lines[n]) > Tolerance
  <2>1. \A n \in DOMAIN orders[o].lines :
          orders[o].lines[n].ordered \in Nat /\ orders[o].lines[n].shipped \in Nat
    BY OrderRowTypes, SalesLineValues
  <2>2. Tolerance \in Nat
    BY FulfilmentAssumption
  <2>. QED
    BY <2>1, <2>2 DEF MoreToShip, EntriesLeft, Remaining
<1>. QED
  BY <1>1, <1>2 DEF CanShip, OfferOK, SalesStatuses

LEMMA PackOffered ==
  ASSUME OffersInv, NEW o \in SalesOrders, CanPack(o), Holds(PacksOf(orders[o].lines))
  PROVE  PackFits(o)
<1>1. PacksKnown(orders[o].lines)
  BY DEF OffersInv, OfferOK
<1>. QED
  BY <1>1 DEF PacksKnown, CanPack, PackFits, Packed

LEMMA MaterialOffered ==
  ASSUME FulfilmentInv, NEW w \in Jobs, ~ Blocked(w)
  PROVE  MaterialCovered(w)
<1>. SUFFICES ASSUME NEW i \in Parts(w)
              PROVE  Covers(book[i], "INV", Need(w, i))
  BY DEF MaterialCovered
<1>1. i \in Items /\ ~ OnHand(i) < Need(w, i)
  BY DEF Parts, Blocked, MaterialShort
<1>2. OnHand(i) \in Nat /\ Need(w, i) \in Nat
  BY <1>1, StockTypes, NeedType DEF FulfilmentInv
<1>. QED
  BY <1>1, <1>2 DEF OnHand, Covers

\* A job that is moved leaves its line without one, and the line is of a product that is made.
LEMMA ReassignOffered ==
  ASSUME FulfilmentInv, NEW w \in Created, NEW o \in SalesOrders,
         NEW n \in DOMAIN orders[o].lines, CanReassign(w, o, n)
  PROVE  Reassigns(w, o, n)
<1>1. /\ w \in Jobs /\ jobs[w].status # "NONE" /\ jobs \in [Jobs -> JobRows]
      /\ LinesOfOrders /\ JobsProduceTheirLine /\ MadeByFormula
  BY DEF Created, InStatus, FulfilmentInv, SchedulerInv, ReservationInv
<1>2. o # jobs[w].order /\ orders[o].status \notin {"NONE", "CANCELLED"}
  BY DEF CanReassign, ReassignTargets
<1>3. ReassignFits(w, o, n)
  BY <1>1, <1>2 DEF ReassignFits, CanReassign, MatchingLines
<1>. DEFINE table == AfterReassign(w, o, n)
<1>4. /\ table[w].order = o
      /\ \A v \in Jobs \ {w} : table[v] = jobs[v]
  BY <1>1 DEF AfterReassign, JobRows
<1>5. ASSUME NEW old \in SalesOrders, NEW m \in DOMAIN orders[old].lines, Uncovers(w, old, m)
      PROVE  NeedsBatch(table, old, m)
  <2>1. /\ JobsOfLine(old, m) = {w} /\ Remaining(orders[old].lines[m]) > 0
        /\ jobs[w].order = old /\ jobs[w].line = m
    BY <1>5 DEF Uncovers, JobsOfLine, JobsOf
  <2>. HIDE DEF table
  <2>2. ReservedIn(table, old, m) = {}
    <3>. SUFFICES ASSUME NEW v \in Jobs, table[v].status # "NONE",
                         table[v].order = old, table[v].line = m
                  PROVE  FALSE
      BY DEF ReservedIn
    <3>1. v # w
      BY <1>2, <1>4, <2>1
    <3>2. v \in JobsOfLine(old, m)
      BY <1>4, <3>1 DEF JobsOfLine, JobsOf, Created, InStatus
    <3>. QED
      BY <2>1, <3>1, <3>2
  <2>3. orders[old].lines[m].subject \notin Containers
    <3>1. m # 0
      BY OrderRowTypes, SalesLineValues
    <3>2. orders[old].lines[m].subject = jobs[w].item /\ jobs[w].item \in Formulated
      BY <1>1, <2>1, <3>1 DEF JobsProduceTheirLine, MadeByFormula
    <3>. QED
      BY <3>2, SchedulerAssumption
  <2>. QED
    BY <2>1, <2>2, <2>3 DEF NeedsBatch
<1>. QED
  BY <1>3, <1>5 DEF Reassigns

\* A request makes one job for each line that wants one, and touches no other.
LEMMA RequestOffered ==
  ASSUME FulfilmentInv, NEW o \in SalesOrders, CanRequest(o), BatchExpected(o)
  PROVE  RequestsAll(o)
<1>. DEFINE table == AfterRequest(o)
            free == FreeJobs(Cardinality(Wanted(o)))
<1>1. RequestFits(o)
  BY DEF RequestFits, Requestable, CanRequest, BatchExpected
<1>2. /\ free \in SUBSET InStatus("NONE")
      /\ \A w \in free : LineOf(o, w) \in Wanted(o)
      /\ \A n \in Wanted(o) : \E w \in free : LineOf(o, w) = n
      /\ \A v, w \in free : LineOf(o, v) = LineOf(o, w) => v = w
  BY <1>1, RequestMatches DEF FulfilmentInv
<1>3. /\ \A w \in Jobs \ free : table[w] = jobs[w]
      /\ \A w \in Jobs \cap free : /\ table[w].status = "REQUESTED" /\ table[w].order = o
                                   /\ table[w].line = LineOf(o, w)
  BY DEF AfterRequest, LineOf
<1>4. free \subseteq Jobs /\ \A w \in free : w \notin Created
  BY <1>2 DEF InStatus, Created
<1>. HIDE DEF table, free
<1>5. ASSUME NEW n \in Wanted(o)
      PROVE  \E w \in Jobs : ReservedIn(table, o, n) = {w}
  <2>1. PICK w \in free : LineOf(o, w) = n
    BY <1>2
  <2>2. w \in ReservedIn(table, o, n)
    BY <1>3, <1>4, <2>1 DEF ReservedIn
  <2>3. ASSUME NEW v \in ReservedIn(table, o, n)
        PROVE  v = w
    <3>1. v \in Jobs /\ table[v].status # "NONE" /\ table[v].order = o /\ table[v].line = n
      BY DEF ReservedIn
    <3>2. CASE v \in free
      BY <1>2, <1>3, <2>1, <3>1, <3>2
    <3>3. CASE v \notin free
      <4>1. v \in JobsOfLine(o, n)
        BY <1>3, <3>1, <3>3 DEF JobsOfLine, JobsOf, Created, InStatus
      <4>. QED
        BY <4>1 DEF Wanted
    <3>. QED
      BY <3>2, <3>3
  <2>. QED
    BY <1>4, <2>2, <2>3
<1>6. ASSUME NEW n \in DOMAIN orders[o].lines, orders[o].lines[n].subject \in Formulated,
             n \notin Wanted(o)
      PROVE  ReservedIn(table, o, n) # {}
  <2>1. PICK w \in JobsOfLine(o, n) : TRUE
    BY <1>6 DEF Wanted
  <2>2. w \in Jobs /\ w \in Created /\ jobs[w].order = o /\ jobs[w].line = n
    BY DEF JobsOfLine, JobsOf, Created
  <2>3. jobs[w].status # "NONE" /\ table[w] = jobs[w]
    BY <1>3, <1>4, <2>2 DEF Created, InStatus
  <2>. QED
    BY <2>2, <2>3 DEF ReservedIn
<1>. QED
  BY <1>1, <1>5, <1>6 DEF RequestsAll, table

-----------------------------------------------------------------------------
(***************************************************************************)
(* Everything that remains, in one request: an entry for each line that    *)
(* leaves something, in their order.                                       *)
(***************************************************************************)
LEMMA AllRemainingEntries ==
  ASSUME FulfilmentInv, NEW o \in SalesOrders, NEW req, req = AllRemaining(o)
  PROVE  /\ Len(req) \in Nat /\ DOMAIN req = 1..Len(req)
         /\ \A k \in 1..Len(req) : /\ req[k].line \in EntriesLeft(o)
                                   /\ req[k].qty = Remaining(orders[o].lines[req[k].line])
         /\ \A n \in EntriesLeft(o) : \E k \in 1..Len(req) : req[k].line = n
         /\ \A j, k \in 1..Len(req) : req[j].line = req[k].line => j = k
<1>. DEFINE lines == orders[o].lines
            E == EntriesLeft(o)
            N == Cardinality(E)
            nth(k) == CHOOSE n \in E : Cardinality(Smaller(E, n)) = k - 1
            entry(k) == [line |-> nth(k), qty |-> Remaining(lines[nth(k)])]
<1>1. E \in SUBSET (1..Len(lines)) /\ Len(lines) \in Nat
  BY OrderRowTypes, SalesLineValues DEF EntriesLeft
<1>2. /\ N \in Nat
      /\ \A n \in E : Cardinality(Smaller(E, n)) \in Nat /\ Cardinality(Smaller(E, n)) + 1 \in 1..N
      /\ \A k \in 1..N : \E n \in E : Cardinality(Smaller(E, n)) = k - 1
      /\ \A m, n \in E : m < n => Cardinality(Smaller(E, m)) < Cardinality(Smaller(E, n))
  <2>. HIDE DEF E, lines
  <2>. QED
    BY <1>1, Numbering
<1>3. req = [k \in 1..N |-> entry(k)]
  <2>1. \A n \in E : {m \in E : m < n} = Smaller(E, n)
    BY DEF Smaller
  <2>2. \A k : nth(k) = CHOOSE n \in E : Cardinality({m \in E : m < n}) = k - 1
    BY <2>1
  <2>. QED
    BY <2>2 DEF AllRemaining
<1>4. \A k \in 1..N : nth(k) \in E /\ Cardinality(Smaller(E, nth(k))) = k - 1
  <2>. TAKE k \in 1..N
  <2>1. \E n \in E : Cardinality(Smaller(E, n)) = k - 1
    BY <1>2
  <2>. QED
    BY <2>1
<1>. HIDE DEF E, nth, N
<1>5. \A j, k \in 1..N : nth(j) = nth(k) => j = k
  <2>. SUFFICES ASSUME NEW j \in 1..N, NEW k \in 1..N, nth(j) = nth(k)
                PROVE  j = k
    OBVIOUS
  <2>1. j - 1 = k - 1
    BY <1>4
  <2>. QED
    BY <1>2, <2>1
<1>6. \A n \in E : \E k \in 1..N : nth(k) = n
  <2>. SUFFICES ASSUME NEW n \in E
                PROVE  \E k \in 1..N : nth(k) = n
    OBVIOUS
  <2>. DEFINE k == Cardinality(Smaller(E, n)) + 1
  <2>1. k \in 1..N /\ k - 1 = Cardinality(Smaller(E, n))
    BY <1>2
  <2>2. nth(k) \in E /\ Cardinality(Smaller(E, nth(k))) = Cardinality(Smaller(E, n))
    BY <1>4, <2>1
  <2>. HIDE DEF k
  <2>3. ~ nth(k) < n /\ ~ n < nth(k)
    BY <1>2, <2>2
  <2>4. nth(k) \in Int /\ n \in Int
    <3>1. \A m \in E : m \in Int
      <4>. HIDE DEF lines
      <4>. QED
        BY <1>1
    <3>. HIDE DEF entry, lines
    <3>. QED
      BY <2>2, <3>1
  <2>5. nth(k) = n
    <3>. HIDE DEF lines
    <3>. QED
      BY <2>3, <2>4
  <2>. QED
    BY <2>1, <2>5
<1>7. Len(req) = N /\ DOMAIN req = 1..N
  <2>. HIDE DEF entry
  <2>1. req \in Seq({entry(k) : k \in 1..N})
    BY <1>2, <1>3
  <2>2. DOMAIN req = 1..N
    BY <1>3
  <2>. QED
    BY <1>2, <2>1, <2>2
<1>8. \A k \in 1..N : req[k].line = nth(k) /\ req[k].qty = Remaining(lines[nth(k)])
  BY <1>3
<1>9. Len(req) \in Nat /\ DOMAIN req = 1..Len(req)
  BY <1>2, <1>7
<1>10. \A k \in 1..Len(req) : /\ req[k].line \in EntriesLeft(o)
                              /\ req[k].qty = Remaining(lines[req[k].line])
  <2>. SUFFICES ASSUME NEW k \in 1..N
                PROVE  req[k].line \in E /\ req[k].qty = Remaining(lines[req[k].line])
    BY <1>7 DEF E
  <2>1. nth(k) \in E
    BY <1>4
  <2>2. req[k].line = nth(k) /\ req[k].qty = Remaining(lines[nth(k)])
    BY <1>8
  <2>. QED
    BY <2>1, <2>2
<1>11. \A n \in EntriesLeft(o) : \E k \in 1..Len(req) : req[k].line = n
  <2>. SUFFICES ASSUME NEW n \in E
                PROVE  \E k \in 1..N : req[k].line = n
    BY <1>7 DEF E
  <2>1. PICK k \in 1..N : nth(k) = n
    BY <1>6
  <2>2. req[k].line = nth(k)
    BY <1>8
  <2>. QED
    BY <2>1, <2>2
<1>12. \A j, k \in 1..Len(req) : req[j].line = req[k].line => j = k
  <2>. SUFFICES ASSUME NEW j \in 1..N, NEW k \in 1..N, req[j].line = req[k].line
                PROVE  j = k
    BY <1>7
  <2>1. req[j].line = nth(j) /\ req[k].line = nth(k)
    BY <1>8
  <2>2. nth(j) = nth(k)
    BY <2>1
  <2>. QED
    BY <1>5, <2>2
<1>. QED
  BY <1>9, <1>10, <1>11, <1>12

\* Entries for other items leave the book of an item as it was.
LEMMA BookUntouched ==
  ASSUME NEW o, NEW req, Len(req) \in Nat, NEW i \in Items, NEW k \in 1..Len(req),
         \A j \in 1..(k - 1) : SubjectOf(o, req[j]) # i
  PROVE  BooksAfter(o, req)[k - 1][i] = book[i]
<1>. DEFINE after == BooksAfter(o, req)
            S == {j \in Nat : j <= k - 1 => after[j][i] = book[i]}
<1>1. after[0] = book /\ \A j \in 1..Len(req) : after[j] = PostEntry(after[j - 1], o, req[j])
  BY BooksAfterUnfold
<1>2. 0 \in S
  BY <1>1
<1>3. ASSUME NEW j \in Nat, j \in S
      PROVE  j + 1 \in S
  <2>. SUFFICES ASSUME j + 1 <= k - 1
                PROVE  after[j + 1][i] = book[i]
    OBVIOUS
  <2>1. /\ j + 1 \in 1..Len(req) /\ j + 1 \in 1..(k - 1) /\ (j + 1) - 1 = j
        /\ after[j][i] = book[i]
    BY <1>3
  <2>2. after[j + 1] = PostEntry(after[j], o, req[j + 1])
    BY <1>1, <2>1
  <2>. HIDE DEF after
  <2>3. after[j + 1][i] = after[j][i]
    BY <2>1, <2>2 DEF PostEntry
  <2>. QED
    BY <2>1, <2>3
<1>4. \A j \in Nat : j \in S
  <2>. HIDE DEF S
  <2>. QED
    BY <1>2, <1>3, SetInduction
<1>. QED
  BY <1>4

\* What is shown as ready and withheld for nobody ships whole.
LEMMA ReadyShipsWhole ==
  ASSUME FulfilmentInv, NEW o \in SalesOrders,
         CanShip(o), ShowsReady(o), NothingWithheld(o), OneLinePerItem(o),
         Holds(ContainersOf(o, AllRemaining(o)))
  PROVE  ShipsWhole(o)
<1>. DEFINE lines == orders[o].lines
            req == AllRemaining(o)
            E == EntriesLeft(o)
            rows == ShippedLines(lines, req)
<1>1. /\ Len(req) \in Nat /\ DOMAIN req = 1..Len(req)
      /\ \A k \in 1..Len(req) : req[k].line \in E /\ req[k].qty = Remaining(lines[req[k].line])
      /\ \A n \in E : \E k \in 1..Len(req) : req[k].line = n
      /\ \A j, k \in 1..Len(req) : req[j].line = req[k].line => j = k
  BY AllRemainingEntries
<1>2. \A n \in DOMAIN lines :
         /\ lines[n] \in SalesLines /\ lines[n].ordered \in Nat /\ lines[n].shipped \in Nat
  BY OrderRowTypes, SalesLineValues
<1>3. /\ E \subseteq DOMAIN lines
      /\ \A n \in DOMAIN lines : n \in E <=> Remaining(lines[n]) > 0
  BY DEF EntriesLeft
<1>. HIDE DEF req, E
<1>4. \A k \in DOMAIN req :
         /\ req[k].line \in DOMAIN lines
         /\ req[k].qty <= lines[req[k].line].ordered - lines[req[k].line].shipped
  <2>. TAKE k \in DOMAIN req
  <2>1. req[k].line \in E /\ req[k].qty = Remaining(lines[req[k].line])
    BY <1>1
  <2>2. req[k].line \in DOMAIN lines
    BY <1>3, <2>1
  <2>3. lines[req[k].line].ordered \in Nat /\ lines[req[k].line].shipped \in Nat
    BY <1>2, <2>2
  <2>4. req[k].qty = lines[req[k].line].ordered - lines[req[k].line].shipped
    BY <2>1 DEF Remaining
  <2>5. req[k].qty <= lines[req[k].line].ordered - lines[req[k].line].shipped
    <3>. HIDE DEF lines
    <3>. QED
      BY <2>3, <2>4
  <2>. QED
    BY <2>2, <2>5
<1>5. ASSUME NEW k \in DOMAIN req, SubjectOf(o, req[k]) \in Items
      PROVE  MayShip(BooksAfter(o, req)[k - 1][SubjectOf(o, req[k])], o, req[k].qty)
  <2>. DEFINE i == SubjectOf(o, req[k])
              n == req[k].line
  <2>1. i \in Items /\ k \in 1..Len(req) /\ n \in E /\ i = lines[n].subject
    BY <1>1, <1>5 DEF SubjectOf
  <2>2. \A j \in 1..(k - 1) : SubjectOf(o, req[j]) # i
    <3>. SUFFICES ASSUME NEW j \in 1..(k - 1), SubjectOf(o, req[j]) = i
                  PROVE  FALSE
      OBVIOUS
    <3>1. j \in 1..Len(req) /\ j # k
      BY <1>1, <2>1
    <3>2. req[j].line \in E /\ lines[req[j].line].subject = lines[n].subject
      BY <1>1, <2>1, <3>1 DEF SubjectOf
    <3>3. req[j].line = n
      BY <2>1, <3>2 DEF OneLinePerItem, E
    <3>. QED
      BY <1>1, <2>1, <3>1, <3>3
  <2>. HIDE DEF i, n
  <2>3. BooksAfter(o, req)[k - 1][i] = book[i]
    BY <1>1, <2>1, <2>2, BookUntouched
  <2>4. req[k].qty \in Int /\ req[k].qty <= OnHand(i)
    <3>1. req[k].qty = Remaining(lines[n]) /\ n \in DOMAIN lines
      BY <1>1, <1>3, <2>1 DEF n
    <3>2. Remaining(lines[n]) <= OnHand(i)
      BY <2>1 DEF ShowsReady, E
    <3>. QED
      BY <1>2, <3>1, <3>2 DEF Remaining
  <2>5. Lotted(book[i]) # {} => OnHand(i) <= PermittedQty(book[i], o)
    <3>1. Lotted(book[i]) # {} => PermittedQty(book[i], o) >= OnHand(i)
      BY <2>1 DEF NothingWithheld, E
    <3>. QED
      BY <2>1, <3>1, StockTypes
  <2>6. MayShip(book[i], o, req[k].qty)
    <3>1. OnHand(i) \in Nat /\ PermittedQty(book[i], o) \in Nat
      BY <2>1, StockTypes
    <3>2. Lotted(book[i]) # {} => req[k].qty <= PermittedQty(book[i], o)
      BY <2>4, <2>5, <3>1
    <3>. QED
      BY <2>4, <3>2 DEF MayShip, Covers, OnHand
  <2>. QED
    BY <2>3, <2>6 DEF i
<1>6. ShipFits(o, req)
  BY <1>4, <1>5 DEF ShipFits, CanShip, req
<1>7. ASSUME NEW n \in DOMAIN lines
      PROVE  rows[n].shipped >= rows[n].ordered - Tolerance
  <2>0. Tolerance \in Nat
    BY FulfilmentAssumption
  <2>1. CASE n \in E
    <3>1. PICK k \in 1..Len(req) : req[k].line = n
      BY <1>1, <2>1
    <3>2. /\ k \in DOMAIN req /\ req[k].line = n
          /\ \A j \in DOMAIN req : req[j].line = n => j = k
      BY <1>1, <3>1
    <3>3. k <= k
      BY <1>1
    <3>4. LastEntry(req, n) = k
      BY <3>2, <3>3 DEF LastEntry
    <3>5. rows[n] = [lines[n] EXCEPT !.shipped = @ + req[k].qty]
      BY <3>2, <3>4 DEF ShippedLines
    <3>6. req[k].qty = lines[n].ordered - lines[n].shipped
      BY <1>1, <3>1 DEF Remaining
    <3>. HIDE DEF rows
    <3>7. rows[n].ordered = lines[n].ordered /\ rows[n].shipped = lines[n].shipped + req[k].qty
      BY <1>2, <3>5 DEF SalesLines
    <3>. QED
      BY <1>2, <2>0, <3>6, <3>7
  <2>2. CASE n \notin E
    <3>1. rows[n] = lines[n]
      BY <1>1, <2>2 DEF ShippedLines
    <3>2. ~ Remaining(lines[n]) > 0
      BY <1>3, <2>2
    <3>. HIDE DEF rows
    <3>. QED
      BY <1>2, <2>0, <3>1, <3>2 DEF Remaining
  <2>. QED
    BY <2>1, <2>2
<1>8. DOMAIN rows = DOMAIN lines
  BY DEF ShippedLines
<1>9. SalesStatus(rows) = "SHIPPED"
  BY <1>7, <1>8 DEF SalesStatus
<1>. QED
  BY <1>6, <1>9 DEF ShipsWhole, req

LEMMA OffersHonouredFacts == FulfilmentInv /\ OffersInv => OffersHonoured
<1>. SUFFICES ASSUME FulfilmentInv, OffersInv PROVE OffersHonoured
  OBVIOUS
<1>1. \A o \in SalesOrders : CanCancel(o) => OrderCancellable(o)
  BY DEF CanCancel, OrderCancellable
<1>2. \A w \in InStatus("PLANNED") : ~ Blocked(w) => MaterialCovered(w)
  BY MaterialOffered DEF InStatus
<1>. QED
  BY <1>1, <1>2, ListedToShip, PackOffered, RequestOffered, ReadyShipsWhole, ReassignOffered
  DEF OffersHonoured

\* What the pages of an order and of a work order offer is taken: an order is listed as long
\* as more than the tolerance of a line is to be shipped, what is ready ships whole, every
\* line that wants a work order gets one, and a job moved away leaves its line without.
THEOREM OffersAreHonoured ==
  ASSUME SalesExceedTolerance, PacksCounted
  PROVE  FulfilmentSpec => []OffersHonoured
<1>1. FulfilmentInit => OffersInv
  BY OffersInvInit
<1>2. FulfilmentInv /\ OffersInv /\ [FulfilmentNext]_fulfilmentVars => OffersInv'
  BY OffersInvStep
<1>3. FulfilmentInv /\ OffersInv => OffersHonoured
  BY OffersHonouredFacts
<1>. QED
  BY <1>1, <1>2, <1>3, FulfilmentInvariant, PTL DEF FulfilmentSpec
=============================================================================
