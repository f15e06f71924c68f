--------------------------- MODULE PurchasingProofs ---------------------------
(***************************************************************************)
(* The plant with purchase orders: receipts keep what PlantProofs shows  *)
(* of stock and lots, and can be traced; when no request names a line      *)
(* twice, what an order says it received is what its lots brought in; and  *)
(* what the pages of orders and lots offer can be carried out.             *)
(***************************************************************************)
EXTENDS ReceivingPages, PlantProofs

OrderRows == [status : OrderStatuses, lines : Seq(OrderLines)]

PurchasingInv ==
  /\ PlantInv
  /\ orders \in [Orders -> OrderRows]
  /\ containerQty \in [Containers -> Nat]

\* The elements of a list are of its element set.
LEMMA Element ==
  ASSUME NEW S, NEW s \in Seq(S), NEW n \in 1..Len(s)
  PROVE  s[n] \in S
OBVIOUS

\* The lines of a request become well-typed lines of the order.
LEMMA NewLinesType ==
  ASSUME NEW form \in OrderForms
  PROVE  NewLines(form) \in Seq(OrderLines)
<1>1. form \in Seq([subject : Subjects, ordered : Nat])
  BY PurchasingAssumption
<1>2. NewLines(form) = [n \in 1..Len(form) |->
        [subject |-> form[n].subject, ordered |-> form[n].ordered, received |-> 0]]
  BY <1>1 DEF NewLines
<1>3. ASSUME NEW n \in 1..Len(form)
      PROVE  [subject |-> form[n].subject, ordered |-> form[n].ordered, received |-> 0]
               \in OrderLines
  <2>1. form[n] \in [subject : Subjects, ordered : Nat]
    BY <1>1, Element
  <2>. QED
    BY <2>1 DEF OrderLines
<1>. QED
  BY <1>1, <1>2, <1>3

\* A receive request is a list of lines and positive quantities.
LEMMA ReceiptType ==
  ASSUME NEW req \in Receipts
  PROVE  /\ DOMAIN req = 1..Len(req) /\ Len(req) \in Nat
         /\ \A k \in DOMAIN req : req[k].line \in Nat /\ req[k].qty \in Nat
<1>1. req \in Seq([line : Nat \ {0}, qty : Nat \ {0}])
  BY PurchasingAssumption
<1>2. ASSUME NEW k \in 1..Len(req)
      PROVE  req[k].line \in Nat /\ req[k].qty \in Nat
  <2>1. req[k] \in [line : Nat \ {0}, qty : Nat \ {0}]
    BY <1>1, Element
  <2>. QED
    BY <2>1
<1>. QED
  BY <1>1, <1>2

\* A nonempty set of the positions 1..n has a last one.
LEMMA LastEntry ==
  ASSUME NEW n \in Nat, NEW S \in SUBSET (1..n), S # {}
  PROVE  \E k \in S : \A j \in S : j <= k
<1>. DEFINE T == {n - k : k \in S}
<1>0. \A k \in S : k \in 1..n /\ k \in Int /\ n - k \in Nat
  OBVIOUS
<1>1. T \in SUBSET Nat /\ T # {}
  BY <1>0
<1>. HIDE DEF T
<1>2. PICK m \in T : \A t \in T : m <= t
  BY <1>1, LeastNumber
<1>. USE DEF T
<1>3. PICK k \in S : m = n - k
  OBVIOUS
<1>4. ASSUME NEW j \in S
      PROVE  j <= k
  <2>1. n - j \in T
    OBVIOUS
  <2>2. n - k <= n - j /\ j \in Int /\ k \in Int
    BY <1>0, <1>2, <1>3, <2>1
  <2>. QED
    BY <2>2
<1>. QED
  BY <1>4

(***************************************************************************)
(* Receiving keeps the lines typed: a line named more than once gets the   *)
(* quantity of one of its entries.                                         *)
(***************************************************************************)
LEMMA ReceivedType ==
  ASSUME NEW lines \in Seq(OrderLines), NEW req \in Receipts
  PROVE  Received(lines, req) \in Seq(OrderLines)
<1>. DEFINE entries(n) == {k \in DOMAIN req : req[k].line = n}
            last(n) == CHOOSE k \in entries(n) : \A j \in entries(n) : j <= k
            after(n) == IF entries(n) = {} THEN lines[n]
                        ELSE [lines[n] EXCEPT !.received = @ + req[last(n)].qty]
<1>1. ASSUME NEW n \in 1..Len(lines)
      PROVE  after(n) \in OrderLines
  <2>1. lines[n] \in OrderLines
    OBVIOUS
  <2>2. CASE entries(n) = {}
    BY <2>1, <2>2
  <2>3. CASE entries(n) # {}
    <3>1. last(n) \in entries(n)
      <4>1. Len(req) \in Nat /\ entries(n) \in SUBSET (1..Len(req))
        BY ReceiptType
      <4>. HIDE DEF entries
      <4>. QED
        BY <2>3, <4>1, LastEntry
    <3>2. req[last(n)].qty \in Nat
      BY <3>1, ReceiptType
    <3>. DEFINE q == req[last(n)].qty
    <3>3. after(n) = [lines[n] EXCEPT !.received = @ + q]
      BY <2>3
    <3>. HIDE DEF q, after
    <3>4. q \in Nat /\ lines[n].received \in Nat
      BY <2>1, <3>2 DEF OrderLines, q
    <3>5. lines[n].received + q \in Nat
      BY <3>4
    <3>. QED
      BY <2>1, <3>3, <3>5 DEF OrderLines
  <2>. QED
    BY <2>2, <2>3
<1>2. Received(lines, req) = [n \in 1..Len(lines) |-> after(n)]
  BY DEF Received
<1>. HIDE DEF after
<1>. QED
  BY <1>1, <1>2

\* A step that only replaces the row of an order keeps the invariant.
LEMMA OrderOnlyOK ==
  ASSUME PurchasingInv, NEW o \in Orders, NEW row \in OrderRows,
         orders' = [orders EXCEPT ![o] = row],
         UNCHANGED <<locs, book, lots, containerQty>>
  PROVE  PurchasingInv'
<1>1. PlantInv'
  BY PlantIdle DEF PurchasingInv
<1>. QED
  BY <1>1 DEF PurchasingInv

\* Creating an order keeps the invariant.
LEMMA CreateOrderOK ==
  ASSUME PurchasingInv, NEW o \in Orders, NEW form \in OrderForms, CreateOrder(o, form)
  PROVE  PurchasingInv'
<1>1. [status |-> "OPEN", lines |-> NewLines(form)] \in OrderRows
  BY NewLinesType DEF OrderRows, OrderStatuses
<1>. QED
  BY <1>1, OrderOnlyOK DEF CreateOrder

\* So does editing one: its lines are made anew.
LEMMA UpdateOrderOK ==
  ASSUME PurchasingInv, NEW o \in Orders, NEW form \in OrderForms, UpdateOrder(o, form)
  PROVE  PurchasingInv'
<1>. DEFINE row == [orders[o] EXCEPT !.lines = NewLines(form)]
<1>1. row \in OrderRows
  BY NewLinesType DEF PurchasingInv, OrderRows
<1>2. orders' = [orders EXCEPT ![o] = row]
  BY DEF UpdateOrder, PurchasingInv
<1>. HIDE DEF row
<1>. QED
  BY <1>1, <1>2, OrderOnlyOK DEF UpdateOrder

\* So does cancelling one.
LEMMA CancelOrderOK ==
  ASSUME PurchasingInv, NEW o \in Orders, CancelOrder(o)
  PROVE  PurchasingInv'
<1>. DEFINE row == [orders[o] EXCEPT !.status = "CANCELLED"]
<1>1. row \in OrderRows
  BY DEF PurchasingInv, OrderRows, OrderStatuses
<1>2. orders' = [orders EXCEPT ![o] = row]
  BY DEF CancelOrder, Cancellable, PurchasingInv
<1>. HIDE DEF row
<1>. QED
  BY <1>1, <1>2, OrderOnlyOK DEF CancelOrder, Cancellable

-----------------------------------------------------------------------------
\* A quantity in pounds is within half a unit of the exact one, and exact if that is whole.
LEMMA ToPoundsWithin ==
  ASSUME NEW i \in Items, NEW q \in Nat
  PROVE  /\ ToPounds(i, q) \in Nat
         /\ - PoundsPer[i].den
               <= 2 * (PoundsPer[i].den * ToPounds(i, q) - q * PoundsPer[i].num)
         /\ 2 * (PoundsPer[i].den * ToPounds(i, q) - q * PoundsPer[i].num) <= PoundsPer[i].den
         /\ PoundsPer[i].den = 1 => ToPounds(i, q) = q * PoundsPer[i].num
<1>1. PICK a \in Nat \ {0}, b \in Nat \ {0} : a = PoundsPer[i].num /\ b = PoundsPer[i].den
  BY PurchasingAssumption
<1>2. q * a \in Nat
  BY <1>1
<1>3. PICK t : t = Rounded(q * a, b)
  OBVIOUS
<1>4. t \in Nat /\ - b <= 2 * (b * t - q * a) /\ 2 * (b * t - q * a) <= b
  BY <1>1, <1>2, <1>3, RoundedWithin
<1>5. ASSUME b = 1
      PROVE  t = q * a
  <2>1. 1 * t = t
    BY <1>4
  <2>. QED
    BY <1>2, <1>4, <1>5, <2>1
<1>6. ToPounds(i, q) = t
  BY <1>1, <1>3 DEF ToPounds
<1>. QED
  BY <1>1, <1>4, <1>5, <1>6

\* A receipt leaves every lot row in order, the new ones and the others.
LEMMA NewLotRowsOK ==
  ASSUME LotsOK(lots), NEW o \in Orders, NEW lines \in Seq(OrderLines), NEW req \in Receipts,
         NEW loc \in Wheres, \A k \in DOMAIN req : req[k].line \in DOMAIN lines
  PROVE  LotsOK(NewLotRows(o, lines, req, loc))
<1>. DEFINE pick(l) == CHOOSE e \in ItemEntries(lines, req) : LotOf(lines, req, e) = l
            line(l) == lines[req[pick(l)].line]
            row(l) == NewLot(line(l).subject, "RECEIPT", <<o, req[pick(l)].line>>,
                             ToPounds(line(l).subject, req[pick(l)].qty), loc)
            rows == NewLotRows(o, lines, req, loc)
<1>1. ASSUME NEW l \in Lots, \E e \in ItemEntries(lines, req) : LotOf(lines, req, e) = l
      PROVE  LotOK(row(l))
  <2>1. pick(l) \in ItemEntries(lines, req)
    BY <1>1
  <2>2. /\ pick(l) \in DOMAIN req /\ line(l).subject \in Items
        /\ req[pick(l)].line \in Nat /\ req[pick(l)].qty \in Nat
    BY <2>1, ReceiptType DEF ItemEntries
  <2>4. ToPounds(line(l).subject, req[pick(l)].qty) \in Nat
    <3>. HIDE DEF pick, line
    <3>. QED
      BY <2>2, ToPoundsWithin
  <2>5. o \in Nat /\ "RECEIPT" \in Origins
    BY PurchasingAssumption DEF Origins, Orders
  <2>6. <<o, req[pick(l)].line>> \in Nat \X Nat
    BY <2>2, <2>5
  <2>. HIDE DEF pick, line
  <2>. QED
    BY <2>2, <2>4, <2>5, <2>6, NewLotOK
<1>2. rows = [l \in Lots |-> IF \E e \in ItemEntries(lines, req) : LotOf(lines, req, e) = l
                             THEN row(l) ELSE lots[l]]
  BY DEF NewLotRows
<1>. HIDE DEF row, rows
<1>. QED
  BY <1>1, <1>2 DEF LotsOK, rows

\* A receipt lands at a leaf or nowhere.
LEMMA ReceivingLocType ==
  ASSUME NEW requested \in Wheres
  PROVE  /\ ReceivingLoc(requested) \in Wheres
         /\ InboundLoc("QUARANTINE", ReceivingLoc(requested)) \in Wheres
<1>1. FirstByCode(ActiveLocs \cap Receiving) \in Wheres
  <2>1. ActiveLocs \cap Receiving \in SUBSET Locs
    BY DEF ActiveLocs
  <2>. QED
    BY <2>1, FirstByCodeType DEF Wheres
<1>. QED
  BY <1>1, ResolveInboundType DEF ReceivingLoc, InboundLoc

\* The quantity of any choice of entries is a natural number.
LEMMA EntryQtyType ==
  ASSUME NEW req \in Receipts, NEW S
  PROVE  EntryQty(req, S) \in Nat
<1>. DEFINE f == [k \in DOMAIN req |-> IF k \in S THEN req[k].qty ELSE 0]
<1>1. \A k \in 1..Len(req) : f[k] \in Nat
  BY ReceiptType
<1>2. Len(req) \in Nat /\ Len(req) \in 0..Len(req)
  BY ReceiptType
<1>. HIDE DEF f
<1>3. Sum(f, Len(req)) \in Nat
  BY <1>1, <1>2, SumNat
<1>. QED
  BY <1>3 DEF EntryQty, f

(***************************************************************************)
(* A receipt keeps the invariant: for each item, the lots it opens and the *)
(* quantity it posts are the same.                                         *)
(***************************************************************************)
LEMMA ReceiveOK ==
  ASSUME PurchasingInv, NEW o \in Orders, NEW req \in Receipts, NEW requested \in Wheres,
         Receive(o, req, requested)
  PROVE  PurchasingInv'
<1>. DEFINE lines == orders[o].lines
            loc == ReceivingLoc(requested)
            rows == NewLotRows(o, lines, req, loc)
            new(i) == [l \in Lots |-> IF rows[l] # lots[l] /\ rows[l].item = i
                                      THEN rows[l].qty ELSE 0]
            to == InboundLoc("QUARANTINE", loc)
            f(i) == PostIn(book[i], "QUARANTINE", new(i), Sum(new(i), NumLots), to)
<1>1. lines \in Seq(OrderLines) /\ \A k \in DOMAIN req : req[k].line \in DOMAIN lines
  BY DEF PurchasingInv, OrderRows, Receive, ReceiptFits
<1>2. loc \in Wheres /\ to \in Wheres
  BY ReceivingLocType
<1>3. LotsOK(rows)
  <2>. HIDE DEF lines, loc
  <2>. QED
    BY <1>1, <1>2, NewLotRowsOK DEF PurchasingInv, PlantInv
<1>4. ASSUME NEW i \in Items
      PROVE  BookOK(f(i))
  <2>1. BookOK(book[i]) /\ "QUARANTINE" \in Statuses
    BY DEF PurchasingInv, PlantInv, StockInv, BooksOK, Statuses
  <2>2. new(i) \in [Lots -> Nat]
    <3>. HIDE DEF rows
    <3>1. \A l \in Lots : rows[l].qty \in Nat
      BY <1>3, LotFields DEF LotsOK
    <3>. QED
      BY <3>1
  <2>. HIDE DEF new
  <2>3. Sum(new(i), NumLots) \in Nat
    <3>1. \A l \in 1..NumLots : new(i)[l] \in Nat
      BY <2>2 DEF Lots
    <3>2. NumLots \in Nat /\ NumLots \in 0..NumLots
      BY NumLocsNat
    <3>. QED
      BY <3>1, <3>2, SumNat
  <2>4. new(i) \in [Lots -> Int]
    BY <2>2
  <2>. HIDE DEF to
  <2>. QED
    BY <1>2, <2>1, <2>3, <2>4, PostInOK
<1>5. book' = [i \in Items |-> f(i)] /\ locs' = locs /\ lots' = rows
  BY DEF Receive, ReceiptFits
<1>6. StockInv'
  <2>. HIDE DEF f
  <2>. QED
    BY <1>4, <1>5 DEF PurchasingInv, PlantInv, StockInv, BooksOK, LocationTypeOK
<1>7. LotsOK(lots')
  <2>. HIDE DEF rows
  <2>. QED
    BY <1>3, <1>5
<1>8. containerQty' \in [Containers -> Nat]
  BY EntryQtyType DEF Receive, ReceiptFits, PurchasingInv
<1>9. orders' \in [Orders -> OrderRows]
  <2>1. Received(lines, req) \in Seq(OrderLines)
    <3>. HIDE DEF lines
    <3>. QED
      BY <1>1, ReceivedType
  <2>2. StatusFromLines(Received(lines, req)) \in OrderStatuses
    BY DEF StatusFromLines, OrderStatuses
  <2>3. orders' = [orders EXCEPT
          ![o] = [status |-> StatusFromLines(Received(lines, req)),
                  lines  |-> Received(lines, req)]]
    BY DEF Receive, ReceiptFits
  <2>. HIDE DEF lines
  <2>. QED
    BY <2>1, <2>2, <2>3 DEF PurchasingInv, OrderRows
<1>. QED
  BY <1>6, <1>7, <1>8, <1>9 DEF PurchasingInv, PlantInv

\* Every step of the plant with purchase orders keeps the invariant.
LEMMA PurchasingNextOK ==
  ASSUME PurchasingInv, PurchasingNext
  PROVE  PurchasingInv'
<1>1. CASE PlantStep /\ UNCHANGED <<orders, containerQty>>
  BY <1>1, PlantStepOK DEF PurchasingInv
<1>2. CASE PurchasingStep
  BY <1>2, CreateOrderOK, UpdateOrderOK, CancelOrderOK, ReceiveOK DEF PurchasingStep, Wheres
<1>. QED
  BY <1>1, <1>2 DEF PurchasingNext

\* The invariant holds before any operation.
LEMMA PurchasingInitOK ==
  ASSUME PurchasingInit
  PROVE  PurchasingInv
<1>1. <<>> \in Seq(OrderLines)
  OBVIOUS
<1>. QED
  BY <1>1, QualityInitOK DEF PurchasingInit, PurchasingInv, OrderRows, OrderStatuses

\* Every step keeps the invariant, a stuttering one too.
LEMMA PurchasingStepOK ==
  PurchasingInv /\ [PurchasingNext]_purchasingVars => PurchasingInv'
<1>1. ASSUME PurchasingInv, UNCHANGED purchasingVars
      PROVE  PurchasingInv'
  BY <1>1, PlantIdle DEF purchasingVars, PurchasingInv
<1>. QED
  BY <1>1, PurchasingNextOK

(***************************************************************************)
(* For any orders, requests, tolerance, units, lots and quantities: the    *)
(* state is well typed, no bucket goes below zero, every bucket is the sum *)
(* of its ledger lines, its location rows never exceed it, and every       *)
(* approved lot has passed its suite.  Requests may repeat a line: that    *)
(* leaves the order behind, never the ledger.                              *)
(***************************************************************************)
THEOREM PurchasingCorrect ==
  PurchasingSpec =>
    [](PurchasingTypeOK /\ LedgerBalances /\ LocationsWithinStock /\ ApprovedPassed)
<1>1. PurchasingInv =>
        PurchasingTypeOK /\ LedgerBalances /\ LocationsWithinStock /\ ApprovedPassed
  BY PlantInvFacts DEF PurchasingInv, PurchasingTypeOK, OrderRows
<1>. QED
  BY PurchasingInitOK, PurchasingStepOK, <1>1, PTL DEF PurchasingSpec

-----------------------------------------------------------------------------
(***************************************************************************)
(* Purchasing and the trace of the lots.  NewRow(l) says that a receipt    *)
(* opens lot l; the lots it opens are the next free numbers, one for each  *)
(* entry of an item.                                                       *)
(***************************************************************************)
NewRow(lines, req, l) == \E k \in ItemEntries(lines, req) : LotOf(lines, req, k) = l

Rank(S, k) == Cardinality({j \in S : j < k})

\* The entries of items are numbered from 0 in the order of the request.
LEMMA EntryNumbers ==
  ASSUME NEW lines, NEW req \in Receipts, NEW S, S = ItemEntries(lines, req)
  PROVE  /\ IsFiniteSet(S) /\ S \in SUBSET Int
         /\ \A k \in S : Rank(S, k) \in Nat /\ Rank(S, k) < Cardinality(S)
         /\ \A k, m \in S : k < m => Rank(S, k) < Rank(S, m)
         /\ \A n \in Nat : n < Cardinality(S) => \E k \in S : Rank(S, k) = n
<1>. DEFINE f == [k \in S |-> k]
            last == Len(req)
<1>1. last \in Nat /\ S \in SUBSET (1..last)
  BY ReceiptType DEF ItemEntries
<1>2. IsFiniteSet(S) /\ S \in SUBSET Int
  <2>. HIDE DEF last
  <2>1. IsFiniteSet(1..last)
    BY <1>1, FS_Interval
  <2>2. IsFiniteSet(S)
    BY <1>1, <2>1, FS_Subset
  <2>3. \A k \in S : k \in Int
    BY <1>1
  <2>. QED
    BY <2>2, <2>3
<1>3. f \in [S -> Int] /\ \A x, y \in S : f[x] = f[y] => x = y
  BY <1>2
<1>4. \A k \in S : Cardinality(Below(f, S, k)) = Rank(S, k)
  BY DEF Below, Rank
<1>5. /\ \A k \in S : f[k] = k
      /\ Cardinality(S) \in Nat
  BY <1>2, FS_CardinalityType
<1>. HIDE DEF f
<1>6. ASSUME NEW k \in S
      PROVE  Cardinality(Below(f, S, k)) \in Nat /\ Cardinality(Below(f, S, k)) < Cardinality(S)
  BY <1>2, <1>3, BelowOrder
<1>7. \A k, m \in S : k < m => Cardinality(Below(f, S, k)) < Cardinality(Below(f, S, m))
  BY <1>2, <1>3, <1>5, BelowOrder
<1>8. \A n \in Nat : n < Cardinality(S) => \E k \in S : Cardinality(Below(f, S, k)) = n
  BY <1>2, <1>3, BelowNumbers
<1>. QED
  BY <1>2, <1>4, <1>6, <1>7, <1>8

\* A receipt opens free lots, and leaves no gap below one that it opens.
LEMMA NewRowsFree ==
  ASSUME LotsInOrder, FreeLots # {}, NEW lines, NEW req \in Receipts,
         NEW l \in Lots, NewRow(lines, req, l)
  PROVE  /\ lots[l].qc = "NONE"
         /\ \A k \in Lots : k < l /\ lots[k].qc = "NONE" => NewRow(lines, req, k)
<1>. DEFINE S == ItemEntries(lines, req)
<1>1. NextLot \in FreeLots /\ \A k \in FreeLots : NextLot <= k
  BY NextLotFree
<1>2. PICK m \in S : l = NextLot + Rank(S, m)
  BY DEF NewRow, LotOf, Rank
<1>. HIDE DEF S
<1>3. Rank(S, m) \in Nat /\ Rank(S, m) < Cardinality(S) /\ Cardinality(S) \in Nat
  BY EntryNumbers, FS_CardinalityType DEF S
<1>4. NextLot \in Lots /\ lots[NextLot].qc = "NONE" /\ NextLot \in Int /\ l \in Int
  BY <1>1 DEF FreeLots, Lots
<1>8. \A n \in Nat : n < Cardinality(S) => \E e \in S : Rank(S, e) = n
  BY EntryNumbers DEF S
<1>5. NextLot <= l
  BY <1>2, <1>3, <1>4
<1>6. lots[l].qc = "NONE"
  BY <1>4, <1>5 DEF LotsInOrder
<1>7. ASSUME NEW k \in Lots, k < l, lots[k].qc = "NONE"
      PROVE  NewRow(lines, req, k)
  <2>1. NextLot <= k /\ k \in Int
    BY <1>1, <1>7 DEF FreeLots, Lots
  <2>2. k - NextLot \in Nat /\ k - NextLot < Cardinality(S)
    BY <1>2, <1>3, <1>4, <1>7, <2>1
  <2>5. PICK n \in Nat : n = k - NextLot
    BY <2>2
  <2>6. n < Cardinality(S)
    BY <2>2, <2>5
  <2>3. PICK e \in S : Rank(S, e) = k - NextLot
    BY <2>5, <2>6, <1>8
  <2>4. NextLot + Rank(S, e) = k
    BY <1>4, <2>1, <2>3
  <2>. QED
    BY <2>4 DEF NewRow, LotOf, S, Rank
<1>. QED
  BY <1>6, <1>7

\* The row that a receipt writes for a lot it opens is that of one of its entries.
LEMMA NewRowValue ==
  ASSUME NEW o, NEW lines, NEW req, NEW loc, NEW l \in Lots, NewRow(lines, req, l)
  PROVE  \E k \in ItemEntries(lines, req) :
           /\ LotOf(lines, req, k) = l
           /\ NewLotRows(o, lines, req, loc)[l] =
                NewLot(lines[req[k].line].subject, "RECEIPT", <<o, req[k].line>>,
                       ToPounds(lines[req[k].line].subject, req[k].qty), loc)
<1>1. PICK k : k = CHOOSE e \in ItemEntries(lines, req) : LotOf(lines, req, e) = l
  OBVIOUS
<1>2. k \in ItemEntries(lines, req) /\ LotOf(lines, req, k) = l
  BY <1>1 DEF NewRow
<1>3. NewLotRows(o, lines, req, loc)[l] =
        NewLot(lines[req[k].line].subject, "RECEIPT", <<o, req[k].line>>,
               ToPounds(lines[req[k].line].subject, req[k].qty), loc)
  BY <1>1 DEF NewLotRows, NewRow
<1>. QED
  BY <1>2, <1>3

\* It leaves the other rows alone.
LEMMA OldRowValue ==
  ASSUME NEW o, NEW lines, NEW req, NEW loc, NEW l \in Lots, ~NewRow(lines, req, l)
  PROVE  NewLotRows(o, lines, req, loc)[l] = lots[l]
BY DEF NewLotRows, NewRow

\* A receipt that opens a lot finds a free one.
LEMMA RoomForLot ==
  ASSUME NEW lines, NEW req \in Receipts, NEW l \in Lots, NewRow(lines, req, l),
         Cardinality(ItemEntries(lines, req)) <= Cardinality(FreeLots)
  PROVE  FreeLots # {}
<1>. DEFINE S == ItemEntries(lines, req)
<1>1. PICK k \in S : TRUE
  BY DEF NewRow
<1>. HIDE DEF S
<1>2. Rank(S, k) \in Nat /\ Rank(S, k) < Cardinality(S) /\ Cardinality(S) \in Nat
  BY EntryNumbers, FS_CardinalityType DEF S
<1>3. ASSUME FreeLots = {}
      PROVE  FALSE
  <2>1. Cardinality(FreeLots) = 0
    BY <1>3, FS_EmptySet
  <2>2. Cardinality(S) <= 0
    BY <2>1 DEF S
  <2>. QED
    BY <1>2, <2>2
<1>. QED
  BY <1>3

\* What a receipt does to one lot: it opens it in QUARANTINE, or leaves it alone.
LEMMA ReceivedLot ==
  ASSUME PurchasingInv, TraceInv, NEW o \in Orders, NEW req \in Receipts,
         NEW requested \in Wheres, Receive(o, req, requested), NEW l \in Lots
  PROVE  IF NewRow(orders[o].lines, req, l)
         THEN \E k \in ItemEntries(orders[o].lines, req) :
                /\ LotOf(orders[o].lines, req, k) = l
                /\ lots[l].qc = "NONE" /\ lots'[l].qc = "PENDING"
                /\ lots'[l].item = orders[o].lines[req[k].line].subject
                /\ lots'[l].item \in Items
                /\ lots'[l].origin = "RECEIPT" /\ lots'[l].source = <<o, req[k].line>>
                /\ lots'[l].packed = 0 /\ lots'[l].returned = 0
                /\ lots'[l].qty = ToPounds(lots'[l].item, req[k].qty)
                /\ lots'[l].qty \in Nat
                /\ \A i \in Items, s \in Statuses :
                     book'[i].lotQty[s][l] =
                       IF i = lots'[l].item /\ s = "QUARANTINE" THEN lots'[l].qty ELSE 0
         ELSE /\ lots'[l] = lots[l]
              /\ \A i \in Items, s \in Statuses : book'[i].lotQty[s][l] = book[i].lotQty[s][l]
<1>. DEFINE lines == orders[o].lines
            loc == ReceivingLoc(requested)
            rows == NewLotRows(o, lines, req, loc)
            new(i) == [k \in Lots |-> IF rows[k] # lots[k] /\ rows[k].item = i
                                      THEN rows[k].qty ELSE 0]
            to == InboundLoc("QUARANTINE", loc)
            f(i) == PostIn(book[i], "QUARANTINE", new(i), Sum(new(i), NumLots), to)
<1>1. lines \in Seq(OrderLines) /\ (\A k \in DOMAIN req : req[k].line \in DOMAIN lines)
  BY DEF PurchasingInv, OrderRows, Receive, ReceiptFits
<1>2. loc \in Wheres
  BY ReceivingLocType
<1>3. book' = [i \in Items |-> f(i)] /\ lots' = rows
  BY DEF Receive, ReceiptFits
<1>4. LotsOK(rows)
  <2>. HIDE DEF lines, loc
  <2>. QED
    BY <1>1, <1>2, NewLotRowsOK DEF PurchasingInv, PlantInv
<1>5. ASSUME NEW i \in Items, NEW s \in Statuses
      PROVE  book'[i].lotQty[s][l] =
               IF s = "QUARANTINE" THEN book[i].lotQty[s][l] + new(i)[l]
               ELSE book[i].lotQty[s][l]
  <2>1. BookOK(book[i]) /\ "QUARANTINE" \in Statuses
    BY DEF PurchasingInv, PlantInv, StockInv, BooksOK, Statuses
  <2>2. book'[i] = f(i)
    BY <1>3
  <2>. HIDE DEF new, to
  <2>. QED
    BY <2>1, <2>2, LotsIn
<1>6. \A i \in Items, s \in Statuses : book[i].lotQty[s][l] \in Int
  BY LotQtyType DEF PurchasingInv
<1>7. \A i \in Items : new(i)[l] = IF lots'[l] # lots[l] /\ lots'[l].item = i
                                   THEN lots'[l].qty ELSE 0
  BY <1>3
<1>. HIDE DEF new, f
<1>8. CASE ~NewRow(lines, req, l)
  <2>1. lots'[l] = lots[l]
    BY <1>3, <1>8, OldRowValue
  <2>2. \A i \in Items : new(i)[l] = 0
    BY <1>7, <2>1
  <2>3. \A i \in Items, s \in Statuses : book'[i].lotQty[s][l] = book[i].lotQty[s][l]
    BY <1>5, <1>6, <2>2
  <2>. QED
    BY <1>8, <2>1, <2>3
<1>9. CASE NewRow(lines, req, l)
  <2>1. lots[l].qc = "NONE"
    BY <1>9, RoomForLot, NewRowsFree DEF TraceInv, Receive, ReceiptFits
  <2>2. PICK k \in ItemEntries(lines, req) :
          /\ LotOf(lines, req, k) = l
          /\ rows[l] = NewLot(lines[req[k].line].subject, "RECEIPT", <<o, req[k].line>>,
                              ToPounds(lines[req[k].line].subject, req[k].qty), loc)
    <3>. HIDE DEF lines, loc
    <3>. QED
      BY <1>9, NewRowValue
  <2>3. LotOK(lots'[l])
    BY <1>3, <1>4 DEF LotsOK
  <2>4. /\ lots'[l].qc = "PENDING" /\ lots'[l].origin = "RECEIPT"
        /\ lots'[l].item = lines[req[k].line].subject
        /\ lots'[l].source = <<o, req[k].line>>
        /\ lots'[l].packed = 0 /\ lots'[l].returned = 0
        /\ lots'[l].qty = ToPounds(lots'[l].item, req[k].qty)
    <3>. HIDE DEF lines, loc, rows
    <3>. QED
      BY <1>3, <2>2 DEF NewLot
  <2>5. lots'[l].item \in Items /\ lots'[l].qty \in Nat
    BY <2>3, LotFields
  <2>6. lots'[l] # lots[l]
    BY <2>1, <2>4
  <2>7. \A i \in Items, s \in Statuses : book[i].lotQty[s][l] = 0
    BY <2>1, NoLotNoStock DEF PurchasingInv
  <2>8. ASSUME NEW i \in Items, NEW s \in Statuses
        PROVE  book'[i].lotQty[s][l] =
                 IF i = lots'[l].item /\ s = "QUARANTINE" THEN lots'[l].qty ELSE 0
    <3>1. book[i].lotQty[s][l] = 0
      BY <2>7
    <3>2. new(i)[l] = IF i = lots'[l].item THEN lots'[l].qty ELSE 0
      BY <1>7, <2>6
    <3>3. book'[i].lotQty[s][l] = IF s = "QUARANTINE" THEN 0 + new(i)[l] ELSE 0
      BY <1>5, <3>1
    <3>. QED
      BY <2>5, <3>2, <3>3
  <2>. QED
    BY <1>9, <2>1, <2>2, <2>4, <2>5, <2>8
<1>. QED
  BY <1>8, <1>9

\* A receipt keeps the lots traced.
LEMMA ReceiveTraced ==
  ASSUME PurchasingInv, TraceInv, NEW o \in Orders, NEW req \in Receipts,
         NEW requested \in Wheres, Receive(o, req, requested)
  PROVE  TraceInv'
<1>. DEFINE lines == orders[o].lines
<1>1. ASSUME NEW l \in Lots, NewRow(lines, req, l)
      PROVE  /\ lots[l].qc = "NONE" /\ lots'[l].qc = "PENDING"
             /\ lots'[l].item \in Items /\ lots'[l].qty \in Nat
             /\ lots'[l].origin = "RECEIPT" /\ lots'[l].returned = 0
             /\ \A i \in Items, s \in Statuses :
                  book'[i].lotQty[s][l] =
                    IF i = lots'[l].item /\ s = "QUARANTINE" THEN lots'[l].qty ELSE 0
  BY <1>1, ReceivedLot
<1>2. ASSUME NEW l \in Lots, ~NewRow(lines, req, l)
      PROVE  /\ lots'[l] = lots[l]
             /\ \A i \in Items, s \in Statuses : book'[i].lotQty[s][l] = book[i].lotQty[s][l]
  BY <1>2, ReceivedLot
<1>3. ASSUME NEW l \in Lots, NewRow(lines, req, l), NEW k \in Lots, k < l, lots[k].qc = "NONE"
      PROVE  NewRow(lines, req, k)
  <2>. HIDE DEF lines
  <2>1. LotsInOrder /\ Cardinality(ItemEntries(lines, req)) <= Cardinality(FreeLots)
    BY DEF TraceInv, Receive, ReceiptFits, lines
  <2>. QED
    BY <1>3, <2>1, RoomForLot, NewRowsFree
<1>. HIDE DEF lines
<1>4. ASSUME NEW l \in Lots
      PROVE  TracedLot(l)'
  <2>1. CASE NewRow(lines, req, l)
    <3>1. "INV" \in Statuses /\ "WIP" \in Statuses /\ "QUARANTINE" \in Statuses
      BY DEF Statuses
    <3>2. /\ lots'[l].qc = "PENDING" /\ lots'[l].item \in Items /\ lots'[l].qty \in Nat
          /\ lots'[l].origin = "RECEIPT" /\ lots'[l].returned = 0
      BY <1>1, <2>1
    <3>3. /\ book'[lots'[l].item].lotQty["QUARANTINE"][l] = lots'[l].qty
          /\ book'[lots'[l].item].lotQty["WIP"][l] = 0
          /\ book'[lots'[l].item].lotQty["INV"][l] = 0
      BY <1>1, <2>1, <3>1, <3>2
    <3>4. \A i \in Items \ {lots'[l].item}, s \in Statuses : book'[i].lotQty[s][l] = 0
      BY <1>1, <2>1
    <3>. QED
      BY <3>2, <3>3, <3>4 DEF TracedLot, ReceiptTraced, InBucket
  <2>2. CASE ~NewRow(lines, req, l)
    BY <1>2, <2>2, DrawnLot DEF TraceInv, PurchasingInv
  <2>. QED
    BY <2>1, <2>2
<1>5. LotsInOrder'
  <2>1. ASSUME NEW k \in Lots, NEW l \in Lots, k < l, lots'[k].qc = "NONE"
        PROVE  lots'[l].qc = "NONE"
    <3>1. ~NewRow(lines, req, k)
      BY <1>1, <2>1
    <3>2. lots[k].qc = "NONE"
      BY <1>2, <2>1, <3>1
    <3>3. lots[l].qc = "NONE"
      BY <2>1, <3>2 DEF TraceInv, LotsInOrder
    <3>4. ~NewRow(lines, req, l)
      BY <1>3, <2>1, <3>1, <3>2
    <3>. QED
      BY <1>2, <3>3, <3>4
  <2>. QED
    BY <2>1 DEF LotsInOrder
<1>. QED
  BY <1>4, <1>5 DEF TraceInv

\* Every step of the plant with purchase orders keeps the lots traced.
LEMMA PurchasingNextTraced ==
  ASSUME PurchasingInv, TraceInv, [PurchasingNext]_purchasingVars
  PROVE  TraceInv'
<1>1. CASE PlantStep
  BY <1>1, PlantStepTraced DEF PurchasingInv
<1>2. CASE UNCHANGED <<book, lots>>
  BY <1>2, TraceIdle DEF PurchasingInv
<1>3. CASE PurchasingStep
  <2>1. ASSUME NEW o \in Orders,
               \/ \E form \in OrderForms : CreateOrder(o, form) \/ UpdateOrder(o, form)
               \/ CancelOrder(o)
        PROVE  UNCHANGED <<book, lots>>
    BY <2>1 DEF CreateOrder, UpdateOrder, CancelOrder, Cancellable
  <2>. QED
    BY <1>2, <1>3, <2>1, ReceiveTraced DEF PurchasingStep, Wheres
<1>. QED
  BY <1>1, <1>2, <1>3 DEF PurchasingNext, purchasingVars

(***************************************************************************)
(* Every lot stays accounted for (LotsTraceable) with purchase orders and  *)
(* receipts of any number of lines, repeated ones too: a lot is the one    *)
(* that its receipt opened, in the bucket that its control status says,    *)
(* for the quantity received less what was returned.                       *)
(***************************************************************************)
THEOREM ReceiptsTraceable == PurchasingSpec => []LotsTraceable
<1>1. PurchasingInit => PurchasingInv /\ TraceInv
  BY PurchasingInitOK, TraceInitOK DEF PurchasingInit
<1>2. PurchasingInv /\ TraceInv /\ [PurchasingNext]_purchasingVars
        => PurchasingInv' /\ TraceInv'
  BY PurchasingStepOK, PurchasingNextTraced
<1>. QED
  BY <1>1, <1>2, TraceInvFacts, PTL DEF PurchasingSpec

-----------------------------------------------------------------------------
(***************************************************************************)
(* What an order received and what reached stock, when no request names a  *)
(* line twice.                                                             *)
(***************************************************************************)
LinesNamedOnce ==
  \A req \in Receipts : \A j, k \in DOMAIN req : req[j].line = req[k].line => j = k

LinesReceived(lines, subject) ==
  Sum([n \in DOMAIN lines |-> IF lines[n].subject = subject THEN lines[n].received ELSE 0],
      Len(lines))

\* Every entry of an item finds a free lot, and two entries find two.
LEMMA EntryLot ==
  ASSUME LotsInOrder, NEW lines, NEW req \in Receipts,
         Cardinality(ItemEntries(lines, req)) <= Cardinality(FreeLots),
         NEW k \in ItemEntries(lines, req)
  PROVE  LotOf(lines, req, k) \in Lots
<1>. DEFINE S == ItemEntries(lines, req)
<1>1. LotOf(lines, req, k) = NextLot + Rank(S, k)
  BY DEF LotOf, Rank
<1>2. k \in S /\ Cardinality(S) <= Cardinality(FreeLots)
  OBVIOUS
<1>. HIDE DEF S
<1>3. Rank(S, k) \in Nat /\ Rank(S, k) < Cardinality(S) /\ Cardinality(S) \in Nat
  BY <1>2, EntryNumbers, FS_CardinalityType DEF S
<1>4. FreeLots # {}
  <2>1. ASSUME FreeLots = {}
        PROVE  FALSE
    BY <1>2, <1>3, <2>1, FS_EmptySet
  <2>. QED
    BY <2>1
<1>5. PICK n : n = NextLot /\ n \in FreeLots /\ \A l \in FreeLots : n <= l
  BY <1>4, NextLotFree
<1>6. n \in Int /\ n \in 1..NumLots /\ NumLots \in Nat
  BY <1>5, NumLocsNat DEF FreeLots, Lots
<1>7. FreeLots = n..NumLots
  <2>1. ASSUME NEW l \in FreeLots
        PROVE  l \in n..NumLots
    BY <1>5, <1>6 DEF FreeLots, Lots
  <2>2. ASSUME NEW l \in n..NumLots
        PROVE  l \in FreeLots
    BY <1>5, <1>6 DEF FreeLots, Lots, LotsInOrder
  <2>. QED
    BY <2>1, <2>2
<1>8. Cardinality(n..NumLots) = NumLots - n + 1
  BY <1>6, FS_Interval
<1>. QED
  BY <1>1, <1>2, <1>3, <1>5, <1>6, <1>7, <1>8 DEF Lots

LEMMA EntryLotsApart ==
  ASSUME NEW lines, NEW req \in Receipts, FreeLots # {},
         NEW j \in ItemEntries(lines, req), NEW k \in ItemEntries(lines, req),
         LotOf(lines, req, j) = LotOf(lines, req, k)
  PROVE  j = k
<1>. DEFINE S == ItemEntries(lines, req)
<1>1. NextLot + Rank(S, j) = NextLot + Rank(S, k) /\ j \in S /\ k \in S
  BY DEF LotOf, Rank
<1>2. NextLot \in Int
  BY NextLotFree DEF FreeLots, Lots
<1>. HIDE DEF S
<1>3. /\ Rank(S, j) \in Nat /\ Rank(S, k) \in Nat /\ j \in Int /\ k \in Int
      /\ j < k => Rank(S, j) < Rank(S, k)
      /\ k < j => Rank(S, k) < Rank(S, j)
  BY <1>1, EntryNumbers DEF S
<1>. QED
  BY <1>1, <1>2, <1>3

\* A receipt adds each entry to its line.
LEMMA ReceivedOnce ==
  ASSUME LinesNamedOnce, NEW lines \in Seq(OrderLines), NEW req \in Receipts,
         \A k \in DOMAIN req : req[k].line \in DOMAIN lines
  PROVE  /\ DOMAIN Received(lines, req) = DOMAIN lines
         /\ Len(Received(lines, req)) = Len(lines)
         /\ \A n \in DOMAIN lines : Received(lines, req)[n].subject = lines[n].subject
         /\ \A k \in DOMAIN req :
              Received(lines, req)[req[k].line].received
                = lines[req[k].line].received + req[k].qty
         /\ \A n \in DOMAIN lines : (\A k \in DOMAIN req : req[k].line # n)
              => Received(lines, req)[n] = lines[n]
<1>. DEFINE entries(n) == {k \in DOMAIN req : req[k].line = n}
            last(n) == CHOOSE k \in entries(n) : \A j \in entries(n) : j <= k
            after(n) == IF entries(n) = {} THEN lines[n]
                        ELSE [lines[n] EXCEPT !.received = @ + req[last(n)].qty]
<1>1. Received(lines, req) = [n \in DOMAIN lines |-> after(n)]
  BY DEF Received
<1>2. DOMAIN lines = 1..Len(lines) /\ Len(lines) \in Nat
  OBVIOUS
<1>3. ASSUME NEW n \in DOMAIN lines
      PROVE  lines[n] = [subject |-> lines[n].subject, ordered |-> lines[n].ordered,
                         received |-> lines[n].received]
  <2>1. lines[n] \in OrderLines
    OBVIOUS
  <2>. QED
    BY <2>1 DEF OrderLines
<1>4. ASSUME NEW n \in DOMAIN lines
      PROVE  after(n).subject = lines[n].subject
  BY <1>3
<1>5. ASSUME NEW k \in DOMAIN req
      PROVE  after(req[k].line).received = lines[req[k].line].received + req[k].qty
  <2>. DEFINE n == req[k].line
  <2>1. entries(n) = {k}
    BY DEF LinesNamedOnce
  <2>2. k <= k
    BY ReceiptType
  <2>3. last(n) = k
    BY <2>1, <2>2
  <2>4. after(n) = [lines[n] EXCEPT !.received = @ + req[k].qty]
    BY <2>1, <2>3
  <2>. HIDE DEF after
  <2>5. n \in DOMAIN lines
    OBVIOUS
  <2>. QED
    BY <1>3, <2>4, <2>5
<1>6. ASSUME NEW n \in DOMAIN lines, \A k \in DOMAIN req : req[k].line # n
      PROVE  after(n) = lines[n]
  BY <1>6
<1>. HIDE DEF after
<1>7. Len(Received(lines, req)) = Len(lines)
  BY <1>1, <1>2
<1>. QED
  BY <1>1, <1>4, <1>5, <1>6, <1>7

-----------------------------------------------------------------------------
\* What was received of a subject on an order is a number.
LEMMA LinesReceivedType ==
  ASSUME NEW lines \in Seq(OrderLines), NEW subject
  PROVE  LinesReceived(lines, subject) \in Int
<1>. DEFINE f == [n \in DOMAIN lines |->
                   IF lines[n].subject = subject THEN lines[n].received ELSE 0]
<1>1. Len(lines) \in Nat /\ DOMAIN lines = 1..Len(lines)
  OBVIOUS
<1>2. \A n \in 1..Len(lines) : f[n] \in Int
  <2>1. \A n \in 1..Len(lines) : lines[n] \in OrderLines
    OBVIOUS
  <2>2. \A n \in 1..Len(lines) : lines[n].received \in Nat
    BY <2>1 DEF OrderLines
  <2>. QED
    BY <1>1, <2>2
<1>3. Len(lines) \in 0..Len(lines)
  BY <1>1
<1>. HIDE DEF f
<1>4. Sum(f, Len(lines)) \in Int
  BY <1>1, <1>2, <1>3, SumInt
<1>. QED
  BY <1>4 DEF LinesReceived, f

\* Of lines that received nothing, it is zero.
LEMMA NothingReceived ==
  ASSUME NEW lines \in Seq(OrderLines), Untouched(lines), NEW subject
  PROVE  LinesReceived(lines, subject) = 0
<1>. DEFINE f == [n \in DOMAIN lines |->
                   IF lines[n].subject = subject THEN lines[n].received ELSE 0]
<1>1. Len(lines) \in Nat /\ DOMAIN lines = 1..Len(lines) /\ Len(lines) \in 0..Len(lines)
  OBVIOUS
<1>2. \A n \in 1..Len(lines) : f[n] = 0
  BY <1>1 DEF Untouched
<1>. HIDE DEF f
<1>3. Sum(f, Len(lines)) = 0
  BY <1>1, <1>2, SumZero
<1>. QED
  BY <1>3 DEF LinesReceived, f

\* New lines have received nothing.
LEMMA NewLinesUntouched ==
  ASSUME NEW form \in OrderForms
  PROVE  Untouched(NewLines(form))
BY DEF Untouched, NewLines

\* A receipt adds to an order what its entries of the subject say.
LEMMA LinesReceivedGrows ==
  ASSUME LinesNamedOnce, NEW lines \in Seq(OrderLines), NEW req \in Receipts,
         \A k \in DOMAIN req : req[k].line \in DOMAIN lines, NEW subject
  PROVE  LinesReceived(Received(lines, req), subject) =
           LinesReceived(lines, subject) + EntryQty(req, Entries(lines, req, subject))
<1>. DEFINE N == Len(lines)
            M == Len(req)
            after == Received(lines, req)
            old == [n \in DOMAIN lines |->
                     IF lines[n].subject = subject THEN lines[n].received ELSE 0]
            new == [n \in DOMAIN after |->
                     IF after[n].subject = subject THEN after[n].received ELSE 0]
            g == [n \in DOMAIN lines |-> new[n] - old[n]]
            f == [k \in DOMAIN req |-> IF k \in Entries(lines, req, subject)
                                       THEN req[k].qty ELSE 0]
            to == [k \in DOMAIN req |-> req[k].line]
<1>1. N \in Nat /\ DOMAIN lines = 1..N /\ M \in Nat /\ DOMAIN req = 1..M
  BY ReceiptType
<1>2. \A n \in 1..N : lines[n].received \in Nat
  <2>1. \A n \in 1..N : lines[n] \in OrderLines
    OBVIOUS
  <2>. QED
    BY <2>1 DEF OrderLines
<1>3. \A k \in 1..M : req[k].line \in 1..N /\ req[k].qty \in Nat
  BY <1>1, ReceiptType
<1>4. /\ DOMAIN after = 1..N /\ Len(after) = N
      /\ \A n \in 1..N : after[n].subject = lines[n].subject
      /\ \A k \in 1..M : after[req[k].line].received = lines[req[k].line].received + req[k].qty
      /\ \A n \in 1..N : (\A k \in 1..M : req[k].line # n) => after[n] = lines[n]
  BY <1>1, ReceivedOnce
<1>. HIDE DEF after
<1>5. \A j, k \in 1..M : to[j] = to[k] => j = k
  BY <1>1 DEF LinesNamedOnce
<1>. HIDE DEF N, M
<1>6. ASSUME NEW k \in 1..M
      PROVE  f[k] \in Int /\ to[k] \in 1..N /\ g[to[k]] = f[k]
  <2>1. k \in Entries(lines, req, subject) <=> lines[req[k].line].subject = subject
    BY <1>1 DEF Entries
  <2>2. f[k] = IF lines[req[k].line].subject = subject THEN req[k].qty ELSE 0
    BY <1>1, <2>1
  <2>3. to[k] = req[k].line /\ to[k] \in 1..N
    BY <1>1, <1>3
  <2>4. PICK n \in 1..N : n = req[k].line
    BY <1>3
  <2>5. g[n] = IF lines[n].subject = subject THEN after[n].received - lines[n].received ELSE 0
    BY <1>1, <1>2, <1>4
  <2>6. after[n].received = lines[n].received + req[k].qty /\ lines[n].received \in Nat
        /\ req[k].qty \in Nat
    BY <1>2, <1>3, <1>4, <2>4
  <2>. HIDE DEF g, f, to
  <2>. QED
    BY <2>2, <2>3, <2>4, <2>5, <2>6
<1>7. ASSUME NEW n \in 1..N, \A k \in 1..M : to[k] # n
      PROVE  g[n] = 0
  <2>1. after[n] = lines[n]
    BY <1>1, <1>4, <1>7
  <2>. QED
    BY <1>1, <1>2, <1>4, <2>1
<1>8. ASSUME NEW n \in 1..N
      PROVE  old[n] \in Int /\ g[n] \in Int /\ new[n] = old[n] + g[n]
  <2>1. old[n] \in Int
    BY <1>1, <1>2
  <2>2. g[n] \in Int
    <3>. HIDE DEF g, f, to
    <3>1. CASE \E k \in 1..M : to[k] = n
      BY <1>6, <3>1
    <3>2. CASE \A k \in 1..M : to[k] # n
      BY <1>7, <3>2
    <3>. QED
      BY <3>1, <3>2
  <2>3. new[n] \in Int
    <3>0. new[n] = IF after[n].subject = subject THEN after[n].received ELSE 0
      BY <1>4
    <3>1. CASE \E k \in 1..M : req[k].line = n
      <4>1. PICK k \in 1..M : req[k].line = n
        BY <3>1
      <4>2. after[n].received = lines[n].received + req[k].qty
        BY <1>4, <4>1
      <4>3. after[n].received \in Int
        BY <1>2, <1>3, <4>2
      <4>. QED
        BY <3>0, <4>3
    <3>2. CASE \A k \in 1..M : req[k].line # n
      BY <1>2, <1>4, <3>0, <3>2
    <3>. QED
      BY <3>1, <3>2
  <2>4. g[n] = new[n] - old[n]
    BY <1>1
  <2>. HIDE DEF old, new, g
  <2>. QED
    BY <2>1, <2>2, <2>3, <2>4
<1>. HIDE DEF old, new, g, f, to
<1>9. Sum(g, N) = Sum(f, M)
  <2>1. N \in Nat /\ M \in Nat
    BY <1>1
  <2>2. \A k \in 1..M : f[k] \in Int /\ to[k] \in 1..N /\ g[to[k]] = f[k]
    BY <1>6
  <2>3. \A n \in 1..N : (\A k \in 1..M : to[k] # n) => g[n] = 0
    BY <1>7
  <2>4. Reindexed(f, M, g, N, to)
    BY <1>5, <2>2, <2>3 DEF Reindexed
  <2>. QED
    BY <2>1, <2>4, SumMoved
<1>10. Sum(new, N) = Sum(old, N) + Sum(g, N)
  BY <1>1, <1>8, SumAdd
<1>11. LinesReceived(after, subject) = Sum(new, N)
  <2>1. LinesReceived(after, subject) = Sum(new, Len(after))
    BY DEF LinesReceived, new
  <2>. QED
    BY <1>4, <2>1
<1>12. LinesReceived(lines, subject) = Sum(old, N)
  BY DEF LinesReceived, old, N
<1>13. EntryQty(req, Entries(lines, req, subject)) = Sum(f, M)
  BY DEF EntryQty, f, M
<1>. QED
  BY <1>9, <1>10, <1>11, <1>12, <1>13 DEF after

\* What was received in all moves with what was received on one order.
LEMMA TotalMoves ==
  ASSUME NEW subject, NEW o \in Orders, NEW d \in Int,
         \A p \in Orders :
           /\ ReceivedOnOrder(p, subject) \in Int
           /\ ReceivedOnOrder(p, subject)' =
                ReceivedOnOrder(p, subject) + (IF p = o THEN d ELSE 0)
  PROVE  ReceivedOf(subject)' = ReceivedOf(subject) + d
<1>. DEFINE f == [p \in Orders |-> ReceivedOnOrder(p, subject)]
            h == [p \in Orders |-> ReceivedOnOrder(p, subject)']
            a == At(o, d, NumOrders)
<1>1. NumOrders \in Nat /\ o \in Int /\ o \in 1..NumOrders
  BY PurchasingAssumption DEF Orders
<1>2. Sum(a, NumOrders) = d
  BY <1>1, SumAt
<1>3. \A p \in 1..NumOrders : f[p] \in Int /\ a[p] \in Int /\ h[p] = f[p] + a[p]
  BY DEF At, Orders
<1>. HIDE DEF f, h, a
<1>4. Sum(h, NumOrders) = Sum(f, NumOrders) + Sum(a, NumOrders)
  BY <1>1, <1>3, SumAdd
<1>5. ReceivedOf(subject) = Sum(f, NumOrders) /\ ReceivedOf(subject)' = Sum(h, NumOrders)
  BY DEF ReceivedOf, f, h
<1>. QED
  BY <1>2, <1>4, <1>5

\* An order's lines say what was received on it.
LEMMA OnOrder ==
  ASSUME PurchasingInv, NEW o \in Orders, NEW subject
  PROVE  /\ orders[o].lines \in Seq(OrderLines)
         /\ ReceivedOnOrder(o, subject) = LinesReceived(orders[o].lines, subject)
         /\ ReceivedOnOrder(o, subject)' = LinesReceived(orders'[o].lines, subject)
         /\ ReceivedOnOrder(o, subject) \in Int
<1>1. orders[o].lines \in Seq(OrderLines)
  BY DEF PurchasingInv, OrderRows
<1>2. /\ ReceivedOnOrder(o, subject) = LinesReceived(orders[o].lines, subject)
      /\ ReceivedOnOrder(o, subject)' = LinesReceived(orders'[o].lines, subject)
  BY DEF ReceivedOnOrder, LinesReceived
<1>. QED
  BY <1>1, <1>2, LinesReceivedType

-----------------------------------------------------------------------------
(***************************************************************************)
(* The invariant behind ReceiptsMatchStock: an order not yet created has   *)
(* no lines, and a line that has a lot is of an item and has received      *)
(* something.  An order that has received nothing therefore has no lots,   *)
(* so its lines may be made anew.                                          *)
(***************************************************************************)
LotBearing(line) == line.subject \in Items /\ line.received > 0

ReceiptsInv ==
  /\ PurchasingInv
  /\ TraceInv
  /\ \A o \in Orders : orders[o].status = "NONE" => orders[o].lines = <<>>
  /\ \A o \in Orders, l \in Lots : lots[l].qc # "NONE" /\ lots[l].source[1] = o
        => LotBearing(orders[o].lines[lots[l].source[2]])
  /\ ReceiptsMatchStock

LineColumn(o, n) == [l \in Lots |-> IF l \in LotsOfLine(o, n) THEN lots[l].qty ELSE 0]

\* Nothing adds up to nothing.
LEMMA NothingAddsUp ==
  ASSUME NEW i \in Items
  PROVE  AddsUp(i, 0, 0, 0)
<1>1. PICK a \in Nat \ {0}, b \in Nat \ {0} : a = PoundsPer[i].num /\ b = PoundsPer[i].den
  BY PurchasingAssumption
<1>2. b * 0 = 0 /\ a * 0 = 0 /\ 0 * b = 0
  BY <1>1
<1>. QED
  BY <1>1, <1>2 DEF AddsUp

LEMMA Spread ==
  ASSUME NEW x \in Int, NEW y \in Int
  PROVE  (x + 1) * y = x * y + y
OBVIOUS

\* One more lot adds at most half a unit to how far the lots are off.
LEMMA OneMoreAddsUp ==
  ASSUME NEW i \in Items, NEW pounds \in Int, NEW received \in Nat, NEW count \in Nat,
         NEW q \in Nat, AddsUp(i, pounds, received, count)
  PROVE  AddsUp(i, pounds + ToPounds(i, q), received + q, count + 1)
<1>1. PICK a \in Nat \ {0}, b \in Nat \ {0} : a = PoundsPer[i].num /\ b = PoundsPer[i].den
  BY PurchasingAssumption
<1>2. PICK t \in Nat : t = ToPounds(i, q)
  BY ToPoundsWithin
<1>3. /\ - b <= 2 * (b * t - q * a) /\ 2 * (b * t - q * a) <= b
      /\ b = 1 => t = q * a
  BY <1>1, <1>2, ToPoundsWithin
<1>4. PICK x \in Int, y \in Int, z \in Int, w \in Int, u \in Int :
        /\ x = b * pounds /\ y = a * received /\ z = b * t /\ w = q * a /\ u = count * b
  <2>1. b * pounds \in Int /\ a * received \in Int
    BY <1>1
  <2>2. b * t \in Int /\ q * a \in Int
    BY <1>1, <1>2
  <2>3. count * b \in Int
    BY <1>1
  <2>. QED
    BY <2>1, <2>2, <2>3
<1>5. /\ b * (pounds + t) = x + z /\ a * (received + q) = y + w /\ (count + 1) * b = u + b
  <2>1. b * (pounds + t) = b * pounds + b * t
    BY <1>1, <1>2
  <2>2. a * (received + q) = a * received + q * a
    BY <1>1
  <2>3. (count + 1) * b = count * b + b
    <3>1. b \in Int /\ count \in Int
      BY <1>1
    <3>. QED
      BY <3>1, Spread
  <2>. QED
    BY <1>4, <2>1, <2>2, <2>3
<1>6. CASE b = 1
  <2>1. 2 * (x - y) = 0
    BY <1>1, <1>4, <1>6 DEF AddsUp
  <2>2. z = w
    <3>1. 1 * t = t
      BY <1>2
    <3>. QED
      BY <1>3, <1>4, <1>6, <3>1
  <2>3. 2 * ((x + z) - (y + w)) = 0
    BY <1>4, <2>1, <2>2
  <2>. QED
    BY <1>1, <1>2, <1>5, <1>6, <2>3 DEF AddsUp
<1>7. CASE b # 1
  <2>1. - u <= 2 * (x - y) /\ 2 * (x - y) <= u
    BY <1>1, <1>4, <1>7 DEF AddsUp
  <2>2. - b <= 2 * (z - w) /\ 2 * (z - w) <= b
    BY <1>3, <1>4
  <2>3. /\ - (u + b) <= 2 * ((x + z) - (y + w))
        /\ 2 * ((x + z) - (y + w)) <= u + b
    BY <1>1, <1>4, <2>1, <2>2
  <2>. QED
    BY <1>1, <1>2, <1>5, <1>7, <2>3 DEF AddsUp
<1>. QED
  BY <1>6, <1>7

LotCount(o, n) == Cardinality(LotsOfLine(o, n))

LEMMA LotsOfLineFinite ==
  ASSUME NEW o, NEW n
  PROVE  /\ IsFiniteSet(LotsOfLine(o, n)) /\ IsFiniteSet(LotsOfLine(o, n)')
         /\ LotCount(o, n) \in Nat
<1>1. IsFiniteSet(Lots)
  BY NumLocsNat, FS_Interval DEF Lots
<1>2. LotsOfLine(o, n) \subseteq Lots /\ LotsOfLine(o, n)' \subseteq Lots
  BY DEF LotsOfLine
<1>. QED
  BY <1>1, <1>2, FS_Subset, FS_CardinalityType DEF LotCount

\* LineMatchesLots of a line of an item, on the column of its lots.
LEMMA MatchesColumn ==
  ASSUME NEW o, NEW n
  PROVE  LineMatchesLots(o, n) <=>
           (orders[o].lines[n].subject \in Items =>
              /\ \A l \in LotsOfLine(o, n) : lots[l].item = orders[o].lines[n].subject
              /\ AddsUp(orders[o].lines[n].subject, Sum(LineColumn(o, n), NumLots),
                        orders[o].lines[n].received, LotCount(o, n)))
BY DEF LineMatchesLots, LineColumn, LotCount

\* What is left to show of a step when no lot changes what it is.
LEMMA SameLotsMatch ==
  ASSUME ReceiptsInv, \A l \in Lots : SameLot(l), NEW o \in Orders,
         NEW n \in DOMAIN orders[o].lines, n \in DOMAIN orders'[o].lines,
         orders'[o].lines[n].subject = orders[o].lines[n].subject,
         orders'[o].lines[n].received = orders[o].lines[n].received
  PROVE  LineMatchesLots(o, n)'
<1>1. LineMatchesLots(o, n)
  BY DEF ReceiptsInv, ReceiptsMatchStock
<1>2. \A l \in Lots : /\ l \in LotsOfLine(o, n)' <=> l \in LotsOfLine(o, n)
                      /\ lots'[l].qty = lots[l].qty /\ lots'[l].item = lots[l].item
  BY DEF SameLot, LotsOfLine
<1>3. LineColumn(o, n)' = LineColumn(o, n) /\ LotCount(o, n)' = LotCount(o, n)
  <2>1. LotsOfLine(o, n)' = LotsOfLine(o, n)
    BY <1>2 DEF LotsOfLine
  <2>. QED
    BY <1>2, <2>1 DEF LineColumn, LotCount
<1>4. orders[o].lines[n].subject \in Items =>
        AddsUp(orders[o].lines[n].subject, Sum(LineColumn(o, n), NumLots),
               orders[o].lines[n].received, LotCount(o, n))
  BY <1>1, MatchesColumn
<1>5. orders'[o].lines[n].subject \in Items =>
        AddsUp(orders'[o].lines[n].subject, Sum(LineColumn(o, n), NumLots)',
               orders'[o].lines[n].received, LotCount(o, n)')
  BY <1>3, <1>4
<1>6. orders'[o].lines[n].subject \in Items =>
        \A l \in LotsOfLine(o, n)' : lots'[l].item = orders'[o].lines[n].subject
  <2>1. \A l \in LotsOfLine(o, n)' : l \in Lots
    BY DEF LotsOfLine
  <2>. QED
    BY <1>1, <1>2, <2>1 DEF LineMatchesLots
<1>. QED
  BY <1>5, <1>6 DEF LineMatchesLots, LineColumn, LotCount

\* No lot is of an order whose lines have received nothing.
LEMMA UntouchedNoLots ==
  ASSUME ReceiptsInv, NEW o \in Orders, Untouched(orders[o].lines)
  PROVE  \A l \in Lots : lots[l].qc # "NONE" => lots[l].source[1] # o
<1>. SUFFICES ASSUME NEW l \in Lots, lots[l].qc # "NONE", lots[l].source[1] = o
              PROVE  FALSE
  OBVIOUS
<1>. DEFINE n == lots[l].source[2]
<1>1. n \in DOMAIN orders[o].lines
  BY DEF ReceiptsInv, ReceiptsMatchStock
<1>2. LotBearing(orders[o].lines[n])
  BY DEF ReceiptsInv
<1>. QED
  BY <1>1, <1>2 DEF Untouched, LotBearing

\* A step that changes no order and no lot's identity keeps the invariant.
LEMMA SameLotsKeep ==
  ASSUME ReceiptsInv, PurchasingInv', TraceInv', \A l \in Lots : SameLot(l),
         UNCHANGED <<orders, containerQty>>
  PROVE  ReceiptsInv'
<1>1. ASSUME NEW o \in Orders, NEW n \in DOMAIN orders'[o].lines
      PROVE  LineMatchesLots(o, n)'
  BY SameLotsMatch
<1>2. \A o \in Orders, l \in Lots : lots'[l].qc # "NONE" /\ lots'[l].source[1] = o
        => /\ lots'[l].source[2] \in DOMAIN orders'[o].lines
           /\ LotBearing(orders'[o].lines[lots'[l].source[2]])
  BY DEF SameLot, ReceiptsInv, ReceiptsMatchStock
<1>3. \A c \in Containers : containerQty'[c] = ReceivedOf(c)'
  BY DEF ReceiptsInv, ReceiptsMatchStock, ReceivedOf, ReceivedOnOrder
<1>4. ReceiptsMatchStock'
  BY <1>1, <1>2, <1>3 DEF ReceiptsMatchStock
<1>. QED
  BY <1>2, <1>4 DEF ReceiptsInv, LotBearing

\* So does replacing the lines of an order that has received nothing.
LEMMA LinesMadeAnew ==
  ASSUME ReceiptsInv, PurchasingInv', TraceInv', UNCHANGED <<lots, containerQty>>,
         NEW o \in Orders, NEW row \in OrderRows, orders' = [orders EXCEPT ![o] = row],
         Untouched(orders[o].lines), Untouched(row.lines), row.status # "NONE"
  PROVE  ReceiptsInv'
<1>1. orders'[o] = row /\ \A p \in Orders \ {o} : orders'[p] = orders[p]
  BY DEF ReceiptsInv, PurchasingInv
<1>2. \A l \in Lots : lots[l].qc # "NONE" => lots[l].source[1] # o
  BY UntouchedNoLots
<1>3. \A l \in Lots : SameLot(l)
  BY DEF SameLot
<1>4. ASSUME NEW p \in Orders \ {o}, NEW n \in DOMAIN orders'[p].lines
      PROVE  LineMatchesLots(p, n)'
  BY <1>1, <1>3, SameLotsMatch
<1>5. ASSUME NEW n \in DOMAIN orders'[o].lines
      PROVE  LineMatchesLots(o, n)'
  <2>1. \A l \in Lots : l \notin LotsOfLine(o, n)'
    BY <1>2 DEF LotsOfLine
  <2>2. LotsOfLine(o, n)' = {} /\ LotCount(o, n)' = 0
    <3>1. LotsOfLine(o, n)' = {}
      BY <2>1 DEF LotsOfLine
    <3>. QED
      BY <3>1, FS_EmptySet DEF LotCount
  <2>3. Sum(LineColumn(o, n), NumLots)' = 0
    <3>1. PICK f : f = LineColumn(o, n)'
      OBVIOUS
    <3>2. NumLots \in Nat /\ NumLots \in 0..NumLots
      BY NumLocsNat
    <3>3. \A l \in 1..NumLots : f[l] = 0
      BY <2>1, <3>1 DEF LineColumn, Lots
    <3>4. Sum(f, NumLots) = 0
      BY <3>2, <3>3, SumZero
    <3>. QED
      BY <3>1, <3>4
  <2>4. orders'[o].lines[n].received = 0
    BY <1>1 DEF Untouched
  <2>5. orders'[o].lines[n].subject \in Items =>
          AddsUp(orders'[o].lines[n].subject, Sum(LineColumn(o, n), NumLots)',
                 orders'[o].lines[n].received, LotCount(o, n)')
    BY <2>2, <2>3, <2>4, NothingAddsUp
  <2>. QED
    BY <2>2, <2>5 DEF LineMatchesLots, LineColumn, LotCount
<1>6. ASSUME NEW c \in Containers
      PROVE  containerQty'[c] = ReceivedOf(c)'
  <2>1. row.lines \in Seq(OrderLines) /\ orders[o].lines \in Seq(OrderLines)
    BY DEF OrderRows, ReceiptsInv, PurchasingInv
  <2>2. LinesReceived(row.lines, c) = 0 /\ LinesReceived(orders[o].lines, c) = 0
    BY <2>1, NothingReceived
  <2>3. ASSUME NEW p \in Orders
        PROVE  /\ ReceivedOnOrder(p, c) \in Int
               /\ ReceivedOnOrder(p, c)' = ReceivedOnOrder(p, c) + (IF p = o THEN 0 ELSE 0)
    <3>1. /\ ReceivedOnOrder(p, c) = LinesReceived(orders[p].lines, c)
          /\ ReceivedOnOrder(p, c)' = LinesReceived(orders'[p].lines, c)
          /\ ReceivedOnOrder(p, c) \in Int
      BY OnOrder DEF ReceiptsInv
    <3>2. LinesReceived(orders'[p].lines, c) = LinesReceived(orders[p].lines, c)
      BY <1>1, <2>2
    <3>. QED
      BY <3>1, <3>2
  <2>4. ReceivedOf(c)' = ReceivedOf(c) + 0
    <3>1. PICK d \in Int : d = 0
      OBVIOUS
    <3>2. \A p \in Orders :
            /\ ReceivedOnOrder(p, c) \in Int
            /\ ReceivedOnOrder(p, c)' = ReceivedOnOrder(p, c) + (IF p = o THEN d ELSE 0)
      BY <2>3, <3>1
    <3>3. ReceivedOf(c)' = ReceivedOf(c) + d
      BY <3>2, TotalMoves
    <3>. QED
      BY <3>1, <3>3
  <2>5. containerQty[c] = ReceivedOf(c) /\ containerQty[c] \in Nat
    BY DEF ReceiptsInv, ReceiptsMatchStock, PurchasingInv
  <2>. QED
    BY <2>4, <2>5
<1>7. \A p \in Orders, l \in Lots : lots'[l].qc # "NONE" /\ lots'[l].source[1] = p
        => /\ lots'[l].source[2] \in DOMAIN orders'[p].lines
           /\ LotBearing(orders'[p].lines[lots'[l].source[2]])
  BY <1>1, <1>2 DEF ReceiptsInv, ReceiptsMatchStock
<1>8. ReceiptsMatchStock'
  BY <1>4, <1>5, <1>6, <1>7 DEF ReceiptsMatchStock
<1>9. \A p \in Orders : orders'[p].status = "NONE" => orders'[p].lines = <<>>
  BY <1>1 DEF ReceiptsInv
<1>. QED
  BY <1>7, <1>8, <1>9 DEF ReceiptsInv

-----------------------------------------------------------------------------
\* A receipt adds to a line, as a lot, what it adds to the line's received quantity.
LEMMA ReceivedLineMatches ==
  ASSUME LinesNamedOnce, ReceiptsInv, NEW o \in Orders, NEW req \in Receipts,
         NEW requested \in Wheres, Receive(o, req, requested),
         NEW n \in DOMAIN orders'[o].lines
  PROVE  LineMatchesLots(o, n)'
<1>. DEFINE lines == orders[o].lines
            S == ItemEntries(lines, req)
            old == LineColumn(o, n)
<1>1. /\ lines \in Seq(OrderLines) /\ \A k \in DOMAIN req : req[k].line \in DOMAIN lines
      /\ Cardinality(S) <= Cardinality(FreeLots) /\ LotsInOrder
      /\ PurchasingInv /\ TraceInv
  BY DEF ReceiptsInv, PurchasingInv, OrderRows, Receive, ReceiptFits, TraceInv
<1>2. orders'[o].lines = Received(lines, req)
  BY DEF Receive, ReceiptFits, ReceiptsInv, PurchasingInv
<1>3. n \in DOMAIN lines /\ orders'[o].lines[n].subject = lines[n].subject
  BY <1>1, <1>2, ReceivedOnce
<1>4. lines[n] \in OrderLines
  BY <1>1, <1>3
<1>5. lines[n].received \in Nat
  BY <1>4 DEF OrderLines
<1>6. ASSUME NEW l \in Lots, NewRow(lines, req, l)
      PROVE  \E k \in S : /\ LotOf(lines, req, k) = l
                          /\ lots[l].qc = "NONE" /\ lots'[l].qc = "PENDING"
                          /\ lots'[l].item = lines[req[k].line].subject
                          /\ lots'[l].source = <<o, req[k].line>>
                          /\ lots'[l].qty = ToPounds(lots'[l].item, req[k].qty)
  BY <1>1, <1>6, ReceivedLot
<1>7. ASSUME NEW l \in Lots, ~NewRow(lines, req, l)
      PROVE  lots'[l] = lots[l]
  BY <1>1, <1>7, ReceivedLot
<1>8. LineMatchesLots(o, n)
  BY <1>3 DEF ReceiptsInv, ReceiptsMatchStock
<1>. SUFFICES ASSUME lines[n].subject \in Items
              PROVE  /\ \A l \in LotsOfLine(o, n)' : lots'[l].item = lines[n].subject
                     /\ AddsUp(lines[n].subject, Sum(LineColumn(o, n)', NumLots),
                               orders'[o].lines[n].received, LotCount(o, n)')
  BY <1>3 DEF LineMatchesLots, LineColumn, LotCount
<1>9. \A k \in S : k \in DOMAIN req
  BY DEF ItemEntries
<1>10. AddsUp(lines[n].subject, Sum(old, NumLots), lines[n].received, LotCount(o, n))
  BY <1>8, MatchesColumn
<1>11. \A l \in LotsOfLine(o, n)' : lots'[l].item = lines[n].subject
  <2>1. ASSUME NEW l \in Lots, lots'[l].qc # "NONE", lots'[l].source = <<o, n>>
        PROVE  lots'[l].item = lines[n].subject
    <3>1. CASE NewRow(lines, req, l)
      BY <1>6, <2>1, <3>1
    <3>2. CASE ~NewRow(lines, req, l)
      BY <1>7, <1>8, <2>1, <3>2 DEF LineMatchesLots, LotsOfLine
    <3>. QED
      BY <3>1, <3>2
  <2>. QED
    BY <2>1 DEF LotsOfLine
<1>12. ASSUME NEW l \in 1..NumLots
       PROVE  old[l] \in Int
  <2>1. LotOK(lots[l]) /\ l \in Lots
    BY <1>1 DEF PurchasingInv, PlantInv, LotsOK, Lots
  <2>. QED
    BY <2>1, LotFields DEF LineColumn
<1>13. NumLots \in Nat
  BY NumLocsNat
<1>14. CASE \A k \in S : req[k].line # n
  <2>1. \A k \in DOMAIN req : req[k].line # n
    BY <1>14 DEF ItemEntries
  <2>2. orders'[o].lines[n].received = lines[n].received
    BY <1>1, <1>2, <1>3, <2>1, ReceivedOnce
  <2>3. ASSUME NEW l \in Lots
        PROVE  LineColumn(o, n)'[l] = old[l]
    <3>. HIDE DEF lines, S
    <3>1. CASE NewRow(lines, req, l)
      <4>1. PICK k \in S : /\ lots[l].qc = "NONE"
                           /\ lots'[l].source = <<o, req[k].line>>
        BY <1>6, <3>1
      <4>2. req[k].line # n
        BY <1>14
      <4>. QED
        BY <4>1, <4>2 DEF LineColumn, LotsOfLine
    <3>2. CASE ~NewRow(lines, req, l)
      BY <1>7, <3>2 DEF LineColumn, LotsOfLine
    <3>. QED
      BY <3>1, <3>2
  <2>4. LineColumn(o, n)' = old
    BY <2>3 DEF LineColumn
  <2>5. LotsOfLine(o, n)' = LotsOfLine(o, n)
    <3>. SUFFICES ASSUME NEW l \in Lots
                  PROVE  l \in LotsOfLine(o, n)' <=> l \in LotsOfLine(o, n)
      BY DEF LotsOfLine
    <3>. HIDE DEF lines, S
    <3>1. CASE NewRow(lines, req, l)
      <4>1. PICK k \in S : /\ lots[l].qc = "NONE"
                           /\ lots'[l].source = <<o, req[k].line>>
        BY <1>6, <3>1
      <4>2. req[k].line # n
        BY <1>14
      <4>. QED
        BY <4>1, <4>2 DEF LotsOfLine
    <3>2. CASE ~NewRow(lines, req, l)
      BY <1>7, <3>2 DEF LotsOfLine
    <3>. QED
      BY <3>1, <3>2
  <2>6. LotCount(o, n)' = LotCount(o, n)
    BY <2>5 DEF LotCount
  <2>. HIDE DEF old, lines
  <2>. QED
    BY <1>10, <1>11, <2>2, <2>4, <2>6
<1>15. CASE \E k \in S : req[k].line = n
  <2>1. PICK k \in S : req[k].line = n
    BY <1>15
  <2>2. req[k].qty \in Nat /\ k \in DOMAIN req
    BY <1>9, ReceiptType
  <2>3. orders'[o].lines[n].received = lines[n].received + req[k].qty
    BY <1>1, <1>2, <2>1, <2>2, ReceivedOnce
  <2>4. PICK q : q = ToPounds(lines[n].subject, req[k].qty)
    OBVIOUS
  <2>5. q \in Nat
    BY <2>2, <2>4, ToPoundsWithin
  <2>6. PICK m : m = LotOf(lines, req, k)
    OBVIOUS
  <2>7. m \in Lots /\ m \in 1..NumLots /\ m \in Int
    <3>. HIDE DEF lines
    <3>. QED
      BY <1>1, <2>6, EntryLot DEF Lots
  <2>8. FreeLots # {}
    <3>1. NewRow(lines, req, m)
      BY <2>6 DEF NewRow
    <3>. HIDE DEF lines
    <3>. QED
      BY <1>1, <2>7, <3>1, RoomForLot
  <2>9. ASSUME NEW l \in Lots
        PROVE  LineColumn(o, n)'[l] = old[l] + At(m, q, NumLots)[l]
    <3>1. At(m, q, NumLots)[l] = IF l = m THEN q ELSE 0
      BY DEF At, Lots
    <3>2. old[l] \in Int
      BY <1>12 DEF Lots
    <3>3. CASE NewRow(lines, req, l)
      <4>1. PICK e \in S : /\ LotOf(lines, req, e) = l
                           /\ lots[l].qc = "NONE" /\ lots'[l].qc = "PENDING"
                           /\ lots'[l].item = lines[req[e].line].subject
                           /\ lots'[l].source = <<o, req[e].line>>
                           /\ lots'[l].qty = ToPounds(lots'[l].item, req[e].qty)
        BY <1>6, <3>3
      <4>2. old[l] = 0
        BY <4>1 DEF LineColumn, LotsOfLine
      <4>3. CASE e = k
        <5>1. l = m /\ lots'[l].qty = q
          BY <2>1, <2>4, <2>6, <4>1, <4>3
        <5>2. LineColumn(o, n)'[l] = q
          BY <2>1, <4>1, <4>3, <5>1 DEF LineColumn, LotsOfLine
        <5>. QED
          BY <2>5, <3>1, <4>2, <5>1, <5>2
      <4>4. CASE e # k
        <5>1. req[e].line # n
          BY <1>9, <2>1, <2>2, <4>4 DEF LinesNamedOnce
        <5>2. l # m
          BY <2>6, <2>8, <4>1, <4>4, EntryLotsApart
        <5>3. LineColumn(o, n)'[l] = 0
          BY <4>1, <5>1 DEF LineColumn, LotsOfLine
        <5>. QED
          BY <3>1, <4>2, <5>2, <5>3
      <4>. QED
        BY <4>3, <4>4
    <3>4. CASE ~NewRow(lines, req, l)
      <4>1. l # m
        BY <2>6, <3>4 DEF NewRow
      <4>2. LineColumn(o, n)'[l] = old[l]
        BY <1>7, <3>4 DEF LineColumn, LotsOfLine
      <4>. QED
        BY <3>1, <3>2, <4>1, <4>2
    <3>. QED
      BY <3>3, <3>4
  <2>10. Sum(At(m, q, NumLots), NumLots) = q
    <3>1. q \in Int
      BY <2>5
    <3>. QED
      BY <1>13, <2>7, <3>1, SumAt
  <2>11. PICK a, h : a = At(m, q, NumLots) /\ h = LineColumn(o, n)'
    OBVIOUS
  <2>12. \A l \in 1..NumLots : a[l] \in Int /\ old[l] \in Int /\ h[l] = old[l] + a[l]
    <3>1. \A l \in 1..NumLots : a[l] \in Int
      BY <2>5, <2>11 DEF At
    <3>. HIDE DEF old
    <3>. QED
      BY <1>12, <2>9, <2>11, <3>1 DEF Lots
  <2>. HIDE DEF old
  <2>13. Sum(h, NumLots) = Sum(old, NumLots) + Sum(a, NumLots)
    BY <1>13, <2>12, SumAdd
  <2>14. LotsOfLine(o, n)' = LotsOfLine(o, n) \cup {m} /\ m \notin LotsOfLine(o, n)
    <3>1. ASSUME NEW l \in Lots
          PROVE  /\ l \in LotsOfLine(o, n)' <=> (l \in LotsOfLine(o, n) \/ l = m)
                 /\ l = m => l \notin LotsOfLine(o, n)
      <4>1. CASE NewRow(lines, req, l)
        <5>1. PICK e \in S : /\ LotOf(lines, req, e) = l
                             /\ lots[l].qc = "NONE" /\ lots'[l].qc = "PENDING"
                             /\ lots'[l].source = <<o, req[e].line>>
          BY <1>6, <4>1
        <5>2. CASE e = k
          <6>1. l = m /\ l \in LotsOfLine(o, n)'
            BY <2>1, <2>6, <5>1, <5>2 DEF LotsOfLine
          <6>. QED
            BY <5>1, <6>1 DEF LotsOfLine
        <5>3. CASE e # k
          <6>1. req[e].line # n /\ l # m
            BY <1>9, <2>1, <2>2, <2>6, <2>8, <5>1, <5>3, EntryLotsApart DEF LinesNamedOnce
          <6>. QED
            BY <5>1, <6>1 DEF LotsOfLine
        <5>. QED
          BY <5>2, <5>3
      <4>2. CASE ~NewRow(lines, req, l)
        <5>1. l # m
          BY <2>6, <4>2 DEF NewRow
        <5>. QED
          BY <1>7, <4>2, <5>1 DEF LotsOfLine
      <4>. QED
        BY <4>1, <4>2
    <3>2. LotsOfLine(o, n) \subseteq Lots /\ LotsOfLine(o, n)' \subseteq Lots
      BY DEF LotsOfLine
    <3>. QED
      BY <2>7, <3>1, <3>2
  <2>15. LotCount(o, n)' = LotCount(o, n) + 1
    BY <2>14, LotsOfLineFinite, FS_AddElement DEF LotCount
  <2>16. PICK P \in Int : P = Sum(old, NumLots)
    <3>. HIDE DEF old
    <3>1. NumLots \in 0..NumLots
      BY <1>13
    <3>. QED
      BY <1>12, <1>13, <3>1, SumInt DEF Lots
  <2>17. Sum(h, NumLots) = P + q
    BY <2>10, <2>11, <2>13, <2>16
  <2>18. AddsUp(lines[n].subject, P + q, lines[n].received + req[k].qty, LotCount(o, n) + 1)
    <3>. HIDE DEF lines, old
    <3>1. LotCount(o, n) \in Nat
      BY LotsOfLineFinite
    <3>. QED
      BY <1>5, <1>10, <2>2, <2>4, <2>16, <3>1, OneMoreAddsUp
  <2>. HIDE DEF lines
  <2>. QED
    BY <1>11, <2>3, <2>11, <2>15, <2>17, <2>18
<1>. QED
  BY <1>14, <1>15

\* A receipt leaves the lines of the other orders and their lots alone.
LEMMA OtherLineMatches ==
  ASSUME ReceiptsInv, NEW o \in Orders, NEW req \in Receipts, NEW requested \in Wheres,
         Receive(o, req, requested), NEW p \in Orders \ {o}, NEW n \in DOMAIN orders'[p].lines
  PROVE  LineMatchesLots(p, n)'
<1>1. orders'[p] = orders[p]
  BY DEF Receive, ReceiptFits, ReceiptsInv, PurchasingInv
<1>2. LineMatchesLots(p, n)
  BY <1>1 DEF ReceiptsInv, ReceiptsMatchStock
<1>3. ASSUME NEW l \in Lots
      PROVE  /\ l \in LotsOfLine(p, n)' <=> l \in LotsOfLine(p, n)
             /\ l \in LotsOfLine(p, n) => lots'[l] = lots[l]
  <2>1. CASE NewRow(orders[o].lines, req, l)
    <3>1. /\ lots[l].qc = "NONE"
          /\ \E k \in ItemEntries(orders[o].lines, req) : lots'[l].source = <<o, req[k].line>>
      BY <2>1, ReceivedLot DEF ReceiptsInv
    <3>. QED
      BY <3>1 DEF LotsOfLine
  <2>2. CASE ~NewRow(orders[o].lines, req, l)
    <3>1. lots'[l] = lots[l]
      BY <2>2, ReceivedLot DEF ReceiptsInv
    <3>. QED
      BY <3>1 DEF LotsOfLine
  <2>. QED
    BY <2>1, <2>2
<1>4. LineColumn(p, n)' = LineColumn(p, n) /\ LotCount(p, n)' = LotCount(p, n)
  <2>1. LotsOfLine(p, n)' = LotsOfLine(p, n)
    BY <1>3 DEF LotsOfLine
  <2>. QED
    BY <1>3, <2>1 DEF LineColumn, LotCount
<1>5. orders'[p].lines[n].subject \in Items =>
        AddsUp(orders'[p].lines[n].subject, Sum(LineColumn(p, n), NumLots)',
               orders'[p].lines[n].received, LotCount(p, n)')
  BY <1>1, <1>2, <1>4, MatchesColumn
<1>6. \A l \in LotsOfLine(p, n)' : l \in Lots
  BY DEF LotsOfLine
<1>. QED
  BY <1>1, <1>2, <1>3, <1>5, <1>6 DEF LineMatchesLots, LineColumn, LotCount

\* A line that is received has received something, and still has after the next receipt.
LEMMA EntryReceived ==
  ASSUME LinesNamedOnce, NEW lines \in Seq(OrderLines), NEW req \in Receipts,
         \A j \in DOMAIN req : req[j].line \in DOMAIN lines, NEW k \in DOMAIN req
  PROVE  Received(lines, req)[req[k].line].received > 0
<1>1. req \in Seq([line : Nat \ {0}, qty : Nat \ {0}]) /\ k \in 1..Len(req)
  BY ReceiptType, PurchasingAssumption
<1>2. req[k] \in [line : Nat \ {0}, qty : Nat \ {0}]
  BY <1>1, Element
<1>3. lines[req[k].line] \in OrderLines
  OBVIOUS
<1>4. lines[req[k].line].received \in Nat /\ req[k].qty \in Nat \ {0}
  BY <1>2, <1>3 DEF OrderLines
<1>. QED
  BY <1>4, ReceivedOnce

LEMMA StillReceived ==
  ASSUME LinesNamedOnce, NEW lines \in Seq(OrderLines), NEW req \in Receipts,
         \A j \in DOMAIN req : req[j].line \in DOMAIN lines
  PROVE  \A n \in DOMAIN lines :
           lines[n].received > 0 => Received(lines, req)[n].received > 0
<1>. SUFFICES ASSUME NEW n \in DOMAIN lines, lines[n].received > 0
              PROVE  Received(lines, req)[n].received > 0
  OBVIOUS
<1>1. CASE \E k \in DOMAIN req : req[k].line = n
  BY <1>1, EntryReceived
<1>2. CASE \A k \in DOMAIN req : req[k].line # n
  BY <1>2, ReceivedOnce
<1>. QED
  BY <1>1, <1>2

\* A receipt keeps the invariant, when it names no line twice.
LEMMA ReceiveMatches ==
  ASSUME LinesNamedOnce, ReceiptsInv, PurchasingInv', TraceInv', NEW o \in Orders,
         NEW req \in Receipts, NEW requested \in Wheres, Receive(o, req, requested)
  PROVE  ReceiptsInv'
<1>. DEFINE lines == orders[o].lines
<1>1. /\ lines \in Seq(OrderLines) /\ \A k \in DOMAIN req : req[k].line \in DOMAIN lines
      /\ PurchasingInv /\ TraceInv
  BY DEF ReceiptsInv, PurchasingInv, OrderRows, Receive, ReceiptFits
<1>2. /\ orders'[o] = [status |-> StatusFromLines(Received(lines, req)),
                       lines  |-> Received(lines, req)]
      /\ \A p \in Orders \ {o} : orders'[p] = orders[p]
      /\ containerQty' = [c \in Containers |->
           containerQty[c] + EntryQty(req, Entries(lines, req, c))]
  BY DEF Receive, ReceiptFits, ReceiptsInv, PurchasingInv
<1>3. ASSUME NEW p \in Orders, NEW n \in DOMAIN orders'[p].lines
      PROVE  LineMatchesLots(p, n)'
  <2>1. CASE p = o
    BY <2>1, ReceivedLineMatches
  <2>2. CASE p # o
    BY <2>2, OtherLineMatches
  <2>. QED
    BY <2>1, <2>2
<1>4. DOMAIN Received(lines, req) = DOMAIN lines
      /\ \A n \in DOMAIN lines : Received(lines, req)[n].subject = lines[n].subject
  BY <1>1, ReceivedOnce
<1>5. ASSUME NEW l \in Lots, lots'[l].qc # "NONE", NEW p \in Orders, lots'[l].source[1] = p
      PROVE  /\ lots'[l].source[2] \in DOMAIN orders'[p].lines
             /\ LotBearing(orders'[p].lines[lots'[l].source[2]])
  <2>1. CASE NewRow(lines, req, l)
    <3>1. PICK k \in ItemEntries(lines, req) :
            /\ lots'[l].item = lines[req[k].line].subject /\ lots'[l].item \in Items
            /\ lots'[l].source = <<o, req[k].line>>
      BY <1>1, <2>1, ReceivedLot
    <3>2. k \in DOMAIN req /\ req[k].line \in DOMAIN lines
      BY <1>1 DEF ItemEntries
    <3>3. Received(lines, req)[req[k].line].received > 0
      BY <1>1, <3>2, EntryReceived
    <3>4. p = o /\ orders'[p].lines = Received(lines, req)
      BY <1>2, <1>5, <3>1
    <3>. HIDE DEF lines
    <3>. QED
      BY <1>4, <3>1, <3>2, <3>3, <3>4 DEF LotBearing
  <2>2. CASE ~NewRow(lines, req, l)
    <3>1. lots'[l] = lots[l]
      BY <1>1, <2>2, ReceivedLot
    <3>2. /\ lots[l].source[2] \in DOMAIN orders[p].lines
          /\ LotBearing(orders[p].lines[lots[l].source[2]])
      BY <1>5, <3>1 DEF ReceiptsInv, ReceiptsMatchStock
    <3>3. /\ DOMAIN orders'[p].lines = DOMAIN orders[p].lines
          /\ \A n \in DOMAIN orders[p].lines :
               /\ orders'[p].lines[n].subject = orders[p].lines[n].subject
               /\ orders[p].lines[n].received > 0 => orders'[p].lines[n].received > 0
      BY <1>1, <1>2, <1>4, StillReceived
    <3>. QED
      BY <3>1, <3>2, <3>3 DEF LotBearing
  <2>. QED
    BY <2>1, <2>2
<1>6. ASSUME NEW c \in Containers
      PROVE  containerQty'[c] = ReceivedOf(c)'
  <2>1. PICK d \in Int : d = EntryQty(req, Entries(lines, req, c))
    BY EntryQtyType
  <2>2. LinesReceived(Received(lines, req), c) = LinesReceived(lines, c) + d
    BY <1>1, <2>1, LinesReceivedGrows
  <2>3. ASSUME NEW p \in Orders
        PROVE  /\ ReceivedOnOrder(p, c) \in Int
               /\ ReceivedOnOrder(p, c)' = ReceivedOnOrder(p, c) + (IF p = o THEN d ELSE 0)
    <3>1. /\ ReceivedOnOrder(p, c) = LinesReceived(orders[p].lines, c)
          /\ ReceivedOnOrder(p, c)' = LinesReceived(orders'[p].lines, c)
          /\ ReceivedOnOrder(p, c) \in Int
      BY <1>1, OnOrder
    <3>2. CASE p = o
      BY <1>2, <2>2, <3>1, <3>2
    <3>3. CASE p # o
      BY <1>2, <3>1, <3>3
    <3>. QED
      BY <3>2, <3>3
  <2>4. ReceivedOf(c)' = ReceivedOf(c) + d
    BY <2>3, TotalMoves
  <2>5. containerQty[c] = ReceivedOf(c)
    BY DEF ReceiptsInv, ReceiptsMatchStock
  <2>. QED
    BY <1>2, <2>1, <2>4, <2>5
<1>7. ReceiptsMatchStock'
  BY <1>3, <1>5, <1>6 DEF ReceiptsMatchStock
<1>8. \A p \in Orders : orders'[p].status = "NONE" => orders'[p].lines = <<>>
  <2>1. StatusFromLines(Received(lines, req)) # "NONE"
    BY DEF StatusFromLines
  <2>. QED
    BY <1>2, <2>1 DEF ReceiptsInv
<1>. QED
  BY <1>5, <1>7, <1>8 DEF ReceiptsInv

\* Every step keeps the invariant.
LEMMA ReceiptsStepOK ==
  ASSUME LinesNamedOnce, ReceiptsInv, [PurchasingNext]_purchasingVars
  PROVE  ReceiptsInv'
<1>1. PurchasingInv' /\ TraceInv'
  BY PurchasingStepOK, PurchasingNextTraced DEF ReceiptsInv
<1>2. CASE UNCHANGED purchasingVars
  <2>1. \A l \in Lots : SameLot(l)
    BY <1>2 DEF SameLot, purchasingVars
  <2>. QED
    BY <1>1, <1>2, <2>1, SameLotsKeep DEF purchasingVars
<1>3. CASE PlantStep /\ UNCHANGED <<orders, containerQty>>
  <2>1. \A l \in Lots : SameLot(l)
    BY <1>3, PlantStepKeepsLots DEF ReceiptsInv, PurchasingInv
  <2>. QED
    BY <1>1, <1>3, <2>1, SameLotsKeep
<1>4. ASSUME NEW o \in Orders, NEW form \in OrderForms, CreateOrder(o, form)
      PROVE  ReceiptsInv'
  <2>1. PICK row : row = [status |-> "OPEN", lines |-> NewLines(form)]
    OBVIOUS
  <2>2. row \in OrderRows /\ Untouched(row.lines) /\ row.status # "NONE"
    BY <2>1, NewLinesType, NewLinesUntouched DEF OrderRows, OrderStatuses
  <2>3. Untouched(orders[o].lines)
    BY <1>4 DEF CreateOrder, ReceiptsInv, Untouched
  <2>. QED
    BY <1>1, <1>4, <2>1, <2>2, <2>3, LinesMadeAnew DEF CreateOrder
<1>5. ASSUME NEW o \in Orders, NEW form \in OrderForms, UpdateOrder(o, form)
      PROVE  ReceiptsInv'
  <2>1. PICK row : row = [orders[o] EXCEPT !.lines = NewLines(form)]
    OBVIOUS
  <2>2. orders[o] = [status |-> orders[o].status, lines |-> orders[o].lines]
        /\ orders[o].status = "OPEN"
    BY <1>5 DEF UpdateOrder, ReceiptsInv, PurchasingInv, OrderRows
  <2>3. row \in OrderRows /\ Untouched(row.lines) /\ row.status # "NONE"
    BY <2>1, <2>2, NewLinesType, NewLinesUntouched DEF OrderRows, OrderStatuses
  <2>4. orders' = [orders EXCEPT ![o] = row]
    BY <1>5, <2>1 DEF UpdateOrder, ReceiptsInv, PurchasingInv
  <2>. QED
    BY <1>1, <1>5, <2>3, <2>4, LinesMadeAnew DEF UpdateOrder
<1>6. ASSUME NEW o \in Orders, CancelOrder(o)
      PROVE  ReceiptsInv'
  <2>1. PICK row : row = [orders[o] EXCEPT !.status = "CANCELLED"]
    OBVIOUS
  <2>2. orders[o] \in OrderRows
    BY DEF ReceiptsInv, PurchasingInv
  <2>3. row \in OrderRows /\ row.lines = orders[o].lines /\ row.status = "CANCELLED"
    BY <2>1, <2>2 DEF OrderRows, OrderStatuses
  <2>4. orders' = [orders EXCEPT ![o] = row]
    BY <1>6, <2>1 DEF CancelOrder, Cancellable, ReceiptsInv, PurchasingInv
  <2>. QED
    BY <1>1, <1>6, <2>3, <2>4, LinesMadeAnew DEF CancelOrder, Cancellable
<1>. QED
  BY <1>1, <1>2, <1>3, <1>4, <1>5, <1>6, ReceiveMatches
     DEF PurchasingNext, PurchasingStep, Wheres

\* Before any operation there is nothing to match.
LEMMA ReceiptsInitOK ==
  ASSUME PurchasingInit
  PROVE  ReceiptsInv
<1>1. PurchasingInv /\ TraceInv
  BY PurchasingInitOK, TraceInitOK DEF PurchasingInit
<1>2. \A o \in Orders : orders[o].status = "NONE" /\ orders[o].lines = <<>>
  BY DEF PurchasingInit
<1>3. \A l \in Lots : lots[l].qc = "NONE"
  BY DEF PurchasingInit, QualityInit, NoLotRow
<1>4. ASSUME NEW c \in Containers
      PROVE  containerQty[c] = ReceivedOf(c)
  <2>. DEFINE f == [o \in Orders |-> ReceivedOnOrder(o, c)]
  <2>1. ASSUME NEW o \in Orders
        PROVE  ReceivedOnOrder(o, c) = 0
    <3>1. Untouched(orders[o].lines) /\ orders[o].lines \in Seq(OrderLines)
      <4>1. <<>> \in Seq(OrderLines) /\ DOMAIN <<>> = {}
        OBVIOUS
      <4>2. orders[o].lines = <<>>
        BY <1>2
      <4>3. DOMAIN orders[o].lines = {}
        BY <4>1, <4>2
      <4>. QED
        BY <4>1, <4>2, <4>3 DEF Untouched
    <3>2. LinesReceived(orders[o].lines, c) = 0
      BY <3>1, NothingReceived
    <3>3. ReceivedOnOrder(o, c) = LinesReceived(orders[o].lines, c)
      BY DEF ReceivedOnOrder, LinesReceived
    <3>. QED
      BY <3>2, <3>3
  <2>2. \A o \in 1..NumOrders : f[o] = 0
    BY <2>1 DEF Orders
  <2>3. NumOrders \in Nat /\ NumOrders \in 0..NumOrders
    BY PurchasingAssumption
  <2>. HIDE DEF f
  <2>4. Sum(f, NumOrders) = 0
    BY <2>2, <2>3, SumZero
  <2>. QED
    BY <2>4 DEF ReceivedOf, f, PurchasingInit
<1>5. ReceiptsMatchStock
  BY <1>2, <1>3, <1>4 DEF ReceiptsMatchStock
<1>. QED
  BY <1>1, <1>2, <1>3, <1>5 DEF ReceiptsInv

(***************************************************************************)
(* "So stock, the PO, and the audit move together" (ReceiptsMatchStock):   *)
(* for any number of orders, lines and receipts and any ratio of units,    *)
(* what an order says it received is what reached stock, as lots for an    *)
(* item, in pounds up to half a unit for each lot and exactly if it is     *)
(* handled in pounds, and in containers for a container.  The hypothesis   *)
(* is that no request names a line twice; the run duplicate_line shows     *)
(* that it is needed.                                                      *)
(***************************************************************************)
THEOREM StockMovesWithOrders ==
  ASSUME LinesNamedOnce
  PROVE  PurchasingSpec => []ReceiptsMatchStock
<1>1. PurchasingInit => ReceiptsInv
  BY ReceiptsInitOK
<1>2. ReceiptsInv /\ [PurchasingNext]_purchasingVars => ReceiptsInv'
  BY ReceiptsStepOK
<1>3. ReceiptsInv => ReceiptsMatchStock
  BY DEF ReceiptsInv
<1>. QED
  BY <1>1, <1>2, <1>3, PTL DEF PurchasingSpec
-----------------------------------------------------------------------------
(***************************************************************************)
(* The screens of receiving.  OrderOK relates the stored status of an      *)
(* order to its lines: the page goes by the status, what it lists as       *)
(* remaining goes by the lines.                                            *)
(***************************************************************************)
Full(line) == line.received >= line.ordered - Tolerance

OrderOK(row) ==
  /\ WithinOrdered(row.lines)
  /\ row.status \in {"OPEN", "PARTIAL"} => \E n \in DOMAIN row.lines : ~ Full(row.lines[n])
  /\ row.status = "RECEIVED" => \A n \in DOMAIN row.lines : Full(row.lines[n])

\* A lot that is RETURNED has gone back whole.
ReturnOK(r) == r.qc = "RETURNED" => r.returned >= r.qty

CompletionInv ==
  /\ PurchasingInv
  /\ \A o \in Orders : OrderOK(orders[o])
  /\ \A l \in Lots : ReturnOK(lots[l])

\* Some line of every order asks for more than the tolerance (0.001 in the code).
OrdersExceedTolerance == \A form \in OrderForms : \E n \in DOMAIN form : form[n].ordered > Tolerance

\* The lines of a row, and the values they hold.
LEMMA LineValues ==
  ASSUME NEW lines \in Seq(OrderLines), NEW n \in DOMAIN lines
  PROVE  /\ lines[n].ordered \in Nat /\ lines[n].received \in Nat
         /\ lines[n] = [subject |-> lines[n].subject, ordered |-> lines[n].ordered,
                        received |-> lines[n].received]
<1>1. lines[n] \in OrderLines
  OBVIOUS
<1>. QED
  BY <1>1 DEF OrderLines

\* New lines leave something to be received.
LEMMA NewOrderOK ==
  ASSUME OrdersExceedTolerance, NEW form \in OrderForms,
         NEW row, row.status = "OPEN", row.lines = NewLines(form)
  PROVE  OrderOK(row)
<1>0. form \in Seq([subject : Subjects, ordered : Nat])
  BY PurchasingAssumption
<1>1. form \in Seq([subject : Subjects, ordered : Nat]) /\ DOMAIN form = 1..Len(form)
  BY <1>0
<1>2. ASSUME NEW n \in 1..Len(form)
      PROVE  form[n].ordered \in Nat
  <2>1. form[n] \in [subject : Subjects, ordered : Nat]
    BY <1>1, Element
  <2>. QED
    BY <2>1
<1>3. /\ DOMAIN NewLines(form) = DOMAIN form
      /\ \A n \in DOMAIN form : /\ NewLines(form)[n].ordered = form[n].ordered
                                /\ NewLines(form)[n].received = 0
  BY DEF NewLines
<1>4. WithinOrdered(NewLines(form))
  BY <1>2, <1>3 DEF WithinOrdered
<1>5. PICK n \in DOMAIN form : form[n].ordered > Tolerance
  BY DEF OrdersExceedTolerance
<1>6. ~ Full(NewLines(form)[n])
  BY <1>2, <1>3, <1>5, PurchasingAssumption DEF Full
<1>. QED
  BY <1>3, <1>4, <1>6 DEF OrderOK

\* The status that a receipt stores says whether something is left.
LEMMA StatusTells ==
  ASSUME NEW lines, WithinOrdered(lines)
  PROVE  OrderOK([status |-> StatusFromLines(lines), lines |-> lines])
<1>1. CASE \A n \in DOMAIN lines : Full(lines[n])
  BY <1>1 DEF StatusFromLines, OrderOK, Full
<1>2. CASE \E n \in DOMAIN lines : ~ Full(lines[n])
  <2>1. StatusFromLines(lines) # "RECEIVED"
    BY <1>2 DEF StatusFromLines, Full
  <2>. QED
    BY <1>2, <2>1 DEF OrderOK
<1>. QED
  BY <1>1, <1>2

\* A review, a return or a pack-off marks a lot RETURNED only when all of it went back.
LEMMA ReturnsStayWhole ==
  ASSUME PlantInv, PlantStep, NEW l \in Lots, ReturnOK(lots[l])
  PROVE  ReturnOK(lots'[l])
<1>1. lots = [k \in Lots |-> lots[k]] /\ LotOK(lots[l])
  BY DEF PlantInv, LotsOK
<1>2. ASSUME NEW k \in Lots, NEW results, RecordResults(k, results)
      PROVE  ReturnOK(lots'[l])
  BY <1>1, <1>2, LotFields DEF RecordResults, ReturnOK
<1>3. ASSUME NEW k \in Lots, Approve(k) \/ Reject(k)
      PROVE  ReturnOK(lots'[l])
  BY <1>1, <1>3, LotFields DEF Approve, Reject, ReturnOK
<1>4. ASSUME NEW k \in Lots, NEW q \in Quantity, ReturnToVendor(k, q)
      PROVE  ReturnOK(lots'[l])
  <2>1. CASE k # l
    BY <1>1, <1>4, <2>1 DEF ReturnToVendor
  <2>2. CASE k = l
    <3>1. lots'[l] = LotReturned(l, q) /\ lots[l].qc = "REJECTED"
      BY <1>1, <1>4, <2>2 DEF ReturnToVendor, ReturnFits
    <3>. QED
      BY <1>1, <3>1, LotFields DEF LotReturned, ReturnOK
  <2>. QED
    BY <2>1, <2>2
<1>5. ASSUME NEW i \in Items, NEW q \in Quantity, PackOff(i, q)
      PROVE  ReturnOK(lots'[l])
  <2>. DEFINE slices == Take(Packable(i), NumLots, q)
  <2>1. lots' = [k \in Lots |-> [lots[k] EXCEPT !.packed = @ + slices[k]]]
    BY <1>5 DEF PackOff
  <2>. HIDE DEF slices
  <2>. QED
    BY <1>1, <2>1, LotFields DEF ReturnOK
<1>6. CASE lots' = lots
  BY <1>6
<1>. QED
  BY <1>2, <1>3, <1>4, <1>5, <1>6 DEF PlantStep, QualityStep

\* A lot that a receipt opens was not returned.
LEMMA ReceivedNotReturned ==
  ASSUME NEW o \in Orders, NEW req, NEW requested, Receive(o, req, requested),
         NEW l \in Lots, ReturnOK(lots[l])
  PROVE  ReturnOK(lots'[l])
<1>1. PICK loc : lots' = NewLotRows(o, orders[o].lines, req, loc)
  BY DEF Receive
<1>2. \/ lots'[l] = lots[l]
      \/ \E i, source, q : lots'[l] = NewLot(i, "RECEIPT", source, q, loc)
  BY <1>1 DEF NewLotRows
<1>3. \A i, source, q : NewLot(i, "RECEIPT", source, q, loc).qc = "PENDING"
  BY DEF NewLot
<1>4. CASE lots'[l] = lots[l]
  BY <1>4
<1>5. CASE lots'[l].qc = "PENDING"
  BY <1>5 DEF ReturnOK
<1>. QED
  BY <1>2, <1>3, <1>4, <1>5

LEMMA CompletionInit ==
  ASSUME PurchasingInit
  PROVE  CompletionInv
<1>1. \A o \in Orders : orders[o].status = "NONE" /\ DOMAIN orders[o].lines = {}
  BY DEF PurchasingInit
<1>2. \A l \in Lots : lots[l].qc = "NONE"
  BY DEF PurchasingInit, QualityInit, NoLotRow
<1>. QED
  BY <1>1, <1>2, PurchasingInitOK DEF CompletionInv, OrderOK, WithinOrdered, ReturnOK

\* Every step keeps the invariant: the status is set whenever the lines are.
LEMMA CompletionStep ==
  ASSUME OrdersExceedTolerance, CompletionInv, [PurchasingNext]_purchasingVars
  PROVE  CompletionInv'
<1>1. PurchasingInv'
  BY PurchasingStepOK DEF CompletionInv
<1>2. \A o \in Orders : orders[o] \in OrderRows
  BY DEF CompletionInv, PurchasingInv
<1>3. ASSUME NEW o \in Orders, NEW row, OrderOK(row), orders' = [orders EXCEPT ![o] = row]
      PROVE  \A p \in Orders : OrderOK(orders'[p])
  BY <1>3 DEF CompletionInv, PurchasingInv
<1>4. CASE UNCHANGED purchasingVars
  BY <1>1, <1>4 DEF CompletionInv, purchasingVars
<1>5. CASE PlantStep /\ UNCHANGED <<orders, containerQty>>
  BY <1>1, <1>5, ReturnsStayWhole DEF CompletionInv, PurchasingInv
<1>6. ASSUME NEW o \in Orders, NEW form \in OrderForms, CreateOrder(o, form)
      PROVE  CompletionInv'
  <2>1. OrderOK([status |-> "OPEN", lines |-> NewLines(form)])
    BY NewOrderOK
  <2>2. \A p \in Orders : OrderOK(orders'[p])
    BY <1>3, <1>6, <2>1 DEF CreateOrder
  <2>. QED
    BY <1>1, <1>6, <2>2 DEF CreateOrder, CompletionInv
<1>7. ASSUME NEW o \in Orders, NEW form \in OrderForms, UpdateOrder(o, form)
      PROVE  CompletionInv'
  <2>1. PICK row : row = [orders[o] EXCEPT !.lines = NewLines(form)]
    OBVIOUS
  <2>2. orders' = [orders EXCEPT ![o] = row]
    BY <1>7, <2>1 DEF UpdateOrder, CompletionInv, PurchasingInv
  <2>3. row.status = "OPEN" /\ row.lines = NewLines(form)
    BY <1>2, <1>7, <2>1 DEF UpdateOrder, OrderRows
  <2>4. \A p \in Orders : OrderOK(orders'[p])
    BY <1>3, <2>2, <2>3, NewOrderOK
  <2>. QED
    BY <1>1, <1>7, <2>4 DEF UpdateOrder, CompletionInv
<1>8. ASSUME NEW o \in Orders, CancelOrder(o)
      PROVE  CompletionInv'
  <2>1. PICK row : row = [orders[o] EXCEPT !.status = "CANCELLED"]
    OBVIOUS
  <2>2. orders' = [orders EXCEPT ![o] = row]
    BY <1>8, <2>1 DEF CancelOrder, CompletionInv, PurchasingInv
  <2>3. OrderOK(row)
    <3>1. row.status = "CANCELLED" /\ row.lines = orders[o].lines
      BY <1>2, <2>1 DEF OrderRows
    <3>. QED
      BY <3>1 DEF CompletionInv, OrderOK
  <2>4. \A p \in Orders : OrderOK(orders'[p])
    BY <1>3, <2>2, <2>3
  <2>. QED
    BY <1>1, <1>8, <2>4 DEF CancelOrder, CompletionInv
<1>9. ASSUME NEW o \in Orders, NEW req \in Receipts, NEW requested \in Wheres,
             Receive(o, req, requested)
      PROVE  CompletionInv'
  <2>. DEFINE lines == Received(orders[o].lines, req)
  <2>1. /\ orders' = [orders EXCEPT ![o] = [status |-> StatusFromLines(lines), lines |-> lines]]
        /\ WithinOrdered(lines)
    BY <1>9 DEF Receive, ReceiptFits
  <2>2. \A p \in Orders : OrderOK(orders'[p])
    BY <1>3, <2>1, StatusTells
  <2>3. \A l \in Lots : ReturnOK(lots'[l])
    BY <1>9, ReceivedNotReturned DEF CompletionInv
  <2>. QED
    BY <1>1, <2>2, <2>3 DEF CompletionInv
<1>. QED
  BY <1>4, <1>5, <1>6, <1>7, <1>8, <1>9 DEF PurchasingNext, PurchasingStep, Wheres

(***************************************************************************)
(* "Receive remaining" names every open line, each with what is left of    *)
(* it.                                                                     *)
(***************************************************************************)
LEMMA RestNames ==
  ASSUME NEW o \in Orders, orders[o] \in OrderRows
  PROVE  LET req == ReceiveRest(o)
             lines == orders[o].lines
         IN  /\ \E n \in Nat : DOMAIN req = 1..n
             /\ \A k \in DOMAIN req : /\ req[k].line \in OpenLines(o)
                                      /\ req[k].qty = FilledRemaining(lines[req[k].line])
             /\ \A n \in OpenLines(o) : \E k \in DOMAIN req : req[k].line = n
<1>. DEFINE lines == orders[o].lines
            S == OpenLines(o)
            nth(k) == CHOOSE n \in S : Cardinality({m \in S : m < n}) = k - 1
<1>1. lines \in Seq(OrderLines) /\ Len(lines) \in Nat /\ S \in SUBSET (1..Len(lines))
  BY DEF OrderRows, OpenLines
<1>2. ReceiveRest(o) = [k \in 1..Cardinality(S) |->
         [line |-> nth(k), qty |-> FilledRemaining(lines[nth(k)])]]
  BY DEF ReceiveRest
<1>. HIDE DEF S, lines
<1>3. /\ Cardinality(S) \in Nat
      /\ \A m \in S : /\ Cardinality(Smaller(S, m)) \in Nat
                      /\ Cardinality(Smaller(S, m)) + 1 \in 1..Cardinality(S)
      /\ \A k \in 1..Cardinality(S) : \E m \in S : Cardinality(Smaller(S, m)) = k - 1
      /\ \A m, p \in S : m < p => Cardinality(Smaller(S, m)) < Cardinality(Smaller(S, p))
  BY <1>1, Numbering
<1>4. \A m \in S : {j \in S : j < m} = Smaller(S, m)
  BY DEF Smaller
<1>5. ASSUME NEW k \in 1..Cardinality(S)
      PROVE  nth(k) \in S /\ Cardinality(Smaller(S, nth(k))) = k - 1
  BY <1>3, <1>4
<1>6. ASSUME NEW n \in S
      PROVE  \E k \in 1..Cardinality(S) : nth(k) = n
  <2>. DEFINE k == Cardinality(Smaller(S, n)) + 1
  <2>1. k \in 1..Cardinality(S) /\ Cardinality(Smaller(S, n)) = k - 1
    BY <1>3
  <2>2. nth(k) \in S /\ Cardinality(Smaller(S, nth(k))) = k - 1
    BY <1>5, <2>1
  <2>. HIDE DEF k, nth
  <2>3. n \in Int /\ nth(k) \in Int
    <3>1. \A m \in S : m \in Int
      BY <1>1
    <3>. QED
      BY <2>2, <3>1
  <2>4. nth(k) = n
    <3>1. Cardinality(Smaller(S, nth(k))) = Cardinality(Smaller(S, n))
      BY <2>1, <2>2
    <3>2. Cardinality(Smaller(S, n)) \in Nat
      BY <1>3
    <3>. QED
      BY <1>3, <2>2, <2>3, <3>1, <3>2
  <2>. QED
    BY <2>1, <2>4
<1>. HIDE DEF nth
<1>. QED
  BY <1>2, <1>3, <1>5, <1>6 DEF S, lines

\* What "Receive remaining" makes of a line.
LEMMA RestFills ==
  ASSUME NEW o \in Orders, orders[o] \in OrderRows, NEW n \in DOMAIN orders[o].lines
  PROVE  LET line == orders[o].lines[n]
             after == Received(orders[o].lines, ReceiveRest(o))
         IN  /\ DOMAIN after = DOMAIN orders[o].lines
             /\ after[n].ordered = line.ordered
             /\ after[n].received = IF n \in OpenLines(o) THEN line.ordered ELSE line.received
<1>. DEFINE lines == orders[o].lines
            req == ReceiveRest(o)
            entries == {k \in DOMAIN req : req[k].line = n}
            last == CHOOSE k \in entries : \A j \in entries : j <= k
<1>1. /\ lines[n].ordered \in Nat /\ lines[n].received \in Nat
      /\ lines[n] = [subject |-> lines[n].subject, ordered |-> lines[n].ordered,
                     received |-> lines[n].received]
  BY LineValues DEF OrderRows
<1>2. /\ DOMAIN Received(lines, req) = DOMAIN lines
      /\ Received(lines, req)[n] = IF entries = {} THEN lines[n]
                                   ELSE [lines[n] EXCEPT !.received = @ + req[last].qty]
  BY DEF Received
<1>3. /\ \E m \in Nat : DOMAIN req = 1..m
      /\ \A k \in DOMAIN req : /\ req[k].line \in OpenLines(o)
                               /\ req[k].qty = FilledRemaining(lines[req[k].line])
      /\ n \in OpenLines(o) => \E k \in DOMAIN req : req[k].line = n
  BY RestNames
<1>4. CASE n \notin OpenLines(o)
  <2>1. entries = {}
    BY <1>3, <1>4
  <2>. QED
    BY <1>2, <1>4, <2>1
<1>5. CASE n \in OpenLines(o)
  <2>1. entries # {}
    BY <1>3, <1>5
  <2>2. last \in entries
    <3>1. PICK m \in Nat : DOMAIN req = 1..m
      BY <1>3
    <3>2. entries \in SUBSET (1..m)
      BY <3>1
    <3>. HIDE DEF entries
    <3>. QED
      BY <2>1, <3>2, LastEntry
  <2>3. req[last].qty = lines[n].ordered - lines[n].received
    BY <1>3, <2>2 DEF FilledRemaining
  <2>. HIDE DEF last, entries, lines, req
  <2>4. Received(lines, req)[n].received = lines[n].received + req[last].qty
        /\ Received(lines, req)[n].ordered = lines[n].ordered
    BY <1>1, <1>2, <2>1
  <2>. QED
    BY <1>1, <1>2, <1>5, <2>3, <2>4 DEF lines, req
<1>. QED
  BY <1>4, <1>5

\* "Receive remaining" is taken at every dock that is listed, and closes the order.
LEMMA RestCompletes ==
  ASSUME CompletionInv, NEW o \in Orders, CanReceive(o), NEW dock \in Docks,
         Cardinality(ItemEntries(orders[o].lines, ReceiveRest(o))) <= Cardinality(FreeLots)
  PROVE  Completes(o, dock)
<1>. DEFINE lines == orders[o].lines
            req == ReceiveRest(o)
            after == Received(lines, req)
<1>1. orders[o] \in OrderRows /\ OrderOK(orders[o])
  BY DEF CompletionInv, PurchasingInv
<1>2. ASSUME NEW n \in DOMAIN lines
      PROVE  /\ DOMAIN after = DOMAIN lines
             /\ lines[n].ordered \in Nat /\ lines[n].received \in Nat
             /\ lines[n].received <= lines[n].ordered
             /\ after[n].ordered = lines[n].ordered
             /\ after[n].received = IF n \in OpenLines(o) THEN lines[n].ordered
                                    ELSE lines[n].received
             /\ n \notin OpenLines(o) => Full(lines[n])
  <2>1. lines[n].ordered \in Nat /\ lines[n].received \in Nat
    BY <1>1, LineValues DEF OrderRows
  <2>2. n \notin OpenLines(o) => Full(lines[n])
    BY <2>1, PurchasingAssumption DEF OpenLines, Remaining, Full
  <2>. QED
    BY <1>1, <2>1, <2>2, RestFills DEF OrderOK, WithinOrdered
<1>3. DOMAIN after = DOMAIN lines
  BY DEF Received
<1>4. WithinOrdered(after)
  <2>. HIDE DEF lines, after
  <2>. QED
    BY <1>2, <1>3 DEF WithinOrdered
<1>5. StatusFromLines(after) = "RECEIVED"
  <2>. HIDE DEF lines, after
  <2>1. \A n \in DOMAIN after : after[n].received >= after[n].ordered - Tolerance
    BY <1>2, <1>3, PurchasingAssumption DEF Full
  <2>. QED
    BY <2>1 DEF StatusFromLines
<1>6. ASSUME NEW k \in DOMAIN req
      PROVE  req[k].line \in DOMAIN lines /\ WithinRemaining(lines[req[k].line], req[k].qty)
  <2>1. req[k].line \in OpenLines(o) /\ req[k].qty = FilledRemaining(lines[req[k].line])
    BY <1>1, RestNames
  <2>2. req[k].line \in DOMAIN lines
    BY <2>1 DEF OpenLines
  <2>. HIDE DEF lines, req
  <2>. QED
    BY <1>2, <2>1, <2>2, PurchasingAssumption DEF WithinRemaining, FilledRemaining
<1>7. dock # NoLoc => dock \in Receiving
  BY DEF Docks
<1>. QED
  BY <1>4, <1>5, <1>6, <1>7 DEF Completes, ReceiptFits, CanReceive

\* The invariant gives what the pages promise.
LEMMA CompletionFacts ==
  ASSUME CompletionInv, Tests = Suite
  PROVE  ReceivingCompletes
<1>1. ASSUME NEW o \in Orders
      PROVE  /\ CanReceive(o) <=> /\ orders[o].status \notin {"NONE", "CANCELLED"}
                                  /\ OpenLines(o) # {}
             /\ CanCancel(o) => Cancellable(o)
  <2>1. orders[o] \in OrderRows /\ OrderOK(orders[o])
    BY DEF CompletionInv, PurchasingInv
  <2>2. ASSUME NEW n \in DOMAIN orders[o].lines
        PROVE  n \in OpenLines(o) <=> ~ Full(orders[o].lines[n])
    <3>1. orders[o].lines[n].ordered \in Nat /\ orders[o].lines[n].received \in Nat
      BY <2>1, LineValues DEF OrderRows
    <3>. QED
      BY <3>1, PurchasingAssumption DEF OpenLines, Remaining, Full
  <2>3. OpenLines(o) # {} <=> \E n \in DOMAIN orders[o].lines : ~ Full(orders[o].lines[n])
    <3>1. OpenLines(o) \in SUBSET (DOMAIN orders[o].lines)
      BY DEF OpenLines
    <3>. QED
      BY <2>2, <3>1
  <2>. QED
    BY <2>1, <2>3 DEF OrderRows, OrderStatuses, OrderOK, CanReceive, CanCancel, Cancellable
<1>2. ASSUME NEW l \in Lots
      PROVE  PassesAll(l)
  BY DEF PassesAll, Passing, ResultsAfter, ListedTests
<1>3. ASSUME NEW l \in Lots, ReturnOffered(l),
             Covers(book[lots[l].item], "QUARANTINE", LeftToReturn(l))
      PROVE  ReturnsAll(l)
  <2>1. LotOK(lots[l]) /\ ReturnOK(lots[l])
    BY DEF CompletionInv, PurchasingInv, PlantInv, LotsOK
  <2>2. lots[l].qty \in Nat /\ lots[l].returned \in Nat
    BY <2>1, LotFields
  <2>3. lots[l].qc = "REJECTED"
    BY <1>3, <2>1, <2>2 DEF ReturnOffered, LeftToReturn, ReturnOK
  <2>4. ReturnFits(l, LeftToReturn(l))
    BY <1>3, <2>2, <2>3 DEF ReturnFits, ReturnOffered, LeftToReturn
  <2>5. LotReturned(l, LeftToReturn(l)).qc = "RETURNED"
    <3>1. lots[l].returned + LeftToReturn(l) >= lots[l].qty
      BY <2>2 DEF LeftToReturn
    <3>. QED
      BY <2>1, <3>1, LotFields DEF LotReturned
  <2>. QED
    BY <2>4, <2>5 DEF ReturnsAll
<1>. QED
  BY <1>1, <1>2, <1>3, RestCompletes DEF ReceivingCompletes

(***************************************************************************)
(* An order can be received exactly while something of it is shown as      *)
(* remaining, "Receive remaining" is taken and closes it, and a lot can be *)
(* passed and returned as its page offers (ReceivingCompletes), for any    *)
(* orders, partial receipts and tolerance.  The hypotheses: an order asks  *)
(* for more than the tolerance, else nothing of it is shown as remaining;  *)
(* and no results are recorded beside the tests that the page lists.       *)
(***************************************************************************)
THEOREM ReceivingCanComplete ==
  ASSUME OrdersExceedTolerance, Tests = Suite
  PROVE  PurchasingSpec => []ReceivingCompletes
<1>1. PurchasingInit => CompletionInv
  BY CompletionInit
<1>2. CompletionInv /\ [PurchasingNext]_purchasingVars => CompletionInv'
  BY CompletionStep
<1>3. CompletionInv => ReceivingCompletes
  BY CompletionFacts
<1>. QED
  BY <1>1, <1>2, <1>3, PTL DEF PurchasingSpec
=============================================================================
