--------------------------- MODULE ProductionProofs ---------------------------
(***************************************************************************)
(* The plant with work orders: production keeps what PlantProofs shows   *)
(* of stock and lots; its output can be traced; lots leave INV oldest      *)
(* first; a completed order has one output lot; and, when no material is   *)
(* free of cost, what was poured is not consumed again and WIP moves with  *)
(* the lines of the orders.                                                *)
(***************************************************************************)
EXTENDS Production, PlantProofs

ProductionInv == PlantInv /\ workOrders \in [WorkOrders -> WorkOrderRows]

\* The fields of the row of a work order.
LEMMA WorkOrderFields ==
  ASSUME NEW r \in WorkOrderRows
  PROVE  /\ r.status \in WorkOrderStatuses /\ r.target \in Items /\ r.output \in Nat
         /\ r.required \in [Items -> Nat] /\ r.staged \in [Items -> Nat]
         /\ r.consumed \in [Items -> Nat]
BY DEF WorkOrderRows

\* Creating an order adds a well-typed row.
LEMMA CreateWorkOrderOK ==
  ASSUME ProductionInv, NEW w \in WorkOrders, NEW batch \in Batches,
         CreateWorkOrder(w, batch)
  PROVE  ProductionInv'
<1>1. PlantInv'
  BY PlantIdle DEF ProductionInv, CreateWorkOrder
<1>2. batch.target \in Items /\ batch.output \in Nat /\ batch.required \in [Items -> Nat]
  BY ProductionAssumption
<1>3. workOrders' \in [WorkOrders -> WorkOrderRows]
  BY <1>2 DEF ProductionInv, CreateWorkOrder, WorkOrderRows, WorkOrderStatuses, Nothing
<1>. QED
  BY <1>1, <1>3 DEF ProductionInv

\* Staging keeps the invariant: every component is covered.
LEMMA StageOK ==
  ASSUME ProductionInv, NEW w \in WorkOrders, Stage(w)
  PROVE  ProductionInv'
<1>. DEFINE required == workOrders[w].required
            f(i) == IF i \in Components(w) THEN Staged(book[i], required[i]) ELSE book[i]
<1>1. workOrders[w] \in WorkOrderRows /\ required \in [Items -> Nat]
  BY WorkOrderFields DEF ProductionInv
<1>2. ASSUME NEW i \in Items
      PROVE  BookOK(f(i))
  <2>1. BookOK(book[i])
    BY DEF ProductionInv, PlantInv, StockInv, BooksOK
  <2>2. required[i] \in Nat
    BY <1>1
  <2>3. i \in Components(w) => Covers(book[i], "INV", required[i])
    BY DEF Stage
  <2>. HIDE DEF required
  <2>. QED
    BY <2>1, <2>2, <2>3, StagedOK
<1>3. book' = [i \in Items |-> f(i)] /\ locs' = locs /\ lots' = lots
  BY DEF Stage
<1>4. StockInv'
  <2>. HIDE DEF f
  <2>. QED
    BY <1>2, <1>3 DEF ProductionInv, PlantInv, StockInv, BooksOK, LocationTypeOK
<1>5. workOrders' \in [WorkOrders -> WorkOrderRows]
  <2>. HIDE DEF f
  <2>. QED
    BY <1>1 DEF Stage, ProductionInv, WorkOrderRows, WorkOrderStatuses
<1>. QED
  BY <1>3, <1>4, <1>5 DEF ProductionInv, PlantInv, LotsOK

\* A pour keeps the invariant: WIP covers it.
LEMMA PourOK ==
  ASSUME ProductionInv, NEW w \in WorkOrders, NEW i \in Items, NEW q \in Quantity,
         Pour(w, i, q)
  PROVE  ProductionInv'
<1>. DEFINE b == PostOut(book[i], "WIP", NoSlices, q, NoLoc, Defaults)
<1>1. q \in Nat /\ BookOK(book[i]) /\ Covers(book[i], "WIP", q) /\ "WIP" \in Statuses
  BY StockAssumption DEF ProductionInv, PlantInv, StockInv, BooksOK, Pour, Statuses
<1>2. BookOK(b)
  BY <1>1, NoSlicesType, PostOutOK
<1>3. book' = [book EXCEPT ![i] = b] /\ locs' = locs /\ lots' = lots
  BY DEF Pour
<1>. HIDE DEF b
<1>4. StockInv'
  BY <1>2, <1>3, OneStockBook DEF ProductionInv, PlantInv
<1>5. workOrders[w] \in WorkOrderRows /\ workOrders[w].consumed \in [Items -> Nat]
  BY WorkOrderFields DEF ProductionInv
<1>6. [workOrders[w].consumed EXCEPT ![i] = @ + q] \in [Items -> Nat]
  BY <1>1, <1>5
<1>7. workOrders' = [workOrders EXCEPT
        ![w] = [@ EXCEPT !.status = "IN_PROGRESS",
                         !.consumed = [workOrders[w].consumed EXCEPT ![i] = @ + q]]]
  BY <1>5 DEF Pour, ProductionInv, WorkOrderRows
<1>8. workOrders' \in [WorkOrders -> WorkOrderRows]
  BY <1>5, <1>6, <1>7 DEF ProductionInv, WorkOrderRows, WorkOrderStatuses
<1>. QED
  BY <1>3, <1>4, <1>8 DEF ProductionInv, PlantInv, LotsOK

\* Holding, resuming and cancelling change a status only.
LEMMA StatusOnlyOK ==
  ASSUME ProductionInv, NEW w \in WorkOrders, NEW s \in WorkOrderStatuses,
         workOrders' = [workOrders EXCEPT ![w].status = s],
         UNCHANGED <<locs, book, lots>>
  PROVE  ProductionInv'
<1>1. PlantInv'
  BY PlantIdle DEF ProductionInv
<1>2. workOrders' \in [WorkOrders -> WorkOrderRows]
  BY DEF ProductionInv, WorkOrderRows
<1>. QED
  BY <1>1, <1>2 DEF ProductionInv

(***************************************************************************)
(* Completion keeps the invariant: what it consumes is covered, and the    *)
(* output comes in whole under a well-formed lot.                          *)
(***************************************************************************)
LEMMA CompleteOK ==
  ASSUME ProductionInv, NEW w \in WorkOrders, Complete(w)
  PROVE  ProductionInv'
<1>. DEFINE wo == workOrders[w]
            out(i) == IF ValueConsumed(w) THEN 0 ELSE wo.staged[i]
            output == At(NextLot, wo.output, NumLots)
            into(i) == PostIn(book[i], "WIP", output, wo.output, NoLoc)
            consume(i) == PostOut(book[i], "WIP", NoSlices, out(i), NoLoc, Defaults)
            f(i) == IF i = wo.target THEN into(i)
                    ELSE IF i \in Components(w) THEN consume(i) ELSE book[i]
            lot == NewLot(wo.target, "PRODUCTION", <<w, 0>>, wo.output, NoLoc)
            consumed == IF ValueConsumed(w) THEN wo.consumed ELSE wo.staged
<1>1. /\ wo \in WorkOrderRows /\ wo.target \in Items /\ wo.output \in Nat
      /\ wo.staged \in [Items -> Nat] /\ wo.consumed \in [Items -> Nat]
  BY WorkOrderFields DEF ProductionInv
<1>2. "WIP" \in Statuses /\ NoLoc \in Wheres
  BY DEF Statuses, Wheres
<1>3. ASSUME NEW i \in Items
      PROVE  BookOK(f(i))
  <2>1. BookOK(book[i])
    BY DEF ProductionInv, PlantInv, StockInv, BooksOK
  <2>2. BookOK(into(i))
    <3>1. output \in [Lots -> Int]
      BY <1>1, AtType
    <3>. HIDE DEF output, wo
    <3>. QED
      BY <1>1, <1>2, <2>1, <3>1, PostInOK
  <2>3. ASSUME i \in Components(w)
        PROVE  BookOK(consume(i))
    <3>1. out(i) \in Nat
      BY <1>1
    <3>2. Covers(book[i], "WIP", out(i))
      BY <2>3 DEF Complete
    <3>. HIDE DEF out
    <3>. QED
      BY <1>2, <2>1, <3>1, <3>2, NoSlicesType, PostOutOK
  <2>. HIDE DEF into, consume
  <2>. QED
    BY <2>1, <2>2, <2>3
<1>4. book' = [i \in Items |-> f(i)] /\ locs' = locs
  BY DEF Complete
<1>5. StockInv'
  <2>. HIDE DEF f
  <2>. QED
    BY <1>3, <1>4 DEF ProductionInv, PlantInv, StockInv, BooksOK, LocationTypeOK
<1>6. LotOK(lot)
  <2>1. "PRODUCTION" \in Origins /\ w \in Nat
    BY ProductionAssumption DEF Origins, WorkOrders
  <2>2. <<w, 0>> \in Nat \X Nat
    BY <2>1
  <2>. QED
    BY <1>1, <1>2, <2>1, <2>2, NewLotOK
<1>7. lots' = [lots EXCEPT ![NextLot] = lot]
  BY DEF Complete
<1>8. LotsOK(lots')
  <2>. HIDE DEF lot
  <2>. QED
    BY <1>6, <1>7 DEF ProductionInv, PlantInv, LotsOK
<1>9. consumed \in [Items -> Nat]
  BY <1>1
<1>10. workOrders' = [workOrders EXCEPT
         ![w] = [@ EXCEPT !.status = "COMPLETED", !.consumed = consumed]]
  BY <1>1 DEF Complete, ProductionInv, WorkOrderRows
<1>11. workOrders' \in [WorkOrders -> WorkOrderRows]
  <2>. HIDE DEF consumed
  <2>. QED
    BY <1>1, <1>9, <1>10 DEF ProductionInv, WorkOrderRows, WorkOrderStatuses
<1>. QED
  BY <1>5, <1>8, <1>11 DEF ProductionInv, PlantInv

-----------------------------------------------------------------------------
\* Every step of the plant with work orders keeps the invariant.
LEMMA ProductionNextOK ==
  ASSUME ProductionInv, ProductionNext
  PROVE  ProductionInv'
<1>1. CASE PlantStep /\ UNCHANGED workOrders
  BY <1>1, PlantStepOK DEF ProductionInv
<1>2. ASSUME NEW w \in WorkOrders, NEW target \in DOMAIN Transitions, SetStatus(w, target)
      PROVE  ProductionInv'
  <2>1. target \in WorkOrderStatuses
    BY DEF Transitions, WorkOrderStatuses
  <2>. QED
    BY <1>2, <2>1, StatusOnlyOK DEF SetStatus
<1>3. ASSUME NEW w \in WorkOrders, CancelWorkOrder(w)
      PROVE  ProductionInv'
  BY <1>3, StatusOnlyOK DEF CancelWorkOrder, WorkOrderStatuses
<1>. QED
  BY <1>1, <1>2, <1>3, CreateWorkOrderOK, StageOK, PourOK, CompleteOK
     DEF ProductionNext, ProductionStep

\* The invariant holds before any operation.
LEMMA ProductionInitOK ==
  ASSUME ProductionInit
  PROVE  ProductionInv
<1>1. (CHOOSE i \in Items : TRUE) \in Items
  BY QualityAssumption
<1>. QED
  BY <1>1, QualityInitOK DEF ProductionInit, ProductionInv, NoWorkOrder, WorkOrderRows,
                             WorkOrderStatuses, Nothing

\* Every step keeps the invariant, a stuttering one too.
LEMMA ProductionIdle ==
  ASSUME ProductionInv, UNCHANGED productionVars
  PROVE  ProductionInv'
BY PlantIdle DEF productionVars, ProductionInv

LEMMA ProductionStepOK ==
  ProductionInv /\ [ProductionNext]_productionVars => ProductionInv'
BY ProductionNextOK, ProductionIdle

(***************************************************************************)
(* For any work orders, batches, lots and quantities, however pours,       *)
(* stagings, completions, reviews and stock operations interleave: the     *)
(* state is well typed, no bucket goes below zero, every bucket is the sum *)
(* of its ledger lines, its location rows never exceed it, and every       *)
(* approved lot has passed its suite.                                      *)
(***************************************************************************)
THEOREM ProductionCorrect ==
  ProductionSpec =>
    [](ProductionTypeOK /\ LedgerBalances /\ LocationsWithinStock /\ ApprovedPassed)
<1>1. ProductionInv =>
        ProductionTypeOK /\ LedgerBalances /\ LocationsWithinStock /\ ApprovedPassed
  BY PlantInvFacts DEF ProductionInv, ProductionTypeOK
<1>. QED
  BY ProductionInitOK, ProductionStepOK, <1>1, PTL DEF ProductionSpec

-----------------------------------------------------------------------------
(***************************************************************************)
(* Production and the trace of the lots: staging draws a component down    *)
(* over its lots, a pour and the wholesale consumption take no lot, and    *)
(* the output enters WIP whole under the lot it opens.                     *)
(***************************************************************************)
\* Staging keeps the lots traced.
LEMMA StageTraced ==
  ASSUME ProductionInv, TraceInv, NEW w \in WorkOrders, Stage(w)
  PROVE  TraceInv'
<1>. DEFINE required == workOrders[w].required
            slices(i) == FifoSlices(book[i], "INV", required[i], Lots)
<1>1. required \in [Items -> Nat]
  BY WorkOrderFields DEF ProductionInv
<1>2. PlantInv /\ lots' = lots
  BY DEF ProductionInv, Stage
<1>3. ASSUME NEW l \in Lots, NEW i \in Items, NEW s \in Statuses
      PROVE  \/ book'[i].lotQty[s][l] = book[i].lotQty[s][l]
             \/ /\ s = "INV" /\ book'[i].lotQty[s][l] \in Nat
                /\ book'[i].lotQty[s][l] <= book[i].lotQty[s][l]
  <2>1. CASE i \notin Components(w)
    BY <2>1 DEF Stage
  <2>2. CASE i \in Components(w)
    <3>1. BookOK(book[i]) /\ Covers(book[i], "INV", required[i]) /\ required[i] \in Nat
      BY <1>1, <2>2 DEF ProductionInv, PlantInv, StockInv, BooksOK, Stage
    <3>2. book'[i] = Staged(book[i], required[i])
      BY <2>2 DEF Stage
    <3>. HIDE DEF required
    <3>3. book'[i].lotQty[s][l] = IF s = "INV" THEN book[i].lotQty[s][l] - slices(i)[l]
                                  ELSE book[i].lotQty[s][l]
      BY <3>1, <3>2, StagedLots
    <3>4. slices(i)[l] \in Nat /\ slices(i)[l] <= Positive(book[i].lotQty["INV"][l])
      BY <3>1, FifoType
    <3>5. book[i].lotQty[s][l] \in Int
      BY <3>1, BookFields
    <3>. HIDE DEF slices
    <3>. QED
      BY <3>3, <3>4, <3>5 DEF Positive
  <2>. QED
    BY <2>1, <2>2
<1>. QED
  BY <1>2, <1>3, DrawnLots

\* A pour takes no lot.
LEMMA PourTraced ==
  ASSUME ProductionInv, TraceInv, NEW w \in WorkOrders, NEW i \in Items, NEW q \in Quantity,
         Pour(w, i, q)
  PROVE  TraceInv'
<1>1. BookOK(book[i]) /\ "WIP" \in Statuses /\ book = [j \in Items |-> book[j]] /\ PlantInv
  BY DEF ProductionInv, PlantInv, StockInv, BooksOK, Statuses
<1>2. \A l \in Lots, j \in Items, s \in Statuses :
        book'[j].lotQty[s][l] = book[j].lotQty[s][l]
  BY <1>1, NoLotsOut DEF Pour
<1>. QED
  BY <1>1, <1>2, DrawnLots DEF Pour

\* Completion opens a lot that is in WIP whole.
LEMMA CompleteTraced ==
  ASSUME ProductionInv, TraceInv, NEW w \in WorkOrders, Complete(w)
  PROVE  TraceInv'
<1>. DEFINE wo == workOrders[w]
            output == At(NextLot, wo.output, NumLots)
            out(i) == IF ValueConsumed(w) THEN 0 ELSE wo.staged[i]
            into(i) == PostIn(book[i], "WIP", output, wo.output, NoLoc)
            consume(i) == PostOut(book[i], "WIP", NoSlices, out(i), NoLoc, Defaults)
            lot == NewLot(wo.target, "PRODUCTION", <<w, 0>>, wo.output, NoLoc)
<1>1. wo.target \in Items /\ wo.output \in Nat /\ PlantInv
  BY WorkOrderFields DEF ProductionInv
<1>0. NextLot \in FreeLots /\ \A k \in FreeLots : NextLot <= k
  BY NextLotFree DEF Complete
<1>2. PICK n \in Lots : n = NextLot /\ n \in FreeLots /\ \A k \in FreeLots : n <= k
  BY <1>0 DEF FreeLots
<1>3. lots[n].qc = "NONE" /\ TracedLot(n) /\ LotOK(lots[n])
  BY <1>2 DEF FreeLots, TraceInv, ProductionInv, PlantInv, LotsOK
<1>4. /\ lots' = [lots EXCEPT ![n] = lot] /\ lots = [k \in Lots |-> lots[k]]
      /\ book' = [i \in Items |-> IF i = wo.target THEN into(i)
                                  ELSE IF i \in Components(w) THEN consume(i) ELSE book[i]]
  BY <1>2 DEF Complete, ProductionInv, PlantInv, LotsOK
<1>5. output[n] = wo.output /\ \A k \in Lots \ {n} : output[k] = 0
  BY <1>1, <1>2 DEF At, Lots
<1>6. "INV" \in Statuses /\ "WIP" \in Statuses /\ "QUARANTINE" \in Statuses
  BY DEF Statuses
<1>7. \A i \in Items, s \in Statuses, k \in Lots : book[i].lotQty[s][k] \in Int
  BY <1>1, LotQtyType
<1>8. ASSUME NEW i \in Items, NEW s \in Statuses, NEW k \in Lots
      PROVE  /\ into(i).lotQty[s][k] = IF s = "WIP" THEN book[i].lotQty[s][k] + output[k]
                                       ELSE book[i].lotQty[s][k]
             /\ consume(i).lotQty[s][k] = book[i].lotQty[s][k]
  <2>1. BookOK(book[i])
    BY DEF ProductionInv, PlantInv, StockInv, BooksOK
  <2>. HIDE DEF output, wo, out
  <2>. QED
    BY <1>6, <2>1, LotsIn, NoLotsOut
<1>9. lots'[n] = lot /\ \A k \in Lots \ {n} : lots'[k] = lots[k]
  BY <1>3, <1>4
<1>10. /\ lot.item = wo.target /\ lot.origin = "PRODUCTION" /\ lot.qty = wo.output
       /\ lot.packed = 0 /\ lot.returned = 0 /\ lot.qc = "PENDING"
  BY DEF NewLot
<1>. HIDE DEF into, consume, output, lot, wo
<1>11. ASSUME NEW k \in Lots \ {n}
       PROVE  TracedLot(k)'
  <2>1. \A i \in Items, s \in Statuses : book'[i].lotQty[s][k] = book[i].lotQty[s][k]
    BY <1>4, <1>5, <1>7, <1>8
  <2>. QED
    BY <1>1, <1>9, <2>1, DrawnLot DEF TraceInv
<1>12. \A i \in Items, s \in Statuses : book[i].lotQty[s][n] = 0
  BY <1>1, <1>3, NoLotNoStock
<1>13. TracedLot(n)'
  <2>1. \A i \in Items \ {wo.target}, s \in Statuses : book'[i].lotQty[s][n] = 0
    BY <1>3, <1>4, <1>8, <1>12
  <2>2. \A s \in Statuses :
          book'[wo.target].lotQty[s][n] = IF s = "WIP" THEN wo.output ELSE 0
    BY <1>1, <1>3, <1>4, <1>5, <1>8, <1>12
  <2>. QED
    BY <1>1, <1>6, <1>9, <1>10, <2>1, <2>2 DEF TracedLot, ProductionTraced, InBucket
<1>14. LotsInOrder'
  <2>1. ASSUME NEW k \in Lots, NEW l \in Lots, k < l, lots'[k].qc = "NONE"
        PROVE  lots'[l].qc = "NONE"
    <3>1. k # n /\ lots[k].qc = "NONE"
      BY <1>9, <1>10, <2>1
    <3>2. lots[l].qc = "NONE"
      BY <2>1, <3>1 DEF TraceInv, LotsInOrder
    <3>3. l # n
      BY <1>2, <2>1, <3>1 DEF FreeLots, Lots
    <3>. QED
      BY <1>9, <3>2, <3>3
  <2>. QED
    BY <2>1 DEF LotsInOrder
<1>. QED
  BY <1>11, <1>13, <1>14 DEF TraceInv

\* Every step of the plant with work orders keeps the lots traced.
LEMMA ProductionNextTraced ==
  ASSUME ProductionInv, TraceInv, ProductionNext
  PROVE  TraceInv'
<1>1. PlantInv
  BY DEF ProductionInv
<1>2. ASSUME NEW w \in WorkOrders,
             \/ \E batch \in Batches : CreateWorkOrder(w, batch)
             \/ \E target \in DOMAIN Transitions : SetStatus(w, target)
             \/ CancelWorkOrder(w)
      PROVE  TraceInv'
  BY <1>1, <1>2, TraceIdle DEF CreateWorkOrder, SetStatus, CancelWorkOrder
<1>. QED
  BY <1>1, <1>2, PlantStepTraced, StageTraced, PourTraced, CompleteTraced
     DEF ProductionNext, ProductionStep

(***************************************************************************)
(* For any work orders, batches, lots and quantities, what the ledger says *)
(* of each lot agrees with the row of the lot, through staging, pours,     *)
(* completions, reviews, pack-offs and the stock operations that take no   *)
(* lot.                                                                    *)
(***************************************************************************)
THEOREM OutputTraceable == ProductionSpec => []LotsTraceable
<1>1. ProductionInit => ProductionInv /\ TraceInv
  BY ProductionInitOK, TraceInitOK DEF ProductionInit
<1>2. ProductionInv /\ TraceInv /\ [ProductionNext]_productionVars
        => (ProductionInv /\ TraceInv)'
  <2>. SUFFICES ASSUME ProductionInv, TraceInv, [ProductionNext]_productionVars
                PROVE  ProductionInv' /\ TraceInv'
    OBVIOUS
  <2>1. CASE UNCHANGED productionVars
    BY <2>1, ProductionIdle, TraceIdle DEF productionVars, ProductionInv
  <2>. QED
    BY <2>1, ProductionNextOK, ProductionNextTraced
<1>. QED
  BY <1>1, <1>2, TraceInvFacts, PTL DEF ProductionSpec

-----------------------------------------------------------------------------
(***************************************************************************)
(* Lots leave INV oldest first.                                            *)
(***************************************************************************)
\* An allocation takes from a lot only when the older ones are empty.
LEMMA FifoInOrder ==
  ASSUME NEW b, BookOK(b), NEW q \in Nat, NEW k \in Lots, NEW l \in Lots, k < l,
         FifoSlices(b, "INV", q, Lots)[l] # 0
  PROVE  FifoSlices(b, "INV", q, Lots)[k] = Positive(b.lotQty["INV"][k])
<1>. DEFINE avail == [j \in Lots |-> IF j \in Lots THEN b.lotQty["INV"][j] ELSE 0]
<1>1. b.lotQty["INV"] \in [Lots -> Int]
  BY BookFields DEF Statuses
<1>2. /\ \A j \in 1..NumLots : avail[j] \in Int
      /\ avail[k] = b.lotQty["INV"][k]
  BY <1>1 DEF Lots
<1>3. q \in Int /\ k \in 1..NumLots /\ l \in 1..NumLots
  BY DEF Lots
<1>4. Take(avail, NumLots, q)[l] # 0
  BY DEF FifoSlices
<1>. HIDE DEF avail
<1>5. Take(avail, NumLots, q)[k] = Positive(avail[k])
  BY <1>2, <1>3, <1>4, TakeInOrder, NumLocsNat
<1>. QED
  BY <1>2, <1>5 DEF FifoSlices, avail

\* No other step takes a lot out of INV.
LEMMA OnlyStagingDraws ==
  ASSUME ProductionInv, [ProductionNext]_productionVars, NEW i \in Items, NEW l \in Lots,
         book'[i].lotQty["INV"][l] < book[i].lotQty["INV"][l]
  PROVE  \E w \in WorkOrders : Stage(w)
<1>1. PlantInv
  BY DEF ProductionInv
<1>2. \A j \in Items : BookOK(book[j])
  BY <1>1 DEF PlantInv, StockInv, BooksOK
<1>3. book = [j \in Items |-> book[j]] /\ "INV" \in Statuses /\ "WIP" \in Statuses
      /\ "QUARANTINE" \in Statuses
  BY <1>1 DEF PlantInv, StockInv, BooksOK, Statuses
<1>4. book[i].lotQty["INV"][l] \in Int
  BY <1>1, <1>3, LotQtyType
<1>5. book'[i].lotQty["INV"][l] # book[i].lotQty["INV"][l]
  BY <1>4
<1>6. book' # book
  BY <1>5
<1>7. ~ (StockNext /\ UNCHANGED lots)
  BY <1>1, <1>3, <1>5, StockKeepsLots DEF PlantInv
<1>8. ASSUME NEW k \in Lots, Approve(k)
      PROVE  FALSE
  <2>. DEFINE j == lots[k].item
              q == lots[k].qty
              slices == At(k, q, NumLots)
  <2>1. j \in Items /\ q \in Nat
    BY <1>1, LotFields DEF PlantInv, LotsOK
  <2>2. PICK to \in PutAway(k) :
          book' = [book EXCEPT ![j] =
            Transfer(@, "QUARANTINE", "INV", k, q, lots[k].loc, to, Defaults)]
    BY <1>6, <1>8 DEF Approve
  <2>3. Covers(book[j], "QUARANTINE", q) /\ to \in Wheres
    BY <1>6, <1>8, PutAwayType DEF Approve
  <2>4. slices \in [Lots -> Nat]
    BY <2>1 DEF At, Lots
  <2>5. "INV" \in Statuses \ {"QUARANTINE"}
    BY <1>3
  <2>. HIDE DEF j, q, slices
  <2>6. Transfer(book[j], "QUARANTINE", "INV", k, q, lots[k].loc, to, Defaults).lotQty["INV"][l]
          = book[j].lotQty["INV"][l] + slices[l]
    <3>1. slices \in [Lots -> Int]
      BY <2>4
    <3>. QED
      BY <1>2, <1>3, <2>1, <2>3, <2>5, <3>1, MovedLots DEF Transfer, slices
  <2>7. CASE i = j
    BY <1>3, <1>4, <2>2, <2>4, <2>6, <2>7
  <2>8. CASE i # j
    BY <1>3, <1>5, <2>2, <2>8
  <2>. QED
    BY <2>7, <2>8
<1>9. ASSUME NEW k \in Lots, NEW q \in Quantity, ReturnToVendor(k, q)
      PROVE  FALSE
  <2>. DEFINE j == lots[k].item
              slices == At(k, q, NumLots)
  <2>1. j \in Items
    BY <1>1, LotFields DEF PlantInv, LotsOK
  <2>2. book' = [book EXCEPT ![j] =
          PostOut(book[j], "QUARANTINE", slices, q, lots[k].loc, Defaults)]
    BY <1>3, <1>9, <2>1 DEF ReturnToVendor, ReturnFits, LotReturned
  <2>3. PostOut(book[j], "QUARANTINE", slices, q, lots[k].loc, Defaults).lotQty["INV"][l]
          = book[j].lotQty["INV"][l]
    BY <1>2, <1>3, <2>1, LotsOut
  <2>. QED
    BY <1>3, <1>5, <2>1, <2>2, <2>3
<1>10. ASSUME NEW j \in Items, NEW q \in Quantity, PackOff(j, q)
       PROVE  FALSE
  <2>. DEFINE slices == Take(Packable(j), NumLots, q)
              b == PostIn(PostOut(book[j], "WIP", slices, q, NoLoc, Defaults),
                          "INV", slices, q, ResolveInbound("INV"))
  <2>1. q \in Nat /\ q \in Int /\ Covers(book[j], "WIP", q)
    BY <1>10, StockAssumption DEF PackOff
  <2>2. \A k \in 1..NumLots : Packable(j)[k] \in Int
    BY <1>1, LotFields DEF Packable, Lots, PlantInv, LotsOK
  <2>3. slices \in [Lots -> Nat]
    BY <2>1, <2>2, TakeBounds, NumLocsNat DEF Lots
  <2>4. book' = [book EXCEPT ![j] = b]
    BY <1>10 DEF PackOff
  <2>5. slices \in [Lots -> Int] /\ ResolveInbound("INV") \in Wheres
        /\ "INV" \in Statuses \ {"WIP"}
    BY <1>3, <2>3, ResolveInboundType
  <2>. HIDE DEF slices
  <2>6. b.lotQty["INV"][l] = book[j].lotQty["INV"][l] + slices[l]
    BY <1>2, <1>3, <2>1, <2>5, MovedLots
  <2>. HIDE DEF b
  <2>7. CASE i = j
    BY <1>3, <1>4, <2>3, <2>4, <2>6, <2>7
  <2>8. CASE i # j
    BY <1>3, <1>5, <2>4, <2>8
  <2>. QED
    BY <2>7, <2>8
<1>11. ~ (PlantStep /\ UNCHANGED workOrders)
  BY <1>6, <1>7, <1>8, <1>9, <1>10 DEF PlantStep, QualityStep, RecordResults, ResultsAfter, Reject
<1>12. ASSUME NEW w \in WorkOrders, NEW j \in Items, NEW q \in Quantity, Pour(w, j, q)
       PROVE  FALSE
  BY <1>2, <1>3, <1>5, <1>12, NoLotsOut DEF Pour
<1>13. ASSUME NEW w \in WorkOrders, Complete(w)
       PROVE  FALSE
  <2>. DEFINE wo == workOrders[w]
              output == At(NextLot, wo.output, NumLots)
              out == IF ValueConsumed(w) THEN 0 ELSE wo.staged[i]
              into == PostIn(book[i], "WIP", output, wo.output, NoLoc)
              consume == PostOut(book[i], "WIP", NoSlices, out, NoLoc, Defaults)
  <2>1. book'[i] = into \/ book'[i] = consume \/ book'[i] = book[i]
    BY <1>13 DEF Complete
  <2>2. into.lotQty["INV"][l] = book[i].lotQty["INV"][l]
    <3>. HIDE DEF wo, output
    <3>. QED
      BY <1>2, <1>3, LotsIn
  <2>3. consume.lotQty["INV"][l] = book[i].lotQty["INV"][l]
    <3>. HIDE DEF out
    <3>. QED
      BY <1>2, <1>3, NoLotsOut
  <2>. HIDE DEF into, consume
  <2>. QED
    BY <1>5, <2>1, <2>2, <2>3
<1>14. \A w \in WorkOrders :
         /\ ~ \E batch \in Batches : CreateWorkOrder(w, batch)
         /\ ~ \E target \in DOMAIN Transitions : SetStatus(w, target)
         /\ ~ CancelWorkOrder(w)
  BY <1>6 DEF CreateWorkOrder, SetStatus, CancelWorkOrder
<1>. QED
  BY <1>6, <1>11, <1>12, <1>13, <1>14 DEF ProductionNext, ProductionStep, productionVars

(***************************************************************************)
(* Whatever mix of lots, unlotted stock and shortfalls the bucket has been *)
(* through, no step takes from a lot while an older one keeps stock        *)
(* (OldestLotFirst).                                                       *)
(***************************************************************************)
THEOREM LotsLeaveInOrder == ProductionSpec => OldestLotFirst
<1>1. ASSUME ProductionInv, [ProductionNext]_productionVars,
             NEW i \in Items, NEW k \in Lots, NEW l \in Lots, k < l,
             book'[i].lotQty["INV"][l] < book[i].lotQty["INV"][l]
      PROVE  book'[i].lotQty["INV"][k] <= 0
  <2>1. PICK w \in WorkOrders : Stage(w)
    BY <1>1, OnlyStagingDraws
  <2>. DEFINE q == workOrders[w].required[i]
              slices == FifoSlices(book[i], "INV", q, Lots)
  <2>2. BookOK(book[i]) /\ "INV" \in Statuses
    BY <1>1 DEF ProductionInv, PlantInv, StockInv, BooksOK, Statuses
  <2>3. \A j \in Lots : book[i].lotQty["INV"][j] \in Int
    BY <2>2, BookFields
  <2>4. i \in Components(w)
    BY <1>1, <2>1, <2>3 DEF Stage
  <2>5. book'[i] = Staged(book[i], q) /\ Covers(book[i], "INV", q)
    BY <2>1, <2>4 DEF Stage
  <2>6. q \in Nat
    BY <1>1, WorkOrderFields DEF ProductionInv
  <2>. HIDE DEF q
  <2>7. \A j \in Lots : book'[i].lotQty["INV"][j] = book[i].lotQty["INV"][j] - slices[j]
    BY <2>2, <2>5, <2>6, StagedLots
  <2>8. slices \in [Lots -> Nat]
    BY <2>2, <2>6, FifoType
  <2>9. slices[l] # 0
    BY <1>1, <2>3, <2>7, <2>8
  <2>10. slices[k] = Positive(book[i].lotQty["INV"][k])
    BY <1>1, <2>2, <2>6, <2>9, FifoInOrder
  <2>. HIDE DEF slices
  <2>. QED
    BY <2>3, <2>7, <2>10 DEF Positive
<1>2. ProductionInv /\ [ProductionNext]_productionVars =>
        [\A i \in Items, k, l \in Lots :
           /\ k < l
           /\ book'[i].lotQty["INV"][l] < book[i].lotQty["INV"][l]
           => book'[i].lotQty["INV"][k] <= 0]_productionVars
  BY <1>1
<1>. QED
  BY ProductionInitOK, ProductionStepOK, <1>2, PTL DEF ProductionSpec, OldestLotFirst

-----------------------------------------------------------------------------
(***************************************************************************)
(* The output of a work order.                                             *)
(***************************************************************************)
\* Steps that leave the lots, and whether an order is completed, keep its output.
OrderStays(w) ==
  /\ workOrders'[w].status = "COMPLETED" <=> workOrders[w].status = "COMPLETED"
  /\ workOrders[w].status = "COMPLETED" => workOrders'[w] = workOrders[w]

\* Planning, staging, pours, status changes and cancellation complete no order.
LEMMA OrdersStay ==
  ASSUME ProductionInv, NEW w \in WorkOrders, NEW v \in WorkOrders,
         \/ \E batch \in Batches : CreateWorkOrder(v, batch)
         \/ Stage(v)
         \/ \E i \in Items, q \in Quantity : Pour(v, i, q)
         \/ \E target \in DOMAIN Transitions : SetStatus(v, target)
         \/ CancelWorkOrder(v)
  PROVE  OrderStays(w) /\ lots' = lots
<1>1. workOrders \in [WorkOrders -> WorkOrderRows] /\ workOrders[v] \in WorkOrderRows
  BY DEF ProductionInv
<1>2. ASSUME NEW batch \in Batches, CreateWorkOrder(v, batch)
      PROVE  OrderStays(w) /\ lots' = lots
  BY <1>1, <1>2 DEF CreateWorkOrder, OrderStays
<1>3. CASE Stage(v)
  BY <1>1, <1>3 DEF Stage, OrderStays, WorkOrderRows
<1>4. ASSUME NEW i \in Items, NEW q \in Quantity, Pour(v, i, q)
      PROVE  OrderStays(w) /\ lots' = lots
  BY <1>1, <1>4 DEF Pour, OrderStays, WorkOrderRows
<1>5. ASSUME NEW target \in DOMAIN Transitions, SetStatus(v, target)
      PROVE  OrderStays(w) /\ lots' = lots
  <2>1. target # "COMPLETED" /\ workOrders[v].status # "COMPLETED"
    BY <1>5 DEF SetStatus, Transitions
  <2>. QED
    BY <1>1, <1>5, <2>1 DEF SetStatus, OrderStays, WorkOrderRows
<1>6. CASE CancelWorkOrder(v)
  BY <1>1, <1>6 DEF CancelWorkOrder, OrderStays, WorkOrderRows
<1>. QED
  BY <1>2, <1>3, <1>4, <1>5, <1>6

\* When every lot stays what it is, so do the output lots of every order.
LEMMA OutputStays ==
  ASSUME \A l \in Lots : SameLot(l), NEW w \in WorkOrders, OrderStays(w),
         OutputMatchesOrder
  PROVE  /\ OutputLots(w)' = OutputLots(w)
         /\ IF workOrders'[w].status = "COMPLETED"
            THEN \E l \in Lots : /\ OutputLots(w)' = {l}
                                 /\ lots'[l].item = workOrders'[w].target
                                 /\ lots'[l].qty = workOrders'[w].output
            ELSE OutputLots(w)' = {}
<1>1. OutputLots(w)' = OutputLots(w)
  BY DEF OutputLots, SameLot
<1>2. CASE workOrders[w].status = "COMPLETED"
  <2>1. PICK l \in Lots : /\ OutputLots(w) = {l}
                          /\ lots[l].item = workOrders[w].target
                          /\ lots[l].qty = workOrders[w].output
    BY <1>2 DEF OutputMatchesOrder
  <2>2. workOrders'[w] = workOrders[w] /\ SameLot(l)
    BY <1>2 DEF OrderStays
  <2>. QED
    BY <1>1, <1>2, <2>1, <2>2 DEF SameLot
<1>3. CASE workOrders[w].status # "COMPLETED"
  BY <1>1, <1>3 DEF OutputMatchesOrder, OrderStays
<1>. QED
  BY <1>1, <1>2, <1>3

\* Completion gives the order the lot it opens, and no other order any.
LEMMA CompleteOutput ==
  ASSUME ProductionInv, OutputMatchesOrder, NEW v \in WorkOrders, Complete(v)
  PROVE  OutputMatchesOrder'
<1>. DEFINE lot == NewLot(workOrders[v].target, "PRODUCTION", <<v, 0>>,
                          workOrders[v].output, NoLoc)
<1>1. NextLot \in FreeLots
  BY NextLotFree DEF Complete
<1>2. PICK n \in Lots : n = NextLot /\ lots[n].qc = "NONE"
  BY <1>1 DEF FreeLots
<1>3. lots = [k \in Lots |-> lots[k]] /\ lots' = [lots EXCEPT ![n] = lot]
  BY <1>2 DEF Complete, ProductionInv, PlantInv, LotsOK
<1>4. lots'[n] = lot /\ \A k \in Lots \ {n} : lots'[k] = lots[k]
  BY <1>3
<1>5. /\ lot.item = workOrders[v].target /\ lot.origin = "PRODUCTION"
      /\ lot.source = <<v, 0>> /\ lot.qty = workOrders[v].output /\ lot.qc = "PENDING"
  BY DEF NewLot
<1>6. /\ workOrders[v].status # "COMPLETED" /\ workOrders'[v].status = "COMPLETED"
      /\ workOrders'[v].target = workOrders[v].target
      /\ workOrders'[v].output = workOrders[v].output
      /\ \A w \in WorkOrders \ {v} : workOrders'[w] = workOrders[w]
  BY DEF Complete, ProductionInv, WorkOrderRows
<1>. HIDE DEF lot
<1>7. OutputLots(v) = {}
  BY <1>6 DEF OutputMatchesOrder
<1>8. OutputLots(v)' = {n}
  BY <1>4, <1>5, <1>7 DEF OutputLots
<1>9. ASSUME NEW w \in WorkOrders \ {v}
      PROVE  OutputLots(w)' = OutputLots(w)
  <2>1. <<v, 0>> # <<w, 0>>
    OBVIOUS
  <2>. QED
    BY <1>2, <1>4, <1>5, <2>1 DEF OutputLots
<1>10. ASSUME NEW w \in WorkOrders \ {v}
       PROVE  IF workOrders'[w].status = "COMPLETED"
              THEN \E l \in Lots : /\ OutputLots(w)' = {l}
                                   /\ lots'[l].item = workOrders'[w].target
                                   /\ lots'[l].qty = workOrders'[w].output
              ELSE OutputLots(w)' = {}
  <2>1. CASE workOrders[w].status = "COMPLETED"
    <3>1. PICK l \in Lots : /\ OutputLots(w) = {l}
                            /\ lots[l].item = workOrders[w].target
                            /\ lots[l].qty = workOrders[w].output
      BY <2>1 DEF OutputMatchesOrder
    <3>2. l # n
      BY <1>2, <3>1 DEF OutputLots
    <3>. QED
      BY <1>4, <1>6, <1>9, <2>1, <3>1, <3>2
  <2>2. CASE workOrders[w].status # "COMPLETED"
    BY <1>6, <1>9, <2>2 DEF OutputMatchesOrder
  <2>. QED
    BY <2>1, <2>2
<1>. QED
  BY <1>4, <1>5, <1>6, <1>8, <1>10 DEF OutputMatchesOrder

(***************************************************************************)
(* A completed order has exactly one output lot, of its target and its     *)
(* output quantity, and no other order has any (OutputMatchesOrder).       *)
(***************************************************************************)
THEOREM OneOutputLot == ProductionSpec => []OutputMatchesOrder
<1>1. ASSUME ProductionInit
      PROVE  OutputMatchesOrder
  <2>1. \A l \in Lots : lots[l].qc = "NONE"
    BY <1>1 DEF ProductionInit, QualityInit, NoLotRow
  <2>. QED
    BY <1>1, <2>1 DEF ProductionInit, NoWorkOrder, OutputMatchesOrder, OutputLots
<1>2. ASSUME ProductionInv, OutputMatchesOrder, [ProductionNext]_productionVars
      PROVE  OutputMatchesOrder'
  <2>1. ASSUME \A l \in Lots : SameLot(l), \A w \in WorkOrders : OrderStays(w)
        PROVE  OutputMatchesOrder'
    BY <1>2, <2>1, OutputStays DEF OutputMatchesOrder
  <2>2. CASE UNCHANGED productionVars
    BY <2>1, <2>2 DEF productionVars, SameLot, OrderStays
  <2>3. CASE PlantStep /\ UNCHANGED workOrders
    BY <1>2, <2>1, <2>3, PlantStepKeepsLots DEF ProductionInv, OrderStays
  <2>4. ASSUME NEW v \in WorkOrders,
               \/ \E batch \in Batches : CreateWorkOrder(v, batch)
               \/ Stage(v)
               \/ \E i \in Items, q \in Quantity : Pour(v, i, q)
               \/ \E target \in DOMAIN Transitions : SetStatus(v, target)
               \/ CancelWorkOrder(v)
        PROVE  OutputMatchesOrder'
    BY <1>2, <2>1, <2>4, OrdersStay DEF SameLot
  <2>. QED
    BY <1>2, <2>2, <2>3, <2>4, CompleteOutput DEF ProductionNext, ProductionStep
<1>. QED
  BY <1>1, <1>2, ProductionInitOK, ProductionStepOK, PTL DEF ProductionSpec

-----------------------------------------------------------------------------
(***************************************************************************)
(* Pours and completion.                                                   *)
(***************************************************************************)
\* No order asks for what it makes.
TargetsApart == \A w \in WorkOrders : workOrders[w].required[workOrders[w].target] = 0

LEMMA TargetsStayApart ==
  ASSUME ProductionInv, TargetsApart, [ProductionNext]_productionVars
  PROVE  TargetsApart'
<1>1. ASSUME NEW w \in WorkOrders, NEW batch \in Batches, CreateWorkOrder(w, batch)
      PROVE  TargetsApart'
  BY <1>1, ProductionAssumption DEF TargetsApart, CreateWorkOrder, ProductionInv
<1>2. ASSUME \A w \in WorkOrders : /\ workOrders'[w].required = workOrders[w].required
                                   /\ workOrders'[w].target = workOrders[w].target
      PROVE  TargetsApart'
  BY <1>2 DEF TargetsApart
<1>3. ASSUME NEW w \in WorkOrders,
             \/ Stage(w)
             \/ \E i \in Items, q \in Quantity : Pour(w, i, q)
             \/ \E target \in DOMAIN Transitions : SetStatus(w, target)
             \/ Complete(w)
             \/ CancelWorkOrder(w)
      PROVE  \A v \in WorkOrders : /\ workOrders'[v].required = workOrders[v].required
                                   /\ workOrders'[v].target = workOrders[v].target
  <2>1. \A v \in WorkOrders : workOrders[v] \in WorkOrderRows
    BY DEF ProductionInv
  <2>2. ASSUME Stage(w)
        PROVE  \A v \in WorkOrders : /\ workOrders'[v].required = workOrders[v].required
                                     /\ workOrders'[v].target = workOrders[v].target
    BY <2>1, <2>2 DEF Stage, ProductionInv, WorkOrderRows
  <2>3. ASSUME NEW i \in Items, NEW q \in Quantity, Pour(w, i, q)
        PROVE  \A v \in WorkOrders : /\ workOrders'[v].required = workOrders[v].required
                                     /\ workOrders'[v].target = workOrders[v].target
    BY <2>1, <2>3 DEF Pour, ProductionInv, WorkOrderRows
  <2>4. ASSUME NEW target \in DOMAIN Transitions, SetStatus(w, target)
        PROVE  \A v \in WorkOrders : /\ workOrders'[v].required = workOrders[v].required
                                     /\ workOrders'[v].target = workOrders[v].target
    BY <2>1, <2>4 DEF SetStatus, ProductionInv, WorkOrderRows
  <2>5. ASSUME Complete(w)
        PROVE  \A v \in WorkOrders : /\ workOrders'[v].required = workOrders[v].required
                                     /\ workOrders'[v].target = workOrders[v].target
    BY <2>1, <2>5 DEF Complete, ProductionInv, WorkOrderRows
  <2>6. ASSUME CancelWorkOrder(w)
        PROVE  \A v \in WorkOrders : /\ workOrders'[v].required = workOrders[v].required
                                     /\ workOrders'[v].target = workOrders[v].target
    BY <2>1, <2>6 DEF CancelWorkOrder, ProductionInv, WorkOrderRows
  <2>. QED
    BY <1>3, <2>2, <2>3, <2>4, <2>5, <2>6
<1>4. CASE UNCHANGED workOrders
  BY <1>2, <1>4
<1>. QED
  BY <1>1, <1>2, <1>3, <1>4 DEF ProductionNext, ProductionStep, productionVars

\* Posting nothing out of WIP changes nothing.
LEMMA NothingOut ==
  ASSUME NEW b, BookOK(b)
  PROVE  PostOut(b, "WIP", NoSlices, 0, NoLoc, Defaults) = b
<1>. DEFINE d == PostOut(b, "WIP", NoSlices, 0, NoLoc, Defaults)
            lotQty == [b.lotQty EXCEPT !["WIP"] = [l \in Lots |-> @[l] - NoSlices[l]]]
            cell == [t \in Located |-> IF t = "WIP" THEN Remove(b.cell[t], 0, NoLoc, Defaults)
                                       ELSE b.cell[t]]
<1>1. \A l \in 1..NumLots : NoSlices[l] = 0
  BY DEF NoSlices, Zero
<1>2. Sum(NoSlices, NumLots) = 0
  BY <1>1, SumZero, NumLocsNat
<1>3. /\ b = [onHand |-> b.onHand, unlotted |-> b.unlotted, lotQty |-> b.lotQty,
              cell |-> b.cell]
      /\ b.onHand \in [Statuses -> Nat] /\ b.unlotted \in [Statuses -> Int]
      /\ b.lotQty \in [Statuses -> [Lots -> Int]] /\ b.cell \in [Located -> Columns]
      /\ "WIP" \in Statuses /\ "WIP" \notin Located
  BY BookFields DEF Statuses, Located
<1>4. [b.onHand EXCEPT !["WIP"] = @ - 0] = b.onHand
  BY <1>3
<1>5. [b.unlotted EXCEPT !["WIP"] = @ - (0 - Sum(NoSlices, NumLots))] = b.unlotted
  BY <1>2, <1>3
<1>6. lotQty = b.lotQty
  <2>1. b.lotQty["WIP"] \in [Lots -> Int]
    BY <1>3
  <2>2. PICK g \in [Lots -> Int] : g = b.lotQty["WIP"]
    BY <2>1
  <2>3. \A l \in Lots : g[l] - NoSlices[l] = g[l]
    <3>. HIDE DEF d, lotQty, cell
    <3>1. \A l \in Lots : NoSlices[l] = 0 /\ g[l] \in Int
      BY <1>1, <2>2 DEF Lots
    <3>. QED
      BY <3>1
  <2>4. [l \in Lots |-> g[l] - NoSlices[l]] = g
    BY <2>2, <2>3
  <2>5. lotQty = [b.lotQty EXCEPT !["WIP"] = g]
    BY <1>3, <2>2, <2>4
  <2>. HIDE DEF lotQty
  <2>. QED
    BY <1>3, <2>2, <2>5
<1>7. cell = b.cell
  BY <1>3
<1>8. d = [onHand   |-> [b.onHand EXCEPT !["WIP"] = @ - 0],
           unlotted |-> [b.unlotted EXCEPT !["WIP"] = @ - (0 - Sum(NoSlices, NumLots))],
           lotQty   |-> lotQty,
           cell     |-> cell]
  BY DEF PostOut
<1>. HIDE DEF d, lotQty, cell
<1>9. d = b
  BY <1>3, <1>4, <1>5, <1>6, <1>7, <1>8
<1>. QED
  BY <1>9 DEF d

(***************************************************************************)
(* "If any pours were posted, that consumption already stands": when every *)
(* material has a cost, completing an order consumes nothing again of what *)
(* was poured (PouredConsumptionStands).  The hypothesis is the one that   *)
(* the code makes by deciding from the value of the pours; the run         *)
(* free_material shows that it is needed.                                  *)
(***************************************************************************)
THEOREM PoursStand ==
  ASSUME Free = {}
  PROVE  ProductionSpec => PouredConsumptionStands
<1>1. ASSUME ProductionInv, TargetsApart, [ProductionNext]_productionVars,
             NEW w \in WorkOrders, workOrders[w].status # "COMPLETED",
             workOrders'[w].status = "COMPLETED", workOrders[w].consumed # Nothing
      PROVE  /\ workOrders'[w].consumed = workOrders[w].consumed
             /\ \A i \in Components(w) : book'[i] = book[i]
  <2>1. workOrders[w] \in WorkOrderRows /\ workOrders[w].consumed \in [Items -> Nat]
    BY <1>1, WorkOrderFields DEF ProductionInv
  <2>2. Complete(w)
    <3>1. workOrders' # workOrders
      BY <1>1
    <3>2. ASSUME NEW v \in WorkOrders,
                 \/ \E batch \in Batches : CreateWorkOrder(v, batch)
                 \/ Stage(v)
                 \/ \E i \in Items, q \in Quantity : Pour(v, i, q)
                 \/ \E target \in DOMAIN Transitions : SetStatus(v, target)
                 \/ CancelWorkOrder(v)
          PROVE  FALSE
      BY <1>1, <3>2, OrdersStay DEF OrderStays
    <3>3. ASSUME NEW v \in WorkOrders \ {w}, Complete(v)
          PROVE  FALSE
      BY <1>1, <3>3 DEF Complete, ProductionInv
    <3>. QED
      BY <1>1, <3>1, <3>2, <3>3 DEF ProductionNext, ProductionStep, productionVars
  <2>3. ValueConsumed(w)
    <3>1. PICK i \in Items : workOrders[w].consumed[i] # 0
      BY <1>1, <2>1 DEF Nothing
    <3>2. workOrders[w].consumed[i] > 0
      BY <2>1, <3>1
    <3>. QED
      BY <3>2 DEF ValueConsumed
  <2>4. workOrders'[w].consumed = workOrders[w].consumed
    BY <1>1, <2>1, <2>2, <2>3 DEF Complete, ProductionInv, WorkOrderRows
  <2>5. ASSUME NEW i \in Components(w)
        PROVE  book'[i] = book[i]
    <3>1. i \in Items /\ i # workOrders[w].target
      BY <1>1 DEF Components, TargetsApart
    <3>2. book'[i] = PostOut(book[i], "WIP", NoSlices, 0, NoLoc, Defaults)
      BY <2>2, <2>3, <3>1 DEF Complete
    <3>3. BookOK(book[i])
      BY <1>1, <3>1 DEF ProductionInv, PlantInv, StockInv, BooksOK
    <3>. QED
      BY <3>2, <3>3, NothingOut
  <2>. QED
    BY <2>4, <2>5
<1>2. ProductionInit => TargetsApart
  <2>1. NoWorkOrder.target \in Items /\ NoWorkOrder.required = Nothing
    BY QualityAssumption DEF NoWorkOrder
  <2>2. Nothing[NoWorkOrder.target] = 0
    BY <2>1 DEF Nothing
  <2>. HIDE DEF NoWorkOrder
  <2>. QED
    BY <2>1, <2>2 DEF ProductionInit, TargetsApart
<1>3. ProductionInv /\ TargetsApart /\ [ProductionNext]_productionVars => TargetsApart'
  BY TargetsStayApart
<1>4. ProductionInv /\ TargetsApart /\ [ProductionNext]_productionVars =>
        [\A w \in WorkOrders :
           /\ workOrders[w].status # "COMPLETED" /\ workOrders'[w].status = "COMPLETED"
           /\ workOrders[w].consumed # Nothing
           => /\ workOrders'[w].consumed = workOrders[w].consumed
              /\ \A i \in Components(w) : book'[i] = book[i]]_productionVars
  BY <1>1
<1>. QED
  BY ProductionInitOK, ProductionStepOK, <1>2, <1>3, <1>4, PTL
     DEF ProductionSpec, PouredConsumptionStands

-----------------------------------------------------------------------------
(***************************************************************************)
(* WIP follows the orders: the invariant behind it is that an order has    *)
(* staged nothing or what it requires, and nothing before it is staged.    *)
(***************************************************************************)
StagedAsRequired ==
  \A w \in WorkOrders :
    /\ workOrders[w].status \in {"NONE", "PLANNED"} =>
         workOrders[w].staged = Nothing /\ workOrders[w].consumed = Nothing
    /\ workOrders[w].staged \in {Nothing, workOrders[w].required}

FlowInv == ProductionInv /\ TargetsApart /\ StagedAsRequired

\* Every step of an order keeps it.
LEMMA StagedStays ==
  ASSUME FlowInv, [ProductionNext]_productionVars
  PROVE  StagedAsRequired'
<1>1. \A v \in WorkOrders : workOrders[v] \in WorkOrderRows
  BY DEF FlowInv, ProductionInv
<1>2. workOrders = [v \in WorkOrders |-> workOrders[v]]
  BY DEF FlowInv, ProductionInv
<1>3. ASSUME NEW w \in WorkOrders, NEW row, workOrders' = [workOrders EXCEPT ![w] = row],
             /\ row.status \in {"NONE", "PLANNED"} => row.staged = Nothing /\ row.consumed = Nothing
             /\ row.staged \in {Nothing, row.required}
      PROVE  StagedAsRequired'
  BY <1>2, <1>3 DEF StagedAsRequired, FlowInv
<1>4. ASSUME NEW w \in WorkOrders, NEW batch \in Batches, CreateWorkOrder(w, batch)
      PROVE  StagedAsRequired'
  <2>. DEFINE row == [ status |-> "PLANNED", target |-> batch.target, output |-> batch.output,
                       required |-> batch.required, staged |-> Nothing, consumed |-> Nothing ]
  <2>1. workOrders' = [workOrders EXCEPT ![w] = row]
    BY <1>4 DEF CreateWorkOrder
  <2>2. row.staged = Nothing /\ row.consumed = Nothing
    OBVIOUS
  <2>. HIDE DEF row
  <2>. QED
    BY <1>3, <2>1, <2>2
<1>5. ASSUME NEW w \in WorkOrders, Stage(w)
      PROVE  StagedAsRequired'
  <2>. DEFINE row == [workOrders[w] EXCEPT !.status = "STAGED", !.staged = workOrders[w].required]
  <2>1. workOrders' = [workOrders EXCEPT ![w] = row]
    BY <1>2, <1>5 DEF Stage
  <2>2. row.status = "STAGED" /\ row.staged = row.required
    BY <1>1 DEF WorkOrderRows
  <2>. HIDE DEF row
  <2>. QED
    BY <1>3, <2>1, <2>2
<1>6. ASSUME NEW w \in WorkOrders, NEW i \in Items, NEW q \in Quantity, Pour(w, i, q)
      PROVE  StagedAsRequired'
  <2>. DEFINE row == [workOrders[w] EXCEPT
                        !.status = "IN_PROGRESS",
                        !.consumed = [workOrders[w].consumed EXCEPT ![i] = @ + q]]
  <2>1. workOrders' = [workOrders EXCEPT ![w] = row]
    BY <1>1, <1>2, <1>6 DEF Pour, WorkOrderRows
  <2>2. /\ row.status = "IN_PROGRESS" /\ row.staged = workOrders[w].staged
        /\ row.required = workOrders[w].required
    BY <1>1 DEF WorkOrderRows
  <2>3. workOrders[w].staged \in {Nothing, workOrders[w].required}
    BY DEF FlowInv, StagedAsRequired
  <2>. HIDE DEF row
  <2>. QED
    BY <1>3, <2>1, <2>2, <2>3
<1>7. ASSUME NEW w \in WorkOrders, NEW target, target \in {"IN_PROGRESS", "ON_HOLD", "CANCELLED"},
             workOrders' = [workOrders EXCEPT ![w].status = target]
      PROVE  StagedAsRequired'
  <2>. DEFINE row == [workOrders[w] EXCEPT !.status = target]
  <2>1. workOrders' = [workOrders EXCEPT ![w] = row]
    BY <1>2, <1>7
  <2>2. /\ row.status = target /\ row.staged = workOrders[w].staged
        /\ row.required = workOrders[w].required
    BY <1>1 DEF WorkOrderRows
  <2>3. workOrders[w].staged \in {Nothing, workOrders[w].required}
    BY DEF FlowInv, StagedAsRequired
  <2>. HIDE DEF row
  <2>. QED
    BY <1>3, <1>7, <2>1, <2>2, <2>3
<1>8. ASSUME NEW w \in WorkOrders, Complete(w)
      PROVE  StagedAsRequired'
  <2>. DEFINE consumed == IF ValueConsumed(w) THEN workOrders[w].consumed ELSE workOrders[w].staged
              row == [workOrders[w] EXCEPT !.status = "COMPLETED", !.consumed = consumed]
  <2>1. workOrders' = [workOrders EXCEPT ![w] = row]
    BY <1>1, <1>2, <1>8 DEF Complete, WorkOrderRows
  <2>2. /\ row.status = "COMPLETED" /\ row.staged = workOrders[w].staged
        /\ row.required = workOrders[w].required
    BY <1>1 DEF WorkOrderRows
  <2>3. workOrders[w].staged \in {Nothing, workOrders[w].required}
    BY DEF FlowInv, StagedAsRequired
  <2>. HIDE DEF row
  <2>. QED
    BY <1>3, <2>1, <2>2, <2>3
<1>9. CASE UNCHANGED workOrders
  BY <1>9 DEF FlowInv, StagedAsRequired
<1>10. ASSUME NEW w \in WorkOrders, NEW target \in DOMAIN Transitions, SetStatus(w, target)
       PROVE  StagedAsRequired'
  BY <1>7, <1>10 DEF SetStatus, Transitions
<1>11. ASSUME NEW w \in WorkOrders, CancelWorkOrder(w)
       PROVE  StagedAsRequired'
  BY <1>7, <1>11 DEF CancelWorkOrder
<1>. QED
  BY <1>4, <1>5, <1>6, <1>8, <1>9, <1>10, <1>11
     DEF ProductionNext, ProductionStep, productionVars

\* What is in process moves with the quantities of one order.
Held(w, i) == workOrders[w].staged[i] - workOrders[w].consumed[i]

LEMMA HeldType ==
  ASSUME ProductionInv, NEW w \in WorkOrders, NEW i \in Items
  PROVE  Held(w, i) \in Int
<1>1. workOrders[w].staged[i] \in Nat /\ workOrders[w].consumed[i] \in Nat
  BY WorkOrderFields DEF ProductionInv
<1>. QED
  BY <1>1 DEF Held

LEMMA InProcessType ==
  ASSUME ProductionInv, NEW i \in Items
  PROVE  InProcess(i) \in Int
<1>. DEFINE f == [w \in WorkOrders |-> workOrders[w].staged[i] - workOrders[w].consumed[i]]
<1>1. \A w \in 1..NumWorkOrders : f[w] \in Int
  BY HeldType DEF Held, WorkOrders
<1>2. NumWorkOrders \in Nat /\ NumWorkOrders \in 0..NumWorkOrders
  BY ProductionAssumption
<1>. HIDE DEF f
<1>3. Sum(f, NumWorkOrders) \in Int
  BY <1>1, <1>2, SumInt
<1>. QED
  BY <1>3 DEF InProcess, f

LEMMA InProcessMoves ==
  ASSUME ProductionInv, NEW i \in Items, NEW w \in WorkOrders, NEW d \in Int,
         \A v \in WorkOrders : Held(v, i)' = Held(v, i) + (IF v = w THEN d ELSE 0)
  PROVE  InProcess(i)' = InProcess(i) + d
<1>. DEFINE f == [v \in WorkOrders |-> workOrders[v].staged[i] - workOrders[v].consumed[i]]
            h == [v \in WorkOrders |-> workOrders'[v].staged[i] - workOrders'[v].consumed[i]]
            a == At(w, d, NumWorkOrders)
<1>1. NumWorkOrders \in Nat /\ w \in Int /\ w \in 1..NumWorkOrders
  BY ProductionAssumption DEF WorkOrders
<1>2. Sum(a, NumWorkOrders) = d
  BY <1>1, SumAt
<1>3. \A v \in 1..NumWorkOrders : f[v] \in Int /\ a[v] \in Int /\ h[v] = f[v] + a[v]
  <2>1. \A v \in WorkOrders : f[v] \in Int
    BY HeldType DEF Held
  <2>2. \A v \in WorkOrders : h[v] = f[v] + (IF v = w THEN d ELSE 0)
    BY DEF Held
  <2>3. \A v \in WorkOrders : a[v] = IF v = w THEN d ELSE 0
    BY DEF At, WorkOrders
  <2>. HIDE DEF f, h, a
  <2>. QED
    BY <2>1, <2>2, <2>3 DEF WorkOrders
<1>. HIDE DEF f, h, a
<1>4. Sum(h, NumWorkOrders) = Sum(f, NumWorkOrders) + Sum(a, NumWorkOrders)
  BY <1>1, <1>3, SumAdd
<1>5. InProcess(i) = Sum(f, NumWorkOrders) /\ InProcess(i)' = Sum(h, NumWorkOrders)
  BY DEF InProcess, f, h
<1>. QED
  BY <1>2, <1>4, <1>5

\* A step that gives one order a new row moves both sides by what the row gains.
LEMMA WipFollows ==
  ASSUME FlowInv, NEW i \in Items, NEW w \in WorkOrders, NEW row,
         workOrders' = [workOrders EXCEPT ![w] = row],
         row.staged[i] \in Nat, row.consumed[i] \in Nat,
         book'[i].unlotted["WIP"] = book[i].unlotted["WIP"]
           + ((row.staged[i] - row.consumed[i]) - Held(w, i))
  PROVE  UnlottedWip(i)' - UnlottedWip(i) = InProcess(i)' - InProcess(i)
<1>1. ProductionInv
  BY DEF FlowInv
<1>2. PICK d \in Int : d = (row.staged[i] - row.consumed[i]) - Held(w, i)
  BY <1>1, HeldType
<1>3. \A v \in WorkOrders : Held(v, i)' = Held(v, i) + (IF v = w THEN d ELSE 0)
  <2>1. \A v \in WorkOrders : Held(v, i) \in Int
    BY <1>1, HeldType
  <2>2. workOrders'[w] = row /\ \A v \in WorkOrders \ {w} : workOrders'[v] = workOrders[v]
    BY <1>1 DEF ProductionInv
  <2>3. Held(w, i)' = row.staged[i] - row.consumed[i]
    BY <2>2 DEF Held
  <2>4. \A v \in WorkOrders \ {w} : Held(v, i)' = Held(v, i)
    BY <2>2 DEF Held
  <2>. QED
    BY <1>2, <2>1, <2>3, <2>4
<1>4. InProcess(i)' = InProcess(i) + d
  BY <1>1, <1>3, InProcessMoves
<1>5. book[i].unlotted["WIP"] \in Int
  BY <1>1, UnlottedType DEF ProductionInv, Statuses
<1>. QED
  BY <1>1, <1>2, <1>4, <1>5, InProcessType DEF UnlottedWip

\* Staging puts into WIP, without a lot, what the order requires.
LEMMA StageFollows ==
  ASSUME FlowInv, NEW w \in WorkOrders, Stage(w), NEW i \in Items
  PROVE  UnlottedWip(i)' - UnlottedWip(i) = InProcess(i)' - InProcess(i)
<1>. DEFINE row == [workOrders[w] EXCEPT !.status = "STAGED", !.staged = workOrders[w].required]
            q == workOrders[w].required[i]
<1>1. workOrders[w] \in WorkOrderRows /\ workOrders = [v \in WorkOrders |-> workOrders[v]]
  BY DEF FlowInv, ProductionInv
<1>2. /\ workOrders[w].required \in [Items -> Nat] /\ q \in Nat
      /\ workOrders[w].staged = Nothing /\ workOrders[w].consumed = Nothing
  BY <1>1, WorkOrderFields DEF Stage, FlowInv, StagedAsRequired
<1>3. workOrders' = [workOrders EXCEPT ![w] = row]
  BY <1>1 DEF Stage
<1>4. row.staged[i] = q /\ row.consumed[i] = 0 /\ Held(w, i) = 0
  BY <1>1, <1>2 DEF WorkOrderRows, Nothing, Held
<1>5. BookOK(book[i]) /\ book[i].unlotted["WIP"] \in Int /\ "WIP" \in Statuses /\ "INV" \in Statuses
  BY UnlottedType DEF FlowInv, ProductionInv, PlantInv, StockInv, BooksOK, Statuses
<1>9. row.staged[i] \in Nat /\ row.consumed[i] \in Nat
  BY <1>2, <1>4
<1>6. CASE i \in Components(w)
  <2>1. book'[i] = Staged(book[i], q) /\ Covers(book[i], "INV", q)
    BY <1>6 DEF Stage
  <2>. DEFINE slices == FifoSlices(book[i], "INV", q, Lots)
              c == PostOut(book[i], "INV", slices, q, NoLoc, Defaults)
  <2>2. slices \in [Lots -> Int]
    <3>1. slices \in [Lots -> Nat]
      BY <1>2, <1>5, FifoType
    <3>. HIDE DEF slices
    <3>. QED
      BY <3>1
  <2>3. BookOK(c) /\ c.unlotted["WIP"] = book[i].unlotted["WIP"]
    <3>. HIDE DEF slices, q
    <3>. QED
      BY <1>2, <1>5, <2>1, <2>2, PostOutOK, UnlottedOut
  <2>4. book'[i] = PostIn(c, "WIP", NoSlices, q, NoLoc)
    BY <2>1 DEF Staged
  <2>. HIDE DEF c, q
  <2>5. book'[i].unlotted["WIP"] = c.unlotted["WIP"] + (q - Sum(NoSlices, NumLots))
    BY <1>5, <2>3, <2>4, UnlottedIn
  <2>6. book'[i].unlotted["WIP"] =
          book[i].unlotted["WIP"] + ((row.staged[i] - row.consumed[i]) - Held(w, i))
    <3>. HIDE DEF row
    <3>. QED
      BY <1>2, <1>4, <1>5, <2>3, <2>5, NoSlicesSum
  <2>. HIDE DEF row
  <2>. QED
    BY <1>3, <1>9, <2>6, WipFollows
<1>7. CASE i \notin Components(w)
  <2>1. q = 0 /\ book'[i] = book[i]
    BY <1>2, <1>7 DEF Components, Stage
  <2>2. book'[i].unlotted["WIP"] =
          book[i].unlotted["WIP"] + ((row.staged[i] - row.consumed[i]) - Held(w, i))
    <3>. HIDE DEF row
    <3>. QED
      BY <1>4, <1>5, <2>1
  <2>. HIDE DEF row
  <2>. QED
    BY <1>3, <1>9, <2>2, WipFollows
<1>. QED
  BY <1>6, <1>7

\* A pour takes out of WIP, without a lot, what it adds to the line of the order.
LEMMA PourFollows ==
  ASSUME FlowInv, NEW w \in WorkOrders, NEW j \in Items, NEW p \in Quantity, Pour(w, j, p),
         NEW i \in Items
  PROVE  UnlottedWip(i)' - UnlottedWip(i) = InProcess(i)' - InProcess(i)
<1>. DEFINE row == [workOrders[w] EXCEPT !.status = "IN_PROGRESS",
                      !.consumed = [workOrders[w].consumed EXCEPT ![j] = @ + p]]
<1>1. workOrders[w] \in WorkOrderRows /\ workOrders = [v \in WorkOrders |-> workOrders[v]]
  BY DEF FlowInv, ProductionInv
<1>2. /\ workOrders[w].staged \in [Items -> Nat] /\ workOrders[w].consumed \in [Items -> Nat]
      /\ p \in Nat
  BY <1>1, WorkOrderFields, StockAssumption
<1>3. workOrders' = [workOrders EXCEPT ![w] = row]
  BY <1>1 DEF Pour, WorkOrderRows
<1>4. /\ row.staged[i] = workOrders[w].staged[i]
      /\ row.consumed[i] = workOrders[w].consumed[i] + (IF i = j THEN p ELSE 0)
  <2>1. row.staged = workOrders[w].staged
        /\ row.consumed = [workOrders[w].consumed EXCEPT ![j] = @ + p]
    BY <1>1 DEF WorkOrderRows
  <2>. HIDE DEF row
  <2>. QED
    BY <1>2, <2>1
<1>5. BookOK(book[i]) /\ book[i].unlotted["WIP"] \in Int /\ "WIP" \in Statuses
  BY UnlottedType DEF FlowInv, ProductionInv, PlantInv, StockInv, BooksOK, Statuses
<1>6. book'[i] = IF i = j THEN PostOut(book[i], "WIP", NoSlices, p, NoLoc, Defaults) ELSE book[i]
  BY DEF Pour, FlowInv, ProductionInv, PlantInv, StockInv, BooksOK
<1>7. PostOut(book[i], "WIP", NoSlices, p, NoLoc, Defaults).unlotted["WIP"] =
        book[i].unlotted["WIP"] - (p - Sum(NoSlices, NumLots))
  BY <1>5, UnlottedOut
<1>. HIDE DEF row
<1>8. book'[i].unlotted["WIP"] =
        book[i].unlotted["WIP"] + ((row.staged[i] - row.consumed[i]) - Held(w, i))
  BY <1>2, <1>4, <1>5, <1>6, <1>7, NoSlicesSum DEF Held
<1>9. row.staged[i] \in Nat /\ row.consumed[i] \in Nat
  BY <1>2, <1>4
<1>. QED
  BY <1>3, <1>8, <1>9, WipFollows

(***************************************************************************)
(* Completion takes out of WIP what is left of the order when it consumes  *)
(* the staged quantities, and nothing when the pours stand.                *)
(***************************************************************************)
LEMMA CompleteFollows ==
  ASSUME Free = {}, FlowInv, NEW w \in WorkOrders, Complete(w), NEW i \in Items
  PROVE  UnlottedWip(i)' - UnlottedWip(i) = InProcess(i)' - InProcess(i)
<1>. DEFINE wo == workOrders[w]
            consumed == IF ValueConsumed(w) THEN wo.consumed ELSE wo.staged
            row == [wo EXCEPT !.status = "COMPLETED", !.consumed = consumed]
            output == At(NextLot, wo.output, NumLots)
            out == IF ValueConsumed(w) THEN 0 ELSE wo.staged[i]
<1>1. wo \in WorkOrderRows /\ workOrders = [v \in WorkOrders |-> workOrders[v]]
  BY DEF FlowInv, ProductionInv
<1>2. /\ wo.staged \in [Items -> Nat] /\ wo.consumed \in [Items -> Nat]
      /\ wo.required \in [Items -> Nat] /\ wo.output \in Nat /\ wo.target \in Items
  BY <1>1, WorkOrderFields
<1>3. workOrders' = [workOrders EXCEPT ![w] = row]
  BY <1>1 DEF Complete, WorkOrderRows
<1>4. row.staged[i] = wo.staged[i] /\ row.consumed[i] = consumed[i]
  BY <1>1 DEF WorkOrderRows
<1>5. ~ValueConsumed(w) => wo.consumed[i] = 0
  BY <1>2 DEF ValueConsumed
<1>6. wo.required[i] = 0 => wo.staged[i] = 0
  BY DEF FlowInv, StagedAsRequired, Nothing
<1>7. wo.required[wo.target] = 0
  BY DEF FlowInv, TargetsApart
<1>8. BookOK(book[i]) /\ book[i].unlotted["WIP"] \in Int /\ "WIP" \in Statuses
  BY UnlottedType DEF FlowInv, ProductionInv, PlantInv, StockInv, BooksOK, Statuses
<1>9. book'[i] = IF i = wo.target THEN PostIn(book[i], "WIP", output, wo.output, NoLoc)
                 ELSE IF i \in Components(w)
                 THEN PostOut(book[i], "WIP", NoSlices, out, NoLoc, Defaults)
                 ELSE book[i]
  BY DEF Complete
<1>10. Sum(output, NumLots) = wo.output
  <2>1. NextLot \in FreeLots
    BY NextLotFree DEF Complete
  <2>2. PICK n, v : n = NextLot /\ v = wo.output
    OBVIOUS
  <2>3. NumLots \in Nat /\ n \in Int /\ n \in 1..NumLots /\ v \in Int
    BY <1>2, <2>1, <2>2, NumLocsNat DEF FreeLots, Lots
  <2>4. Sum(At(n, v, NumLots), NumLots) = v
    BY <2>3, SumAt
  <2>. QED
    BY <2>2, <2>4
<1>11. PostIn(book[i], "WIP", output, wo.output, NoLoc).unlotted["WIP"] =
         book[i].unlotted["WIP"] + (wo.output - Sum(output, NumLots))
  BY <1>8, UnlottedIn
<1>12. PostOut(book[i], "WIP", NoSlices, out, NoLoc, Defaults).unlotted["WIP"] =
         book[i].unlotted["WIP"] - (out - Sum(NoSlices, NumLots))
  BY <1>8, UnlottedOut
<1>13. out = 0 \/ i \in Components(w)
  BY <1>2, <1>6 DEF Components
<1>14. i = wo.target => out = 0 /\ i \notin Components(w)
  BY <1>2, <1>6, <1>7 DEF Components
<1>15. out \in Nat /\ (row.staged[i] - row.consumed[i]) - Held(w, i) = 0 - out
  <2>1. CASE ValueConsumed(w)
    BY <1>2, <1>4, <2>1 DEF Held
  <2>2. CASE ~ValueConsumed(w)
    BY <1>2, <1>4, <1>5, <2>2 DEF Held
  <2>. HIDE DEF row
  <2>. QED
    BY <2>1, <2>2
<1>16. row.staged[i] \in Nat /\ row.consumed[i] \in Nat
  BY <1>2, <1>4
<1>. HIDE DEF row, out, output, consumed
<1>17. book'[i].unlotted["WIP"] = book[i].unlotted["WIP"] - out
  <2>1. CASE i = wo.target
    BY <1>2, <1>8, <1>9, <1>10, <1>11, <1>14, <2>1
  <2>2. CASE i # wo.target
    BY <1>8, <1>9, <1>12, <1>13, <1>15, <2>2, NoSlicesSum
  <2>. QED
    BY <2>1, <2>2
<1>18. book'[i].unlotted["WIP"] =
         book[i].unlotted["WIP"] + ((row.staged[i] - row.consumed[i]) - Held(w, i))
  BY <1>8, <1>15, <1>17
<1>. QED
  BY <1>3, <1>16, <1>18, WipFollows

\* A step that leaves the book and the quantities of every order alone moves neither side.
LEMMA QuantitiesStay ==
  ASSUME FlowInv, book' = book, NEW i \in Items, NEW w \in WorkOrders, NEW row,
         workOrders' = [workOrders EXCEPT ![w] = row],
         row.staged = workOrders[w].staged, row.consumed = workOrders[w].consumed
  PROVE  UnlottedWip(i)' - UnlottedWip(i) = InProcess(i)' - InProcess(i)
<1>1. workOrders[w].staged[i] \in Nat /\ workOrders[w].consumed[i] \in Nat
  BY WorkOrderFields DEF FlowInv, ProductionInv
<1>2. book[i].unlotted["WIP"] \in Int
  BY UnlottedType DEF FlowInv, ProductionInv, Statuses
<1>3. book'[i].unlotted["WIP"] =
        book[i].unlotted["WIP"] + ((row.staged[i] - row.consumed[i]) - Held(w, i))
  BY <1>1, <1>2 DEF Held
<1>. QED
  BY <1>1, <1>3, WipFollows

(***************************************************************************)
(* Stock in process without a lot moves with the lines of the work orders  *)
(* (WipFollowsOrders): staging, pours and completion move both by the same *)
(* amounts, and nothing but scrap takes from WIP behind the orders.  Like  *)
(* PoursStand it assumes that every material has a cost: completing an     *)
(* order whose pours were of free materials overwrites what they consumed. *)
(***************************************************************************)
THEOREM WipFollowsLines ==
  ASSUME Free = {}
  PROVE  ProductionSpec => WipFollowsOrders
<1>1. ASSUME FlowInv, [ProductionNext]_productionVars, NEW i \in Items
      PROVE  \/ UnlottedWip(i)' - UnlottedWip(i) = InProcess(i)' - InProcess(i)
             \/ UNCHANGED workOrders /\ UnlottedWip(i)' < UnlottedWip(i) /\ lots' = lots
  <2>1. ProductionInv /\ PlantInv /\ UnlottedWip(i) \in Int /\ InProcess(i) \in Int
    BY <1>1, UnlottedType, InProcessType DEF FlowInv, ProductionInv, UnlottedWip, Statuses
  <2>2. CASE UNCHANGED productionVars
    BY <2>1, <2>2 DEF productionVars, UnlottedWip, InProcess
  <2>3. CASE PlantStep /\ UNCHANGED workOrders
    <3>1. InProcess(i)' = InProcess(i)
      BY <2>3 DEF InProcess
    <3>2. CASE QualityStep
      BY <2>1, <3>1, <3>2, QualityUnlotted DEF UnlottedWip
    <3>3. CASE StockNext /\ UNCHANGED lots
      BY <2>1, <2>3, <3>1, <3>3, StockUnlotted DEF UnlottedWip
    <3>. QED
      BY <2>3, <3>2, <3>3 DEF PlantStep
  <2>4. CASE ProductionStep
    <3>1. workOrders = [v \in WorkOrders |-> workOrders[v]]
          /\ \A v \in WorkOrders : workOrders[v] \in WorkOrderRows
      BY <2>1 DEF ProductionInv
    <3>2. ASSUME NEW w \in WorkOrders, NEW batch \in Batches, CreateWorkOrder(w, batch)
          PROVE  UnlottedWip(i)' - UnlottedWip(i) = InProcess(i)' - InProcess(i)
      <4>. DEFINE row == [ status |-> "PLANNED", target |-> batch.target,
                           output |-> batch.output, required |-> batch.required,
                           staged |-> Nothing, consumed |-> Nothing ]
      <4>1. workOrders' = [workOrders EXCEPT ![w] = row] /\ book' = book
        BY <3>2 DEF CreateWorkOrder
      <4>2. row.staged = workOrders[w].staged /\ row.consumed = workOrders[w].consumed
        BY <1>1, <3>2 DEF CreateWorkOrder, FlowInv, StagedAsRequired
      <4>. HIDE DEF row
      <4>. QED
        BY <1>1, <4>1, <4>2, QuantitiesStay
    <3>3. ASSUME NEW w \in WorkOrders, NEW status,
                 workOrders' = [workOrders EXCEPT ![w].status = status], book' = book
          PROVE  UnlottedWip(i)' - UnlottedWip(i) = InProcess(i)' - InProcess(i)
      <4>. DEFINE row == [workOrders[w] EXCEPT !.status = status]
      <4>1. workOrders' = [workOrders EXCEPT ![w] = row]
        BY <3>1, <3>3
      <4>2. row.staged = workOrders[w].staged /\ row.consumed = workOrders[w].consumed
        BY <3>1 DEF WorkOrderRows
      <4>. HIDE DEF row
      <4>. QED
        BY <1>1, <3>3, <4>1, <4>2, QuantitiesStay
    <3>4. ASSUME NEW w \in WorkOrders, NEW target \in DOMAIN Transitions, SetStatus(w, target)
          PROVE  UnlottedWip(i)' - UnlottedWip(i) = InProcess(i)' - InProcess(i)
      BY <3>3, <3>4 DEF SetStatus
    <3>5. ASSUME NEW w \in WorkOrders, CancelWorkOrder(w)
          PROVE  UnlottedWip(i)' - UnlottedWip(i) = InProcess(i)' - InProcess(i)
      BY <3>3, <3>5 DEF CancelWorkOrder
    <3>. QED
      BY <1>1, <2>4, <3>2, <3>4, <3>5, StageFollows, PourFollows, CompleteFollows
         DEF ProductionStep
  <2>. QED
    BY <1>1, <2>2, <2>3, <2>4 DEF ProductionNext
<1>2. ProductionInit => FlowInv
  <2>1. NoWorkOrder.target \in Items /\ NoWorkOrder.required = Nothing
        /\ NoWorkOrder.staged = Nothing /\ NoWorkOrder.consumed = Nothing
    BY QualityAssumption DEF NoWorkOrder
  <2>2. Nothing[NoWorkOrder.target] = 0
    BY <2>1 DEF Nothing
  <2>. HIDE DEF NoWorkOrder
  <2>. QED
    BY <2>1, <2>2, ProductionInitOK DEF ProductionInit, FlowInv, TargetsApart, StagedAsRequired
<1>3. FlowInv /\ [ProductionNext]_productionVars => FlowInv'
  BY ProductionStepOK, TargetsStayApart, StagedStays DEF FlowInv
<1>4. FlowInv /\ [ProductionNext]_productionVars =>
        [\A i \in Items :
           \/ UnlottedWip(i)' - UnlottedWip(i) = InProcess(i)' - InProcess(i)
           \/ /\ UNCHANGED workOrders
              /\ UnlottedWip(i)' < UnlottedWip(i)
              /\ lots' = lots]_productionVars
  BY <1>1
<1>. QED
  BY <1>2, <1>3, <1>4, PTL DEF ProductionSpec, WipFollowsOrders
=============================================================================
