------------------------------ MODULE Fulfilment ------------------------------
(***************************************************************************)
(* Making and delivering what sales orders ask for: the material and the   *)
(* output lot of a work order (production.service.ts), packing and         *)
(* shipping (sales-order.service.ts) and the lots that a shipment may draw *)
(* (StockService.allocateLotsFifo).  It composes the sales and planning    *)
(* side (Scheduler) with the stock and the lots (Quality).                 *)
(*                                                                         *)
(* sold[o][l] is the sum of the SHIPMENT ledger lines of order o for lot   *)
(* l, which is what tracing a lot to its customers reads.                  *)
(***************************************************************************)
EXTENDS Scheduler, Quality

CONSTANTS
  Recipe,       \* Recipe[p][i]: how much of item i one unit of p needs
  Shipments,    \* the entry lists that a ship request may carry
  Tolerance     \* RECEIPT_TOLERANCE

ASSUME FulfilmentAssumption ==
  /\ Items = Products \ Containers
  /\ Recipe \in [Formulated -> [Items -> Nat]]
  /\ \A p \in Formulated : Recipe[p][p] = 0
  /\ Shipments \subseteq Seq([line : Nat \ {0}, qty : Nat \ {0}])
  /\ Tolerance \in Nat

VARIABLE sold

floor == <<locs, book, lots>>
fulfilmentVars == <<schedulerVars, floor, sold>>

FulfilmentTypeOK ==
  /\ SchedulerTypeOK
  /\ QualityTypeOK
  /\ sold \in [SalesOrders -> [Lots -> Nat]]

FulfilmentInit ==
  /\ SchedulerInit
  /\ QualityInit
  /\ sold = [o \in SalesOrders |-> Zero(NumLots)]

-----------------------------------------------------------------------------
Need(w, i) == IF jobs[w].item \in Formulated THEN jobs[w].qty * Recipe[jobs[w].item][i] ELSE 0

Parts(w) == {i \in Items : Need(w, i) > 0}

MaterialCovered(w) == \A i \in Parts(w) : Covers(book[i], "INV", Need(w, i))

\* stage: each component goes INV -> WIP, as in module Production.
StageJob(w) ==
  /\ StartJob(w)
  /\ MaterialCovered(w)
  /\ book' = [i \in Items |-> IF i \in Parts(w) THEN Staged(book[i], Need(w, i)) ELSE book[i]]
  /\ UNCHANGED <<locs, lots, sold>>

(***************************************************************************)
(* complete, of a job without pours: consumes what was staged and opens a  *)
(* PENDING lot for the output.  Pours and holds are in module Production.  *)
(***************************************************************************)
CompleteJob(w) ==
  LET job == jobs[w]
      output == At(NextLot, job.qty, NumLots)
  IN  /\ FinishJob(w)
      /\ FreeLots # {}
      /\ \A i \in Parts(w) : Covers(book[i], "WIP", Need(w, i))
      /\ book' = [i \in Items |->
           IF i = job.item THEN PostIn(book[i], "WIP", output, job.qty, NoLoc)
           ELSE IF i \in Parts(w)
                THEN PostOut(book[i], "WIP", NoSlices, Need(w, i), NoLoc, Defaults)
           ELSE book[i]]
      /\ lots' = [lots EXCEPT
           ![NextLot] = NewLot(job.item, "PRODUCTION", <<w, 0>>, job.qty, NoLoc)]
      /\ UNCHANGED <<locs, sold>>

-----------------------------------------------------------------------------
(***************************************************************************)
(* What a shipment for order o may draw.  The reservation of a lot is      *)
(* looked up live, through the work order that produced it.                *)
(***************************************************************************)
Reservation(l) ==
  IF lots[l].qc # "NONE" /\ lots[l].origin = "PRODUCTION"
  THEN jobs[lots[l].source[1]].order ELSE 0

\* Mutation of Permitted: every lot.
PermittedAll(o) == Lots

Permitted(o) == {l \in Lots : Reservation(l) \in {0, o}}

Lotted(b) == {l \in Lots : b.lotQty["INV"][l] > 0}

PermittedQty(b, o) ==
  Sum([l \in Lots |-> IF l \in Permitted(o) \cap Lotted(b) THEN b.lotQty["INV"][l] ELSE 0],
      NumLots)

(***************************************************************************)
(* postOutFifo for a shipment of q: stock without a lot may leave only     *)
(* while no lot of the item has any.                                       *)
(***************************************************************************)
MayShip(b, o, q) ==
  /\ Lotted(b) # {} => q <= PermittedQty(b, o)
  /\ Covers(b, "INV", q)

Shipped(b, o, q) ==
  PostOut(b, "INV", FifoSlices(b, "INV", q, Permitted(o)), q, NoLoc, Defaults)

SubjectOf(o, entry) == orders[o].lines[entry.line].subject

PostEntry(bk, o, entry) ==
  [i \in Items |-> IF i = SubjectOf(o, entry) THEN Shipped(bk[i], o, entry.qty) ELSE bk[i]]

\* The books after the first k entries of req: they are posted one by one.
BooksAfter(o, req) ==
  LET after[k \in 0..Len(req)] == IF k = 0 THEN book ELSE PostEntry(after[k - 1], o, req[k])
  IN  after

ContainersOf(o, req) ==
  [c \in Containers |->
     Sum([k \in DOMAIN req |-> IF SubjectOf(o, req[k]) = c THEN req[k].qty ELSE 0], Len(req))]

(***************************************************************************)
(* Each entry is compared with, and added to, the shipped quantity that    *)
(* was loaded before the loop: of two entries for a line the last stands.  *)
(***************************************************************************)
LastEntry(req, n) ==
  CHOOSE k \in DOMAIN req : req[k].line = n /\ \A j \in DOMAIN req : req[j].line = n => j <= k

ShippedLines(lines, req) ==
  [n \in DOMAIN lines |->
     IF \E k \in DOMAIN req : req[k].line = n
     THEN [lines[n] EXCEPT !.shipped = @ + req[LastEntry(req, n)].qty] ELSE lines[n]]

\* Mutation of SalesStatus: one full line is enough.
SalesStatusOfAny(lines) ==
  IF \E n \in DOMAIN lines : lines[n].shipped >= lines[n].ordered - Tolerance
  THEN "SHIPPED" ELSE IF Unshipped([lines |-> lines]) THEN "OPEN" ELSE "PARTIAL"

\* poStatusFromLines, with RECEIVED read as SHIPPED.
SalesStatus(lines) ==
  IF \A n \in DOMAIN lines : lines[n].shipped >= lines[n].ordered - Tolerance
  THEN "SHIPPED" ELSE IF Unshipped([lines |-> lines]) THEN "OPEN" ELSE "PARTIAL"

ShipFits(o, req) ==
  LET lines == orders[o].lines
      after == BooksAfter(o, req)
  IN  /\ orders[o].status \in {"OPEN", "PARTIAL"}
      /\ \A k \in DOMAIN req :
           /\ req[k].line \in DOMAIN lines
           /\ req[k].qty <= lines[req[k].line].ordered - lines[req[k].line].shipped
      /\ \A k \in DOMAIN req : LET i == SubjectOf(o, req[k])
                               IN  i \in Items => MayShip(after[k - 1][i], o, req[k].qty)
      /\ Holds(ContainersOf(o, req))

Ship(o, req) ==
  LET rows == ShippedLines(orders[o].lines, req)
      last == BooksAfter(o, req)[Len(req)]
  IN  /\ ShipFits(o, req)
      /\ book' = last
      /\ jars' = Less(ContainersOf(o, req))
      /\ sold' = [sold EXCEPT ![o] = [l \in Lots |->
           @[l] + book[lots[l].item].lotQty["INV"][l] - last[lots[l].item].lotQty["INV"][l]]]
      /\ orders' = [orders EXCEPT ![o].lines = rows, ![o].status = SalesStatus(rows)]
      /\ UNCHANGED <<locs, lots, jobs, customers, lastNumber, today>>

(***************************************************************************)
(* pack: consumes the containers planned on the lines, once.               *)
(***************************************************************************)
Packed(lines) == {n \in DOMAIN lines : lines[n].pack # NoPack /\ lines[n].packs > 0}

PacksOf(lines) ==
  [c \in Containers |->
     Sum([n \in DOMAIN lines |-> IF n \in Packed(lines) /\ lines[n].pack = c
                                 THEN lines[n].packs ELSE 0],
         Len(lines))]

PackFits(o) ==
  /\ orders[o].status \notin {"NONE", "CANCELLED"}
  /\ ~ orders[o].packed
  /\ Packed(orders[o].lines) # {}
  /\ Holds(PacksOf(orders[o].lines))

Pack(o) ==
  /\ PackFits(o)
  /\ jars' = Less(PacksOf(orders[o].lines))
  /\ orders' = [orders EXCEPT ![o].packed = TRUE]
  /\ UNCHANGED <<floor, sold, jobs, customers, lastNumber, today>>

DeliveryStep ==
  \/ \E w \in FloorJobs : StageJob(w) \/ CompleteJob(w)
  \/ \E o \in SalesOrders : (\E req \in Shipments : Ship(o, req)) \/ Pack(o)

FulfilmentNext ==
  \/ DeliveryStep
  \/ (QueueStep \/ JobStep \/ OrdersStep) /\ UNCHANGED <<floor, sold>>
  \/ PlantStep /\ UNCHANGED <<schedulerVars, sold>>

FulfilmentSpec == FulfilmentInit /\ [][FulfilmentNext]_fulfilmentVars

-----------------------------------------------------------------------------
(***************************************************************************)
(* A lot can be traced to the orders that got it: what was packed off of   *)
(* it is in INV or in their shipments, it had been approved, and each of   *)
(* them has a shipped line of its item (postOutFifo "one ledger line per   *)
(* lot"; quality.service.ts trace).  Lots that other products consume are  *)
(* left out: staging draws them too.                                       *)
(***************************************************************************)
Consumed(i) == \E p \in Formulated : Recipe[p][i] > 0

ShippedOf(o, i) ==
  Sum([n \in DOMAIN orders[o].lines |->
         IF orders[o].lines[n].subject = i THEN orders[o].lines[n].shipped ELSE 0],
      Len(orders[o].lines))

SoldOf(o, i) == Sum([l \in Lots |-> IF lots[l].item = i THEN sold[o][l] ELSE 0], NumLots)

\* What all shipments together drew off lot l.
Drawn(l) == Sum([o \in SalesOrders |-> sold[o][l]], NumSalesOrders)

ShipmentsTraced ==
  /\ \A l \in Lots :
       /\ Drawn(l) > 0 => lots[l].qc = "APPROVED"
       /\ ~ Consumed(lots[l].item) => InBucket("INV", l) + Drawn(l) = lots[l].packed
  /\ \A o \in SalesOrders, i \in Items : SoldOf(o, i) <= ShippedOf(o, i)

(***************************************************************************)
(* "A batch produced for SO-A can't be quietly used to ship SO-B" (ship    *)
(* 708-711): what is reserved for an order in INV shrinks only when that   *)
(* order ships, or a work order is reassigned.                             *)
(***************************************************************************)
ReservedFor(o) ==
  Sum([l \in Lots |-> IF Reservation(l) = o /\ ~ Consumed(lots[l].item)
                      THEN InBucket("INV", l) ELSE 0],
      NumLots)

ReservedStockKept ==
  [][\A o \in SalesOrders :
       ReservedFor(o)' < ReservedFor(o) => sold'[o] # sold[o] \/ jobs' # jobs]_fulfilmentVars
=============================================================================
