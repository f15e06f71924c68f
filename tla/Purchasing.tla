------------------------------ MODULE Purchasing ------------------------------
(***************************************************************************)
(* Purchase orders (apps/api/src/purchasing/purchase-order.service.ts):    *)
(* creation, edits, cancellation and receipt.  A receipt of an item line   *)
(* opens a PENDING lot in QUARANTINE, a receipt of a container line goes   *)
(* straight into container stock.                                          *)
(*                                                                         *)
(* orders[o].lines is the list of the order's lines; received is the       *)
(* column quantityReceived, which a CHECK constraint of the database keeps *)
(* at or below quantityOrdered.                                            *)
(***************************************************************************)
EXTENDS Quality, Sequences, FiniteSets

CONSTANTS
  NumOrders,    \* the number of purchase orders
  Containers,   \* containers, which are received without a lot
  OrderForms,   \* the line lists that a create or update request may carry
  Receipts,     \* the entry lists that a receive request may carry
  Tolerance,    \* RECEIPT_TOLERANCE
  PoundsPer     \* PoundsPer[i]: pounds per handling unit of item i, as a ratio

Orders == 1..NumOrders
Subjects == Items \cup Containers

OrderLines == [subject : Subjects, ordered : Nat, received : Nat]

ASSUME PurchasingAssumption ==
  /\ NumOrders \in Nat
  /\ Items \cap Containers = {}
  /\ OrderForms \subseteq Seq([subject : Subjects, ordered : Nat])
  /\ Receipts \subseteq Seq([line : Nat \ {0}, qty : Nat \ {0}])
  /\ Tolerance \in Nat
  /\ PoundsPer \in [Items -> [num : Nat \ {0}, den : Nat \ {0}]]

VARIABLES
  orders,         \* orders[o]: the row of order o and its lines
  containerQty    \* containerQty[c]: ContainerStock of c

purchasingVars == <<locs, book, lots, orders, containerQty>>

OrderStatuses == {"NONE", "OPEN", "PARTIAL", "RECEIVED", "CANCELLED"}

PurchasingTypeOK ==
  /\ QualityTypeOK
  /\ orders \in [Orders -> [status : OrderStatuses, lines : Seq(OrderLines)]]
  /\ containerQty \in [Containers -> Nat]

PurchasingInit ==
  /\ QualityInit
  /\ orders = [o \in Orders |-> [status |-> "NONE", lines |-> <<>>]]
  /\ containerQty = [c \in Containers |-> 0]

-----------------------------------------------------------------------------
NewLines(form) ==
  [n \in DOMAIN form |->
     [subject |-> form[n].subject, ordered |-> form[n].ordered, received |-> 0]]

Untouched(lines) == \A n \in DOMAIN lines : lines[n].received = 0

\* Mutation of StatusFromLines: one full line is enough.
StatusOfAnyLine(lines) ==
  IF \E n \in DOMAIN lines : lines[n].received >= lines[n].ordered - Tolerance THEN "RECEIVED"
  ELSE IF \E n \in DOMAIN lines : lines[n].received > 0 THEN "PARTIAL" ELSE "OPEN"

(***************************************************************************)
(* poStatusFromLines: a line within Tolerance of its order counts as full. *)
(***************************************************************************)
StatusFromLines(lines) ==
  IF \A n \in DOMAIN lines : lines[n].received >= lines[n].ordered - Tolerance THEN "RECEIVED"
  ELSE IF \E n \in DOMAIN lines : lines[n].received > 0 THEN "PARTIAL" ELSE "OPEN"

CreateOrder(o, form) ==
  /\ orders[o].status = "NONE"
  /\ orders' = [orders EXCEPT ![o] = [status |-> "OPEN", lines |-> NewLines(form)]]
  /\ UNCHANGED <<locs, book, lots, containerQty>>

\* update: the lines are deleted and created anew.
UpdateOrder(o, form) ==
  /\ orders[o].status = "OPEN"
  /\ Untouched(orders[o].lines)
  /\ orders' = [orders EXCEPT ![o].lines = NewLines(form)]
  /\ UNCHANGED <<locs, book, lots, containerQty>>

Cancellable(o) == orders[o].status # "NONE" /\ Untouched(orders[o].lines)

CancelOrder(o) ==
  /\ Cancellable(o)
  /\ orders' = [orders EXCEPT ![o].status = "CANCELLED"]
  /\ UNCHANGED <<locs, book, lots, containerQty>>

-----------------------------------------------------------------------------
(***************************************************************************)
(* The pieces of a receive request req against the lines of an order.      *)
(* Every entry is compared with, and added to, the received quantity that  *)
(* was loaded before the loop: of two entries for one line, the last one   *)
(* stands.                                                                 *)
(***************************************************************************)
ReceivingLoc(requested) ==
  IF requested # NoLoc THEN requested ELSE FirstByCode(ActiveLocs \cap Receiving)

WithinRemaining(line, qty) == qty <= line.ordered - line.received + Tolerance

Received(lines, req) ==
  [n \in DOMAIN lines |->
     LET entries == {k \in DOMAIN req : req[k].line = n}
     IN  IF entries = {} THEN lines[n]
         ELSE LET last == CHOOSE k \in entries : \A j \in entries : j <= k
              IN  [lines[n] EXCEPT !.received = @ + req[last].qty]]

\* CHECK ([quantityReceived] <= [quantityOrdered]).
WithinOrdered(lines) == \A n \in DOMAIN lines : lines[n].received <= lines[n].ordered

EntryQty(req, S) == Sum([k \in DOMAIN req |-> IF k \in S THEN req[k].qty ELSE 0], Len(req))

Entries(lines, req, subject) ==
  {k \in DOMAIN req : lines[req[k].line].subject = subject}

ItemEntries(lines, req) ==
  {k \in DOMAIN req : lines[req[k].line].subject \in Items}

\* One new lot per item entry, in the order of the request.
LotOf(lines, req, k) ==
  NextLot + Cardinality({j \in ItemEntries(lines, req) : j < k})

(***************************************************************************)
(* toPounds, as the column quantity of the lot keeps it: a kilogram is     *)
(* 2.20462262 pounds, of which the column holds four decimals.             *)
(***************************************************************************)
ToPounds(i, qty) == Rounded(qty * PoundsPer[i].num, PoundsPer[i].den)

\* Mutation of NewLotRows: the lot keeps the unit of the order.
NewLotRowsInOrderUnit(o, lines, req, loc) ==
  [l \in Lots |->
     LET k == CHOOSE e \in ItemEntries(lines, req) : LotOf(lines, req, e) = l
         line == lines[req[k].line]
     IN  IF \E e \in ItemEntries(lines, req) : LotOf(lines, req, e) = l
         THEN NewLot(line.subject, "RECEIPT", <<o, req[k].line>>, req[k].qty, loc)
         ELSE lots[l]]

NewLotRows(o, lines, req, loc) ==
  [l \in Lots |->
     LET k == CHOOSE e \in ItemEntries(lines, req) : LotOf(lines, req, e) = l
         line == lines[req[k].line]
     IN  IF \E e \in ItemEntries(lines, req) : LotOf(lines, req, e) = l
         THEN NewLot(line.subject, "RECEIPT", <<o, req[k].line>>,
                     ToPounds(line.subject, req[k].qty), loc)
         ELSE lots[l]]

ReceiptFits(o, req, requested) ==
  LET lines == orders[o].lines
  IN  /\ orders[o].status \in {"OPEN", "PARTIAL"}
      /\ requested # NoLoc => requested \in Receiving
      /\ \A k \in DOMAIN req :
           /\ req[k].line \in DOMAIN lines
           /\ WithinRemaining(lines[req[k].line], req[k].qty)
      /\ Cardinality(ItemEntries(lines, req)) <= Cardinality(FreeLots)
      /\ WithinOrdered(Received(lines, req))

Receive(o, req, requested) ==
  LET lines == orders[o].lines
      loc   == ReceivingLoc(requested)
      rows  == NewLotRows(o, lines, req, loc)
      new(i) == [l \in Lots |-> IF rows[l] # lots[l] /\ rows[l].item = i
                                THEN rows[l].qty ELSE 0]
  IN  /\ ReceiptFits(o, req, requested)
      /\ lots' = rows
      /\ book' = [i \in Items |->
           PostIn(book[i], "QUARANTINE", new(i), Sum(new(i), NumLots),
                  InboundLoc("QUARANTINE", loc))]
      /\ containerQty' = [c \in Containers |->
           containerQty[c] + EntryQty(req, Entries(lines, req, c))]
      /\ orders' = [orders EXCEPT
           ![o] = [status |-> StatusFromLines(Received(lines, req)),
                   lines  |-> Received(lines, req)]]
      /\ UNCHANGED locs

PurchasingStep ==
  \E o \in Orders :
    \/ \E form \in OrderForms : CreateOrder(o, form) \/ UpdateOrder(o, form)
    \/ CancelOrder(o)
    \/ \E req \in Receipts, requested \in Locs \cup {NoLoc} : Receive(o, req, requested)

PurchasingNext ==
  \/ PurchasingStep
  \/ PlantStep /\ UNCHANGED <<orders, containerQty>>

PurchasingSpec == PurchasingInit /\ [][PurchasingNext]_purchasingVars

-----------------------------------------------------------------------------
(***************************************************************************)
(* What an order says it received is what reached stock: the lots of a     *)
(* line are lots of its item and add up to its received quantity in pounds *)
(* up to half a unit (the last decimal of the column) for each lot, since  *)
(* every receipt is rounded by itself, and exactly when the item is        *)
(* handled in pounds; the containers in stock are those received (receive, *)
(* 180-184: "so stock, the PO, and the audit move together").  It relates  *)
(* quantities that the handler computes separately, the lots from the      *)
(* request and the line from the row it loaded.                            *)
(***************************************************************************)
LotsOfLine(o, n) == {l \in Lots : lots[l].qc # "NONE" /\ lots[l].source = <<o, n>>}

\* That pounds, in so many lots of item i, are what was received in its handling unit.
AddsUp(i, pounds, received, count) ==
  LET drift == 2 * (PoundsPer[i].den * pounds - PoundsPer[i].num * received)
      most  == IF PoundsPer[i].den = 1 THEN 0 ELSE count * PoundsPer[i].den
  IN  - most <= drift /\ drift <= most

LineMatchesLots(o, n) ==
  LET line == orders[o].lines[n]
      own  == LotsOfLine(o, n)
  IN  line.subject \in Items =>
        /\ \A l \in own : lots[l].item = line.subject
        /\ AddsUp(line.subject,
                  Sum([l \in Lots |-> IF l \in own THEN lots[l].qty ELSE 0], NumLots),
                  line.received, Cardinality(own))

ReceivedOnOrder(o, subject) ==
  LET lines == orders[o].lines
  IN  Sum([n \in DOMAIN lines |->
             IF lines[n].subject = subject THEN lines[n].received ELSE 0], Len(lines))

ReceivedOf(subject) == Sum([o \in Orders |-> ReceivedOnOrder(o, subject)], NumOrders)

ReceiptsMatchStock ==
  /\ \A o \in Orders :
       /\ \A n \in DOMAIN orders[o].lines : LineMatchesLots(o, n)
       /\ \A l \in Lots : lots[l].qc # "NONE" /\ lots[l].source[1] = o
                            => lots[l].source[2] \in DOMAIN orders[o].lines
  /\ \A c \in Containers : containerQty[c] = ReceivedOf(c)

(***************************************************************************)
(* "Tolerate a rounding-hair overage" (receive, 237-239): a request whose  *)
(* entries are all within the tolerance of what remains can be received,   *)
(* that is, the database accepts the rows it writes.                       *)
(***************************************************************************)
ToleratedReceiptAccepted ==
  \A o \in Orders, req \in Receipts :
    LET lines == orders[o].lines
    IN  /\ orders[o].status \in {"OPEN", "PARTIAL"}
        /\ \A k \in DOMAIN req :
             /\ req[k].line \in DOMAIN lines
             /\ WithinRemaining(lines[req[k].line], req[k].qty)
        => WithinOrdered(Received(lines, req))
=============================================================================
