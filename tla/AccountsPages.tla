---------------------------- MODULE AccountsPages ----------------------------
(***************************************************************************)
(* The screens on which orders are entered and settled                     *)
(* (apps/web/src/views/SalesOrderFormView.vue, SalesOrderDetailView.vue).  *)
(* A screen computes for itself what it offers, from what the server last  *)
(* told it; here that is the present state.  The permission to press a     *)
(* button is left out, the one to override a guard is in Grants.           *)
(***************************************************************************)
EXTENDS SalesAccounts

CONSTANTS
  Margin,  \* Margin[r]: profitMarginPct for a customer of rating r
  Cent     \* the second decimal of an amount of money

ASSUME MarginAssumption ==
  /\ Cent \in Nat \ {0}
  /\ \A p \in Profiles : p.rating \in DOMAIN Margin
  /\ \A r \in DOMAIN Margin : Margin[r] \in Nat

(***************************************************************************)
(* The new-order form.  Selecting a product suggests its cost plus the     *)
(* margin of the customer's rating, rounded, as the price.                 *)
(***************************************************************************)
Suggested(c, p) == Rounded(UnitCost[p] * (100 + Margin[customers[c].rating]), 100)

AtSuggestedPrices(c, cart) ==
  [n \in DOMAIN cart |-> [cart[n] EXCEPT !.price = Suggested(c, cart[n].subject)]]

\* customerPriceHistory: the lines of an item that the customer has not cancelled, and
\* the average of their prices by quantity; "use avg" of the form fills it in.
Bought(c, p) ==
  \E o \in OrdersOf(c) : \E n \in DOMAIN orders[o].lines : orders[o].lines[n].subject = p

\* What order r sells of item p, line by line.
QuantityOf(r, p) ==
  [n \in DOMAIN r.lines |-> IF r.lines[n].subject = p THEN r.lines[n].ordered ELSE 0]

ValueOf(r, p) == [n \in DOMAIN r.lines |-> QuantityOf(r, p)[n] * r.lines[n].price]

OverOrders(c, column) ==
  Sum([o \in SalesOrders |-> IF o \in OrdersOf(c) THEN Sum(column[o], Len(orders[o].lines)) ELSE 0],
      NumSalesOrders)

AveragePaid(c, p) ==
  LET quantity == OverOrders(c, [o \in SalesOrders |-> QuantityOf(orders[o], p)])
      value    == OverOrders(c, [o \in SalesOrders |-> ValueOf(orders[o], p)])
  IN  IF quantity > 0 THEN Rounded(value, quantity) ELSE 0

AtHistoricPrices(c, cart) ==
  [n \in DOMAIN cart |->
     IF cart[n].subject \in Containers \/ ~ Bought(c, cart[n].subject) THEN cart[n]
     ELSE [cart[n] EXCEPT !.price = AveragePaid(c, cart[n].subject)]]

Drafts(c) ==
  Carts \cup UNION {{AtSuggestedPrices(c, cart), AtHistoricPrices(c, cart)} : cart \in Carts}

\* The selects of the form list active containers only.
Selectable(cart) ==
  \A n \in DOMAIN cart :
    \A p \in {cart[n].subject, cart[n].pack} \cap Containers : jars[p].exists /\ jars[p].active

\* Unlike the server's, not rounded.
LineCost(e) ==
  IF e.subject \in Containers THEN e.qty * UnitCost[e.subject]
  ELSE e.qty * UnitCost[e.subject] +
       (IF e.pack # NoPack /\ e.packs > 0 THEN e.packs * UnitCost[e.pack] ELSE 0)

BelowCost(e) == LineCost(e) > 0 /\ e.qty * e.price < LineCost(e)

BlockedByCost(cart, may) == (\E n \in DOMAIN cart : BelowCost(cart[n])) /\ "price" \notin may

\* The limit and the exposure are those of the receivables report (loadCustomerAr);
\* the total is the one on display, toFixed(2).
OverLimit(c, cart) ==
  /\ customers[c].limit # NoLimit
  /\ ArExposure(c) + Cent * Rounded(CartTotal(cart), Cent) > customers[c].limit

BlockedByLimit(c, cart, may) == OverLimit(c, cart) /\ "credit" \notin may

\* What submit sends for a line: a packing container for items only, a count with it only.
Payload(e) ==
  LET packed == e.subject \notin Containers /\ e.pack # NoPack
  IN  [e EXCEPT !.pack = IF packed THEN @ ELSE NoPack, !.packs = IF packed THEN @ ELSE 0]

Saveable(c, cart, may) == ~ BlockedByCost(cart, may) /\ ~ BlockedByLimit(c, cart, may)

(***************************************************************************)
(* The money part of the order page: a payment is offered while a balance  *)
(* is due, a refund while something is refundable, each filled in with the *)
(* whole of it.                                                            *)
(***************************************************************************)
CanRecordPayment(r) == r.status \notin {"NONE", "CANCELLED"} /\ BalanceDue(r) > 0

CanIssueRefund(r) == r.status # "NONE" /\ Refundable(r) > 0

PaidAsFilledIn(r) == AfterPayment(r, BalanceDue(r))

RefundedAsFilledIn(r) == AfterRefund(r, Refundable(r))

ReasonFilledIn(r) == IF r.status = "CANCELLED" THEN "CANCELLATION" ELSE "OVERPAYMENT"

-----------------------------------------------------------------------------
(***************************************************************************)
(* The form rounds the total of a draft and the server the cost of its     *)
(* lines.  A draft is clear of both when no line earns within half of the  *)
(* fourth decimal of its cost, and it costs whole cents or leaves the      *)
(* customer farther than half a cent from the limit.                       *)
(***************************************************************************)
Apart(a, b, unit) == 2 * (a - b) > unit \/ 2 * (b - a) > unit

ClearOfRounding(c, cart) ==
  /\ \A n \in DOMAIN cart : Apart(cart[n].qty * cart[n].price, LineCost(cart[n]), Step)
  /\ \/ customers[c].limit = NoLimit
     \/ CartTotal(cart) % Cent = 0
     \/ Apart(ArExposure(c) + CartTotal(cart), customers[c].limit, Cent)

(***************************************************************************)
(* The form and the server decide on prices and credit in two places of    *)
(* their own, from two computations of what the customer owes (the         *)
(* receivables report and the credit check: "so the two never drift",      *)
(* sales-order.balances.ts 4-6).  Whatever was paid, refunded, cancelled   *)
(* or edited before, they agree on every draft clear of rounding: the      *)
(* button that the form enables saves, and the one it disables would not.  *)
(***************************************************************************)
FormForesees ==
  \A c \in Customers, may \in Grants :
    \A cart \in Drafts(c) :
      LET sent == [n \in DOMAIN cart |-> Payload(cart[n])]
      IN  Selectable(cart) /\ ClearOfRounding(c, cart) =>
            (Saveable(c, cart, may) <=>
               Sellable(sent) /\ Priced(sent, may) /\ WithinCredit(c, sent, may))

(***************************************************************************)
(* What the page fills in settles the order, when a request can carry it   *)
(* (a balance or surplus of more than four decimals is refused): a refund  *)
(* of the whole surplus is taken and leaves none, and the payment of the   *)
(* whole balance is taken and marks the order paid, as long as nothing was *)
(* refunded (recordPayment does not count refunds and refuses part of the  *)
(* balance after one).                                                     *)
(***************************************************************************)
FilledInAmountsSettle ==
  \A o \in SalesOrders :
    LET r == orders[o]
    IN  /\ CanRecordPayment(r) /\ r.refunded = 0 /\ Payable(BalanceDue(r)) =>
             /\ PaymentFits(r, BalanceDue(r))
             /\ BalanceDue(PaidAsFilledIn(r)) = 0 /\ PaidAsFilledIn(r).paidAt
        /\ CanIssueRefund(r) /\ Payable(Refundable(r)) =>
             /\ RefundFits(r, Refundable(r), ReasonFilledIn(r))
             /\ Refundable(RefundedAsFilledIn(r)) = 0
=============================================================================
