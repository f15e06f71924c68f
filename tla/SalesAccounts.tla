---------------------------- MODULE SalesAccounts ----------------------------
(***************************************************************************)
(* Customers, sales orders and their money                                 *)
(* (apps/api/src/sales/sales-order.service.ts, sales-order.balances.ts,    *)
(* ar.service.ts, customer.service.ts).                                    *)
(*                                                                         *)
(* orders[o] is the row of sales order o with its lines; paid and refunded *)
(* are the sums of its payment and refund rows, the only thing the code    *)
(* reads of them.  Prices and costs of a unit are integers in units of     *)
(* 0.0001, as quantities are, and amounts of money, their products, in     *)
(* units of 0.00000001; Step of them make the 0.0001 that the money        *)
(* columns and the requests hold, 10^4 in the program.  Convenience fees   *)
(* are recorded and never read, and left out.                              *)
(* Shipping, packing and production are in module Fulfilment.              *)
(***************************************************************************)
EXTENDS ContainerStock, Sequences, FiniteSets

CONSTANTS
  NumSalesOrders,  \* the number of sales orders
  Customers,
  Products,     \* what a line may sell: items, and Containers
  UnitCost,     \* UnitCost[p]: what CostService computes for one unit of p
  Step,         \* the fourth decimal of an amount of money
  Profiles,     \* the rows that a customer may have
  Carts,        \* the line lists that a create request may carry
  Edits,        \* what an update request may carry, a record of some fields
  Imports,      \* the groups of rows of an import file
  Amounts,      \* the amounts of payment and refund requests
  Numbers,      \* the explicit order numbers of requests
  Grants,       \* which guards a user may override, and asks to, in one request
  Days,         \* the days on which something happens
  FirstNumber,  \* SO_NUMBER_START
  LeadDays,     \* DEFAULT_SHIP_LEAD_DAYS
  AgingSteps    \* the bounds of the aging buckets, in days past due

SalesOrders == 1..NumSalesOrders

NoLimit == -1
NoNumber == 0
NoPack == "none"

CartEntries ==
  [ subject : Products, qty : Nat \ {0}, price : Nat,
    pack : Containers \cup {NoPack}, packs : Nat ]

ProfileRows == [limit : Nat \cup {NoLimit}, net : Nat, rating : Nat]

ASSUME SalesAssumption ==
  /\ NumSalesOrders \in Nat /\ Customers # {}
  /\ Containers \subseteq Products
  /\ UnitCost \in [Products -> Nat] /\ Step \in Nat \ {0}
  /\ Profiles \subseteq ProfileRows
  /\ Carts \subseteq Seq(CartEntries)
  /\ \A e \in Edits :
       /\ "customer" \in DOMAIN e => e.customer \in Customers
       /\ "number" \in DOMAIN e => e.number \in Numbers
       /\ "due" \in DOMAIN e => e.due \in Nat
       /\ "cart" \in DOMAIN e => e.cart \in Carts
  /\ \A g \in Imports :
       /\ g.customer \in Customers /\ g.number \in Nat \ {0}
       /\ g.cart \in Carts /\ g.due \in Nat
  /\ Amounts \subseteq Nat \ {0}
  /\ Numbers \subseteq Nat \ {0}
  /\ Grants \subseteq SUBSET {"price", "credit"}
  /\ Days \subseteq Nat /\ 0 \in Days
  /\ FirstNumber \in Nat \ {0} /\ LeadDays \in Nat
  /\ AgingSteps \in Seq(Nat)

VARIABLES
  customers,    \* customers[c]: credit limit, net payment days (0: not on net terms), rating
  orders,       \* orders[o]: the order, its lines, and the sums of its money rows
  lastNumber,   \* NumberSequence, 0 before its first use
  today

salesVars == <<jars, customers, orders, lastNumber, today>>

SalesStatuses == {"NONE", "OPEN", "PARTIAL", "SHIPPED", "CANCELLED"}

SalesLines ==
  [ subject : Products, ordered : Nat, price : Nat, shipped : Nat,
    pack : Containers \cup {NoPack}, packs : Nat ]

OrderRows ==
  [ status : SalesStatuses, customer : Customers, number : Nat, date : Nat, due : Nat,
    lines : Seq(SalesLines), paid : Nat, refunded : Nat, paidAt : BOOLEAN, packed : BOOLEAN ]

NoOrder ==
  [ status |-> "NONE", customer |-> CHOOSE c \in Customers : TRUE, number |-> NoNumber,
    date |-> 0, due |-> 0, lines |-> <<>>, paid |-> 0, refunded |-> 0,
    paidAt |-> FALSE, packed |-> FALSE ]

AccountsTypeOK ==
  /\ ContainersTypeOK
  /\ customers \in [Customers -> ProfileRows]
  /\ orders \in [SalesOrders -> OrderRows]
  /\ lastNumber \in Nat
  /\ today \in Nat

AccountsInit ==
  /\ ContainersInit
  /\ customers \in [Customers -> Profiles]
  /\ orders = [o \in SalesOrders |-> NoOrder]
  /\ lastNumber = 0
  /\ today = 0

-----------------------------------------------------------------------------
(***************************************************************************)
(* The money of an order row r (sales-order.balances.ts).                  *)
(***************************************************************************)
OrderTotal(r) ==
  Sum([n \in DOMAIN r.lines |-> r.lines[n].ordered * r.lines[n].price], Len(r.lines))

\* Mutation of BalanceDue: payments do not count until they cover the order.
BalanceDueMarked(r) == IF r.paidAt THEN 0 ELSE OrderTotal(r)

BalanceDue(r) == OrderTotal(r) - (r.paid - r.refunded)

Owed(r) == IF r.status = "CANCELLED" THEN 0 ELSE OrderTotal(r)

\* Mutation of Refundable: what was refunded before is offered again.
RefundableAgain(r) == Positive(r.paid - Owed(r))

Refundable(r) == Positive((r.paid - r.refunded) - Owed(r))

\* Mutation of OpenBalance: an overpaid order offsets the debt of another one.
OpenBalanceOffsets(r) == IF r.status = "CANCELLED" THEN 0 ELSE BalanceDue(r)

OpenBalance(r) == IF r.status = "CANCELLED" THEN 0 ELSE Positive(BalanceDue(r))

OrdersOf(c) ==
  {o \in SalesOrders : orders[o].customer = c /\ orders[o].status \notin {"NONE", "CANCELLED"}}

Exposure(c) ==
  Sum([o \in SalesOrders |-> IF o \in OrdersOf(c) THEN OpenBalance(orders[o]) ELSE 0],
      NumSalesOrders)

-----------------------------------------------------------------------------
(***************************************************************************)
(* The checks of a request's lines.  may is the set of guards that the     *)
(* user has the permission, and asks, to override.                         *)
(***************************************************************************)
NewSalesLine(e) ==
  [ subject |-> e.subject, ordered |-> e.qty, price |-> e.price, shipped |-> 0,
    pack |-> IF e.subject \in Containers THEN NoPack ELSE e.pack,
    packs |-> IF e.subject \in Containers THEN 0 ELSE e.packs ]

NewSalesLines(cart) == [n \in DOMAIN cart |-> NewSalesLine(cart[n])]

Sellable(cart) ==
  \A n \in DOMAIN cart : LET p == cart[n].subject
                         IN  p \in Containers => jars[p].exists /\ jars[p].active

\* lineCost, to four decimals; the revenue that it is compared with has them all.
EntryCost(e) ==
  LET cost == e.qty * UnitCost[e.subject] +
              (IF e.subject \in Containers \/ e.pack = NoPack THEN 0
               ELSE e.packs * UnitCost[e.pack])
  IN  Step * Rounded(cost, Step)

Priced(cart, may) ==
  "price" \in may \/ \A n \in DOMAIN cart : cart[n].qty * cart[n].price >= EntryCost(cart[n])

CartTotal(cart) == Sum([n \in DOMAIN cart |-> cart[n].qty * cart[n].price], Len(cart))

WithinCredit(c, cart, may) ==
  \/ customers[c].limit = NoLimit
  \/ Exposure(c) + CartTotal(cart) <= customers[c].limit
  \/ "credit" \in may

NumberFree(n) == \A o \in SalesOrders : orders[o].status # "NONE" => orders[o].number # n

NextNumber == IF lastNumber = 0 THEN FirstNumber ELSE lastNumber + 1

(***************************************************************************)
(* create.  Without an explicit number the order takes the next one of the *)
(* sequence; the number is unique, or the transaction aborts and the       *)
(* sequence with it.  Without a date the order is due LeadDays from now.   *)
(***************************************************************************)
CreateOrder(o, c, cart, number, due, may) ==
  LET given == IF number = NoNumber THEN NextNumber ELSE number
  IN  /\ orders[o].status = "NONE"
      /\ \A p \in SalesOrders : p < o => orders[p].status # "NONE"
      /\ Sellable(cart)
      /\ Priced(cart, may)
      /\ WithinCredit(c, cart, may)
      /\ NumberFree(given)
      /\ orders' = [orders EXCEPT ![o] =
           [ NoOrder EXCEPT !.status = "OPEN", !.customer = c, !.number = given,
             !.date = today, !.due = IF due = 0 THEN today + LeadDays ELSE due,
             !.lines = NewSalesLines(cart) ]]
      /\ lastNumber' = IF number = NoNumber THEN given ELSE lastNumber
      /\ UNCHANGED <<jars, customers, today>>

(***************************************************************************)
(* importOrders: the rows of a file with one number are one order, created *)
(* in a transaction of its own; an override on any of the rows counts for  *)
(* the whole order.                                                        *)
(***************************************************************************)
ImportOrder(o, g) ==
  CreateOrder(o, g.customer, g.cart, g.number, g.due, UNION {g.mays[n] : n \in DOMAIN g.cart})

Unshipped(r) == \A n \in DOMAIN r.lines : r.lines[n].shipped = 0

Field(e, f, default) == IF f \in DOMAIN e THEN e[f] ELSE default

(***************************************************************************)
(* update: prices are checked again, the credit limit is not.              *)
(***************************************************************************)
UpdateOrder(o, e, may) ==
  LET r == orders[o]
  IN  /\ r.status = "OPEN"
      /\ Unshipped(r)
      /\ "cart" \in DOMAIN e => Sellable(e.cart) /\ Priced(e.cart, may)
      /\ "number" \in DOMAIN e => e.number = r.number \/ NumberFree(e.number)
      /\ orders' = [orders EXCEPT ![o] =
           [ r EXCEPT !.customer = Field(e, "customer", @), !.number = Field(e, "number", @),
                      !.due = Field(e, "due", @),
                      !.lines = IF "cart" \in DOMAIN e THEN NewSalesLines(e.cart) ELSE @ ]]
      /\ UNCHANGED <<jars, customers, lastNumber, today>>

OrderCancellable(o) ==
  /\ orders[o].status \notin {"NONE", "CANCELLED"}
  /\ Unshipped(orders[o])

CancelOrder(o) ==
  /\ OrderCancellable(o)
  /\ orders' = [orders EXCEPT ![o].status = "CANCELLED"]
  /\ UNCHANGED <<jars, customers, lastNumber, today>>

AfterPayment(r, amount) ==
  [r EXCEPT !.paid = @ + amount, !.paidAt = @ \/ r.paid + amount >= OrderTotal(r)]

\* Mutation of RecordPayment: compared with the total, not with the balance.
PayUpToTotal(o, amount) ==
  /\ orders[o].status \notin {"NONE", "CANCELLED"}
  /\ orders[o].paid < OrderTotal(orders[o])
  /\ amount <= OrderTotal(orders[o])
  /\ orders' = [orders EXCEPT ![o] = AfterPayment(@, amount)]
  /\ UNCHANGED <<jars, customers, lastNumber, today>>

\* positiveMoney: a request carries an amount with at most four decimals.
Payable(amount) == amount > 0 /\ amount % Step = 0

\* recordPayment: the balance it checks does not count refunds.
PaymentFits(r, amount) ==
  /\ Payable(amount)
  /\ r.status \notin {"NONE", "CANCELLED"}
  /\ r.paid < OrderTotal(r)
  /\ amount <= OrderTotal(r) - r.paid

RecordPayment(o, amount) ==
  /\ PaymentFits(orders[o], amount)
  /\ orders' = [orders EXCEPT ![o] = AfterPayment(@, amount)]
  /\ UNCHANGED <<jars, customers, lastNumber, today>>

RefundReasons == {"OVERPAYMENT", "CANCELLATION"}

RefundFits(r, amount, reason) ==
  /\ Payable(amount)
  /\ r.status # "NONE"
  /\ reason = "CANCELLATION" <=> r.status = "CANCELLED"
  /\ amount <= Refundable(r)

AfterRefund(r, amount) == [r EXCEPT !.refunded = @ + amount]

\* issueRefund; the reason is kept with the refund and not read again.
IssueRefund(o, amount) ==
  /\ \E reason \in RefundReasons : RefundFits(orders[o], amount, reason)
  /\ orders' = [orders EXCEPT ![o] = AfterRefund(@, amount)]
  /\ UNCHANGED <<jars, customers, lastNumber, today>>

UpdateCustomer(c, profile) ==
  /\ customers' = [customers EXCEPT ![c] = profile]
  /\ UNCHANGED <<jars, orders, lastNumber, today>>

NextDay ==
  /\ \E d \in Days : /\ d > today
                     /\ \A e \in Days : e > today => d <= e
                     /\ today' = d
  /\ UNCHANGED <<jars, customers, orders, lastNumber>>

OrderStep(o) ==
  \/ \E c \in Customers, cart \in Carts, number \in Numbers \cup {NoNumber}, may \in Grants :
       CreateOrder(o, c, cart, number, 0, may)
  \/ \E g \in Imports : ImportOrder(o, g)
  \/ CancelOrder(o)
  \/ \E amount \in Amounts : RecordPayment(o, amount) \/ IssueRefund(o, amount)

OtherAccountsStep ==
  \/ \E c \in Customers, profile \in Profiles : UpdateCustomer(c, profile)
  \/ NextDay
  \/ ContainersNext /\ UNCHANGED <<customers, orders, lastNumber, today>>

AccountsNext ==
  \/ \E o \in SalesOrders :
       \/ OrderStep(o)
       \/ \E e \in Edits, may \in Grants : UpdateOrder(o, e, may)
  \/ OtherAccountsStep

AccountsSpec == AccountsInit /\ [][AccountsNext]_salesVars

-----------------------------------------------------------------------------
(***************************************************************************)
(* Accounts receivable (ar.service.ts): a report over the orders of a      *)
(* customer that are not cancelled and not paid up, by days past due.      *)
(***************************************************************************)
ArBalance(o) == Positive(BalanceDue(orders[o]))

\* Mutation of ArOrders: an order counts until it is marked paid.
ArOrdersUnmarked(c) == {o \in OrdersOf(c) : ~ orders[o].paidAt}

ArOrders(c) == {o \in OrdersOf(c) : ArBalance(o) > 0}

DaysPastDue(o) == today - (orders[o].date + customers[orders[o].customer].net)

\* bucketFor: the number of bounds that the days have passed, 0 being "current".
Bucket(days) == Cardinality({n \in DOMAIN AgingSteps : days > AgingSteps[n]})

Aging(c, b) ==
  Sum([o \in SalesOrders |->
         IF o \in ArOrders(c) /\ Bucket(DaysPastDue(o)) = b THEN ArBalance(o) ELSE 0],
      NumSalesOrders)

ArExposure(c) ==
  Sum([n \in 1..Len(AgingSteps) + 1 |-> Aging(c, n - 1)], Len(AgingSteps) + 1)

-----------------------------------------------------------------------------
(***************************************************************************)
(* No more is refunded than was paid, through any sequence of payments,    *)
(* edits, cancellation and refunds (refundableAmount looks at each of      *)
(* them anew and keeps no running balance).                                *)
(***************************************************************************)
RefundsWithinPayments == \A o \in SalesOrders : orders[o].refunded <= orders[o].paid

\* Somebody may override the limit and asks to, in a request or a row of a file.
OverLimitGranted ==
  \/ \E may \in Grants : "credit" \in may
  \/ \E g \in Imports : \E n \in DOMAIN g.cart : "credit" \in g.mays[n]

(***************************************************************************)
(* "Block a new order that would push the customer past their credit limit"*)
(* (168-174): when no override is granted, an order that comes to exist    *)
(* leaves what the receivables report says of its customer within the      *)
(* limit, whatever was paid, overpaid, refunded or cancelled before.       *)
(***************************************************************************)
NewOrdersWithinCredit ==
  [][\A o \in SalesOrders, c \in Customers :
       /\ orders[o].status = "NONE" /\ orders'[o].status # "NONE"
       /\ orders'[o].customer = c /\ customers[c].limit # NoLimit
       /\ ~ OverLimitGranted
       => ArExposure(c)' <= customers[c].limit]_salesVars

(***************************************************************************)
(* Every step is one that the accounts of Settlement allow: payments and   *)
(* refunds settle, nothing else moves money.                               *)
(***************************************************************************)
Ledger == INSTANCE Settlement WITH
  Accounts <- SalesOrders,
  owed <- [o \in SalesOrders |-> Owed(orders[o])],
  net <- [o \in SalesOrders |-> orders[o].paid - orders[o].refunded]

AccountsSettle == Ledger!SettlementSpec
=============================================================================
