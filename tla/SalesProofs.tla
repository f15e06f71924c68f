----------------------------- MODULE SalesProofs -----------------------------
(***************************************************************************)
(* Proofs about the sales accounts (SalesAccounts), the order form         *)
(* (AccountsPages) and the planner's queue (Scheduler), for every number   *)
(* of orders and every set of products, requests, amounts, margins and     *)
(* work orders.                                                            *)
(*                                                                         *)
(* The inductive invariant of the accounts adds to the types that no more  *)
(* is refunded than was paid and that a number nobody ordered under has    *)
(* the empty row; from it, each step moves one account as Settlement       *)
(* allows, and the check of a new order adds up what the receivables       *)
(* report adds up by age. That of the queue adds that the positions of     *)
(* queued jobs are distinct numbers, so that counting those ahead of a job *)
(* gives its place.                                                        *)
(***************************************************************************)
EXTENDS Scheduler, AccountsPages, QuantitiesProofs

UnusedRowsEmpty == \A o \in SalesOrders : orders[o].status = "NONE" => orders[o] = NoOrder

AccountsInv == AccountsTypeOK /\ RefundsWithinPayments /\ UnusedRowsEmpty

\* The elements of a list are of its element set.
LEMMA ListElement ==
  ASSUME NEW S, NEW s \in Seq(S), NEW n \in 1..Len(s)
  PROVE  s[n] \in S
OBVIOUS

\* The row of a number that nobody ordered under is a row.
LEMMA NoOrderType ==
  NoOrder \in OrderRows
<1>1. (CHOOSE c \in Customers : TRUE) \in Customers
  BY SalesAssumption
<1>2. << >> \in Seq(SalesLines)
  OBVIOUS
<1>3. QED
  BY <1>1, <1>2 DEF NoOrder, OrderRows, SalesStatuses, NoNumber

\* The lines of a request become well-typed lines of the order.
LEMMA NewSalesLinesType ==
  ASSUME NEW cart \in Carts
  PROVE  NewSalesLines(cart) \in Seq(SalesLines)
<1>1. cart \in Seq(CartEntries)
  BY SalesAssumption
<1>2. ASSUME NEW n \in 1..Len(cart)
      PROVE  NewSalesLine(cart[n]) \in SalesLines
  <2>1. cart[n] \in CartEntries
    BY <1>1, ListElement
  <2>2. QED
    BY <2>1 DEF CartEntries, NewSalesLine, SalesLines
<1>3. NewSalesLines(cart) = [n \in 1..Len(cart) |-> NewSalesLine(cart[n])]
  BY <1>1 DEF NewSalesLines
<1>4. Len(cart) \in Nat
  BY <1>1
<1> DEFINE line(n) == NewSalesLine(cart[n])
<1> HIDE DEF line
<1>5. [n \in 1..Len(cart) |-> line(n)] \in Seq(SalesLines)
  <2>1. \A n \in 1..Len(cart) : line(n) \in SalesLines
    BY <1>2 DEF line
  <2>2. QED
    BY <1>4, <2>1
<1>6. QED
  BY <1>3, <1>5 DEF line

\* An order never asks for a negative amount.
LEMMA OrderTotalNat ==
  ASSUME NEW r \in OrderRows
  PROVE  OrderTotal(r) \in Nat
<1> DEFINE f == [n \in DOMAIN r.lines |-> r.lines[n].ordered * r.lines[n].price]
<1>1. r.lines \in Seq(SalesLines) /\ Len(r.lines) \in Nat /\ DOMAIN r.lines = 1..Len(r.lines)
  BY DEF OrderRows
<1>2. ASSUME NEW k \in 1..Len(r.lines)
      PROVE  f[k] \in Nat
  <2>1. r.lines[k] \in SalesLines
    BY <1>1, ListElement
  <2>2. r.lines[k].ordered \in Nat /\ r.lines[k].price \in Nat
    BY <2>1 DEF SalesLines
  <2>3. \A x, y \in Nat : x * y \in Nat
    OBVIOUS
  <2>4. QED
    BY <1>1, <2>2, <2>3
<1> HIDE DEF f
<1>3. \A m \in 0..Len(r.lines) : Sum(f, m) \in Nat
  BY <1>1, <1>2, SumNat
<1>4. QED
  BY <1>1, <1>3 DEF OrderTotal, f

LEMMA OwedNat ==
  ASSUME NEW r \in OrderRows
  PROVE  Owed(r) \in Nat
BY OrderTotalNat DEF Owed

LEMMA NoOrderOwesNothing == Owed(NoOrder) = 0 /\ NoOrder.paid = 0 /\ NoOrder.refunded = 0
<1>1. NoOrder.lines = << >> /\ NoOrder.status = "NONE"
  BY DEF NoOrder
<1>2. OrderTotal(NoOrder) = 0
  BY <1>1, SumUnfold DEF OrderTotal
<1>3. QED
  BY <1>1, <1>2 DEF Owed, NoOrder

-----------------------------------------------------------------------------
(***************************************************************************)
(* What each operation does to the row of its order.                       *)
(***************************************************************************)
OnlyRow(o, r) == orders' = [orders EXCEPT ![o] = r]

KeepsMoney(r, s) == s.paid = r.paid /\ s.refunded = r.refunded

\* A step that replaces the row of one order, which stays or becomes used, by a row
\* that is no further refunded than paid keeps the invariant of the orders.
LEMMA RowKeepsInv ==
  ASSUME AccountsInv, NEW o \in SalesOrders, NEW r \in OrderRows,
         r.refunded <= r.paid, r.status # "NONE", OnlyRow(o, r)
  PROVE  /\ orders' \in [SalesOrders -> OrderRows]
         /\ RefundsWithinPayments' /\ UnusedRowsEmpty'
<1>1. orders \in [SalesOrders -> OrderRows]
  BY DEF AccountsInv, AccountsTypeOK
<1>2. \A p \in SalesOrders : orders'[p] = IF p = o THEN r ELSE orders[p]
  BY <1>1 DEF OnlyRow
<1>3. orders' \in [SalesOrders -> OrderRows]
  BY <1>1 DEF OnlyRow
<1>4. RefundsWithinPayments'
  BY <1>2 DEF AccountsInv, RefundsWithinPayments
<1>5. UnusedRowsEmpty'
  BY <1>2 DEF AccountsInv, UnusedRowsEmpty
<1>6. QED
  BY <1>3, <1>4, <1>5

LEMMA CreateOrderRow ==
  ASSUME AccountsInv, NEW o \in SalesOrders, NEW c \in Customers, NEW cart \in Carts,
         NEW number \in Nat, NEW due \in Nat, NEW may,
         CreateOrder(o, c, cart, number, due, may)
  PROVE  /\ \E r \in OrderRows :
              OnlyRow(o, r) /\ r.status = "OPEN" /\ KeepsMoney(orders[o], r)
         /\ lastNumber' \in Nat
         /\ UNCHANGED <<jars, customers, today>>
<1> DEFINE given == IF number = NoNumber THEN NextNumber ELSE number
           r == [ NoOrder EXCEPT !.status = "OPEN", !.customer = c, !.number = given,
                    !.date = today, !.due = IF due = 0 THEN today + LeadDays ELSE due,
                    !.lines = NewSalesLines(cart) ]
<1>1. /\ OnlyRow(o, r) /\ orders[o].status = "NONE"
      /\ lastNumber' = IF number = NoNumber THEN given ELSE lastNumber
      /\ UNCHANGED <<jars, customers, today>>
  BY DEF CreateOrder, OnlyRow
<1>2. lastNumber \in Nat /\ today \in Nat /\ FirstNumber \in Nat /\ LeadDays \in Nat
  BY SalesAssumption DEF AccountsInv, AccountsTypeOK
<1>3. given \in Nat
  BY <1>2 DEF NextNumber
<1>4. NewSalesLines(cart) \in Seq(SalesLines)
  BY NewSalesLinesType
<1>5. (IF due = 0 THEN today + LeadDays ELSE due) \in Nat
  BY <1>2
<1>6. NoOrder \in OrderRows
  BY NoOrderType
<1> HIDE DEF given
<1>7. r \in OrderRows /\ r.status = "OPEN" /\ KeepsMoney(NoOrder, r)
  BY <1>2, <1>3, <1>4, <1>5, <1>6 DEF OrderRows, SalesStatuses, KeepsMoney
<1>8. orders[o] = NoOrder
  BY <1>1 DEF AccountsInv, UnusedRowsEmpty
<1>9. lastNumber' \in Nat
  BY <1>1, <1>2, <1>3
<1> HIDE DEF r
<1>10. QED
  BY <1>1, <1>7, <1>8, <1>9

LEMMA UpdateOrderRow ==
  ASSUME AccountsInv, NEW o \in SalesOrders, NEW e \in Edits, NEW may, UpdateOrder(o, e, may)
  PROVE  /\ \E r \in OrderRows :
              OnlyRow(o, r) /\ r.status = "OPEN" /\ KeepsMoney(orders[o], r)
         /\ UNCHANGED <<jars, customers, lastNumber, today>>
<1> DEFINE lines == IF "cart" \in DOMAIN e THEN NewSalesLines(e.cart) ELSE orders[o].lines
           r == [ orders[o] EXCEPT !.customer = Field(e, "customer", @),
                    !.number = Field(e, "number", @), !.due = Field(e, "due", @),
                    !.lines = lines ]
<1>1. /\ OnlyRow(o, r) /\ orders[o].status = "OPEN"
      /\ UNCHANGED <<jars, customers, lastNumber, today>>
  BY DEF UpdateOrder, OnlyRow
<1>2. orders[o] \in OrderRows
  BY DEF AccountsInv, AccountsTypeOK
<1>3. lines \in Seq(SalesLines)
  BY <1>2, NewSalesLinesType, SalesAssumption DEF OrderRows
<1>4. /\ Field(e, "customer", orders[o].customer) \in Customers
      /\ Field(e, "number", orders[o].number) \in Nat
      /\ Field(e, "due", orders[o].due) \in Nat
  BY <1>2, SalesAssumption DEF OrderRows, Field
<1> HIDE DEF lines
<1>5. r \in OrderRows /\ r.status = "OPEN" /\ KeepsMoney(orders[o], r)
  BY <1>1, <1>2, <1>3, <1>4 DEF OrderRows, KeepsMoney
<1> HIDE DEF r
<1>6. QED
  BY <1>1, <1>5

LEMMA CancelOrderRow ==
  ASSUME AccountsInv, NEW o \in SalesOrders, CancelOrder(o)
  PROVE  /\ \E r \in OrderRows :
              OnlyRow(o, r) /\ r.status = "CANCELLED" /\ KeepsMoney(orders[o], r)
         /\ UNCHANGED <<jars, customers, lastNumber, today>>
<1> DEFINE r == [orders[o] EXCEPT !.status = "CANCELLED"]
<1>1. orders[o] \in OrderRows /\ orders \in [SalesOrders -> OrderRows]
  BY DEF AccountsInv, AccountsTypeOK
<1>2. OnlyRow(o, r) /\ UNCHANGED <<jars, customers, lastNumber, today>>
  BY <1>1 DEF CancelOrder, OnlyRow
<1>3. r \in OrderRows /\ r.status = "CANCELLED" /\ KeepsMoney(orders[o], r)
  BY <1>1 DEF OrderRows, SalesStatuses, KeepsMoney
<1> HIDE DEF r
<1>4. QED
  BY <1>2, <1>3

LEMMA RecordPaymentRow ==
  ASSUME AccountsInv, NEW o \in SalesOrders, NEW amount \in Amounts, RecordPayment(o, amount)
  PROVE  /\ \E r \in OrderRows :
              /\ OnlyRow(o, r) /\ r.status = orders[o].status /\ r.lines = orders[o].lines
              /\ r.paid = orders[o].paid + amount /\ r.refunded = orders[o].refunded
         /\ orders[o].status \notin {"NONE", "CANCELLED"}
         /\ orders[o].paid + amount <= OrderTotal(orders[o])
         /\ UNCHANGED <<jars, customers, lastNumber, today>>
<1> DEFINE mark == orders[o].paidAt \/ orders[o].paid + amount >= OrderTotal(orders[o])
           sum == orders[o].paid + amount
           r == [orders[o] EXCEPT !.paid = sum, !.paidAt = mark]
<1>1. orders[o] \in OrderRows /\ orders \in [SalesOrders -> OrderRows] /\ amount \in Nat
  BY SalesAssumption DEF AccountsInv, AccountsTypeOK
<1>2. OrderTotal(orders[o]) \in Nat
  BY <1>1, OrderTotalNat
<1>3. /\ orders[o].status \notin {"NONE", "CANCELLED"}
      /\ amount <= OrderTotal(orders[o]) - orders[o].paid
      /\ orders' = [orders EXCEPT ![o] = r]
      /\ UNCHANGED <<jars, customers, lastNumber, today>>
  BY DEF RecordPayment, PaymentFits, AfterPayment
<1>4. OnlyRow(o, r)
  BY <1>1, <1>3 DEF OnlyRow
<1>5. orders[o].paid \in Nat /\ sum \in Nat /\ mark \in BOOLEAN
  BY <1>1 DEF OrderRows
<1>6. orders[o].paid + amount <= OrderTotal(orders[o])
  BY <1>1, <1>2, <1>3, <1>5
<1> HIDE DEF mark, sum
<1>7. /\ r \in OrderRows /\ r.status = orders[o].status /\ r.lines = orders[o].lines
      /\ r.paid = sum /\ r.refunded = orders[o].refunded
  BY <1>1, <1>5 DEF OrderRows
<1> HIDE DEF r
<1>8. QED
  BY <1>3, <1>4, <1>6, <1>7 DEF sum

LEMMA IssueRefundRow ==
  ASSUME AccountsInv, NEW o \in SalesOrders, NEW amount \in Amounts, IssueRefund(o, amount)
  PROVE  /\ \E r \in OrderRows :
              /\ OnlyRow(o, r) /\ r.status = orders[o].status /\ r.lines = orders[o].lines
              /\ r.paid = orders[o].paid /\ r.refunded = orders[o].refunded + amount
         /\ orders[o].status # "NONE"
         /\ Owed(orders[o]) <= orders[o].paid - (orders[o].refunded + amount)
         /\ UNCHANGED <<jars, customers, lastNumber, today>>
<1> DEFINE sum == orders[o].refunded + amount
           r == [orders[o] EXCEPT !.refunded = sum]
<1>1. orders[o] \in OrderRows /\ orders \in [SalesOrders -> OrderRows] /\ amount \in Nat \ {0}
  BY SalesAssumption DEF AccountsInv, AccountsTypeOK
<1>2. /\ orders[o].status # "NONE" /\ amount <= Refundable(orders[o])
      /\ OnlyRow(o, r) /\ UNCHANGED <<jars, customers, lastNumber, today>>
  BY <1>1 DEF IssueRefund, RefundFits, AfterRefund, OnlyRow
<1>3. Owed(orders[o]) \in Nat /\ orders[o].paid \in Nat /\ orders[o].refunded \in Nat
  BY <1>1, OwedNat DEF OrderRows
<1>4. Owed(orders[o]) <= orders[o].paid - (orders[o].refunded + amount)
  BY <1>1, <1>2, <1>3 DEF Refundable, Positive
<1>5. sum \in Nat
  BY <1>1, <1>3
<1> HIDE DEF sum
<1>6. /\ r \in OrderRows /\ r.status = orders[o].status /\ r.lines = orders[o].lines
      /\ r.paid = orders[o].paid /\ r.refunded = sum
  BY <1>1, <1>5 DEF OrderRows
<1> HIDE DEF r
<1>7. QED
  BY <1>2, <1>4, <1>6 DEF sum

-----------------------------------------------------------------------------
(***************************************************************************)
(* The invariant is kept.                                                  *)
(***************************************************************************)
LEMMA ContainersStepType ==
  ASSUME ContainersTypeOK, ContainersNext
  PROVE  ContainersTypeOK'
<1>1. jars \in [Containers -> JarRows] /\ Counts \subseteq Nat
  BY ContainerAssumption DEF ContainersTypeOK
<1>2. ASSUME NEW c \in Containers, NEW active \in BOOLEAN, NEW q \in Counts,
             CreateContainer(c, active, q)
      PROVE  ContainersTypeOK'
  BY <1>1, <1>2 DEF CreateContainer, ContainersTypeOK, JarRows
<1>3. ASSUME NEW c \in Containers, NEW active \in BOOLEAN, UpdateContainer(c, active)
      PROVE  ContainersTypeOK'
  BY <1>1, <1>3 DEF UpdateContainer, ContainersTypeOK, JarRows
<1>4. ASSUME NEW c \in Containers, NEW q \in Counts, AdjustContainerIn(c, q)
      PROVE  ContainersTypeOK'
  <2>1. jars[c] \in JarRows /\ jars[c].qty + q \in Nat
    BY <1>1 DEF JarRows
  <2>2. jars' = [jars EXCEPT ![c] = [jars[c] EXCEPT !.qty = jars[c].qty + q]]
    BY <1>1, <1>4 DEF AdjustContainerIn
  <2>3. [jars[c] EXCEPT !.qty = jars[c].qty + q] \in JarRows
    BY <2>1 DEF JarRows
  <2>4. QED
    BY <1>1, <2>2, <2>3 DEF ContainersTypeOK
<1>5. ASSUME NEW c \in Containers, NEW q \in Counts, WithdrawContainer(c, q)
      PROVE  ContainersTypeOK'
  <2>1. ASSUME NEW d \in Containers
        PROVE  [jars[d] EXCEPT !.qty = @ - Single(c, q)[d]] \in JarRows
    <3>1. jars[d] \in JarRows /\ jars[d].qty \in Nat
      BY <1>1 DEF JarRows
    <3>2. Single(c, q)[d] \in Nat /\ Single(c, q)[d] <= jars[d].qty
      BY <1>1, <1>5 DEF WithdrawContainer, Holds, Single
    <3>3. jars[d].qty - Single(c, q)[d] \in Nat
      BY <3>1, <3>2
    <3>4. QED
      BY <3>1, <3>3 DEF JarRows
  <2>2. jars' = [d \in Containers |-> [jars[d] EXCEPT !.qty = @ - Single(c, q)[d]]]
    BY <1>5 DEF WithdrawContainer, Less
  <2>3. QED
    BY <2>1, <2>2 DEF ContainersTypeOK
<1>6. QED
  BY <1>2, <1>3, <1>4, <1>5 DEF ContainersNext

LEMMA AccountsInvInit == AccountsInit => AccountsInv
<1> SUFFICES ASSUME AccountsInit
             PROVE  AccountsInv
  OBVIOUS
<1>1. ContainersTypeOK
  BY DEF AccountsInit, ContainersInit, ContainersTypeOK, JarRows
<1>2. orders \in [SalesOrders -> OrderRows]
  BY NoOrderType DEF AccountsInit
<1>3. customers \in [Customers -> ProfileRows]
  BY SalesAssumption DEF AccountsInit
<1>4. RefundsWithinPayments
  BY NoOrderOwesNothing DEF AccountsInit, RefundsWithinPayments
<1>5. UnusedRowsEmpty
  BY DEF AccountsInit, UnusedRowsEmpty
<1>6. QED
  BY <1>1, <1>2, <1>3, <1>4, <1>5 DEF AccountsInit, AccountsInv, AccountsTypeOK

\* A step of an order that keeps, or brings nearer, what was paid and given back.
LEMMA OrderStepRow ==
  ASSUME AccountsInv, NEW o \in SalesOrders, NEW r \in OrderRows, OnlyRow(o, r),
         r.refunded <= r.paid, r.status # "NONE",
         lastNumber' \in Nat, UNCHANGED <<jars, customers, today>>
  PROVE  AccountsInv'
<1>1. orders' \in [SalesOrders -> OrderRows] /\ RefundsWithinPayments' /\ UnusedRowsEmpty'
  BY RowKeepsInv
<1>2. ContainersTypeOK'
  BY DEF AccountsInv, AccountsTypeOK, ContainersTypeOK
<1>3. customers' \in [Customers -> ProfileRows] /\ today' \in Nat
  BY DEF AccountsInv, AccountsTypeOK
<1>4. QED
  BY <1>1, <1>2, <1>3 DEF AccountsInv, AccountsTypeOK

LEMMA OrdersKept ==
  ASSUME AccountsInv, UNCHANGED orders
  PROVE  orders' \in [SalesOrders -> OrderRows] /\ RefundsWithinPayments' /\ UnusedRowsEmpty'
BY DEF AccountsInv, AccountsTypeOK, RefundsWithinPayments, UnusedRowsEmpty

LEMMA OtherStepInv ==
  ASSUME AccountsInv, OtherAccountsStep
  PROVE  AccountsInv' /\ UNCHANGED orders
<1>1. ASSUME NEW c \in Customers, NEW profile \in Profiles, UpdateCustomer(c, profile)
      PROVE  AccountsInv' /\ UNCHANGED orders
  <2>1. UNCHANGED <<jars, orders, lastNumber, today>>
    BY <1>1 DEF UpdateCustomer
  <2>2. customers' \in [Customers -> ProfileRows]
    BY <1>1, SalesAssumption DEF UpdateCustomer, AccountsInv, AccountsTypeOK
  <2>3. ContainersTypeOK' /\ lastNumber' \in Nat /\ today' \in Nat
    BY <2>1 DEF AccountsInv, AccountsTypeOK, ContainersTypeOK
  <2>4. QED
    BY <2>1, <2>2, <2>3, OrdersKept DEF AccountsInv, AccountsTypeOK
<1>2. ASSUME NextDay
      PROVE  AccountsInv' /\ UNCHANGED orders
  <2>1. UNCHANGED <<jars, customers, orders, lastNumber>> /\ today' \in Nat
    BY <1>2, SalesAssumption DEF NextDay
  <2>2. ContainersTypeOK' /\ lastNumber' \in Nat /\ customers' \in [Customers -> ProfileRows]
    BY <2>1 DEF AccountsInv, AccountsTypeOK, ContainersTypeOK
  <2>3. QED
    BY <2>1, <2>2, OrdersKept DEF AccountsInv, AccountsTypeOK
<1>3. ASSUME ContainersNext, UNCHANGED <<customers, orders, lastNumber, today>>
      PROVE  AccountsInv' /\ UNCHANGED orders
  <2>1. ContainersTypeOK'
    BY <1>3, ContainersStepType DEF AccountsInv, AccountsTypeOK
  <2>2. /\ lastNumber' \in Nat /\ customers' \in [Customers -> ProfileRows]
        /\ today' \in Nat
    BY <1>3 DEF AccountsInv, AccountsTypeOK
  <2>3. QED
    BY <1>3, <2>1, <2>2, OrdersKept DEF AccountsInv, AccountsTypeOK
<1>4. QED
  BY <1>1, <1>2, <1>3 DEF OtherAccountsStep

-----------------------------------------------------------------------------
(***************************************************************************)
(* The accounts that Settlement speaks of, before and after a step.        *)
(***************************************************************************)
OwedNow == [o \in SalesOrders |-> Owed(orders[o])]
NetNow == [o \in SalesOrders |-> orders[o].paid - orders[o].refunded]

LEMMA AccountsOfRow ==
  ASSUME AccountsInv, NEW o \in SalesOrders, NEW r \in OrderRows, OnlyRow(o, r),
         r.refunded <= r.paid
  PROVE  /\ OwedNow' = [OwedNow EXCEPT ![o] = Owed(r)]
         /\ NetNow' = [NetNow EXCEPT ![o] = r.paid - r.refunded]
         /\ OwedNow[o] = Owed(orders[o]) /\ OwedNow'[o] = Owed(r) /\ Owed(r) \in Nat
         /\ NetNow[o] = orders[o].paid - orders[o].refunded
         /\ NetNow'[o] = r.paid - r.refunded /\ r.paid - r.refunded \in Nat
<1>1. orders \in [SalesOrders -> OrderRows]
  BY DEF AccountsInv, AccountsTypeOK
<1>2. \A p \in SalesOrders : orders'[p] = IF p = o THEN r ELSE orders[p]
  BY <1>1 DEF OnlyRow
<1>3. OwedNow' = [p \in SalesOrders |-> Owed(orders'[p])]
  BY DEF OwedNow, Owed, OrderTotal, Sum
<1>4. NetNow' = [p \in SalesOrders |-> orders'[p].paid - orders'[p].refunded]
  BY DEF NetNow
<1>5. OwedNow' = [OwedNow EXCEPT ![o] = Owed(r)]
  BY <1>2, <1>3, Zenon DEF OwedNow
<1>6. NetNow' = [NetNow EXCEPT ![o] = r.paid - r.refunded]
  BY <1>2, <1>4 DEF NetNow
<1>7. Owed(r) \in Nat /\ r.paid - r.refunded \in Nat
  BY OwedNat DEF OrderRows
<1>8. OwedNow[o] = Owed(orders[o]) /\ NetNow[o] = orders[o].paid - orders[o].refunded
  BY DEF OwedNow, NetNow
<1>9. OwedNow'[o] = Owed(r) /\ NetNow'[o] = r.paid - r.refunded
  BY <1>5, <1>6 DEF OwedNow, NetNow
<1>10. QED
  BY <1>5, <1>6, <1>7, <1>8, <1>9

\* A step that moves no money bills.
LEMMA KeepingMoneyBills ==
  ASSUME AccountsInv, NEW o \in SalesOrders, NEW r \in OrderRows, OnlyRow(o, r),
         KeepsMoney(orders[o], r)
  PROVE  Ledger!Bill(o) /\ r.refunded <= r.paid
<1>1. r.refunded <= r.paid /\ r.paid - r.refunded = orders[o].paid - orders[o].refunded
  BY DEF KeepsMoney, AccountsInv, RefundsWithinPayments
<1>2. /\ OwedNow' = [OwedNow EXCEPT ![o] = OwedNow'[o]] /\ OwedNow'[o] \in Nat
      /\ NetNow' = [NetNow EXCEPT ![o] = NetNow[o]]
  BY <1>1, AccountsOfRow
<1>3. NetNow' = NetNow
  BY <1>2 DEF NetNow
<1>4. QED
  BY <1>1, <1>2, <1>3 DEF Ledger!Bill, Ledger!OnlyAt, OwedNow, NetNow

\* A step that moves what was paid towards what is owed, and not past it, settles.
LEMMA MovingMoneySettles ==
  ASSUME AccountsInv, NEW o \in SalesOrders, NEW r \in OrderRows, OnlyRow(o, r),
         r.status = orders[o].status, r.lines = orders[o].lines,
         r.refunded <= r.paid, r.paid - r.refunded # orders[o].paid - orders[o].refunded,
         \/ /\ orders[o].paid - orders[o].refunded <= r.paid - r.refunded
            /\ r.paid - r.refunded <= Owed(orders[o])
         \/ /\ Owed(orders[o]) <= r.paid - r.refunded
            /\ r.paid - r.refunded <= orders[o].paid - orders[o].refunded
  PROVE  Ledger!Settle(o)
<1>1. Owed(r) = Owed(orders[o])
  BY DEF Owed, OrderTotal
<1>2. OwedNow' = OwedNow
  <2>1. OwedNow' = [OwedNow EXCEPT ![o] = OwedNow[o]]
    BY <1>1, AccountsOfRow
  <2>2. QED
    BY <2>1 DEF OwedNow
<1>3. /\ NetNow' = [NetNow EXCEPT ![o] = NetNow'[o]] /\ NetNow'[o] \in Nat
      /\ NetNow'[o] # NetNow[o]
      /\ \/ NetNow[o] <= NetNow'[o] /\ NetNow'[o] <= OwedNow[o]
         \/ OwedNow[o] <= NetNow'[o] /\ NetNow'[o] <= NetNow[o]
  BY AccountsOfRow
<1>4. QED
  BY <1>2, <1>3 DEF Ledger!Settle, Ledger!OnlyAt, Ledger!Between, OwedNow, NetNow

-----------------------------------------------------------------------------
LEMMA CreationBills ==
  ASSUME AccountsInv, NEW o \in SalesOrders, NEW c \in Customers, NEW cart \in Carts,
         NEW number \in Nat, NEW due \in Nat, NEW may,
         CreateOrder(o, c, cart, number, due, may)
  PROVE  AccountsInv' /\ Ledger!Bill(o)
<1>1. PICK r \in OrderRows : OnlyRow(o, r) /\ r.status = "OPEN" /\ KeepsMoney(orders[o], r)
  BY CreateOrderRow
<1>2. lastNumber' \in Nat /\ UNCHANGED <<jars, customers, today>>
  BY CreateOrderRow
<1>3. Ledger!Bill(o) /\ r.refunded <= r.paid
  BY <1>1, KeepingMoneyBills
<1>4. QED
  BY <1>1, <1>2, <1>3, OrderStepRow

LEMMA UpdateBills ==
  ASSUME AccountsInv, NEW o \in SalesOrders, NEW e \in Edits, NEW may, UpdateOrder(o, e, may)
  PROVE  AccountsInv' /\ Ledger!Bill(o)
<1>1. PICK r \in OrderRows : OnlyRow(o, r) /\ r.status = "OPEN" /\ KeepsMoney(orders[o], r)
  BY UpdateOrderRow
<1>2. lastNumber' \in Nat /\ UNCHANGED <<jars, customers, today>>
  BY UpdateOrderRow DEF AccountsInv, AccountsTypeOK
<1>3. Ledger!Bill(o) /\ r.refunded <= r.paid
  BY <1>1, KeepingMoneyBills
<1>4. QED
  BY <1>1, <1>2, <1>3, OrderStepRow

LEMMA CancellationBills ==
  ASSUME AccountsInv, NEW o \in SalesOrders, CancelOrder(o)
  PROVE  AccountsInv' /\ Ledger!Bill(o)
<1>1. PICK r \in OrderRows :
        OnlyRow(o, r) /\ r.status = "CANCELLED" /\ KeepsMoney(orders[o], r)
  BY CancelOrderRow
<1>2. lastNumber' \in Nat /\ UNCHANGED <<jars, customers, today>>
  BY CancelOrderRow DEF AccountsInv, AccountsTypeOK
<1>3. Ledger!Bill(o) /\ r.refunded <= r.paid
  BY <1>1, KeepingMoneyBills
<1>4. QED
  BY <1>1, <1>2, <1>3, OrderStepRow

LEMMA PaymentSettles ==
  ASSUME AccountsInv, NEW o \in SalesOrders, NEW amount \in Amounts, RecordPayment(o, amount)
  PROVE  AccountsInv' /\ Ledger!Settle(o)
<1>1. PICK r \in OrderRows :
        /\ OnlyRow(o, r) /\ r.status = orders[o].status /\ r.lines = orders[o].lines
        /\ r.paid = orders[o].paid + amount /\ r.refunded = orders[o].refunded
  BY RecordPaymentRow
<1>2. /\ orders[o].status \notin {"NONE", "CANCELLED"}
      /\ orders[o].paid + amount <= OrderTotal(orders[o])
      /\ UNCHANGED <<jars, customers, lastNumber, today>>
  BY RecordPaymentRow
<1>3. /\ orders[o] \in OrderRows /\ orders[o].refunded <= orders[o].paid
      /\ amount \in Nat \ {0} /\ lastNumber' \in Nat
  BY <1>2, SalesAssumption DEF AccountsInv, AccountsTypeOK, RefundsWithinPayments
<1>4. orders[o].paid \in Nat /\ orders[o].refunded \in Nat /\ OrderTotal(orders[o]) \in Nat
  BY <1>3, OrderTotalNat DEF OrderRows
<1>5. Owed(orders[o]) = OrderTotal(orders[o])
  BY <1>2 DEF Owed
<1>6. /\ r.refunded <= r.paid
      /\ r.paid - r.refunded # orders[o].paid - orders[o].refunded
      /\ orders[o].paid - orders[o].refunded <= r.paid - r.refunded
      /\ r.paid - r.refunded <= Owed(orders[o])
  BY <1>1, <1>2, <1>3, <1>4, <1>5
<1>7. Ledger!Settle(o)
  BY <1>1, <1>6, MovingMoneySettles
<1>8. QED
  BY <1>1, <1>2, <1>3, <1>6, <1>7, OrderStepRow

LEMMA RefundSettles ==
  ASSUME AccountsInv, NEW o \in SalesOrders, NEW amount \in Amounts, IssueRefund(o, amount)
  PROVE  AccountsInv' /\ Ledger!Settle(o)
<1>1. PICK r \in OrderRows :
        /\ OnlyRow(o, r) /\ r.status = orders[o].status /\ r.lines = orders[o].lines
        /\ r.paid = orders[o].paid /\ r.refunded = orders[o].refunded + amount
  BY IssueRefundRow
<1>2. /\ orders[o].status # "NONE"
      /\ Owed(orders[o]) <= orders[o].paid - (orders[o].refunded + amount)
      /\ UNCHANGED <<jars, customers, lastNumber, today>>
  BY IssueRefundRow
<1>3. orders[o] \in OrderRows /\ amount \in Nat \ {0} /\ lastNumber' \in Nat
  BY <1>2, SalesAssumption DEF AccountsInv, AccountsTypeOK
<1>4. orders[o].paid \in Nat /\ orders[o].refunded \in Nat /\ Owed(orders[o]) \in Nat
  BY <1>3, OwedNat DEF OrderRows
<1>5. /\ r.refunded <= r.paid
      /\ r.paid - r.refunded # orders[o].paid - orders[o].refunded
      /\ Owed(orders[o]) <= r.paid - r.refunded
      /\ r.paid - r.refunded <= orders[o].paid - orders[o].refunded
  BY <1>1, <1>2, <1>3, <1>4
<1>6. Ledger!Settle(o)
  BY <1>1, <1>5, MovingMoneySettles
<1>7. QED
  BY <1>1, <1>2, <1>3, <1>5, <1>6, OrderStepRow

LEMMA OrderStepSettles ==
  ASSUME AccountsInv, NEW o \in SalesOrders, OrderStep(o)
  PROVE  AccountsInv' /\ Ledger!SettlementNext
<1>1. ASSUME NEW c \in Customers, NEW cart \in Carts, NEW number \in Numbers \cup {NoNumber},
             NEW may \in Grants, CreateOrder(o, c, cart, number, 0, may)
      PROVE  AccountsInv' /\ Ledger!Bill(o)
  <2>1. number \in Nat /\ 0 \in Nat
    BY SalesAssumption DEF NoNumber
  <2>2. QED
    BY <1>1, <2>1, CreationBills
<1>2. ASSUME NEW g \in Imports, ImportOrder(o, g)
      PROVE  AccountsInv' /\ Ledger!Bill(o)
  <2>1. g.customer \in Customers /\ g.number \in Nat /\ g.cart \in Carts /\ g.due \in Nat
    BY SalesAssumption
  <2>2. QED
    BY <1>2, <2>1, CreationBills DEF ImportOrder
<1>3. CASE CancelOrder(o)
  BY <1>3, CancellationBills DEF Ledger!SettlementNext
<1>4. ASSUME NEW amount \in Amounts, RecordPayment(o, amount) \/ IssueRefund(o, amount)
      PROVE  AccountsInv' /\ Ledger!Settle(o)
  BY <1>4, PaymentSettles, RefundSettles
<1>5. QED
  BY <1>1, <1>2, <1>3, <1>4 DEF OrderStep, Ledger!SettlementNext

LEMMA AccountsInvStep ==
  AccountsInv /\ [AccountsNext]_salesVars
    => AccountsInv' /\ [Ledger!SettlementNext]_(Ledger!settlementVars)
<1> SUFFICES ASSUME AccountsInv, [AccountsNext]_salesVars
             PROVE  AccountsInv' /\ [Ledger!SettlementNext]_(Ledger!settlementVars)
  OBVIOUS
<1>1. ASSUME UNCHANGED orders
      PROVE  UNCHANGED Ledger!settlementVars
  BY <1>1 DEF Ledger!settlementVars, Owed, OrderTotal, Sum
<1>2. CASE UNCHANGED salesVars
  <2>1. UNCHANGED <<jars, customers, orders, lastNumber, today>>
    BY <1>2 DEF salesVars
  <2>2. AccountsInv'
    BY <2>1, OrdersKept DEF AccountsInv, AccountsTypeOK, ContainersTypeOK
  <2>3. QED
    BY <1>1, <2>1, <2>2
<1>3. ASSUME NEW o \in SalesOrders, OrderStep(o)
      PROVE  AccountsInv' /\ Ledger!SettlementNext
  BY <1>3, OrderStepSettles
<1>4. ASSUME NEW o \in SalesOrders, NEW e \in Edits, NEW may \in Grants, UpdateOrder(o, e, may)
      PROVE  AccountsInv' /\ Ledger!SettlementNext
  BY <1>4, UpdateBills DEF Ledger!SettlementNext
<1>5. CASE OtherAccountsStep
  BY <1>1, <1>5, OtherStepInv
<1>6. QED
  BY <1>2, <1>3, <1>4, <1>5 DEF AccountsNext

(***************************************************************************)
(* The rows of customers, orders and containers are well typed: counts and *)
(* amounts never become negative.                                          *)
(***************************************************************************)
THEOREM AccountsWellTyped == AccountsSpec => []AccountsTypeOK
<1>1. AccountsInv => AccountsTypeOK
  BY DEF AccountsInv
<1>2. QED
  BY AccountsInvInit, AccountsInvStep, <1>1, PTL DEF AccountsSpec

(***************************************************************************)
(* No order is ever refunded more than was paid on it, through payments,   *)
(* edits, cancellation and refunds in any order (issueRefund).             *)
(***************************************************************************)
THEOREM NeverOverRefunded == AccountsSpec => []RefundsWithinPayments
<1>1. AccountsInv => RefundsWithinPayments
  BY DEF AccountsInv
<1>2. QED
  BY AccountsInvInit, AccountsInvStep, <1>1, PTL DEF AccountsSpec

(***************************************************************************)
(* The sales accounts implement Settlement: payments and refunds only ever *)
(* bring what the customer has paid towards what the order asks for, and   *)
(* nothing else moves money.                                               *)
(***************************************************************************)
THEOREM AccountsImplementSettlement == AccountsSpec => AccountsSettle
<1>1. AccountsInit => Ledger!SettlementInit
  BY NoOrderOwesNothing DEF AccountsInit, Ledger!SettlementInit
<1>2. QED
  BY AccountsInvInit, AccountsInvStep, <1>1, PTL
  DEF AccountsSpec, AccountsSettle, Ledger!SettlementSpec

-----------------------------------------------------------------------------
(***************************************************************************)
(* Credit.  The report of receivables drops what is paid up and splits the *)
(* rest by age; the check of a new order adds up the open orders.  Both    *)
(* come to the same sum, so an order that passed the check is within the   *)
(* limit by the report.                                                    *)
(***************************************************************************)
LEMMA OpenBalanceNat ==
  ASSUME AccountsInv, NEW o \in SalesOrders
  PROVE  /\ orders[o] \in OrderRows
         /\ BalanceDue(orders[o]) \in Int
         /\ OpenBalance(orders[o]) \in Nat
         /\ ArBalance(o) \in Nat
<1>1. orders[o] \in OrderRows
  BY DEF AccountsInv, AccountsTypeOK
<1>2. OrderTotal(orders[o]) \in Nat /\ orders[o].paid \in Nat /\ orders[o].refunded \in Nat
  BY <1>1, OrderTotalNat DEF OrderRows
<1>3. QED
  BY <1>1, <1>2 DEF BalanceDue, OpenBalance, ArBalance, Positive

\* Every age is in one of the buckets.
LEMMA BucketRange ==
  ASSUME NEW days
  PROVE  Bucket(days) \in 0..Len(AgingSteps) /\ Len(AgingSteps) \in Nat
<1>1. PICK n \in Nat : n = Len(AgingSteps) /\ DOMAIN AgingSteps = 1..n
  BY SalesAssumption
<1>2. IsFiniteSet(1..n) /\ Cardinality(1..n) = n
  <2>1. 1 \in Int /\ n \in Int
    BY <1>1
  <2>2. Cardinality(1..n) = IF 1 > n THEN 0 ELSE n - 1 + 1
    BY <2>1, FS_Interval
  <2>3. IsFiniteSet(1..n)
    BY <2>1, FS_Interval
  <2>4. QED
    BY <1>1, <2>2, <2>3
<1>3. PICK S : S = {k \in DOMAIN AgingSteps : days > AgingSteps[k]}
  OBVIOUS
<1>4. S \in SUBSET (1..n)
  BY <1>1, <1>3
<1>5. Cardinality(S) \in Nat /\ Cardinality(S) <= n
  BY <1>2, <1>4, FewerElements
<1>6. QED
  BY <1>1, <1>3, <1>5 DEF Bucket

\* The report and the check agree on what a customer owes.
LEMMA ReportIsExposure ==
  ASSUME AccountsInv, NEW c \in Customers
  PROVE  ArExposure(c) = Exposure(c)
<1>1. PICK N, M, f, part :
        /\ N = NumSalesOrders /\ M = Len(AgingSteps) + 1
        /\ f = [o \in SalesOrders |-> IF o \in OrdersOf(c) THEN OpenBalance(orders[o]) ELSE 0]
        /\ part = [o \in SalesOrders |-> Bucket(DaysPastDue(o)) + 1]
  OBVIOUS
<1>2. N \in Nat /\ M \in Nat /\ SalesOrders = 1..N
  BY <1>1, SalesAssumption, BucketRange DEF SalesOrders
<1>3. \A o \in 1..N : f[o] \in Int /\ part[o] \in 1..M
  <2>. SUFFICES ASSUME NEW o \in 1..N
                PROVE  f[o] \in Int /\ part[o] \in 1..M
    OBVIOUS
  <2>1. Bucket(DaysPastDue(o)) \in 0..Len(AgingSteps) /\ Len(AgingSteps) \in Nat
    BY BucketRange
  <2>2. part[o] = Bucket(DaysPastDue(o)) + 1
    BY <1>1, <1>2
  <2>3. f[o] = IF o \in OrdersOf(c) THEN OpenBalance(orders[o]) ELSE 0
    BY <1>1, <1>2
  <2>4. OpenBalance(orders[o]) \in Nat
    BY <1>2, OpenBalanceNat
  <2>5. QED
    BY <1>1, <2>1, <2>2, <2>3, <2>4
<1>4. ASSUME NEW b \in 1..M
      PROVE  Aging(c, b - 1) = Sum(Part(f, part, N, b), N)
  <2>1. PICK g, h : /\ g = Part(f, part, N, b)
                    /\ h = [o \in SalesOrders |->
                             IF o \in ArOrders(c) /\ Bucket(DaysPastDue(o)) = b - 1
                             THEN ArBalance(o) ELSE 0]
    OBVIOUS
  <2>2. \A o \in 1..N : g[o] \in Int /\ h[o] = g[o]
    <3>. SUFFICES ASSUME NEW o \in 1..N
                  PROVE  g[o] \in Int /\ h[o] = g[o]
      OBVIOUS
    <3>1. g[o] = IF part[o] = b THEN f[o] ELSE 0
      BY <2>1 DEF Part
    <3>2. h[o] = IF o \in ArOrders(c) /\ Bucket(DaysPastDue(o)) = b - 1
                 THEN ArBalance(o) ELSE 0
      BY <1>2, <2>1
    <3>3. part[o] = b <=> Bucket(DaysPastDue(o)) = b - 1
      <4>1. part[o] = Bucket(DaysPastDue(o)) + 1 /\ Bucket(DaysPastDue(o)) \in Nat /\ b \in Nat
        BY <1>1, <1>2, BucketRange
      <4>2. QED
        BY <4>1
    <3>4. f[o] = IF o \in ArOrders(c) THEN ArBalance(o) ELSE 0
      <4>1. f[o] = IF o \in OrdersOf(c) THEN OpenBalance(orders[o]) ELSE 0
        BY <1>1, <1>2
      <4>2. o \in OrdersOf(c) => OpenBalance(orders[o]) = ArBalance(o)
        BY DEF OrdersOf, OpenBalance, ArBalance
      <4>3. o \in ArOrders(c) <=> o \in OrdersOf(c) /\ ArBalance(o) > 0
        BY <1>2 DEF ArOrders, OrdersOf
      <4>4. ArBalance(o) \in Nat
        BY <1>2, OpenBalanceNat
      <4>5. QED
        BY <4>1, <4>2, <4>3, <4>4
    <3>5. QED
      BY <1>3, <3>1, <3>2, <3>3, <3>4
  <2>3. Sum(h, N) = Sum(g, N)
    BY <1>2, <2>2, SumSame
  <2>4. QED
    BY <1>1, <2>1, <2>3 DEF Aging
<1>5. ArExposure(c) = Sum(PartSums(f, part, N, M), M)
  <2>1. [n \in 1..M |-> Aging(c, n - 1)] = PartSums(f, part, N, M)
    BY <1>4 DEF PartSums
  <2>2. QED
    BY <1>1, <2>1 DEF ArExposure
<1>6. Sum(PartSums(f, part, N, M), M) = Sum(f, N)
  BY <1>2, <1>3, SumOfParts
<1>7. QED
  BY <1>1, <1>5, <1>6 DEF Exposure

LEMMA ReportIsExposureAfter ==
  AccountsInv' => \A c \in Customers : ArExposure(c)' = Exposure(c)'
<1>1. AccountsInv => \A c \in Customers : ArExposure(c) = Exposure(c)
  BY ReportIsExposure
<1>2. (AccountsInv => \A c \in Customers : ArExposure(c) = Exposure(c))'
  BY <1>1, PTL
<1>3. QED
  BY <1>2

\* A new order adds its total to what its customer owes.
LEMMA NewOrderAdds ==
  ASSUME AccountsInv, AccountsInv', NEW o \in SalesOrders, NEW c \in Customers,
         NEW cart \in Carts, NEW number \in Nat, NEW due \in Nat, NEW may,
         CreateOrder(o, c, cart, number, due, may)
  PROVE  /\ orders'[o].customer = c
         /\ Exposure(c)' = Exposure(c) + CartTotal(cart)
         /\ \A p \in SalesOrders \ {o} : orders'[p] = orders[p]
<1>1. PICK given : given = IF number = NoNumber THEN NextNumber ELSE number
  OBVIOUS
<1>2. PICK r : /\ orders' = [orders EXCEPT ![o] = r]
               /\ r = [ NoOrder EXCEPT !.status = "OPEN", !.customer = c, !.number = given,
                        !.date = today, !.due = IF due = 0 THEN today + LeadDays ELSE due,
                        !.lines = NewSalesLines(cart) ]
  BY <1>1 DEF CreateOrder
<1>3. /\ r.status = "OPEN" /\ r.customer = c /\ r.lines = NewSalesLines(cart)
      /\ r.paid = 0 /\ r.refunded = 0
  BY <1>2 DEF NoOrder
<1>4. orders \in [SalesOrders -> OrderRows]
  BY DEF AccountsInv, AccountsTypeOK
<1>5. orders'[o] = r /\ \A p \in SalesOrders \ {o} : orders'[p] = orders[p]
  BY <1>2, <1>4
<1>6. OrderTotal(r) = CartTotal(cart)
  <2>1. cart \in Seq(CartEntries)
    BY SalesAssumption
  <2>2. /\ DOMAIN r.lines = DOMAIN cart /\ Len(r.lines) = Len(cart)
        /\ \A n \in DOMAIN cart : /\ r.lines[n].ordered = cart[n].qty
                                   /\ r.lines[n].price = cart[n].price
    <3>1. DOMAIN NewSalesLines(cart) = DOMAIN cart
      BY DEF NewSalesLines
    <3>2. NewSalesLines(cart) \in Seq(SalesLines)
      BY NewSalesLinesType
    <3>3. Len(NewSalesLines(cart)) = Len(cart)
      BY <2>1, <3>1, <3>2
    <3>4. \A n \in DOMAIN cart : /\ NewSalesLines(cart)[n].ordered = cart[n].qty
                                 /\ NewSalesLines(cart)[n].price = cart[n].price
      BY DEF NewSalesLines, NewSalesLine
    <3>5. QED
      BY <1>3, <3>1, <3>3, <3>4
  <2>3. [n \in DOMAIN r.lines |-> r.lines[n].ordered * r.lines[n].price] =
        [n \in DOMAIN cart |-> cart[n].qty * cart[n].price]
    BY <2>2
  <2>4. QED
    BY <2>2, <2>3 DEF OrderTotal, CartTotal
<1>7. OrderTotal(r) \in Nat /\ OpenBalance(r) = OrderTotal(r)
  <2>1. r \in OrderRows
    BY <1>5 DEF AccountsInv, AccountsTypeOK
  <2>2. OrderTotal(r) \in Nat
    BY <2>1, OrderTotalNat
  <2>3. QED
    BY <1>3, <2>2 DEF OpenBalance, BalanceDue, Positive
<1>8. PICK N, f, g, a :
        /\ N = NumSalesOrders
        /\ f = [p \in SalesOrders |-> IF p \in OrdersOf(c) THEN OpenBalance(orders[p]) ELSE 0]
        /\ g = [p \in SalesOrders |->
                  IF p \in OrdersOf(c)' THEN OpenBalance(orders'[p]) ELSE 0]
        /\ a = At(o, CartTotal(cart), NumSalesOrders)
  OBVIOUS
<1>9. N \in Nat /\ SalesOrders = 1..N /\ o \in Int
  BY <1>8, SalesAssumption DEF SalesOrders
<1>10. \A p \in 1..N : f[p] \in Int /\ a[p] \in Int /\ g[p] = f[p] + a[p]
  <2>. SUFFICES ASSUME NEW p \in 1..N
                PROVE  f[p] \in Int /\ a[p] \in Int /\ g[p] = f[p] + a[p]
    OBVIOUS
  <2>1. /\ f[p] = IF p \in OrdersOf(c) THEN OpenBalance(orders[p]) ELSE 0
        /\ g[p] = IF p \in OrdersOf(c)' THEN OpenBalance(orders'[p]) ELSE 0
        /\ a[p] = IF p = o THEN CartTotal(cart) ELSE 0
    BY <1>8, <1>9 DEF At
  <2>2. OpenBalance(orders[p]) \in Nat
    BY <1>9, OpenBalanceNat
  <2>3. CASE p = o
    <3>1. o \notin OrdersOf(c)
      BY DEF OrdersOf, CreateOrder
    <3>2. o \in OrdersOf(c)'
      BY <1>3, <1>5 DEF OrdersOf
    <3>3. QED
      BY <1>5, <1>6, <1>7, <2>1, <2>3, <3>1, <3>2
  <2>4. CASE p # o
    <3>1. orders'[p] = orders[p]
      BY <1>5, <1>9, <2>4
    <3>2. p \in OrdersOf(c)' <=> p \in OrdersOf(c)
      BY <3>1 DEF OrdersOf
    <3>3. QED
      BY <2>1, <2>2, <2>4, <3>1, <3>2
  <2>5. QED
    BY <2>3, <2>4
<1>11. Sum(g, N) = Sum(f, N) + Sum(a, N)
  BY <1>9, <1>10, SumAdd
<1>12. Sum(a, N) = CartTotal(cart)
  <2>1. CartTotal(cart) \in Int /\ o \in 1..N
    BY <1>6, <1>7, <1>9
  <2>2. a = At(o, CartTotal(cart), N)
    BY <1>8
  <2>3. QED
    BY <1>9, <2>1, <2>2, SumAt
<1>13. QED
  BY <1>3, <1>5, <1>8, <1>11, <1>12 DEF Exposure

\* Only the creation and the import of an order make a number an order.
LEMMA OnlyCreationsOpen ==
  ASSUME AccountsInv, [AccountsNext]_salesVars, NEW o \in SalesOrders,
         orders[o].status = "NONE", orders'[o].status # "NONE"
  PROVE  \/ \E c \in Customers, cart \in Carts, number \in Numbers \cup {NoNumber}, may \in Grants :
               CreateOrder(o, c, cart, number, 0, may)
         \/ \E g \in Imports : ImportOrder(o, g)
<1>1. orders \in [SalesOrders -> OrderRows]
  BY DEF AccountsInv, AccountsTypeOK
<1>2. orders' # orders
  OBVIOUS
<1>3. ASSUME NEW p \in SalesOrders, NEW e \in Edits, NEW may \in Grants, UpdateOrder(p, e, may)
      PROVE  FALSE
  <2>1. p # o
    BY <1>3 DEF UpdateOrder
  <2>2. orders'[o] = orders[o]
    BY <1>1, <1>3, <2>1 DEF UpdateOrder
  <2>3. QED
    BY <2>2
<1>4. ASSUME OtherAccountsStep
      PROVE  FALSE
  BY <1>2, <1>4 DEF OtherAccountsStep, UpdateCustomer, NextDay
<1>5. PICK p \in SalesOrders : OrderStep(p)
  BY <1>2, <1>3, <1>4 DEF AccountsNext, salesVars
<1>6. ~ CancelOrder(p)
  <2>1. ASSUME CancelOrder(p)
        PROVE  FALSE
    <3>1. p # o
      BY <2>1 DEF CancelOrder, OrderCancellable
    <3>2. orders'[o] = orders[o]
      BY <1>1, <2>1, <3>1 DEF CancelOrder, OrderCancellable
    <3>3. QED
      BY <3>2
  <2>2. QED
    BY <2>1
<1>7. ASSUME NEW amount \in Amounts, RecordPayment(p, amount) \/ IssueRefund(p, amount)
      PROVE  FALSE
  <2>1. p # o
    BY <1>7 DEF RecordPayment, IssueRefund, PaymentFits, RefundFits, AfterPayment, AfterRefund
  <2>2. orders'[o] = orders[o]
    BY <1>1, <1>7, <2>1 DEF RecordPayment, IssueRefund, PaymentFits, RefundFits, AfterPayment, AfterRefund
  <2>3. QED
    BY <2>2
<1>8. ASSUME NEW c \in Customers, NEW cart \in Carts, NEW number \in Numbers \cup {NoNumber},
             NEW may \in Grants, CreateOrder(p, c, cart, number, 0, may)
      PROVE  p = o
  BY <1>1, <1>8 DEF CreateOrder
<1>9. ASSUME NEW g \in Imports, ImportOrder(p, g)
      PROVE  p = o
  BY <1>1, <1>9 DEF ImportOrder, CreateOrder
<1>10. QED
  BY <1>5, <1>6, <1>7, <1>8, <1>9 DEF OrderStep

\* An order within the limit of its check is within it by the report.
LEMMA CheckedOrderWithinLimit ==
  ASSUME AccountsInv, AccountsInv', NEW o \in SalesOrders, NEW c \in Customers,
         NEW cart \in Carts, NEW number \in Nat, NEW due \in Nat, NEW may,
         CreateOrder(o, c, cart, number, due, may),
         "credit" \notin may, customers[c].limit # NoLimit
  PROVE  orders'[o].customer = c /\ ArExposure(c)' <= customers[c].limit
<1>1. Exposure(c) + CartTotal(cart) <= customers[c].limit
  BY DEF CreateOrder, WithinCredit
<1>2. orders'[o].customer = c /\ Exposure(c)' = Exposure(c) + CartTotal(cart)
  BY NewOrderAdds
<1>3. ArExposure(c)' = Exposure(c)'
  BY ReportIsExposureAfter
<1>4. QED
  BY <1>1, <1>2, <1>3

(***************************************************************************)
(* "Block a new order that would push the customer past their credit       *)
(* limit": unless an override is granted, an order that comes to exist     *)
(* leaves what the receivables report says of its customer within the      *)
(* limit, for any orders, payments and aging steps                         *)
(* (assertWithinCreditLimit, ArService).                                   *)
(***************************************************************************)
THEOREM CreditLimitHolds == AccountsSpec => NewOrdersWithinCredit
<1>1. ASSUME AccountsInv, AccountsInv', [AccountsNext]_salesVars
      PROVE  [\A o \in SalesOrders, c \in Customers :
                /\ orders[o].status = "NONE" /\ orders'[o].status # "NONE"
                /\ orders'[o].customer = c /\ customers[c].limit # NoLimit
                /\ ~ OverLimitGranted
                => ArExposure(c)' <= customers[c].limit]_salesVars
  <2>. USE <1>1
  <2>. SUFFICES ASSUME NEW o \in SalesOrders, NEW c \in Customers,
                       orders[o].status = "NONE", orders'[o].status # "NONE",
                       orders'[o].customer = c, customers[c].limit # NoLimit, ~ OverLimitGranted
                PROVE  ArExposure(c)' <= customers[c].limit
    OBVIOUS
  <2>1. ASSUME NEW d \in Customers, NEW cart \in Carts, NEW number \in Numbers \cup {NoNumber},
               NEW may \in Grants, CreateOrder(o, d, cart, number, 0, may)
        PROVE  ArExposure(c)' <= customers[c].limit
    <3>1. "credit" \notin may /\ number \in Nat
      BY SalesAssumption DEF OverLimitGranted, NoNumber
    <3>2. d = c
      BY <2>1, <3>1, NewOrderAdds
    <3>3. QED
      BY <2>1, <3>1, <3>2, CheckedOrderWithinLimit
  <2>2. ASSUME NEW g \in Imports, ImportOrder(o, g)
        PROVE  ArExposure(c)' <= customers[c].limit
    <3>1. PICK may : may = UNION {g.mays[n] : n \in DOMAIN g.cart}
      OBVIOUS
    <3>2. "credit" \notin may
      BY <3>1 DEF OverLimitGranted
    <3>3. /\ g.customer \in Customers /\ g.number \in Nat /\ g.cart \in Carts /\ g.due \in Nat
          /\ CreateOrder(o, g.customer, g.cart, g.number, g.due, may)
      BY <2>2, <3>1, SalesAssumption DEF ImportOrder
    <3>4. g.customer = c
      BY <3>3, NewOrderAdds
    <3>5. QED
      BY <3>2, <3>3, <3>4, CheckedOrderWithinLimit
  <2>3. QED
    BY <2>1, <2>2, OnlyCreationsOpen
<1>2. AccountsInv /\ AccountsInv' /\ [AccountsNext]_salesVars =>
        [\A o \in SalesOrders, c \in Customers :
           /\ orders[o].status = "NONE" /\ orders'[o].status # "NONE"
           /\ orders'[o].customer = c /\ customers[c].limit # NoLimit
           /\ ~ OverLimitGranted
           => ArExposure(c)' <= customers[c].limit]_salesVars
  BY <1>1
<1>3. QED
  BY AccountsInvInit, AccountsInvStep, <1>2, PTL DEF AccountsSpec, NewOrdersWithinCredit

-----------------------------------------------------------------------------
(***************************************************************************)
(* The order form.  A draft holds entries that a request may carry: the    *)
(* prices it suggests are computed from natural numbers (DraftEntries).    *)
(* Leaving a packing count out where it means nothing does not change what *)
(* a line costs (PayloadKeepsCost), and the receivables report says what   *)
(* the credit check adds up (ReportIsExposure).                            *)
(***************************************************************************)
ProfilesHeld == customers \in [Customers -> Profiles]

FormInv == AccountsInv /\ ProfilesHeld

LEMMA FormInvInit == AccountsInit => FormInv
BY AccountsInvInit DEF AccountsInit, FormInv, ProfilesHeld

LEMMA FormInvStep == FormInv /\ [AccountsNext]_salesVars => FormInv'
<1>. SUFFICES ASSUME FormInv, [AccountsNext]_salesVars PROVE FormInv'
  OBVIOUS
<1>1. AccountsInv'
  BY AccountsInvStep DEF FormInv
<1>2. ProfilesHeld
  BY DEF FormInv
<1>3. ASSUME UNCHANGED customers
      PROVE  ProfilesHeld'
  BY <1>2, <1>3 DEF ProfilesHeld
<1>4. ASSUME NEW o \in SalesOrders, OrderStep(o)
      PROVE  ProfilesHeld'
  BY <1>3, <1>4 DEF OrderStep, CreateOrder, ImportOrder, CancelOrder, RecordPayment, IssueRefund
<1>5. ASSUME NEW o \in SalesOrders, NEW e \in Edits, NEW may \in Grants, UpdateOrder(o, e, may)
      PROVE  ProfilesHeld'
  BY <1>3, <1>5 DEF UpdateOrder
<1>6. ASSUME NEW c \in Customers, NEW profile \in Profiles, UpdateCustomer(c, profile)
      PROVE  ProfilesHeld'
  BY <1>2, <1>6 DEF UpdateCustomer, ProfilesHeld
<1>7. ASSUME NextDay \/ (ContainersNext /\ UNCHANGED <<customers, orders, lastNumber, today>>)
      PROVE  ProfilesHeld'
  BY <1>3, <1>7 DEF NextDay
<1>8. ASSUME UNCHANGED salesVars
      PROVE  ProfilesHeld'
  BY <1>3, <1>8 DEF salesVars
<1>. QED
  BY <1>1, <1>4, <1>5, <1>6, <1>7, <1>8 DEF AccountsNext, OtherAccountsStep, FormInv

-----------------------------------------------------------------------------
LEMMA SuggestedNat ==
  ASSUME FormInv, NEW c \in Customers, NEW p \in Products
  PROVE  Suggested(c, p) \in Nat
<1>1. customers[c].rating \in DOMAIN Margin
  BY MarginAssumption DEF FormInv, ProfilesHeld, MarginAssumption
<1>2. Margin[customers[c].rating] \in Nat /\ UnitCost[p] \in Nat
  BY <1>1, MarginAssumption, SalesAssumption DEF MarginAssumption, SalesAssumption
<1>. DEFINE m == Margin[customers[c].rating]
            a == UnitCost[p] * (100 + m)
<1>3. a \in Nat
  <2>1. 100 + m \in Nat
    BY <1>2
  <2>. HIDE DEF m
  <2>2. \A x, y \in Nat : x * y \in Nat
    OBVIOUS
  <2>. QED
    BY <1>2, <2>1, <2>2
<1>. HIDE DEF a, m
<1>4. Rounded(a, 100) \in Nat
  BY <1>3, RoundedWithin
<1>. QED
  BY <1>4 DEF Suggested, a, m

\* What was sold of an item, and for how much.
LEMMA OverOrdersNat ==
  ASSUME NEW c, NEW column,
         \A o \in SalesOrders : /\ Len(orders[o].lines) \in Nat
                                /\ \A n \in 1..Len(orders[o].lines) : column[o][n] \in Nat
  PROVE  OverOrders(c, column) \in Nat
<1>. DEFINE f == [o \in SalesOrders |->
                    IF o \in OrdersOf(c) THEN Sum(column[o], Len(orders[o].lines)) ELSE 0]
<1>1. ASSUME NEW o \in SalesOrders
      PROVE  Sum(column[o], Len(orders[o].lines)) \in Nat
  <2>. DEFINE N == Len(orders[o].lines)
              g == column[o]
  <2>1. N \in Nat /\ \A n \in 1..N : g[n] \in Nat
    OBVIOUS
  <2>. HIDE DEF N, g
  <2>2. \A m \in 0..N : Sum(g, m) \in Nat
    BY <2>1, SumNat
  <2>3. Sum(g, N) \in Nat
    BY <2>1, <2>2
  <2>. QED
    BY <2>3 DEF N, g
<1>2. \A o \in SalesOrders : f[o] \in Nat
  BY <1>1
<1>3. NumSalesOrders \in Nat /\ SalesOrders = 1..NumSalesOrders
  BY SalesAssumption DEF SalesAssumption, SalesOrders
<1>4. OverOrders(c, column) = Sum(f, NumSalesOrders)
  BY DEF OverOrders
<1>. HIDE DEF f
<1>5. \A m \in 0..NumSalesOrders : Sum(f, m) \in Nat
  BY <1>2, <1>3, SumNat
<1>. QED
  BY <1>3, <1>4, <1>5

LEMMA AveragePaidNat ==
  ASSUME FormInv, NEW c, NEW p
  PROVE  AveragePaid(c, p) \in Nat
<1>1. ASSUME NEW o \in SalesOrders
      PROVE  /\ Len(orders[o].lines) \in Nat
             /\ \A n \in 1..Len(orders[o].lines) :
                  QuantityOf(orders[o], p)[n] \in Nat /\ ValueOf(orders[o], p)[n] \in Nat
  <2>1. orders[o].lines \in Seq(SalesLines)
    BY DEF FormInv, AccountsInv, AccountsTypeOK, OrderRows
  <2>2. Len(orders[o].lines) \in Nat /\ DOMAIN orders[o].lines = 1..Len(orders[o].lines)
    BY <2>1
  <2>3. ASSUME NEW n \in 1..Len(orders[o].lines)
        PROVE  QuantityOf(orders[o], p)[n] \in Nat /\ ValueOf(orders[o], p)[n] \in Nat
    <3>1. orders[o].lines[n] \in SalesLines
      BY <2>1, ListElement
    <3>2. orders[o].lines[n].ordered \in Nat /\ orders[o].lines[n].price \in Nat
      BY <3>1 DEF SalesLines
    <3>3. QuantityOf(orders[o], p)[n] \in Nat
      BY <2>2, <3>2 DEF QuantityOf
    <3>4. ValueOf(orders[o], p)[n] = QuantityOf(orders[o], p)[n] * orders[o].lines[n].price
      BY <2>2 DEF ValueOf
    <3>5. \A x, y \in Nat : x * y \in Nat
      OBVIOUS
    <3>. QED
      BY <3>2, <3>3, <3>4, <3>5
  <2>. QED
    BY <2>2, <2>3
<1>. DEFINE cq == [o \in SalesOrders |-> QuantityOf(orders[o], p)]
            cv == [o \in SalesOrders |-> ValueOf(orders[o], p)]
            quantity == OverOrders(c, cq)
            value == OverOrders(c, cv)
<1>2. quantity \in Nat
  <2>1. \A o \in SalesOrders : cq[o] = QuantityOf(orders[o], p)
    OBVIOUS
  <2>. HIDE DEF cq
  <2>. QED
    BY <1>1, <2>1, OverOrdersNat
<1>3. value \in Nat
  <2>1. \A o \in SalesOrders : cv[o] = ValueOf(orders[o], p)
    OBVIOUS
  <2>. HIDE DEF cv
  <2>. QED
    BY <1>1, <2>1, OverOrdersNat
<1>4. AveragePaid(c, p) = IF quantity > 0 THEN Rounded(value, quantity) ELSE 0
  BY DEF AveragePaid
<1>. HIDE DEF quantity, value
<1>5. CASE quantity > 0
  <2>1. quantity \in Nat \ {0}
    BY <1>2, <1>5
  <2>. QED
    BY <1>3, <1>4, <1>5, <2>1, RoundedWithin
<1>. QED
  BY <1>4, <1>5

-----------------------------------------------------------------------------
\* A list of entries that a request may carry, said of a function on its numbers.
Entries(cart) ==
  /\ Len(cart) \in Nat /\ DOMAIN cart = 1..Len(cart)
  /\ \A n \in 1..Len(cart) : cart[n] \in CartEntries

LEMMA CartsAreEntries == \A cart \in Carts : Entries(cart)
<1>. SUFFICES ASSUME NEW cart \in Carts PROVE Entries(cart)
  OBVIOUS
<1>1. cart \in Seq(CartEntries)
  BY SalesAssumption DEF SalesAssumption
<1>. QED
  BY <1>1, ListElement DEF Entries

\* Repricing a list line by line.
LEMMA RepricedEntries ==
  ASSUME NEW cart, Entries(cart), NEW other,
         other = [n \in DOMAIN cart |-> other[n]],
         \A n \in 1..Len(cart) :
           \E v \in Nat : other[n] = cart[n] \/ other[n] = [cart[n] EXCEPT !.price = v]
  PROVE  Entries(other)
<1>1. DOMAIN other = 1..Len(cart)
  BY DEF Entries
<1>2. Len(other) = Len(cart)
  <2>. DEFINE N == Len(cart)
  <2>1. N \in Nat /\ DOMAIN cart = 1..N
    BY DEF Entries
  <2>. HIDE DEF N
  <2>2. other = [n \in 1..N |-> other[n]]
    BY <2>1
  <2>3. Len([n \in 1..N |-> other[n]]) = N
    BY <2>1
  <2>. QED
    BY <2>2, <2>3 DEF N
<1>3. ASSUME NEW n \in 1..Len(cart)
      PROVE  other[n] \in CartEntries
  <2>1. cart[n] \in CartEntries
    BY DEF Entries
  <2>2. PICK v \in Nat : other[n] = cart[n] \/ other[n] = [cart[n] EXCEPT !.price = v]
    OBVIOUS
  <2>3. [cart[n] EXCEPT !.price = v] \in CartEntries
    BY <2>1 DEF CartEntries
  <2>. QED
    BY <2>1, <2>2, <2>3
<1>. QED
  BY <1>1, <1>2, <1>3 DEF Entries

\* Every draft of the form is such a list.
LEMMA DraftEntries ==
  ASSUME FormInv, NEW c \in Customers, NEW draft \in Drafts(c)
  PROVE  Entries(draft)
<1>1. CASE draft \in Carts
  BY <1>1, CartsAreEntries
<1>2. ASSUME NEW cart \in Carts, draft = AtSuggestedPrices(c, cart)
      PROVE  Entries(draft)
  <2>1. Entries(cart)
    BY CartsAreEntries
  <2>2. ASSUME NEW n \in 1..Len(cart)
        PROVE  \E v \in Nat : draft[n] = [cart[n] EXCEPT !.price = v]
    <3>1. cart[n].subject \in Products
      BY <2>1 DEF Entries, CartEntries
    <3>2. Suggested(c, cart[n].subject) \in Nat
      BY <3>1, SuggestedNat
    <3>3. draft[n] = [cart[n] EXCEPT !.price = Suggested(c, cart[n].subject)]
      BY <1>2, <2>1 DEF AtSuggestedPrices, Entries
    <3>. QED
      BY <3>2, <3>3
  <2>3. draft = [n \in DOMAIN cart |-> draft[n]]
    BY <1>2 DEF AtSuggestedPrices
  <2>. QED
    BY <2>1, <2>2, <2>3, RepricedEntries
<1>3. ASSUME NEW cart \in Carts, draft = AtHistoricPrices(c, cart)
      PROVE  Entries(draft)
  <2>1. Entries(cart)
    BY CartsAreEntries
  <2>2. ASSUME NEW n \in 1..Len(cart)
        PROVE  \E v \in Nat : draft[n] = cart[n] \/ draft[n] = [cart[n] EXCEPT !.price = v]
    <3>1. AveragePaid(c, cart[n].subject) \in Nat
      BY AveragePaidNat
    <3>2. \/ draft[n] = cart[n]
          \/ draft[n] = [cart[n] EXCEPT !.price = AveragePaid(c, cart[n].subject)]
      BY <1>3, <2>1 DEF AtHistoricPrices, Entries
    <3>. QED
      BY <3>1, <3>2
  <2>3. draft = [n \in DOMAIN cart |-> draft[n]]
    BY <1>3 DEF AtHistoricPrices
  <2>. QED
    BY <2>1, <2>2, <2>3, RepricedEntries
<1>. QED
  BY <1>1, <1>2, <1>3 DEF Drafts

-----------------------------------------------------------------------------
\* What submit sends for a line sells the same for the same, and costs the same, rounded.
LEMMA PayloadKeepsCost ==
  ASSUME NEW e \in CartEntries
  PROVE  /\ Payload(e).subject = e.subject /\ Payload(e).qty = e.qty /\ Payload(e).price = e.price
         /\ EntryCost(Payload(e)) = Step * Rounded(LineCost(e), Step)
         /\ LineCost(e) \in Nat /\ e.qty * e.price \in Nat
<1>1. /\ e.subject \in Products /\ e.qty \in Nat /\ e.price \in Nat /\ e.packs \in Nat
      /\ e.pack \in Containers \cup {NoPack}
  BY DEF CartEntries
<1>2. \A p \in Products : UnitCost[p] \in Nat
  BY SalesAssumption DEF SalesAssumption
<1>3. Containers \subseteq Products
  BY SalesAssumption DEF SalesAssumption
<1>4. \A x, y \in Nat : x * y \in Nat
  OBVIOUS
<1>5. Payload(e).subject = e.subject /\ Payload(e).qty = e.qty /\ Payload(e).price = e.price
  BY DEF Payload, CartEntries
<1>6. CASE e.subject \in Containers
  <2>1. LineCost(e) = e.qty * UnitCost[e.subject]
    BY <1>6 DEF LineCost
  <2>2. EntryCost(Payload(e)) = Step * Rounded(e.qty * UnitCost[e.subject] + 0, Step)
    BY <1>5, <1>6 DEF EntryCost
  <2>3. e.qty * UnitCost[e.subject] \in Nat
    BY <1>1, <1>2, <1>4
  <2>. QED
    BY <1>1, <1>4, <1>5, <2>1, <2>2, <2>3
<1>7. CASE e.subject \notin Containers /\ e.pack = NoPack
  <2>1. Payload(e).pack = NoPack
    BY <1>7 DEF Payload, CartEntries
  <2>2. LineCost(e) = e.qty * UnitCost[e.subject] + 0
    BY <1>7 DEF LineCost
  <2>3. EntryCost(Payload(e)) = Step * Rounded(e.qty * UnitCost[e.subject] + 0, Step)
    BY <1>5, <2>1 DEF EntryCost
  <2>4. e.qty * UnitCost[e.subject] \in Nat
    BY <1>1, <1>2, <1>4
  <2>. QED
    BY <1>1, <1>4, <1>5, <2>2, <2>3, <2>4
<1>8. CASE e.subject \notin Containers /\ e.pack # NoPack
  <2>1. Payload(e).pack = e.pack /\ Payload(e).packs = e.packs
    BY <1>8 DEF Payload, CartEntries
  <2>2. EntryCost(Payload(e)) =
          Step * Rounded(e.qty * UnitCost[e.subject] + e.packs * UnitCost[e.pack], Step)
    BY <1>5, <1>8, <2>1 DEF EntryCost
  <2>3. UnitCost[e.pack] \in Nat
    BY <1>1, <1>2, <1>3, <1>8
  <2>4. e.packs = 0 => e.packs * UnitCost[e.pack] = 0
    BY <2>3
  <2>5. LineCost(e) = e.qty * UnitCost[e.subject] +
                      (IF e.packs > 0 THEN e.packs * UnitCost[e.pack] ELSE 0)
    BY <1>8 DEF LineCost
  <2>6. e.qty * UnitCost[e.subject] \in Nat /\ e.packs * UnitCost[e.pack] \in Nat
    BY <1>1, <1>2, <1>4, <2>3
  <2>7. LineCost(e) = e.qty * UnitCost[e.subject] + e.packs * UnitCost[e.pack]
    BY <1>1, <2>4, <2>5
  <2>8. LineCost(e) \in Nat
    BY <2>6, <2>7
  <2>. QED
    BY <1>1, <1>4, <1>5, <2>2, <2>7, <2>8
<1>. QED
  BY <1>6, <1>7, <1>8

\* The request that a draft becomes.
Sent(draft) == [n \in DOMAIN draft |-> Payload(draft[n])]

LEMMA SentLines ==
  ASSUME NEW draft, Entries(draft)
  PROVE  /\ DOMAIN Sent(draft) = DOMAIN draft /\ Len(Sent(draft)) = Len(draft)
         /\ \A n \in DOMAIN draft : Sent(draft)[n] = Payload(draft[n])
<1>. DEFINE N == Len(draft)
            line(n) == Payload(draft[n])
<1>1. N \in Nat /\ DOMAIN draft = 1..N
  BY DEF Entries
<1>2. Sent(draft) = [n \in 1..N |-> line(n)]
  BY <1>1 DEF Sent
<1>. HIDE DEF N, line
<1>3. Len([n \in 1..N |-> line(n)]) = N
  BY <1>1
<1>. QED
  BY <1>1, <1>2, <1>3 DEF N, line

\* It is sellable if its containers could be selected.
LEMMA SelectableIsSellable ==
  ASSUME NEW draft, Entries(draft), Selectable(draft)
  PROVE  Sellable(Sent(draft))
<1>. SUFFICES ASSUME NEW n \in DOMAIN draft, Sent(draft)[n].subject \in Containers
              PROVE  jars[Sent(draft)[n].subject].exists /\ jars[Sent(draft)[n].subject].active
  BY SentLines DEF Sellable
<1>1. Sent(draft)[n].subject = draft[n].subject
  BY SentLines, PayloadKeepsCost DEF Entries
<1>2. draft[n].subject \in {draft[n].subject, draft[n].pack} \cap Containers
  BY <1>1
<1>. QED
  BY <1>1, <1>2 DEF Selectable

\* On which side of b a number is, rounding it does not change, if they are apart.
LEMMA ApartRounded ==
  ASSUME NEW a \in Nat, NEW b \in Int, NEW unit \in Nat \ {0}, Apart(a, b, unit)
  PROVE  /\ unit * Rounded(a, unit) \in Nat
         /\ unit * Rounded(a, unit) > b <=> a > b
<1>. DEFINE r == Rounded(a, unit)
            rounded == unit * r
<1>1. r \in Nat /\ - unit <= 2 * (unit * r - a) /\ 2 * (unit * r - a) <= unit
  BY RoundedWithin
<1>2. rounded \in Nat
  <2>1. \A x, y \in Nat : x * y \in Nat
    OBVIOUS
  <2>. HIDE DEF r
  <2>. QED
    BY <1>1, <2>1
<1>3. - unit <= 2 * (rounded - a) /\ 2 * (rounded - a) <= unit
  BY <1>1
<1>4. 2 * (a - b) > unit \/ 2 * (b - a) > unit
  BY DEF Apart
<1>. HIDE DEF rounded
<1>5. rounded > b <=> a > b
  BY <1>2, <1>3, <1>4
<1>. QED
  BY <1>2, <1>5 DEF rounded

\* The form finds a line below its cost exactly when the server does.
LEMMA BlockedIsUnpriced ==
  ASSUME NEW draft, Entries(draft), NEW may, NEW c, ClearOfRounding(c, draft)
  PROVE  BlockedByCost(draft, may) <=> ~ Priced(Sent(draft), may)
<1>1. ASSUME NEW n \in DOMAIN draft
      PROVE  BelowCost(draft[n]) <=>
               ~ (Sent(draft)[n].qty * Sent(draft)[n].price >= EntryCost(Sent(draft)[n]))
  <2>. DEFINE e == draft[n]
              cost == LineCost(e)
              amount == e.qty * e.price
  <2>1. e \in CartEntries /\ Sent(draft)[n] = Payload(e)
    BY SentLines DEF Entries
  <2>2. cost \in Nat /\ amount \in Nat
    BY <2>1, PayloadKeepsCost
  <2>3. /\ EntryCost(Sent(draft)[n]) = Step * Rounded(cost, Step)
        /\ Sent(draft)[n].qty = e.qty /\ Sent(draft)[n].price = e.price
    BY <2>1, PayloadKeepsCost
  <2>4. BelowCost(e) <=> cost > 0 /\ amount < cost
    BY DEF BelowCost
  <2>5. Sent(draft)[n].qty * Sent(draft)[n].price = amount
    BY <2>3
  <2>6. Apart(cost, amount, Step) /\ Step \in Nat \ {0} /\ amount \in Int
    <3>1. Apart(amount, cost, Step)
      BY DEF ClearOfRounding
    <3>. QED
      BY <2>2, <3>1, SalesAssumption DEF Apart
  <2>. HIDE DEF cost, amount
  <2>7. Step * Rounded(cost, Step) \in Nat /\ (Step * Rounded(cost, Step) > amount <=> cost > amount)
    BY <2>2, <2>6, ApartRounded, Zenon
  <2>8. BelowCost(e) <=> ~ (amount >= Step * Rounded(cost, Step))
    <3>. DEFINE rounded == Step * Rounded(cost, Step)
    <3>1. rounded \in Nat /\ (rounded > amount <=> cost > amount)
      BY <2>7
    <3>. HIDE DEF rounded
    <3>2. BelowCost(e) <=> ~ (amount >= rounded)
      BY <2>2, <2>4, <3>1
    <3>. QED
      BY <3>2 DEF rounded
  <2>. QED
    BY <2>3, <2>5, <2>8
<1>. QED
  BY <1>1, SentLines DEF BlockedByCost, Priced

\* It asks for as much.
LEMMA SentTotal ==
  ASSUME NEW draft, Entries(draft)
  PROVE  CartTotal(Sent(draft)) = CartTotal(draft) /\ CartTotal(draft) \in Nat
<1>. DEFINE f == [n \in DOMAIN draft |-> draft[n].qty * draft[n].price]
            g == [n \in DOMAIN Sent(draft) |-> Sent(draft)[n].qty * Sent(draft)[n].price]
            N == Len(draft)
<1>1. N \in Nat /\ DOMAIN draft = 1..N
  BY DEF Entries
<1>2. ASSUME NEW n \in 1..N
      PROVE  f[n] \in Nat /\ g[n] = f[n]
  <2>1. draft[n] \in CartEntries /\ n \in DOMAIN draft
    BY DEF Entries
  <2>2. Sent(draft)[n] = Payload(draft[n]) /\ n \in DOMAIN Sent(draft)
    BY <2>1, SentLines
  <2>3. f[n] = draft[n].qty * draft[n].price /\ g[n] = Sent(draft)[n].qty * Sent(draft)[n].price
    BY <2>1, <2>2
  <2>. QED
    BY <2>1, <2>2, <2>3, PayloadKeepsCost
<1>3. CartTotal(draft) = Sum(f, N) /\ CartTotal(Sent(draft)) = Sum(g, N)
  BY SentLines DEF CartTotal
<1>. HIDE DEF f, g, N
<1>4. Sum(g, N) = Sum(f, N)
  BY <1>1, <1>2, SumSame
<1>5. Sum(f, N) \in Nat
  <2>1. \A m \in 0..N : Sum(f, m) \in Nat
    BY <1>1, <1>2, SumNat
  <2>. QED
    BY <1>1, <2>1
<1>. QED
  BY <1>3, <1>4, <1>5

\* An amount of whole cents is the one on display.
LEMMA WholeCents ==
  ASSUME NEW a \in Nat, NEW unit \in Nat \ {0}, a % unit = 0
  PROVE  unit * Rounded(a, unit) = a
<1>1. a \div unit \in Nat /\ a = unit * (a \div unit) + (a % unit)
  OBVIOUS
<1>. DEFINE q == a \div unit
<1>2. q \in Nat /\ a = unit * q
  BY <1>1
<1>. HIDE DEF q
<1>3. unit * q <= a /\ a <= unit * q
  BY <1>2
<1>4. Rounded(a, unit) \in Nat /\ q <= Rounded(a, unit) /\ Rounded(a, unit) <= q
  BY <1>2, <1>3, RoundedWithin, RoundedBetween
<1>5. Rounded(a, unit) = q
  BY <1>2, <1>4
<1>. QED
  BY <1>2, <1>5

\* What a customer owes is a number.
LEMMA ExposureInt ==
  ASSUME AccountsInv, NEW c
  PROVE  Exposure(c) \in Int
<1>. DEFINE f == [o \in SalesOrders |-> IF o \in OrdersOf(c) THEN OpenBalance(orders[o]) ELSE 0]
<1>1. \A o \in SalesOrders : f[o] \in Int
  BY OpenBalanceNat
<1>2. NumSalesOrders \in Nat /\ SalesOrders = 1..NumSalesOrders
  BY SalesAssumption DEF SalesAssumption, SalesOrders
<1>3. Exposure(c) = Sum(f, NumSalesOrders)
  BY DEF Exposure
<1>. HIDE DEF f
<1>. QED
  BY <1>1, <1>2, <1>3, SumInt

\* The report and the credit check allow the same orders.
LEMMA OverLimitIsRefused ==
  ASSUME FormInv, NEW c \in Customers, NEW draft, Entries(draft), NEW may,
         ClearOfRounding(c, draft)
  PROVE  BlockedByLimit(c, draft, may) <=> ~ WithinCredit(c, Sent(draft), may)
<1>1. ArExposure(c) = Exposure(c)
  BY ReportIsExposure DEF FormInv
<1>2. CartTotal(Sent(draft)) = CartTotal(draft) /\ CartTotal(draft) \in Nat
  BY SentTotal
<1>3. Exposure(c) \in Int
  BY ExposureInt DEF FormInv
<1>4. customers[c].limit \in Int
  BY DEF FormInv, AccountsInv, AccountsTypeOK, ProfileRows, NoLimit
<1>. DEFINE total == CartTotal(draft)
            shown == Cent * Rounded(total, Cent)
            limit == customers[c].limit
            owed == Exposure(c)
<1>5. ASSUME limit # NoLimit
      PROVE  owed + shown > limit <=> owed + total > limit
  <2>1. Cent \in Nat \ {0}
    BY MarginAssumption
  <2>2. total \in Nat /\ limit \in Int /\ owed \in Int
    BY <1>2, <1>3, <1>4
  <2>3. total % Cent = 0 \/ Apart(owed + total, limit, Cent)
    BY <1>1, <1>5 DEF ClearOfRounding
  <2>. HIDE DEF total, limit, owed
  <2>4. CASE total % Cent = 0
    BY <2>1, <2>2, <2>4, WholeCents
  <2>5. CASE Apart(owed + total, limit, Cent)
    <3>1. Apart(total, limit - owed, Cent) /\ limit - owed \in Int
      BY <2>1, <2>2, <2>5 DEF Apart
    <3>2. shown \in Nat /\ (shown > limit - owed <=> total > limit - owed)
      BY <2>1, <2>2, <3>1, ApartRounded
    <3>. HIDE DEF shown
    <3>. QED
      BY <2>2, <3>2
  <2>. QED
    BY <2>3, <2>4, <2>5
<1>6. BlockedByLimit(c, draft, may) <=>
        limit # NoLimit /\ owed + shown > limit /\ "credit" \notin may
  BY <1>1 DEF BlockedByLimit, OverLimit
<1>7. WithinCredit(c, Sent(draft), may) <=>
        limit = NoLimit \/ owed + total <= limit \/ "credit" \in may
  BY <1>2 DEF WithinCredit
<1>8. total \in Nat /\ limit \in Int /\ owed \in Int
  BY <1>2, <1>3, <1>4
<1>. HIDE DEF total, shown, limit, owed
<1>9. owed + total <= limit <=> ~ (owed + total > limit)
  BY <1>8
<1>. QED
  BY <1>5, <1>6, <1>7, <1>9

(***************************************************************************)
(* sales-order.balances.ts 4-6, "so the two never drift": the order form   *)
(* and the server decide alike on every draft clear of rounding, at the    *)
(* prices that the user typed, that the customer's rating suggests or that *)
(* the customer paid on average; for any costs, margins, limits, orders,   *)
(* payments and refunds.                                                   *)
(***************************************************************************)
THEOREM FormAgreesWithServer == AccountsSpec => []FormForesees
<1>1. ASSUME FormInv
      PROVE  FormForesees
  <2>1. ASSUME NEW c \in Customers, NEW may \in Grants, NEW draft \in Drafts(c),
               Selectable(draft), ClearOfRounding(c, draft)
        PROVE  Saveable(c, draft, may) <=>
                 /\ Sellable(Sent(draft)) /\ Priced(Sent(draft), may)
                 /\ WithinCredit(c, Sent(draft), may)
    <3>1. Entries(draft)
      BY <1>1, DraftEntries
    <3>. QED
      BY <1>1, <2>1, <3>1, SelectableIsSellable, BlockedIsUnpriced, OverLimitIsRefused DEF Saveable
  <2>. QED
    BY <2>1 DEF FormForesees, Sent
<1>2. QED
  BY <1>1, FormInvInit, FormInvStep, PTL DEF AccountsSpec

(***************************************************************************)
(* What the page of an order fills in is what settles it.                  *)
(***************************************************************************)
LEMMA PaymentOfBalance ==
  ASSUME NEW r \in OrderRows, CanRecordPayment(r), r.refunded = 0, Payable(BalanceDue(r))
  PROVE  /\ PaymentFits(r, BalanceDue(r))
         /\ BalanceDue(PaidAsFilledIn(r)) = 0 /\ PaidAsFilledIn(r).paidAt
<1>. DEFINE total == OrderTotal(r)
            due == BalanceDue(r)
            after == PaidAsFilledIn(r)
<1>1. total \in Nat /\ r.paid \in Nat
  BY OrderTotalNat DEF OrderRows
<1>2. due = total - r.paid /\ due > 0 /\ r.status \notin {"NONE", "CANCELLED"}
  BY <1>1 DEF BalanceDue, CanRecordPayment
<1>3. after = [r EXCEPT !.paid = @ + due, !.paidAt = @ \/ r.paid + due >= total]
  BY DEF PaidAsFilledIn, AfterPayment
<1>10. Payable(due)
  OBVIOUS
<1>. HIDE DEF due, after
<1>4. after.paid = r.paid + due /\ after.refunded = r.refunded /\ after.lines = r.lines
      /\ after.paidAt = (r.paidAt \/ r.paid + due >= total)
  BY <1>3 DEF OrderRows
<1>5. OrderTotal(after) = total
  BY <1>4 DEF OrderTotal
<1>. HIDE DEF total
<1>6. r.paid + due >= total /\ total - (r.paid + due) = 0
  BY <1>1, <1>2
<1>7. after.paidAt
  BY <1>4, <1>6
<1>8. BalanceDue(after) = 0
  <2>1. BalanceDue(after) = total - ((r.paid + due) - r.refunded)
    BY <1>4, <1>5 DEF BalanceDue
  <2>. QED
    BY <1>1, <1>2, <1>6, <2>1
<1>9. PaymentFits(r, due)
  BY <1>1, <1>2, <1>10 DEF PaymentFits, total
<1>. QED
  BY <1>7, <1>8, <1>9 DEF due, after

LEMMA RefundOfSurplus ==
  ASSUME NEW r \in OrderRows, CanIssueRefund(r), Payable(Refundable(r))
  PROVE  /\ RefundFits(r, Refundable(r), ReasonFilledIn(r))
         /\ Refundable(RefundedAsFilledIn(r)) = 0
<1>. DEFINE owed == Owed(r)
            surplus == Refundable(r)
            after == RefundedAsFilledIn(r)
<1>1. owed \in Nat /\ r.paid \in Nat /\ r.refunded \in Nat
  BY OwedNat DEF OrderRows
<1>2. surplus = (r.paid - r.refunded) - owed /\ r.status # "NONE"
  BY <1>1 DEF Refundable, Positive, CanIssueRefund
<1>3. after = [r EXCEPT !.refunded = @ + surplus]
  BY DEF RefundedAsFilledIn, AfterRefund
<1>9. Payable(surplus)
  OBVIOUS
<1>. HIDE DEF surplus, after
<1>4. /\ after.paid = r.paid /\ after.refunded = r.refunded + surplus
      /\ after.lines = r.lines /\ after.status = r.status
  BY <1>3 DEF OrderRows
<1>5. Owed(after) = owed
  BY <1>4 DEF Owed, OrderTotal
<1>. HIDE DEF owed
<1>6. (after.paid - after.refunded) - owed = 0
  BY <1>1, <1>2, <1>4
<1>7. Refundable(after) = 0
  BY <1>5, <1>6 DEF Refundable, Positive
<1>8. RefundFits(r, surplus, ReasonFilledIn(r))
  BY <1>1, <1>2, <1>9 DEF RefundFits, ReasonFilledIn, surplus
<1>. QED
  BY <1>7, <1>8 DEF surplus, after

\* The payment that the page fills in is taken and pays the order off, unless something
\* was refunded; the refund that it fills in is taken and leaves nothing to refund.  Both
\* if a request can carry the amount, which has four decimals at most then.
THEOREM OrdersSettleAsFilledIn == AccountsSpec => []FilledInAmountsSettle
<1>1. AccountsInv => FilledInAmountsSettle
  BY PaymentOfBalance, RefundOfSurplus DEF FilledInAmountsSettle, AccountsInv, AccountsTypeOK
<1>. QED
  BY <1>1, AccountsInvInit, AccountsInvStep, PTL DEF AccountsSpec

-----------------------------------------------------------------------------
(***************************************************************************)
(* The planner's queue.  The inductive invariant adds to the accounts that *)
(* the jobs are typed and finitely many, that the queued ones have         *)
(* distinct positions, that a job reserved for a line has an order, and    *)
(* that a formula makes what a job produces.                               *)
(***************************************************************************)
PositionsKnown == \A w \in Queued : jobs[w].pos \in Nat

LinesOfOrders == \A w \in Created : jobs[w].line # 0 => jobs[w].order \in SalesOrders

QueueInv == IsFiniteSet(Created) /\ PositionsKnown /\ QueueUnambiguous

MadeByFormula == \A w \in Created : jobs[w].item \in Formulated

ReservationInv == LinesOfOrders /\ JobsProduceTheirLine /\ MadeByFormula

SchedulerInv ==
  /\ AccountsInv
  /\ jobs \in [Jobs -> JobRows]
  /\ QueueInv /\ ReservationInv

-----------------------------------------------------------------------------
\* The run-order rules put the keys in an order: lexicographic, of four naturals.
Keys == Nat \X Nat \X Nat \X Nat

LEMMA KeyOrder ==
  ASSUME NEW a \in Keys, NEW b \in Keys
  PROVE  KeyBefore(a, b) <=>
           \/ a[1] < b[1]
           \/ a[1] = b[1] /\ a[2] < b[2]
           \/ a[1] = b[1] /\ a[2] = b[2] /\ a[3] < b[3]
           \/ a[1] = b[1] /\ a[2] = b[2] /\ a[3] = b[3] /\ a[4] < b[4]
<1>1. DOMAIN a = 1..4
  BY DEF Keys
<1>2. KeyBefore(a, b) <=>
        \E n \in 1..4 : a[n] < b[n] /\ \A k \in 1..4 : k < n => a[k] = b[k]
  BY <1>1 DEF KeyBefore
<1>3. QED
  BY <1>2

LEMMA KeyTypes ==
  ASSUME SchedulerInv, NEW w \in Jobs
  PROVE  Due(w) \in Nat /\ Rating(w) \in Nat /\ Rush(w) \in BOOLEAN /\ RuleKey(w) \in Keys
<1>1. Due(w) \in Nat
  BY DEF SchedulerInv, AccountsInv, AccountsTypeOK, JobRows, OrderRows, Due
<1>2. Rating(w) \in Nat
  BY DEF SchedulerInv, AccountsInv, AccountsTypeOK, JobRows, OrderRows, ProfileRows, Rating
<1>3. Rush(w) \in BOOLEAN
  BY DEF Rush
<1>4. RuleKey(w) \in Keys
  BY <1>1, <1>2, <1>3 DEF RuleKey, Keys
<1>5. QED
  BY <1>1, <1>2, <1>3, <1>4

\* v comes before w when the chosen jobs are sorted.
TurnsBefore(v, w) ==
  \/ KeyBefore(RuleKey(v), RuleKey(w))
  \/ v < w /\ ~ KeyBefore(RuleKey(w), RuleKey(v))

LEMMA TurnsOrdered ==
  ASSUME SchedulerInv, NEW u \in Jobs, NEW v \in Jobs, NEW w \in Jobs
  PROVE  /\ ~ TurnsBefore(u, u)
         /\ u # v => TurnsBefore(u, v) \/ TurnsBefore(v, u)
         /\ TurnsBefore(u, v) /\ TurnsBefore(v, w) => TurnsBefore(u, w)
<1>1. u \in Nat /\ v \in Nat /\ w \in Nat
  BY SchedulerAssumption
<1>2. RuleKey(u) \in Keys /\ RuleKey(v) \in Keys /\ RuleKey(w) \in Keys
  BY KeyTypes
<1> DEFINE a == RuleKey(u)
           b == RuleKey(v)
           c == RuleKey(w)
<1> HIDE DEF a, b, c
<1>3. /\ \A n \in 1..4 : a[n] \in Nat /\ b[n] \in Nat /\ c[n] \in Nat
      /\ a \in Keys /\ b \in Keys /\ c \in Keys
  BY <1>2 DEF Keys, a, b, c
<1>4. ~ TurnsBefore(u, u)
  BY <1>1, <1>3, KeyOrder DEF TurnsBefore, a
<1>5. u # v => TurnsBefore(u, v) \/ TurnsBefore(v, u)
  BY <1>1, <1>3, KeyOrder DEF TurnsBefore, a, b
<1>6. TurnsBefore(u, v) /\ TurnsBefore(v, w) => TurnsBefore(u, w)
  BY <1>1, <1>3, KeyOrder DEF TurnsBefore, a, b, c
<1>7. QED
  BY <1>4, <1>5, <1>6

LEMMA TurnsDiffer ==
  ASSUME SchedulerInv, NEW S \in SUBSET Jobs, IsFiniteSet(S), NEW u \in S, NEW v \in S
  PROVE  Turn(u, S) \in Nat /\ (u # v => Turn(u, S) # Turn(v, S))
<1> DEFINE Ahead1(w) == {x \in S : TurnsBefore(x, w)}
<1>1. ASSUME NEW w \in S
      PROVE  /\ Turn(w, S) = Cardinality(Ahead1(w))
             /\ IsFiniteSet(Ahead1(w)) /\ Cardinality(Ahead1(w)) \in Nat
  <2>1. Turn(w, S) = Cardinality(Ahead1(w))
    BY DEF Turn, TurnsBefore
  <2>2. Ahead1(w) \in SUBSET S
    OBVIOUS
  <2>3. QED
    BY <2>1, <2>2, FewerElements
<1>2. ASSUME NEW w \in S, NEW x \in S, TurnsBefore(w, x)
      PROVE  Turn(w, S) < Turn(x, S)
  <2>1. Ahead1(w) \in SUBSET Ahead1(x)
    BY <1>2, TurnsOrdered
  <2>2. w \in Ahead1(x) /\ w \notin Ahead1(w)
    BY <1>2, TurnsOrdered
  <2>3. Ahead1(w) # Ahead1(x)
    BY <2>2
  <2>4. QED
    BY <1>1, <2>1, <2>3, FewerElements
<1>3. u # v => TurnsBefore(u, v) \/ TurnsBefore(v, u)
  BY TurnsOrdered
<1>4. Turn(u, S) \in Nat /\ Turn(v, S) \in Nat
  BY <1>1
<1>5. QED
  BY <1>2, <1>3, <1>4

-----------------------------------------------------------------------------
LEMMA AccountsKept ==
  ASSUME AccountsInv, UNCHANGED salesOnly
  PROVE  AccountsInv'
<1>1. UNCHANGED <<jars, customers, orders, lastNumber, today>>
  BY DEF salesOnly
<1>2. QED
  BY <1>1, OrdersKept DEF AccountsInv, AccountsTypeOK, ContainersTypeOK

LEMMA QueuedFinite ==
  ASSUME SchedulerInv
  PROVE  /\ Queued \subseteq Created /\ Created \subseteq Jobs
         /\ IsFiniteSet(Queued) /\ Cardinality(Queued) \in Nat
<1>1. Queued \in SUBSET Created /\ Created \subseteq Jobs
  BY DEF Queued, Created, InStatus
<1>2. QED
  BY <1>1, FewerElements DEF SchedulerInv, QueueInv

\* Ranks number a part of the queue from 0 in the order of its positions.
LEMMA RankOrder ==
  ASSUME SchedulerInv, NEW Q \in SUBSET Queued
  PROVE  /\ IsFiniteSet(Q) /\ Cardinality(Q) \in Nat
         /\ \A u \in Q : Rank(u, Q) \in Nat /\ Rank(u, Q) < Cardinality(Q)
         /\ \A u, v \in Q : Ahead(u, v) <=> Rank(u, Q) < Rank(v, Q)
         /\ \A u, v \in Q : u # v => Rank(u, Q) # Rank(v, Q)
<1> DEFINE f == [q \in Q |-> jobs[q].pos]
<1>1. IsFiniteSet(Q) /\ Cardinality(Q) \in Nat
  BY QueuedFinite, FewerElements
<1>2. f \in [Q -> Int] /\ \A q \in Q : f[q] = jobs[q].pos
  BY DEF SchedulerInv, QueueInv, PositionsKnown
<1>3. ASSUME NEW u \in Q PROVE Rank(u, Q) = Cardinality(Below(f, Q, u))
  <2>1. Below(f, Q, u) = {q \in Q : jobs[q].pos < jobs[u].pos}
    BY <1>2 DEF Below
  <2>2. QED
    BY <2>1 DEF Rank
<1> HIDE DEF f
<1>4. \A u, v \in Q : u # v => f[u] < f[v] \/ f[v] < f[u]
  BY <1>2 DEF SchedulerInv, QueueInv, QueueUnambiguous, Ahead
<1>5. \A u \in Q : Rank(u, Q) \in Nat /\ Rank(u, Q) < Cardinality(Q)
  BY <1>1, <1>2, <1>3, BelowOrder
<1>6. \A u, v \in Q : f[u] < f[v] => Rank(u, Q) < Rank(v, Q)
  BY <1>1, <1>2, <1>3, BelowOrder
<1>7. \A u, v \in Q : u # v => Rank(u, Q) # Rank(v, Q)
  BY <1>4, <1>5, <1>6
<1>8. \A u, v \in Q : Ahead(u, v) <=> Rank(u, Q) < Rank(v, Q)
  <2> SUFFICES ASSUME NEW u \in Q, NEW v \in Q
               PROVE  f[u] < f[v] <=> Rank(u, Q) < Rank(v, Q)
    BY <1>2 DEF Ahead
  <2>1. u = v \/ f[u] < f[v] \/ f[v] < f[u]
    BY <1>4
  <2>2. QED
    BY <1>2, <1>5, <1>6, <2>1
<1>9. QED
  BY <1>1, <1>5, <1>7, <1>8

\* A step of the queue leaves alone what a job makes and whom it is for.
JobsStand ==
  \A q \in Jobs :
    /\ jobs'[q].order = jobs[q].order /\ jobs'[q].line = jobs[q].line
    /\ jobs'[q].item = jobs[q].item
    /\ jobs'[q].status = "NONE" <=> jobs[q].status = "NONE"

LEMMA QueueChanges ==
  ASSUME SchedulerInv, jobs' \in [Jobs -> JobRows], JobsStand, UNCHANGED salesOnly,
         PositionsKnown', QueueUnambiguous'
  PROVE  SchedulerInv'
<1>1. AccountsInv' /\ orders' = orders
  BY AccountsKept DEF SchedulerInv, salesOnly
<1>2. Created' = Created
  BY DEF Created, InStatus, JobsStand
<1>3. QueueInv'
  BY <1>2 DEF SchedulerInv, QueueInv
<1>4. ReservationInv'
  <2>1. Created \subseteq Jobs
    BY DEF Created
  <2>2. QED
    BY <1>1, <1>2, <2>1 DEF SchedulerInv, ReservationInv, LinesOfOrders, JobsProduceTheirLine,
      MadeByFormula, JobsStand
<1>5. QED
  BY <1>1, <1>3, <1>4 DEF SchedulerInv

-----------------------------------------------------------------------------
(***************************************************************************)
(* Each step of the queue: what it leaves in the rows, that the invariant  *)
(* holds, and in which order the others are.                               *)
(***************************************************************************)
KeepsOrderOf(S) == \A u, v \in S : Ahead(u, v)' <=> Ahead(u, v)

\* The jobs of S are numbered by rank, all positions from t on moved by one.
Slid(Q, t, q) == IF Rank(q, Q) < t THEN Rank(q, Q) ELSE Rank(q, Q) + 1

LEMMA SlidOrder ==
  ASSUME SchedulerInv, NEW Q \in SUBSET Queued, NEW t \in Nat
  PROVE  /\ \A u \in Q : Slid(Q, t, u) \in Nat /\ Slid(Q, t, u) # t
         /\ \A u, v \in Q : u # v => Slid(Q, t, u) # Slid(Q, t, v)
         /\ \A u, v \in Q : Slid(Q, t, u) < Slid(Q, t, v) <=> Ahead(u, v)
         /\ \A u \in Q : Slid(Q, t, u) < t <=> Rank(u, Q) < t
BY RankOrder DEF Slid

LEMMA InsertRows ==
  ASSUME SchedulerInv, NEW w \in Jobs, jobs[w].status \in {"REQUESTED", "QUEUED"},
         NEW t \in Nat, jobs' = Insert(w, t)
  PROVE  /\ jobs' \in [Jobs -> JobRows] /\ JobsStand
         /\ Queued' = Queued \cup {w} /\ jobs'[w].pos = t
         /\ \A q \in Queued \ {w} : jobs'[q].pos = Slid(Queued \ {w}, t, q)
<1> DEFINE rest == Queued \ {w}
<1>1. rest \in SUBSET Queued /\ \A q \in Jobs : jobs[q] \in JobRows
  BY DEF SchedulerInv
<1>2. jobs' = [q \in Jobs |->
         IF q = w THEN [jobs[w] EXCEPT !.status = "QUEUED", !.pos = t]
         ELSE IF q \in rest THEN [jobs[q] EXCEPT !.pos = Slid(rest, t, q)]
         ELSE jobs[q]]
  BY DEF Insert, Renumbered, Slid
<1>3. \A q \in rest : Slid(rest, t, q) \in Nat
  BY <1>1, SlidOrder
<1> HIDE DEF rest
<1>4. "QUEUED" \in JobStatuses
  BY DEF JobStatuses
<1>5. \A q \in Jobs :
        /\ jobs'[q] \in JobRows
        /\ jobs'[q].order = jobs[q].order /\ jobs'[q].line = jobs[q].line
        /\ jobs'[q].item = jobs[q].item
        /\ jobs'[q].status = IF q = w THEN "QUEUED" ELSE jobs[q].status
        /\ q = w => jobs'[q].pos = t
        /\ q # w /\ q \in rest => jobs'[q].pos = Slid(rest, t, q)
  <2> SUFFICES ASSUME NEW q \in Jobs
               PROVE  /\ jobs'[q] \in JobRows
                      /\ jobs'[q].order = jobs[q].order /\ jobs'[q].line = jobs[q].line
                      /\ jobs'[q].item = jobs[q].item
                      /\ jobs'[q].status = IF q = w THEN "QUEUED" ELSE jobs[q].status
                      /\ q = w => jobs'[q].pos = t
                      /\ q # w /\ q \in rest => jobs'[q].pos = Slid(rest, t, q)
    OBVIOUS
  <2>1. CASE q = w
    <3>1. jobs'[q] = [jobs[q] EXCEPT !.status = "QUEUED", !.pos = t]
      BY <1>2, <2>1
    <3>2. QED
      BY <1>1, <1>4, <2>1, <3>1 DEF JobRows
  <2>2. CASE q # w /\ q \in rest
    <3>1. jobs'[q] = [jobs[q] EXCEPT !.pos = Slid(rest, t, q)]
      BY <1>2, <2>2
    <3>2. QED
      BY <1>1, <1>3, <1>4, <2>2, <3>1 DEF JobRows
  <2>3. CASE q # w /\ q \notin rest
    BY <1>1, <1>2, <2>3
  <2>4. QED
    BY <2>1, <2>2, <2>3
<1>6. jobs' \in [Jobs -> JobRows] /\ JobsStand
  BY <1>2, <1>5 DEF JobsStand
<1>7. Queued' = Queued \cup {w}
  BY <1>5 DEF Queued, InStatus
<1>8. \A q \in rest : jobs'[q].pos = Slid(rest, t, q)
  BY <1>5 DEF rest, Queued, InStatus
<1>9. QED
  BY <1>5, <1>6, <1>7, <1>8 DEF rest

LEMMA InsertOK ==
  ASSUME SchedulerInv, NEW w \in Jobs, jobs[w].status \in {"REQUESTED", "QUEUED"},
         NEW t \in Nat, jobs' = Insert(w, t), UNCHANGED salesOnly
  PROVE  SchedulerInv' /\ KeepsOrderOf((Queued \cap Queued') \ {w})
<1> DEFINE rest == Queued \ {w}
<1>1. /\ jobs' \in [Jobs -> JobRows] /\ JobsStand
      /\ Queued' = rest \cup {w} /\ jobs'[w].pos = t
      /\ \A q \in rest : jobs'[q].pos = Slid(rest, t, q)
  BY InsertRows
<1>2. rest \in SUBSET Queued
  OBVIOUS
<1> HIDE DEF rest
<1>3. PositionsKnown'
  <2>1. \A u \in rest : Slid(rest, t, u) \in Nat
    BY <1>2, SlidOrder
  <2>2. QED
    BY <1>1, <2>1 DEF PositionsKnown
<1>4. QueueUnambiguous'
  <2>0. \A u \in rest : Slid(rest, t, u) \in Nat /\ Slid(rest, t, u) # t
    BY <1>2, SlidOrder
  <2>1. \A u \in rest : Ahead(u, w)' \/ Ahead(w, u)'
    BY <1>1, <2>0 DEF Ahead
  <2>2. \A u, v \in rest : u # v => Ahead(u, v)' \/ Ahead(v, u)'
    BY <1>1, <1>2, SlidOrder DEF Ahead
  <2>3. QED
    BY <1>1, <2>1, <2>2 DEF QueueUnambiguous
<1>5. KeepsOrderOf(rest)
  BY <1>1, <1>2, SlidOrder DEF KeepsOrderOf, Ahead
<1>6. (Queued \cap Queued') \ {w} \subseteq rest
  BY DEF rest
<1>7. KeepsOrderOf((Queued \cap Queued') \ {w})
  BY <1>5, <1>6 DEF KeepsOrderOf
<1>8. QED
  BY <1>1, <1>3, <1>4, <1>7, QueueChanges

\* A step that takes jobs out of the queue, if any, and numbers the others anew or not at all.
LEMMA LeavingOK ==
  ASSUME SchedulerInv, NEW R \in SUBSET Queued, jobs' \in [Jobs -> JobRows], JobsStand,
         Queued' = R, UNCHANGED salesOnly,
         \/ \A q \in R : jobs'[q].pos = jobs[q].pos
         \/ \A q \in R : jobs'[q].pos = Rank(q, R)
  PROVE  SchedulerInv' /\ KeepsOrderOf(Queued \cap Queued')
<1>1. \A q \in R : jobs'[q].pos \in Nat
  BY RankOrder DEF SchedulerInv, QueueInv, PositionsKnown
<1>2. \A u, v \in R : Ahead(u, v)' <=> Ahead(u, v)
  BY RankOrder DEF Ahead
<1>3. PositionsKnown'
  BY <1>1 DEF PositionsKnown
<1>4. QueueUnambiguous'
  BY <1>2 DEF SchedulerInv, QueueInv, QueueUnambiguous
<1>5. QED
  BY <1>2, <1>3, <1>4, QueueChanges DEF KeepsOrderOf

\* A step moves at most one of the jobs that stay in the queue.
OneMoves == \E w \in Jobs : KeepsOrderOf((Queued \cap Queued') \ {w})

LEMMA NoneMoves ==
  ASSUME KeepsOrderOf(Queued \cap Queued')
  PROVE  OneMoves
BY SchedulerAssumption DEF OneMoves, KeepsOrderOf

LEMMA EnqueueOK ==
  ASSUME SchedulerInv, NEW w \in Jobs, NEW position \in Nat,
         Enqueue(w, position) \/ Reposition(w, position)
  PROVE  SchedulerInv' /\ OneMoves
<1>1. PICK t \in Nat : jobs' = Insert(w, t)
  <2>1. Cardinality(Queued) \in Nat /\ Cardinality(Queued \ {w}) \in Nat
    BY QueuedFinite, RankOrder
  <2>2. QED
    BY <2>1 DEF Enqueue, Reposition, MinOf
<1>2. jobs[w].status \in {"REQUESTED", "QUEUED"} /\ UNCHANGED salesOnly
  BY DEF Enqueue, Reposition
<1>3. QED
  BY <1>1, <1>2, InsertOK DEF OneMoves

LEMMA SuggestedSlotNat ==
  ASSUME SchedulerInv, NEW w \in Jobs
  PROVE  SuggestedSlot(w) \in Nat
<1>1. {q \in Queued : ~ KeyBefore(RuleKey(w), RuleKey(q))} \in SUBSET Queued
  OBVIOUS
<1>2. QED
  BY <1>1, RankOrder DEF SuggestedSlot

LEMMA DropOK ==
  ASSUME SchedulerInv, NEW w \in Jobs, NEW i \in Nat, Drop(w, i)
  PROVE  SchedulerInv' /\ OneMoves
<1>1. Cardinality(Queued) \in Nat
  BY QueuedFinite
<1>2. CASE jobs[w].status = "REQUESTED" /\ Enqueue(w, MinOf(i, Cardinality(Queued)))
  BY <1>1, <1>2, EnqueueOK DEF MinOf
<1>3. CASE jobs[w].status = "QUEUED" /\ Reposition(w, DropIndex(w, i))
  <2>1. w \in Queued
    BY <1>3 DEF Queued, InStatus
  <2>2. Rank(w, Queued) \in Nat /\ Rank(w, Queued) < Cardinality(Queued)
    BY <2>1, RankOrder
  <2>3. DropIndex(w, i) \in Nat
    BY <1>1, <2>2 DEF DropIndex, MinOf
  <2>4. QED
    BY <1>3, <2>3, EnqueueOK
<1>4. QED
  BY <1>2, <1>3 DEF Drop

LEMMA ReleaseOK ==
  ASSUME SchedulerInv, NEW w \in Jobs, Release(w)
  PROVE  SchedulerInv' /\ OneMoves
<1> DEFINE R == Queued \ {w}
<1>1. \A q \in Jobs : jobs[q] \in JobRows
  BY DEF SchedulerInv
<1>2. jobs' = [q \in Jobs |->
       IF q = w THEN [jobs[q] EXCEPT !.status = "PLANNED", !.pos = NoPosition]
       ELSE IF q \in Queued THEN [jobs[q] EXCEPT !.pos = Rank(q, R)] ELSE jobs[q]]
  BY DEF Release, Renumbered
<1>3. R \in SUBSET Queued /\ \A q \in R : Rank(q, R) \in Nat
  BY RankOrder
<1>4. ASSUME NEW q \in Jobs
      PROVE  /\ jobs'[q] \in JobRows
             /\ jobs'[q].order = jobs[q].order /\ jobs'[q].line = jobs[q].line
             /\ jobs'[q].item = jobs[q].item
             /\ jobs'[q].status = IF q = w THEN "PLANNED" ELSE jobs[q].status
             /\ q \in R => jobs'[q].pos = Rank(q, R)
  <2>1. CASE q = w
    BY <1>1, <1>2, <2>1 DEF JobRows, JobStatuses
  <2>2. CASE q \in R
    BY <1>1, <1>2, <1>3, <2>2 DEF JobRows
  <2>3. CASE q # w /\ q \notin Queued
    BY <1>1, <1>2, <2>3
  <2>4. QED
    BY <2>1, <2>2, <2>3
<1>5. jobs' \in [Jobs -> JobRows] /\ JobsStand
  BY <1>2, <1>4 DEF JobsStand, Release
<1>6. Queued' = R
  BY <1>4 DEF Queued, InStatus
<1>7. UNCHANGED salesOnly
  BY DEF Release
<1> HIDE DEF R
<1>8. QED
  BY <1>3, <1>4, <1>5, <1>6, <1>7, LeavingOK, NoneMoves, QueuedFinite

LEMMA ReleaseAllOK ==
  ASSUME SchedulerInv, ReleaseAll
  PROVE  SchedulerInv' /\ OneMoves
<1>1. \A q \in Jobs : jobs[q] \in JobRows
  BY DEF SchedulerInv
<1>2. ASSUME NEW q \in Jobs
      PROVE  /\ jobs'[q] \in JobRows
             /\ jobs'[q].order = jobs[q].order /\ jobs'[q].line = jobs[q].line
             /\ jobs'[q].item = jobs[q].item
             /\ jobs'[q].status = IF q \in Queued THEN "PLANNED" ELSE jobs[q].status
  <2>1. CASE q \in Queued
    BY <1>1, <2>1 DEF ReleaseAll, JobRows, JobStatuses
  <2>2. CASE q \notin Queued
    BY <1>1, <2>2 DEF ReleaseAll
  <2>3. QED
    BY <2>1, <2>2
<1>3. jobs' \in [Jobs -> JobRows] /\ JobsStand
  <2>1. jobs' \in [Jobs -> JobRows]
    BY <1>2 DEF ReleaseAll
  <2>2. \A q \in Queued : jobs[q].status = "QUEUED"
    BY DEF Queued, InStatus
  <2>3. QED
    BY <1>2, <2>1, <2>2 DEF JobsStand
<1>4. Queued' = {}
  BY <1>2 DEF Queued, InStatus
<1>5. QED
  BY <1>3, <1>4, LeavingOK, NoneMoves DEF ReleaseAll

LEMMA QueueByRulesOK ==
  ASSUME SchedulerInv, NEW S \in SUBSET InStatus("REQUESTED"), QueueByRules(S)
  PROVE  SchedulerInv' /\ OneMoves
<1> DEFINE n == Cardinality(Queued)
<1>1. (\A q \in Jobs : jobs[q] \in JobRows) /\ S \subseteq Jobs /\ S \cap Queued = {}
  BY DEF SchedulerInv, InStatus, Queued
<1>2. jobs' = [w \in Jobs |->
       IF w \in S THEN [jobs[w] EXCEPT !.status = "QUEUED", !.pos = n + Turn(w, S)]
       ELSE IF w \in Queued THEN [jobs[w] EXCEPT !.pos = Rank(w, Queued)] ELSE jobs[w]]
  BY DEF QueueByRules, Renumbered
<1>3. /\ n \in Nat
      /\ \A q \in Queued : Rank(q, Queued) \in Nat /\ Rank(q, Queued) < n
  BY RankOrder
<1>4. IsFiniteSet(S)
  <2>1. S \in SUBSET Created
    BY DEF Created, InStatus
  <2>2. QED
    BY <2>1, FewerElements DEF SchedulerInv, QueueInv
<1>5. \A u, v \in S : Turn(u, S) \in Nat /\ (u # v => Turn(u, S) # Turn(v, S))
  BY <1>1, <1>4, TurnsDiffer
<1> HIDE DEF n
<1>6. ASSUME NEW q \in Jobs
      PROVE  /\ jobs'[q] \in JobRows
             /\ jobs'[q].order = jobs[q].order /\ jobs'[q].line = jobs[q].line
             /\ jobs'[q].item = jobs[q].item
             /\ jobs'[q].status = IF q \in S THEN "QUEUED" ELSE jobs[q].status
             /\ q \in S => jobs'[q].pos = n + Turn(q, S)
             /\ q \in Queued => jobs'[q].pos = Rank(q, Queued)
  <2>1. CASE q \in S
    <3>1. jobs'[q] = [jobs[q] EXCEPT !.status = "QUEUED", !.pos = n + Turn(q, S)]
      BY <1>2, <2>1
    <3>2. n + Turn(q, S) \in Nat /\ q \notin Queued
      BY <1>1, <1>3, <1>5, <2>1
    <3>3. QED
      BY <1>1, <2>1, <3>1, <3>2 DEF JobRows, JobStatuses
  <2>2. CASE q \in Queued
    <3>1. jobs'[q] = [jobs[q] EXCEPT !.pos = Rank(q, Queued)] /\ q \notin S
      BY <1>1, <1>2, <2>2
    <3>2. QED
      BY <1>1, <1>3, <2>2, <3>1 DEF JobRows
  <2>3. CASE q \notin S /\ q \notin Queued
    BY <1>1, <1>2, <2>3
  <2>4. QED
    BY <2>1, <2>2, <2>3
<1>7. jobs' \in [Jobs -> JobRows] /\ JobsStand
  <2>1. jobs' \in [Jobs -> JobRows]
    BY <1>2, <1>6
  <2>2. \A q \in S : jobs[q].status = "REQUESTED"
    BY DEF InStatus
  <2>3. QED
    BY <1>6, <2>1, <2>2 DEF JobsStand
<1>8. Queued' = Queued \cup S
  BY <1>1, <1>6 DEF Queued, InStatus
<1>9. /\ \A q \in Queued : jobs'[q].pos = Rank(q, Queued)
      /\ \A q \in S : jobs'[q].pos = n + Turn(q, S)
  BY <1>1, <1>6, QueuedFinite
<1>10. PositionsKnown'
  BY <1>3, <1>5, <1>8, <1>9 DEF PositionsKnown
<1>11. QueueUnambiguous'
  <2>1. \A u, v \in Queued : u # v => Ahead(u, v)' \/ Ahead(v, u)'
    <3>1. \A u, v \in Queued : u # v => Rank(u, Queued) # Rank(v, Queued)
      BY RankOrder
    <3>2. QED
      BY <1>3, <1>9, <3>1 DEF Ahead
  <2>2. \A u, v \in S : u # v => Ahead(u, v)' \/ Ahead(v, u)'
    BY <1>3, <1>5, <1>9 DEF Ahead
  <2>3. \A u \in Queued, v \in S : Ahead(u, v)'
    BY <1>3, <1>5, <1>9 DEF Ahead
  <2>4. QED
    BY <1>8, <2>1, <2>2, <2>3 DEF QueueUnambiguous
<1>12. KeepsOrderOf(Queued \cap Queued')
  BY <1>9, RankOrder DEF KeepsOrderOf, Ahead
<1>13. QED
  BY <1>7, <1>10, <1>11, <1>12, QueueChanges, NoneMoves DEF QueueByRules

-----------------------------------------------------------------------------
\* Steps that leave the queue alone.
LEMMA QueueStands ==
  ASSUME SchedulerInv, AccountsInv', jobs' \in [Jobs -> JobRows], Queued' = Queued,
         \A q \in Queued : jobs'[q].pos = jobs[q].pos,
         IsFiniteSet(Created'), ReservationInv'
  PROVE  SchedulerInv' /\ OneMoves
<1>1. KeepsOrderOf(Queued \cap Queued')
  BY DEF KeepsOrderOf, Ahead
<1>2. PositionsKnown' /\ QueueUnambiguous'
  BY DEF SchedulerInv, QueueInv, PositionsKnown, QueueUnambiguous, Ahead
<1>3. QED
  BY <1>1, <1>2, NoneMoves DEF SchedulerInv, QueueInv

LEMMA StatusOK ==
  ASSUME SchedulerInv, NEW w \in Jobs, CancelJob(w) \/ StartJob(w) \/ FinishJob(w)
  PROVE  SchedulerInv' /\ OneMoves
<1> DEFINE R == Queued \ {w}
<1>1. PICK s \in JobStatuses \ {"NONE", "QUEUED"} : jobs' = [jobs EXCEPT ![w].status = s]
  BY DEF CancelJob, StartJob, FinishJob, JobStatuses
<1>2. jobs[w].status # "NONE" /\ UNCHANGED salesOnly /\ jobs \in [Jobs -> JobRows]
  BY DEF CancelJob, StartJob, FinishJob, SchedulerInv
<1>3. ASSUME NEW q \in Jobs
      PROVE  /\ jobs'[q] \in JobRows
             /\ jobs'[q].order = jobs[q].order /\ jobs'[q].line = jobs[q].line
             /\ jobs'[q].item = jobs[q].item /\ jobs'[q].pos = jobs[q].pos
             /\ jobs'[q].status = IF q = w THEN s ELSE jobs[q].status
  <2>1. jobs[q] \in JobRows
    BY <1>2
  <2>2. CASE q = w
    BY <1>1, <1>2, <2>1, <2>2 DEF JobRows
  <2>3. CASE q # w
    BY <1>1, <1>2, <2>1, <2>3
  <2>4. QED
    BY <2>2, <2>3
<1>4. jobs' \in [Jobs -> JobRows] /\ JobsStand
  BY <1>1, <1>2, <1>3 DEF JobsStand
<1>5. Queued' = R
  BY <1>3 DEF Queued, InStatus
<1>6. \A q \in R : jobs'[q].pos = jobs[q].pos
  BY <1>3, QueuedFinite
<1>7. R \in SUBSET Queued
  OBVIOUS
<1> HIDE DEF R
<1>8. QED
  BY <1>2, <1>4, <1>5, <1>6, <1>7, LeavingOK, NoneMoves

LEMMA ReassignOK ==
  ASSUME SchedulerInv, NEW w \in Jobs, NEW o \in SalesOrders, NEW n \in Nat, Reassign(w, o, n)
  PROVE  SchedulerInv' /\ OneMoves
<1>1. /\ jobs \in [Jobs -> JobRows] /\ jobs[w].status # "NONE"
      /\ jobs' = [jobs EXCEPT ![w].order = o, ![w].line = n]
      /\ AccountsInv' /\ orders' = orders
  BY AccountsKept DEF SchedulerInv, Reassign, ReassignFits, AfterReassign, salesOnly
<1>2. ASSUME NEW q \in Jobs
      PROVE  /\ jobs'[q] \in JobRows /\ jobs'[q].status = jobs[q].status
             /\ jobs'[q].item = jobs[q].item /\ jobs'[q].pos = jobs[q].pos
             /\ q = w => jobs'[q].order = o /\ jobs'[q].line = n
             /\ q # w => jobs'[q].order = jobs[q].order /\ jobs'[q].line = jobs[q].line
  <2>1. jobs[q] \in JobRows
    BY <1>1
  <2>2. CASE q = w
    BY <1>1, <2>1, <2>2 DEF JobRows
  <2>3. CASE q # w
    BY <1>1, <2>1, <2>3
  <2>4. QED
    BY <2>2, <2>3
<1>3. Queued' = Queued /\ Created' = Created /\ Created \subseteq Jobs /\ Queued \subseteq Jobs
  BY <1>2 DEF Queued, Created, InStatus
<1>4. n # 0 => n \in DOMAIN orders[o].lines /\ orders[o].lines[n].subject = jobs[w].item
  BY DEF Reassign, ReassignFits
<1>5. LinesOfOrders'
  BY <1>2, <1>3 DEF SchedulerInv, ReservationInv, LinesOfOrders
<1>6. JobsProduceTheirLine'
  BY <1>1, <1>2, <1>3, <1>4 DEF SchedulerInv, ReservationInv, JobsProduceTheirLine
<1>7. jobs' \in [Jobs -> JobRows]
  BY <1>1, <1>2
<1>8. IsFiniteSet(Created')
  BY <1>3 DEF SchedulerInv, QueueInv
<1>9. MadeByFormula'
  BY <1>2, <1>3 DEF SchedulerInv, ReservationInv, MadeByFormula
<1>10. QED
  BY <1>1, <1>2, <1>3, <1>5, <1>6, <1>7, <1>8, <1>9, QueueStands DEF ReservationInv

\* New jobs: free ones take rows that reserve them for nothing or for a line of their item.
LEMMA NewJobsOK ==
  ASSUME SchedulerInv, UNCHANGED salesOnly, jobs' \in [Jobs -> JobRows],
         NEW F \in SUBSET InStatus("NONE"), IsFiniteSet(F),
         \A q \in Jobs \ F : jobs'[q] = jobs[q],
         \A q \in F :
           /\ jobs'[q].status \in {"REQUESTED", "PLANNED"}
           /\ jobs'[q].item \in Formulated
           /\ jobs'[q].line # 0 =>
                /\ jobs'[q].order \in SalesOrders
                /\ jobs'[q].line \in DOMAIN orders[jobs'[q].order].lines
                /\ orders[jobs'[q].order].lines[jobs'[q].line].subject = jobs'[q].item
  PROVE  SchedulerInv' /\ OneMoves
<1>1. AccountsInv' /\ orders' = orders
  BY AccountsKept DEF SchedulerInv, salesOnly
<1>2. F \subseteq Jobs /\ \A q \in F : jobs[q].status = "NONE"
  BY DEF InStatus
<1>3. Created' = Created \cup F
  BY <1>2 DEF Created, InStatus
<1>4. IsFiniteSet(Created')
  BY <1>3, FS_Union DEF SchedulerInv, QueueInv
<1>5. Queued' = Queued /\ \A q \in Queued : jobs'[q] = jobs[q]
  BY <1>2 DEF Queued, InStatus
<1>6. \A q \in Created : q \in Jobs \ F
  BY <1>2 DEF Created, InStatus
<1>7. LinesOfOrders'
  BY <1>3, <1>6 DEF SchedulerInv, ReservationInv, LinesOfOrders
<1>8. JobsProduceTheirLine'
  BY <1>1, <1>3, <1>6 DEF SchedulerInv, ReservationInv, JobsProduceTheirLine
<1>9. MadeByFormula'
  BY <1>3, <1>6 DEF SchedulerInv, ReservationInv, MadeByFormula
<1>10. QED
  BY <1>1, <1>4, <1>5, <1>7, <1>8, <1>9, QueueStands DEF ReservationInv

LEMMA NoJobType == NoJob \in JobRows
<1>1. (CHOOSE p \in Products : TRUE) \in Products
  BY SchedulerAssumption
<1>2. QED
  BY <1>1 DEF NoJob, JobRows, JobStatuses, NoPosition

\* The first n free numbers are finitely many, however many numbers there are.
LEMMA FreeFinite ==
  ASSUME NEW n \in Nat
  PROVE  IsFiniteSet(FreeJobs(n)) /\ FreeJobs(n) \subseteq InStatus("NONE")
<1> DEFINE N == InStatus("NONE")
           less(w) == {v \in N : v < w}
           F == FreeJobs(n)
           g == [w \in F |-> Cardinality(less(w))]
<1>1. N \subseteq Nat /\ F \subseteq N
  BY SchedulerAssumption DEF InStatus, FreeJobs
<1>2. \A w \in F : Cardinality(less(w)) < n
  BY DEF FreeJobs
<1>3. ASSUME NEW w \in N PROVE IsFiniteSet(less(w)) /\ Cardinality(less(w)) \in Nat
  <2>1. w \in Nat /\ less(w) \in SUBSET Nat /\ \A v \in less(w) : v <= w
    BY <1>1
  <2>2. IsFiniteSet(less(w))
    BY <2>1, FS_BoundedSetOfNaturals
  <2>3. QED
    BY <2>2, FS_CardinalityType
<1>4. ASSUME NEW v \in N, NEW w \in N, v < w
      PROVE  Cardinality(less(v)) < Cardinality(less(w))
  <2>1. less(v) \in SUBSET less(w)
    BY <1>1, <1>4
  <2>2. v \in less(w) /\ v \notin less(v)
    BY <1>1, <1>4
  <2>3. less(v) # less(w)
    BY <2>2
  <2>4. QED
    BY <1>3, <2>1, <2>3, FewerElements
<1> HIDE DEF N, less, F
<1>5. g \in [F -> 0..n]
  BY <1>1, <1>2, <1>3
<1>6. ASSUME NEW v \in F, NEW w \in F, g[v] = g[w] PROVE v = w
  <2>1. v \in N /\ w \in N /\ v \in Nat /\ w \in Nat
    BY <1>1
  <2>2. Cardinality(less(v)) = Cardinality(less(w))
    BY <1>6
  <2>3. ~ v < w /\ ~ w < v
    BY <1>3, <1>4, <2>1, <2>2
  <2>4. QED
    BY <2>1, <2>3
<1>7. g \in Injection(F, 0..n)
  BY <1>5, <1>6 DEF Injection, IsInjective
<1>8. IsFiniteSet(0..n)
  BY FS_Interval
<1>9. IsFiniteSet(F)
  BY <1>7, <1>8, FS_Injection
<1>10. QED
  BY <1>1, <1>9 DEF F, N

LEMMA CreateJobOK ==
  ASSUME SchedulerInv, NEW w \in Jobs, NEW batch \in ByHand, CreateJob(w, batch)
  PROVE  SchedulerInv' /\ OneMoves
<1> DEFINE row == [NoJob EXCEPT !.status = "PLANNED", !.serial = batch.serial,
                     !.item = batch.item, !.qty = batch.qty]
<1>1. w \in InStatus("NONE") /\ jobs' = [jobs EXCEPT ![w] = row] /\ UNCHANGED salesOnly
  BY FreeFinite DEF CreateJob
<1>2. row \in JobRows /\ row.status = "PLANNED" /\ row.line = 0 /\ row.item \in Formulated
  <2>1. NoJob \in JobRows /\ NoJob.line = 0
    BY NoJobType DEF NoJob
  <2>2. /\ batch.item \in Products /\ batch.item \in Formulated /\ batch.qty \in Nat
        /\ batch.serial \in Nat \X Nat
    BY SchedulerAssumption
  <2>3. QED
    BY <2>1, <2>2 DEF JobRows, JobStatuses
<1> HIDE DEF row
<1>3. jobs \in [Jobs -> JobRows]
  BY DEF SchedulerInv
<1>4. jobs' \in [Jobs -> JobRows] /\ jobs'[w] = row /\ \A q \in Jobs \ {w} : jobs'[q] = jobs[q]
  BY <1>1, <1>2, <1>3
<1>5. {w} \in SUBSET InStatus("NONE") /\ IsFiniteSet({w})
  BY <1>1, FS_Singleton
<1>6. QED
  BY <1>1, <1>2, <1>4, <1>5, NewJobsOK

\* A request gives each free number its own one of the lines that want a work order: the n-th
\* number goes to the n-th line.
LineOf(o, w) ==
  CHOOSE n \in Wanted(o) :
    Cardinality({k \in Wanted(o) : k < n}) =
      Cardinality({v \in FreeJobs(Cardinality(Wanted(o))) : v < w})

LEMMA RequestMatches ==
  ASSUME SchedulerInv, NEW o \in SalesOrders, RequestFits(o),
         NEW free, free = FreeJobs(Cardinality(Wanted(o)))
  PROVE  /\ Wanted(o) \in SUBSET DOMAIN orders[o].lines
         /\ IsFiniteSet(free) /\ free \in SUBSET InStatus("NONE")
         /\ \A w \in free : LineOf(o, w) \in Wanted(o)
         /\ \A n \in Wanted(o) : \E w \in free : LineOf(o, w) = n
         /\ \A v, w \in free : LineOf(o, v) = LineOf(o, w) => v = w
<1> DEFINE lines == Wanted(o)
           f == [x \in free |-> x]
           h == [x \in lines |-> x]
           rank(w) == Cardinality(Below(f, free, w))
           place(n) == Cardinality(Below(h, lines, n))
<1>1. lines \in SUBSET DOMAIN orders[o].lines /\ lines \in SUBSET Int /\ IsFiniteSet(lines)
  <2> DEFINE m == Len(orders[o].lines)
  <2>1. orders[o].lines \in Seq(SalesLines)
    BY DEF SchedulerInv, AccountsInv, AccountsTypeOK, OrderRows
  <2>2. DOMAIN orders[o].lines = 1..m /\ m \in Int /\ lines \in SUBSET DOMAIN orders[o].lines
    BY <2>1 DEF Wanted
  <2> HIDE DEF m, lines
  <2>3. IsFiniteSet(1..m)
    BY <2>2, FS_Interval
  <2>4. IsFiniteSet(lines)
    BY <2>2, <2>3, FS_Subset
  <2>5. lines \in SUBSET Int
    BY <2>2
  <2>6. QED
    BY <2>2, <2>4, <2>5
<1>2. /\ IsFiniteSet(free) /\ free \in SUBSET InStatus("NONE") /\ free \in SUBSET Int
      /\ Cardinality(free) = Cardinality(lines)
  <2>1. Cardinality(lines) \in Nat
    BY <1>1, FS_CardinalityType
  <2>2. IsFiniteSet(free) /\ free \subseteq InStatus("NONE")
    BY <2>1, FreeFinite
  <2>3. free \subseteq Int
    <3>1. InStatus("NONE") \subseteq Jobs
      BY DEF InStatus
    <3>2. \A w \in Jobs : w \in Int
      BY SchedulerAssumption
    <3>3. QED
      BY <2>2, <3>1, <3>2
  <2>4. Cardinality(free) = Cardinality(lines)
    BY DEF RequestFits
  <2>5. QED
    BY <2>2, <2>3, <2>4
<1>3. \A n \in lines, w \in free :
        /\ {k \in lines : k < n} = Below(h, lines, n)
        /\ {v \in free : v < w} = Below(f, free, w)
  BY DEF Below
<1>4. \A w \in free : LineOf(o, w) = CHOOSE n \in lines : place(n) = rank(w)
  <2>1. ASSUME NEW w \in free
        PROVE  LineOf(o, w) = CHOOSE n \in lines : place(n) = rank(w)
    BY <1>3 DEF LineOf
  <2>2. QED
    BY <2>1
<1>5. f \in [free -> Int] /\ \A x, y \in free : f[x] = f[y] => x = y
  BY <1>2
<1>6. h \in [lines -> Int] /\ \A x, y \in lines : h[x] = h[y] => x = y
  BY <1>1
<1>7. /\ \A w \in free : rank(w) \in Nat /\ rank(w) < Cardinality(free)
      /\ \A v, w \in free : f[v] < f[w] => rank(v) < rank(w)
  <2> HIDE DEF f
  <2>1. QED
    BY <1>2, <1>5, BelowOrder
<1>8. /\ \A n \in lines : place(n) \in Nat /\ place(n) < Cardinality(lines)
      /\ \A m, n \in lines : h[m] < h[n] => place(m) < place(n)
  <2> HIDE DEF h, lines
  <2>1. QED
    BY <1>1, <1>6, BelowOrder
<1>9. \A w \in free : \E n \in lines : place(n) = rank(w)
  <2> SUFFICES ASSUME NEW w \in free
               PROVE  \E n \in lines : place(n) = rank(w)
    OBVIOUS
  <2> HIDE DEF h, f, lines
  <2>1. rank(w) \in Nat /\ rank(w) < Cardinality(lines)
    BY <1>2, <1>7
  <2> HIDE DEF rank
  <2>2. QED
    BY <1>1, <1>6, <2>1, BelowNumbers
<1>10. \A n \in lines : \E w \in free : rank(w) = place(n)
  <2> SUFFICES ASSUME NEW n \in lines
               PROVE  \E w \in free : rank(w) = place(n)
    OBVIOUS
  <2> HIDE DEF h, f, lines
  <2>1. place(n) \in Nat /\ place(n) < Cardinality(free)
    BY <1>2, <1>8
  <2> HIDE DEF place
  <2>2. QED
    BY <1>2, <1>5, <2>1, BelowNumbers
<1>11. /\ \A v, w \in free : rank(v) = rank(w) => v = w
       /\ \A m, n \in lines : place(m) = place(n) => m = n
  <2>1. ASSUME NEW v \in free, NEW w \in free, rank(v) = rank(w)
        PROVE  v = w
    <3>1. v \in Int /\ w \in Int /\ f[v] = v /\ f[w] = w
      BY <1>2
    <3> HIDE DEF f, rank
    <3>2. ~ v < w /\ ~ w < v
      BY <1>7, <2>1, <3>1
    <3>3. QED
      BY <3>1, <3>2
  <2>2. ASSUME NEW m \in lines, NEW n \in lines, place(m) = place(n)
        PROVE  m = n
    <3>1. m \in Int /\ n \in Int /\ h[m] = m /\ h[n] = n
      BY <1>1
    <3> HIDE DEF h, place, lines
    <3>2. ~ m < n /\ ~ n < m
      BY <1>8, <2>2, <3>1
    <3>3. QED
      BY <3>1, <3>2
  <2>3. QED
    BY <2>1, <2>2
<1> HIDE DEF rank, place, f, h, lines
<1>12. \A w \in free : LineOf(o, w) \in lines /\ place(LineOf(o, w)) = rank(w)
  BY <1>4, <1>9
<1>13. \A n \in lines : \E w \in free : LineOf(o, w) = n
  BY <1>10, <1>11, <1>12
<1>14. \A v, w \in free : LineOf(o, v) = LineOf(o, w) => v = w
  BY <1>11, <1>12
<1>15. QED
  BY <1>1, <1>2, <1>12, <1>13, <1>14 DEF lines

LEMMA RequestProductionOK ==
  ASSUME SchedulerInv, NEW o \in SalesOrders, RequestProduction(o)
  PROVE  SchedulerInv' /\ OneMoves
<1> DEFINE lines == Wanted(o)
           free == FreeJobs(Cardinality(lines))
           lineOf(w) == CHOOSE n \in lines :
             Cardinality({k \in lines : k < n}) = Cardinality({v \in free : v < w})
           row(w) == [ status |-> "REQUESTED", order |-> o, line |-> lineOf(w),
                       serial |-> Serial(o, lineOf(w)),
                       item |-> orders[o].lines[lineOf(w)].subject,
                       qty |-> orders[o].lines[lineOf(w)].ordered, pos |-> NoPosition ]
<1>1. orders[o] \in OrderRows /\ orders[o].lines \in Seq(SalesLines)
  BY DEF SchedulerInv, AccountsInv, AccountsTypeOK, OrderRows
<1>2. lines \in SUBSET (1..Len(orders[o].lines)) /\ Len(orders[o].lines) \in Nat
  BY <1>1 DEF Wanted
<1>3. /\ RequestFits(o)
      /\ jobs' = [w \in Jobs |-> IF w \notin free THEN jobs[w] ELSE row(w)] /\ UNCHANGED salesOnly
  BY DEF RequestProduction, AfterRequest
<1>4. /\ IsFiniteSet(free) /\ free \in SUBSET InStatus("NONE") /\ free \subseteq Nat
      /\ free \subseteq Jobs
  <2>1. IsFiniteSet(free) /\ free \in SUBSET InStatus("NONE")
    BY <1>3, RequestMatches
  <2> HIDE DEF free
  <2>2. QED
    BY <2>1, SchedulerAssumption DEF InStatus
<1>5. \A w \in free : lineOf(w) \in lines
  <2>1. \A w \in free : lineOf(w) = LineOf(o, w)
    BY DEF LineOf
  <2>2. \A w \in free : LineOf(o, w) \in lines
    BY <1>3, RequestMatches
  <2>3. QED
    BY <2>1, <2>2
<1> HIDE DEF lines, free, lineOf
<1>6. ASSUME NEW w \in free
      PROVE  /\ row(w) \in JobRows /\ lineOf(w) \in DOMAIN orders[o].lines
  <2>1. lineOf(w) \in 1..Len(orders[o].lines)
    BY <1>2, <1>5
  <2>2. orders[o].lines[lineOf(w)] \in SalesLines
    BY <1>1, <2>1, ListElement
  <2>3. Serial(o, lineOf(w)) \in Nat \X Nat
    BY <1>1, <2>1 DEF Serial, OrderRows
  <2>4. lineOf(w) \in Nat /\ lineOf(w) \in DOMAIN orders[o].lines
    BY <1>1, <1>2, <2>1
  <2>5. /\ orders[o].lines[lineOf(w)].subject \in Products
        /\ orders[o].lines[lineOf(w)].ordered \in Nat
    BY <2>2 DEF SalesLines
  <2>6. row(w) \in JobRows
    BY <2>3, <2>4, <2>5 DEF JobRows, JobStatuses, NoPosition
  <2>7. QED
    BY <2>4, <2>6
<1>7. jobs' \in [Jobs -> JobRows]
  BY <1>3, <1>6 DEF SchedulerInv
<1>8. \A q \in Jobs \ free : jobs'[q] = jobs[q]
  BY <1>3
<1>9. \A q \in free :
         /\ jobs'[q].status = "REQUESTED" /\ jobs'[q].order = o
         /\ jobs'[q].line \in DOMAIN orders[o].lines
         /\ orders[o].lines[jobs'[q].line].subject = jobs'[q].item
         /\ jobs'[q].item \in Formulated
  <2>1. \A q \in free : orders[o].lines[lineOf(q)].subject \in Formulated
    BY <1>5 DEF lines, Wanted
  <2>2. QED
    BY <1>3, <1>4, <1>6, <2>1
<1>10. QED
  BY <1>3, <1>4, <1>7, <1>8, <1>9, NewJobsOK

-----------------------------------------------------------------------------
\* A step of the accounts that keeps the lines of the one order it changes, or
\* whose lines no job is reserved for.
LEMMA OrderChanges ==
  ASSUME SchedulerInv, AccountsInv', UNCHANGED jobs, NEW o \in SalesOrders,
         \A p \in SalesOrders \ {o} : orders'[p] = orders[p],
         \/ orders'[o].lines = orders[o].lines
         \/ \A w \in JobsOf(o) : jobs[w].line = 0
  PROVE  SchedulerInv' /\ OneMoves
<1>1. Created' = Created /\ Queued' = Queued /\ Created \subseteq Jobs
  BY DEF Created, Queued, InStatus
<1>2. LinesOfOrders'
  BY <1>1 DEF SchedulerInv, ReservationInv, LinesOfOrders
<1>3. \A w \in Created : jobs[w].line # 0 =>
        orders'[jobs[w].order].lines = orders[jobs[w].order].lines
  BY DEF JobsOf, SchedulerInv, ReservationInv, LinesOfOrders
<1>4. JobsProduceTheirLine'
  BY <1>1, <1>3 DEF SchedulerInv, ReservationInv, JobsProduceTheirLine
<1>5. jobs' \in [Jobs -> JobRows] /\ IsFiniteSet(Created')
  BY <1>1 DEF SchedulerInv, QueueInv
<1>6. MadeByFormula'
  BY <1>1 DEF SchedulerInv, ReservationInv, MadeByFormula
<1>7. QED
  BY <1>1, <1>2, <1>4, <1>5, <1>6, QueueStands DEF ReservationInv

\* Nothing is reserved for the lines of an order that does not exist yet.
LEMMA CreateOrderKeepsJobs ==
  ASSUME SchedulerInv, NEW o \in SalesOrders, NEW c \in Customers, NEW cart \in Carts,
         NEW number \in Nat, NEW due \in Nat, NEW may,
         CreateOrder(o, c, cart, number, due, may), UNCHANGED jobs
  PROVE  SchedulerInv' /\ OneMoves
<1>1. AccountsInv'
  BY CreationBills DEF SchedulerInv
<1>2. \A p \in SalesOrders \ {o} : orders'[p] = orders[p]
  BY DEF CreateOrder, SchedulerInv, AccountsInv, AccountsTypeOK
<1>3. orders[o].lines = << >>
  <2>1. orders[o] = NoOrder
    BY DEF CreateOrder, SchedulerInv, AccountsInv, UnusedRowsEmpty
  <2>2. QED
    BY <2>1 DEF NoOrder
<1>4. \A w \in JobsOf(o) : jobs[w].line = 0
  <2> SUFFICES ASSUME NEW w \in Created, jobs[w].order = o, jobs[w].line # 0
               PROVE  FALSE
    BY DEF JobsOf
  <2>1. jobs[w].line \in DOMAIN << >>
    BY <1>3 DEF SchedulerInv, ReservationInv, JobsProduceTheirLine
  <2>2. QED
    BY <2>1
<1>5. QED
  BY <1>1, <1>2, <1>4, OrderChanges

LEMMA OrderStepKeepsJobs ==
  ASSUME SchedulerInv, NEW o \in SalesOrders, OrderStep(o), UNCHANGED jobs
  PROVE  SchedulerInv' /\ OneMoves
<1>1. ASSUME NEW c \in Customers, NEW cart \in Carts, NEW number \in Numbers \cup {NoNumber},
             NEW may \in Grants, CreateOrder(o, c, cart, number, 0, may)
      PROVE  SchedulerInv' /\ OneMoves
  <2>1. number \in Nat /\ 0 \in Nat
    BY SalesAssumption DEF NoNumber
  <2>2. QED
    BY <1>1, <2>1, CreateOrderKeepsJobs
<1>2. ASSUME NEW g \in Imports, ImportOrder(o, g)
      PROVE  SchedulerInv' /\ OneMoves
  <2>1. g.customer \in Customers /\ g.number \in Nat /\ g.cart \in Carts /\ g.due \in Nat
    BY SalesAssumption
  <2>2. QED
    BY <1>2, <2>1, CreateOrderKeepsJobs DEF ImportOrder
<1>3. AccountsInv' /\ orders \in [SalesOrders -> OrderRows]
  BY OrderStepSettles DEF SchedulerInv, AccountsInv, AccountsTypeOK
<1>4. CASE CancelOrder(o) \/ \E amount \in Amounts :
             RecordPayment(o, amount) \/ IssueRefund(o, amount)
  <2>1. orders[o] \in OrderRows /\ orders = [p \in SalesOrders |-> orders[p]]
    BY <1>3
  <2>. DEFINE Kept == /\ \A p \in SalesOrders \ {o} : orders'[p] = orders[p]
                      /\ orders'[o].lines = orders[o].lines
  <2>2. CASE CancelOrder(o)
    <3>1. Kept
      BY <2>1, <2>2 DEF CancelOrder, OrderRows
    <3>2. QED
      BY <1>3, <3>1, OrderChanges
  <2>3. ASSUME NEW amount \in Amounts, RecordPayment(o, amount) \/ IssueRefund(o, amount)
        PROVE  SchedulerInv' /\ OneMoves
    <3>1. Kept
      BY <2>1, <2>3 DEF RecordPayment, IssueRefund, PaymentFits, RefundFits, AfterPayment, AfterRefund, OrderRows
    <3>2. QED
      BY <1>3, <3>1, OrderChanges
  <2>4. QED
    BY <1>4, <2>2, <2>3
<1>5. QED
  BY <1>1, <1>2, <1>4 DEF OrderStep

LEMMA EditOrderOK ==
  ASSUME SchedulerInv, NEW o \in SalesOrders, NEW e \in Edits, NEW may, EditOrder(o, e, may)
  PROVE  SchedulerInv' /\ OneMoves
<1>1. UpdateOrder(o, e, may) /\ UNCHANGED jobs
  BY DEF EditOrder
<1>2. AccountsInv' /\ orders \in [SalesOrders -> OrderRows]
  BY <1>1, UpdateBills DEF SchedulerInv, AccountsInv, AccountsTypeOK
<1>3. /\ \A p \in SalesOrders \ {o} : orders'[p] = orders[p]
      /\ "cart" \notin DOMAIN e => orders'[o].lines = orders[o].lines
  BY <1>1, <1>2 DEF UpdateOrder, OrderRows
<1>4. "cart" \in DOMAIN e => \A w \in JobsOf(o) : jobs[w].line = 0
  BY DEF EditOrder
<1>5. QED
  BY <1>1, <1>2, <1>3, <1>4, OrderChanges

LEMMA OtherAccountsKeepJobs ==
  ASSUME SchedulerInv, OtherAccountsStep, UNCHANGED jobs
  PROVE  SchedulerInv' /\ OneMoves
<1>1. AccountsInv' /\ orders' = orders
  BY OtherStepInv DEF SchedulerInv
<1>2. Created' = Created /\ Queued' = Queued
  BY DEF Created, Queued, InStatus
<1>3. ReservationInv'
  BY <1>1, <1>2 DEF SchedulerInv, ReservationInv, LinesOfOrders, JobsProduceTheirLine, MadeByFormula
<1>4. jobs' \in [Jobs -> JobRows] /\ IsFiniteSet(Created')
  BY <1>2 DEF SchedulerInv, QueueInv
<1>5. QED
  BY <1>1, <1>2, <1>3, <1>4, QueueStands

LEMMA SchedulerInvInit == SchedulerInit => SchedulerInv
<1> SUFFICES ASSUME SchedulerInit PROVE SchedulerInv
  OBVIOUS
<1>1. AccountsInv
  BY AccountsInvInit DEF SchedulerInit
<1>2. jobs \in [Jobs -> JobRows]
  BY NoJobType DEF SchedulerInit
<1>3. Created = {} /\ Queued = {}
  BY DEF SchedulerInit, Created, Queued, InStatus, NoJob
<1>4. QueueInv
  BY <1>3, FS_EmptySet DEF QueueInv, PositionsKnown, QueueUnambiguous
<1>5. ReservationInv
  BY <1>3 DEF ReservationInv, LinesOfOrders, JobsProduceTheirLine, MadeByFormula
<1>6. QED
  BY <1>1, <1>2, <1>4, <1>5 DEF SchedulerInv

LEMMA SchedulerStep ==
  ASSUME SchedulerInv, SchedulerNext
  PROVE  SchedulerInv' /\ OneMoves
<1>1. CASE QueueStep
  <2>1. ASSUME NEW w \in Jobs, EnqueueSuggested(w)
        PROVE  SchedulerInv' /\ OneMoves
    BY <2>1, SuggestedSlotNat, EnqueueOK DEF EnqueueSuggested
  <2>2. ASSUME NEW w \in Jobs, NEW i \in 0..Cardinality(Queued),
               Enqueue(w, i) \/ Reposition(w, i) \/ Drop(w, i)
        PROVE  SchedulerInv' /\ OneMoves
    BY <2>2, EnqueueOK, DropOK
  <2>3. QED
    BY <1>1, <2>1, <2>2, ReleaseOK, ReleaseAllOK, QueueByRulesOK DEF QueueStep
<1>2. CASE JobStep
  <2>1. ASSUME NEW w \in Movable, NEW o \in SalesOrders, NEW n \in 0..Len(orders[o].lines),
               Reassign(w, o, n)
        PROVE  SchedulerInv' /\ OneMoves
    BY <2>1, ReassignOK, SchedulerAssumption
  <2>2. QED
    BY <1>2, <2>1, StatusOK, CreateJobOK, RequestProductionOK DEF JobStep
<1>3. CASE FloorStep
  BY <1>3, StatusOK, SchedulerAssumption DEF FloorStep
<1>4. CASE OrdersStep
  BY <1>4, OrderStepKeepsJobs, EditOrderOK, OtherAccountsKeepJobs DEF OrdersStep
<1>5. QED
  BY <1>1, <1>2, <1>3, <1>4 DEF SchedulerNext

LEMMA SchedulerInvStep ==
  SchedulerInv /\ [SchedulerNext]_schedulerVars => SchedulerInv'
<1> SUFFICES ASSUME SchedulerInv, UNCHANGED schedulerVars PROVE SchedulerInv'
  BY SchedulerStep
<1>1. UNCHANGED salesOnly /\ UNCHANGED jobs
  BY DEF schedulerVars, salesOnly
<1>2. AccountsInv' /\ orders' = orders
  BY <1>1, AccountsKept DEF SchedulerInv, salesOnly
<1>3. Created' = Created /\ Queued' = Queued
  BY <1>1 DEF Created, Queued, InStatus
<1>4. ReservationInv'
  BY <1>1, <1>2, <1>3 DEF SchedulerInv, ReservationInv, LinesOfOrders, JobsProduceTheirLine,
     MadeByFormula
<1>5. QED
  BY <1>1, <1>2, <1>3, <1>4, QueueStands DEF SchedulerInv, QueueInv

(***************************************************************************)
(* The rows of the work orders are well typed; the queue always has one    *)
(* order, through any drops, rules, releases and cancellations; and a job  *)
(* that is reserved for a line makes what the line orders, through edits   *)
(* of orders and reassignments of jobs.                                    *)
(***************************************************************************)
THEOREM SchedulerCorrect ==
  SchedulerSpec => [](SchedulerTypeOK /\ QueueUnambiguous /\ JobsProduceTheirLine)
<1>1. SchedulerInv => SchedulerTypeOK /\ QueueUnambiguous /\ JobsProduceTheirLine
  BY DEF SchedulerInv, AccountsInv, QueueInv, ReservationInv, SchedulerTypeOK
<1>2. QED
  BY SchedulerInvInit, SchedulerInvStep, <1>1, PTL DEF SchedulerSpec

(***************************************************************************)
(* A step moves at most one job of the queue past others (applyPositions   *)
(* numbers the queue anew on every change, and a cancelled job leaves a    *)
(* gap).                                                                   *)
(***************************************************************************)
THEOREM QueueOrderStands == SchedulerSpec => QueueOrderStable
<1>1. SchedulerInv /\ [SchedulerNext]_schedulerVars =>
        [\E w \in Jobs : \A u, v \in (Queued \cap Queued') \ {w} :
           Ahead(u, v)' <=> Ahead(u, v)]_schedulerVars
  BY SchedulerStep DEF OneMoves, KeepsOrderOf
<1>2. QED
  BY SchedulerInvInit, SchedulerInvStep, <1>1, PTL DEF SchedulerSpec, QueueOrderStable

-----------------------------------------------------------------------------
(***************************************************************************)
(* Where a job lands: the suggested slot, the cards and the arrows.        *)
(***************************************************************************)
LEMMA RulesAreKeys ==
  ASSUME SchedulerInv, NEW a \in Jobs, NEW b \in Jobs
  PROVE  RunsBefore(a, b) <=> KeyBefore(RuleKey(a), RuleKey(b))
<1>1. /\ Due(a) \in Nat /\ Rating(a) \in Nat /\ Rush(a) \in BOOLEAN /\ RuleKey(a) \in Keys
      /\ Due(b) \in Nat /\ Rating(b) \in Nat /\ Rush(b) \in BOOLEAN /\ RuleKey(b) \in Keys
  BY KeyTypes
<1>2. KeyBefore(RuleKey(a), RuleKey(b)) <=>
        \/ RuleKey(a)[1] < RuleKey(b)[1]
        \/ RuleKey(a)[1] = RuleKey(b)[1] /\ RuleKey(a)[2] < RuleKey(b)[2]
        \/ /\ RuleKey(a)[1] = RuleKey(b)[1] /\ RuleKey(a)[2] = RuleKey(b)[2]
           /\ RuleKey(a)[3] < RuleKey(b)[3]
        \/ /\ RuleKey(a)[1] = RuleKey(b)[1] /\ RuleKey(a)[2] = RuleKey(b)[2]
           /\ RuleKey(a)[3] = RuleKey(b)[3] /\ RuleKey(a)[4] < RuleKey(b)[4]
  BY <1>1, KeyOrder
<1>3. /\ RuleKey(a)[1] = (IF Rush(a) THEN 0 ELSE 1) /\ RuleKey(a)[2] = Rating(a)
      /\ RuleKey(a)[3] = (IF Due(a) = 0 THEN 1 ELSE 0) /\ RuleKey(a)[4] = Due(a)
      /\ RuleKey(b)[1] = (IF Rush(b) THEN 0 ELSE 1) /\ RuleKey(b)[2] = Rating(b)
      /\ RuleKey(b)[3] = (IF Due(b) = 0 THEN 1 ELSE 0) /\ RuleKey(b)[4] = Due(b)
  BY DEF RuleKey
<1>4. QED
  BY <1>1, <1>2, <1>3 DEF RunsBefore

\* The rules are transitive, also through jobs that they leave apart.
LEMMA RulesTransitive ==
  ASSUME SchedulerInv, NEW a \in Jobs, NEW b \in Jobs, NEW c \in Jobs,
         RunsBefore(a, b), ~ RunsBefore(c, b)
  PROVE  RunsBefore(a, c)
<1>1. /\ Due(a) \in Nat /\ Rating(a) \in Nat /\ Rush(a) \in BOOLEAN
      /\ Due(b) \in Nat /\ Rating(b) \in Nat /\ Rush(b) \in BOOLEAN
      /\ Due(c) \in Nat /\ Rating(c) \in Nat /\ Rush(c) \in BOOLEAN
  BY KeyTypes
<1>2. QED
  BY <1>1 DEF RunsBefore

\* After an insertion at slot t, w has exactly those ahead that had a smaller rank than t.
LEMMA InsertLands ==
  ASSUME SchedulerInv, NEW w \in Jobs, jobs[w].status \in {"REQUESTED", "QUEUED"},
         NEW t \in Nat, jobs' = Insert(w, t), NEW q \in Queued \ {w}
  PROVE  /\ Ahead(q, w)' <=> Rank(q, Queued \ {w}) < t
         /\ Ahead(w, q)' <=> ~ Rank(q, Queued \ {w}) < t
<1>1. jobs'[w].pos = t /\ jobs'[q].pos = Slid(Queued \ {w}, t, q)
  BY InsertRows
<1>2. Queued \ {w} \in SUBSET Queued
  OBVIOUS
<1>3. /\ Slid(Queued \ {w}, t, q) \in Nat /\ Slid(Queued \ {w}, t, q) # t
      /\ Slid(Queued \ {w}, t, q) < t <=> Rank(q, Queued \ {w}) < t
  BY <1>2, SlidOrder
<1>4. QED
  BY <1>1, <1>3 DEF Ahead

LEMMA SuggestedLands ==
  ASSUME SchedulerInv, NEW w \in Jobs, FollowsRules, EnqueueSuggested(w), NEW q \in Queued
  PROVE  Ahead(w, q)' <=> RunsBefore(w, q)
<1> DEFINE A == {x \in Queued : ~ KeyBefore(RuleKey(w), RuleKey(x))}
           P == {x \in Queued : jobs[x].pos < jobs[q].pos}
           t == SuggestedSlot(w)
<1>1. w \notin Queued /\ jobs[w].status = "REQUESTED" /\ Queued \subseteq Jobs
  BY DEF EnqueueSuggested, Enqueue, Queued, InStatus
<1>2. \A x \in Queued : x \in A <=> ~ RunsBefore(w, x)
  BY <1>1, RulesAreKeys
<1>3. IsFiniteSet(Queued) /\ A \in SUBSET Queued /\ P \in SUBSET Queued
  BY QueuedFinite
<1>4. /\ Cardinality(A) \in Nat /\ IsFiniteSet(A) /\ Cardinality(A) <= Cardinality(Queued)
      /\ Cardinality(P) \in Nat /\ IsFiniteSet(P) /\ Cardinality(Queued) \in Nat
  BY <1>3, FewerElements
<1>5. t = Cardinality(A) /\ Rank(q, Queued) = Cardinality(P)
  BY DEF SuggestedSlot, Rank
<1>6. jobs' = Insert(w, t) /\ t \in Nat
  BY <1>4, <1>5 DEF EnqueueSuggested, Enqueue, MinOf
<1>7. Queued \ {w} = Queued
  BY <1>1
<1>8. Ahead(w, q)' <=> ~ Rank(q, Queued) < t
  <2>1. q \in Queued \ {w}
    BY <1>1
  <2> HIDE DEF t
  <2>2. Ahead(w, q)' <=> ~ Rank(q, Queued \ {w}) < t
    BY <1>1, <1>6, <2>1, InsertLands
  <2>3. QED
    BY <1>7, <2>2
<1>9. \A x, y \in Queued : x # y => Ahead(x, y) \/ Ahead(y, x)
  BY DEF SchedulerInv, QueueInv, QueueUnambiguous
<1>10. \A x \in Queued : jobs[x].pos \in Nat
  BY DEF SchedulerInv, QueueInv, PositionsKnown
<1>11. CASE q \in A
  <2>1. P \in SUBSET A
    <3> SUFFICES ASSUME NEW x \in P, RunsBefore(w, x) PROVE FALSE
      BY <1>2
    <3>1. ~ RunsBefore(q, x)
      BY DEF FollowsRules, Ahead
    <3>2. RunsBefore(w, q)
      BY <1>1, <3>1, RulesTransitive
    <3>3. QED
      BY <1>2, <1>11, <3>2
  <2>2. q \notin P
    BY <1>10
  <2>3. Cardinality(P) < Cardinality(A)
    BY <1>4, <1>11, <2>1, <2>2, FewerElements
  <2>4. QED
    BY <1>2, <1>4, <1>5, <1>8, <1>11, <2>3
<1>12. CASE q \notin A
  <2>1. A \in SUBSET P
    <3> SUFFICES ASSUME NEW x \in A, x \notin P PROVE FALSE
      OBVIOUS
    <3>1. Ahead(q, x)
      BY <1>9, <1>12 DEF Ahead
    <3>2. ~ RunsBefore(x, q)
      BY <3>1 DEF FollowsRules
    <3>3. RunsBefore(w, x)
      BY <1>1, <1>2, <1>12, <3>2, RulesTransitive
    <3>4. QED
      BY <1>2, <3>3
  <2>2. Cardinality(A) <= Cardinality(P)
    BY <1>4, <2>1, FewerElements
  <2>3. QED
    BY <1>2, <1>4, <1>5, <1>8, <1>12, <2>2
<1>13. QED
  BY <1>11, <1>12

LEMMA RankWithout ==
  ASSUME SchedulerInv, NEW w \in Queued, NEW q \in Queued \ {w}
  PROVE  Rank(q, Queued \ {w}) =
           IF Rank(w, Queued) < Rank(q, Queued) THEN Rank(q, Queued) - 1 ELSE Rank(q, Queued)
<1> DEFINE P == {x \in Queued : jobs[x].pos < jobs[q].pos}
           R == {x \in Queued \ {w} : jobs[x].pos < jobs[q].pos}
<1>1. R = P \ {w} /\ P \in SUBSET Queued
  OBVIOUS
<1>2. IsFiniteSet(P) /\ Cardinality(P) \in Nat
  BY <1>1, QueuedFinite, FewerElements
<1>3. Cardinality(R) = IF w \in P THEN Cardinality(P) - 1 ELSE Cardinality(P)
  BY <1>1, <1>2, FS_RemoveElement
<1>4. w \in P <=> Rank(w, Queued) < Rank(q, Queued)
  BY RankOrder DEF Ahead
<1>5. Rank(q, Queued) = Cardinality(P) /\ Rank(q, Queued \ {w}) = Cardinality(R)
  BY DEF Rank
<1>6. QED
  BY <1>2, <1>3, <1>4, <1>5

LEMMA DropLands ==
  ASSUME SchedulerInv, NEW w \in Jobs, NEW i \in 0..Cardinality(Queued), Drop(w, i),
         NEW q \in Queued \ {w}
  PROVE  Ahead(q, w)' <=> Rank(q, Queued) < i
<1> DEFINE n == Cardinality(Queued)
<1>1. n \in Nat /\ i \in Nat /\ i <= n
  BY QueuedFinite
<1>2. CASE jobs[w].status = "REQUESTED" /\ Enqueue(w, MinOf(i, n))
  <2>1. jobs' = Insert(w, i) /\ Queued \ {w} = Queued
    BY <1>1, <1>2 DEF Enqueue, MinOf, Queued, InStatus
  <2>2. QED
    BY <1>1, <1>2, <2>1, InsertLands
<1>3. CASE jobs[w].status = "QUEUED" /\ Reposition(w, DropIndex(w, i))
  <2> DEFINE t == IF Rank(w, Queued) < i THEN i - 1 ELSE i
  <2>1. w \in Queued
    BY <1>3 DEF Queued, InStatus
  <2>2. /\ Rank(w, Queued) \in Nat /\ Rank(w, Queued) < n
        /\ Rank(q, Queued) \in Nat /\ Rank(q, Queued) < n
        /\ Rank(q, Queued) # Rank(w, Queued)
    BY <2>1, RankOrder
  <2>3. Cardinality(Queued \ {w}) = n - 1
    BY <2>1, QueuedFinite, FS_RemoveElement
  <2>4. jobs' = Insert(w, t) /\ t \in Nat
    BY <1>1, <1>3, <2>2, <2>3 DEF Reposition, DropIndex, MinOf
  <2>5. Ahead(q, w)' <=> Rank(q, Queued \ {w}) < t
    <3> HIDE DEF t
    <3>1. QED
      BY <1>3, <2>4, InsertLands
  <2>6. Rank(q, Queued \ {w}) =
          IF Rank(w, Queued) < Rank(q, Queued) THEN Rank(q, Queued) - 1 ELSE Rank(q, Queued)
    BY <2>1, RankWithout
  <2>7. QED
    BY <1>1, <2>2, <2>5, <2>6
<1>4. QED
  BY <1>2, <1>3 DEF Drop

\* When g numbers S from 0, t elements have numbers less than t.
LEMMA CountBelow ==
  ASSUME NEW S, IsFiniteSet(S), NEW g \in [S -> Nat],
         \A x, y \in S : g[x] = g[y] => x = y,
         \A k \in 0..Cardinality(S) - 1 : \E x \in S : g[x] = k,
         NEW t \in Nat, t <= Cardinality(S)
  PROVE  Cardinality({x \in S : g[x] < t}) = t
<1> DEFINE T == {x \in S : g[x] < t}
           h == [x \in T |-> g[x]]
           m == t - 1
<1>1. IsFiniteSet(T) /\ Cardinality(S) \in Nat
  BY FewerElements
<1>2. m \in Int /\ \A k \in 0..m : k < t /\ k \in 0..Cardinality(S) - 1
  BY <1>1
<1>3. h \in [T -> 0..m]
  OBVIOUS
<1>4. h \in Injection(T, 0..m)
  BY <1>3 DEF Injection, IsInjective
<1>5. \A k \in 0..m : \E x \in T : h[x] = k
  BY <1>2
<1>6. h \in Surjection(T, 0..m)
  BY <1>3, <1>5 DEF Surjection
<1>7. ExistsBijection(T, 0..m)
  BY <1>4, <1>6 DEF ExistsBijection, Bijection
<1>8. Cardinality(0..m) = Cardinality(T)
  BY <1>1, <1>7, FS_Bijection
<1>9. Cardinality(0..m) = IF 0 > m THEN 0 ELSE m + 1
  <2> HIDE DEF m
  <2>1. QED
    BY <1>2, FS_Interval
<1>10. QED
  BY <1>8, <1>9

LEMMA GaplessRank ==
  ASSUME SchedulerInv, Gapless, NEW w \in Queued
  PROVE  Rank(w, Queued) = jobs[w].pos
<1> DEFINE g == [q \in Queued |-> jobs[q].pos]
<1>1. IsFiniteSet(Queued) /\ Cardinality(Queued) \in Nat
  BY QueuedFinite
<1>2. g \in [Queued -> Nat] /\ \A x, y \in Queued : g[x] = g[y] => x = y
  BY DEF SchedulerInv, QueueInv, PositionsKnown, QueueUnambiguous, Ahead
<1>3. \A k \in 0..Cardinality(Queued) - 1 : \E x \in Queued : g[x] = k
  BY DEF Gapless
<1>4. jobs[w].pos \in Nat /\ jobs[w].pos <= Cardinality(Queued)
  <2>1. jobs[w].pos \in {jobs[q].pos : q \in Queued}
    OBVIOUS
  <2>2. jobs[w].pos \in 0..Cardinality(Queued) - 1
    BY <2>1 DEF Gapless
  <2>3. QED
    BY <1>1, <2>2
<1>5. {x \in Queued : g[x] < jobs[w].pos} = {x \in Queued : jobs[x].pos < jobs[w].pos}
  OBVIOUS
<1> HIDE DEF g
<1>6. Cardinality({x \in Queued : g[x] < jobs[w].pos}) = jobs[w].pos
  BY <1>1, <1>2, <1>3, <1>4, CountBelow
<1>7. QED
  BY <1>5, <1>6 DEF Rank

LEMMA InsertRank ==
  ASSUME SchedulerInv, NEW w \in Queued, NEW t \in Nat, t < Cardinality(Queued),
         jobs' = Insert(w, t)
  PROVE  Rank(w, Queued)' = t
<1> DEFINE rest == Queued \ {w}
           g == [q \in rest |-> Rank(q, rest)]
           f == [q \in rest |-> jobs[q].pos]
<1>1. w \in Jobs /\ jobs[w].status = "QUEUED"
  BY DEF Queued, InStatus
<1>2. rest \in SUBSET Queued /\ Queued' = Queued
  <2>1. Queued' = rest \cup {w}
    BY <1>1, InsertRows
  <2>2. QED
    BY <2>1
<1>3. /\ IsFiniteSet(rest) /\ Cardinality(rest) = Cardinality(Queued) - 1
      /\ Cardinality(Queued) \in Nat
  BY QueuedFinite, FS_RemoveElement
<1>4. g \in [rest -> Nat] /\ \A x, y \in rest : g[x] = g[y] => x = y
  BY <1>2, RankOrder
<1>5. ASSUME NEW k \in 0..Cardinality(rest) - 1 PROVE \E x \in rest : g[x] = k
  <2>1. f \in [rest -> Int] /\ \A x, y \in rest : f[x] = f[y] => x = y
    BY DEF SchedulerInv, QueueInv, PositionsKnown, QueueUnambiguous, Ahead
  <2>2. \A x \in rest : Below(f, rest, x) = {y \in rest : jobs[y].pos < jobs[x].pos}
    BY DEF Below
  <2>3. \A x \in rest : g[x] = Cardinality(Below(f, rest, x))
    BY <2>2 DEF Rank
  <2>4. k \in Nat /\ k < Cardinality(rest)
    BY <1>3
  <2> HIDE DEF f, g, rest
  <2>5. PICK x \in rest : Cardinality(Below(f, rest, x)) = k
    BY <1>3, <2>1, <2>4, BelowNumbers
  <2>6. QED
    BY <2>3, <2>5
<1>6. Cardinality({x \in rest : g[x] < t}) = t
  <2>1. t <= Cardinality(rest)
    BY <1>3
  <2> HIDE DEF g, rest
  <2>2. QED
    BY <1>3, <1>4, <1>5, <2>1, CountBelow
<1>7. {x \in Queued' : jobs'[x].pos < jobs'[w].pos} = {x \in rest : g[x] < t}
  <2>1. jobs'[w].pos = t
    BY <1>1, InsertRows
  <2>2. \A x \in rest : jobs'[x].pos < jobs'[w].pos <=> Rank(x, rest) < t
    BY <1>1, InsertLands DEF Ahead
  <2>3. \A x \in rest : g[x] = Rank(x, rest)
    OBVIOUS
  <2>4. Queued' = rest \cup {w} /\ ~ jobs'[w].pos < jobs'[w].pos
    BY <1>2, <2>1
  <2> HIDE DEF g, rest
  <2>5. QED
    BY <2>1, <2>2, <2>3, <2>4
<1>8. QED
  BY <1>6, <1>7 DEF Rank

LEMMA ArrowsLand ==
  ASSUME SchedulerInv, NEW w \in Jobs, Gapless
  PROVE  /\ MoveUp(w) => Rank(w, Queued)' = Rank(w, Queued) - 1
         /\ MoveDown(w) => Rank(w, Queued)' = Rank(w, Queued) + 1
<1>1. ASSUME w \in Queued
      PROVE  /\ Rank(w, Queued) = jobs[w].pos /\ jobs[w].pos \in Nat
             /\ jobs[w].pos < Cardinality(Queued)
             /\ Cardinality(Queued) \in Nat
             /\ Cardinality(Queued \ {w}) = Cardinality(Queued) - 1
  BY <1>1, GaplessRank, RankOrder, QueuedFinite, FS_RemoveElement
<1>2. ASSUME MoveUp(w) PROVE Rank(w, Queued)' = Rank(w, Queued) - 1
  <2>1. w \in Queued
    BY <1>2 DEF MoveUp, Reposition, Queued, InStatus
  <2>2. PICK t \in Nat : t = jobs[w].pos - 1
    BY <1>1, <1>2, <2>1 DEF MoveUp
  <2>3. jobs' = Insert(w, t) /\ t < Cardinality(Queued)
    BY <1>1, <1>2, <2>1, <2>2 DEF MoveUp, Reposition, MinOf
  <2>4. Rank(w, Queued)' = t
    BY <2>1, <2>3, InsertRank
  <2>5. QED
    BY <1>1, <2>1, <2>2, <2>4
<1>3. ASSUME MoveDown(w) PROVE Rank(w, Queued)' = Rank(w, Queued) + 1
  <2>1. w \in Queued
    BY <1>3 DEF MoveDown, Reposition, Queued, InStatus
  <2>2. PICK t \in Nat : t = jobs[w].pos + 1
    BY <1>1, <2>1
  <2>3. jobs' = Insert(w, t) /\ t < Cardinality(Queued)
    BY <1>1, <1>3, <2>1, <2>2 DEF MoveDown, Reposition, MinOf
  <2>4. Rank(w, Queued)' = t
    BY <2>1, <2>3, InsertRank
  <2>5. QED
    BY <1>1, <2>1, <2>2, <2>4
<1>4. QED
  BY <1>2, <1>3

\* Neither the rules nor the others' order changes when a job is queued.
LEMMA SuggestedFollows ==
  ASSUME SchedulerInv, NEW w \in Jobs, FollowsRules, EnqueueSuggested(w)
  PROVE  /\ FollowsRules'
         /\ \A q \in Queued : RunsFirst(q, w) => Ahead(q, w)'
<1> DEFINE t == MinOf(SuggestedSlot(w), Cardinality(Queued))
<1>1. /\ jobs[w].status = "REQUESTED" /\ w \notin Queued /\ Queued \subseteq Jobs
      /\ jobs' = Insert(w, t) /\ UNCHANGED salesOnly
  BY DEF EnqueueSuggested, Enqueue, Queued, InStatus
<1>2. t \in Nat
  BY SuggestedSlotNat, QueuedFinite DEF MinOf
<1> HIDE DEF t
<1>3. JobsStand /\ Queued' = Queued \cup {w}
  BY <1>1, <1>2, InsertRows
<1>4. SchedulerInv' /\ KeepsOrderOf((Queued \cap Queued') \ {w})
  BY <1>1, <1>2, InsertOK
<1>5. \A u, v \in Queued : Ahead(u, v)' <=> Ahead(u, v)
  BY <1>1, <1>3, <1>4 DEF KeepsOrderOf
<1>6. \A q \in Queued : Ahead(w, q)' <=> RunsBefore(w, q)
  BY SuggestedLands
<1>7. \A u, v \in Queued' : u # v => Ahead(u, v)' \/ Ahead(v, u)'
  BY <1>4 DEF SchedulerInv, QueueInv, QueueUnambiguous
<1>8. \A u, v \in Queued' : ~ (Ahead(u, v)' /\ Ahead(v, u)')
  <2>1. \A u \in Queued' : jobs'[u].pos \in Nat
    BY <1>4 DEF SchedulerInv, QueueInv, PositionsKnown
  <2> QED
    BY <2>1 DEF Ahead
<1>9. \A a, b \in Jobs : RunsBefore(a, b)' <=> RunsBefore(a, b)
  <2>1. \A a \in Jobs : Due(a)' = Due(a) /\ Rating(a)' = Rating(a)
    BY <1>1, <1>3 DEF Due, Rating, JobsStand, salesOnly
  <2>2. \A a \in Jobs : Rush(a)' <=> Rush(a)
    BY <1>1, <2>1 DEF Rush, salesOnly
  <2> QED
    BY <2>1, <2>2 DEF RunsBefore
<1>10. \A a, b \in Jobs : ~ (RunsBefore(a, b) /\ RunsBefore(b, a))
  <2> SUFFICES ASSUME NEW a \in Jobs, NEW b \in Jobs, RunsBefore(a, b), RunsBefore(b, a)
               PROVE  FALSE
    OBVIOUS
  <2>1. Due(a) \in Nat /\ Rating(a) \in Nat /\ Due(b) \in Nat /\ Rating(b) \in Nat
    BY KeyTypes
  <2> QED
    BY <2>1 DEF RunsBefore
<1>11. ASSUME NEW u \in Queued', NEW v \in Queued', Ahead(u, v)'
       PROVE  ~ RunsBefore(v, u)'
  <2>1. u \in Jobs /\ v \in Jobs
    BY <1>1, <1>3
  <2>2. CASE u \in Queued /\ v \in Queued
    BY <1>5, <1>9, <1>11, <2>1, <2>2 DEF FollowsRules
  <2>3. CASE u = w /\ v \in Queued
    BY <1>6, <1>9, <1>10, <1>11, <2>1, <2>3
  <2>4. CASE u \in Queued /\ v = w
    BY <1>6, <1>8, <1>9, <1>11, <2>1, <2>4
  <2>5. CASE u = w /\ v = w
    BY <1>8, <1>11, <2>5
  <2> QED
    BY <1>3, <2>2, <2>3, <2>4, <2>5
<1>12. FollowsRules'
  BY <1>11 DEF FollowsRules
<1>13. ASSUME NEW q \in Queued, RunsFirst(q, w)
       PROVE  Ahead(q, w)'
  <2>1. ~ RunsBefore(w, q)
    BY <1>1, <1>10, <1>13 DEF RunsFirst
  <2> QED
    BY <1>1, <1>3, <1>6, <1>7, <2>1
<1> QED
  BY <1>12, <1>13

(***************************************************************************)
(* The suggested slot keeps the run-order rules in a queue that follows    *)
(* them (SuggestedKeepsRules): the rules order the jobs totally up to      *)
(* ties, so the jobs that run no later than the new one are the first of   *)
(* the queue, and counting them gives the place behind them.               *)
(***************************************************************************)
THEOREM SuggestionsKeepTheRules == SchedulerSpec => SuggestedKeepsRules
<1>1. SchedulerInv => [\A w \in Jobs :
         FollowsRules /\ EnqueueSuggested(w) =>
           /\ FollowsRules'
           /\ \A q \in Queued : RunsFirst(q, w) => Ahead(q, w)']_schedulerVars
  BY SuggestedFollows
<1>2. QED
  BY SchedulerInvInit, SchedulerInvStep, <1>1, PTL DEF SchedulerSpec, SuggestedKeepsRules

(***************************************************************************)
(* A card lands where the planner puts it (CardsLand): dropped into a gap  *)
(* of the board, or moved by an arrow in a queue without gaps, whatever    *)
(* the shift of the index below the card's own place and the renumbering   *)
(* of the others make of the positions.                                    *)
(***************************************************************************)
THEOREM CardsLandWherePut == SchedulerSpec => CardsLand
<1>1. SchedulerInv => [\A w \in Jobs :
         /\ \A i \in 0..Cardinality(Queued) :
              Drop(w, i) =>
                \A q \in Queued \ {w} : Ahead(q, w)' <=> Rank(q, Queued) < i
         /\ Gapless /\ MoveUp(w) => Rank(w, Queued)' = Rank(w, Queued) - 1
         /\ Gapless /\ MoveDown(w) => Rank(w, Queued)' = Rank(w, Queued) + 1]_schedulerVars
  BY DropLands, ArrowsLand
<1>2. QED
  BY SchedulerInvInit, SchedulerInvStep, <1>1, PTL DEF SchedulerSpec, CardsLand
=============================================================================
