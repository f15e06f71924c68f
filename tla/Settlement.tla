----------------------------- MODULE Settlement -----------------------------
(***************************************************************************)
(* What the accounts of sales orders promise, whatever requests are made:  *)
(* money only ever settles an account.  owed[o] is what order o asks for   *)
(* and net[o] what its customer has paid and not been given back.  What an *)
(* order asks for may change while nothing is paid or returned in the same *)
(* step; a payment or a refund brings net towards owed, and never past it. *)
(*                                                                         *)
(* SalesAccounts implements this (sales-order.service.ts: "Overpayment is  *)
(* rejected", "The amount may not exceed the currently refundable          *)
(* surplus").                                                              *)
(***************************************************************************)
EXTENDS Integers

CONSTANT Accounts

VARIABLES owed, net

settlementVars == <<owed, net>>

SettlementInit ==
  /\ owed = [o \in Accounts |-> 0]
  /\ net = [o \in Accounts |-> 0]

OnlyAt(o, f, g) == g = [f EXCEPT ![o] = g[o]] /\ g[o] \in Nat

\* An order is placed, edited or cancelled.
Bill(o) == OnlyAt(o, owed, owed') /\ UNCHANGED net

Between(x, a, b) == a <= x /\ x <= b

Settle(o) ==
  /\ OnlyAt(o, net, net')
  /\ net'[o] # net[o]
  /\ \/ Between(net'[o], net[o], owed[o])
     \/ Between(net'[o], owed[o], net[o])
  /\ UNCHANGED owed

SettlementNext == \E o \in Accounts : Bill(o) \/ Settle(o)

SettlementSpec == SettlementInit /\ [][SettlementNext]_settlementVars
=============================================================================
