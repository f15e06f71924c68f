------------------------------- MODULE Costing -------------------------------
(***************************************************************************)
(* The moving average cost of one bucket                                   *)
(* (apps/api/src/stock/stock-costing.ts).  Quantities, unit costs and      *)
(* values are integers in units of 1/Scale, the last decimal of their      *)
(* columns, and what is computed from them is rounded half up to that.     *)
(*                                                                         *)
(* value is the sum of the ledger lines; paid and slack are history: the   *)
(* unit costs of the receipts since the bucket was last empty, and how     *)
(* much the roundings so far may have added up to.                         *)
(***************************************************************************)
EXTENDS Quantities

CONSTANTS
  Scale,        \* 10^4 in the program
  Moved,        \* the quantities that are posted
  UnitCosts,    \* the unit costs of receipts
  MaxQty,       \* bound: what the bucket holds
  MaxPosts      \* bound: the number of postings

ASSUME CostingAssumption ==
  /\ Scale \in Nat \ {0}
  /\ Moved \subseteq Nat \ {0}
  /\ UnitCosts \subseteq Nat
  /\ MaxQty \in Nat /\ MaxPosts \in Nat

VARIABLES qty, avg, value, posts, paid, slack

costVars == <<qty, avg, value, posts, paid, slack>>

CostInit ==
  /\ qty = 0 /\ avg = 0 /\ value = 0
  /\ posts = 0 /\ paid = {} /\ slack = 0

-----------------------------------------------------------------------------
Averaged(q, c) == Rounded(qty * avg + q * c, qty + q)

LineValue(q, c) == Rounded(q * c, Scale)

\* applyInbound; twice the rounding of the average, and of the line, goes to slack.
Receive(q, c) ==
  /\ qty + q <= MaxQty
  /\ qty' = qty + q
  /\ avg' = Averaged(q, c)
  /\ value' = value + LineValue(q, c)
  /\ paid' = (IF qty = 0 THEN {} ELSE paid) \cup {c}
  /\ slack' = slack + qty + q + Scale

\* applyOutbound: at the average, which stays, also when nothing is left.
Issue(q) ==
  /\ q <= qty
  /\ qty' = qty - q
  /\ value' = value - LineValue(q, avg)
  /\ slack' = slack + Scale
  /\ UNCHANGED <<avg, paid>>

CostNext ==
  /\ posts < MaxPosts
  /\ posts' = posts + 1
  /\ \E q \in Moved : Issue(q) \/ \E c \in UnitCosts : Receive(q, c)

CostSpec == CostInit /\ [][CostNext]_costVars

-----------------------------------------------------------------------------
(***************************************************************************)
(* Stock is never valued outside of what was paid for it since the bucket  *)
(* was last empty, however its average is rounded (applyInbound: "if there *)
(* was no prior stock, the new average is the inbound cost").              *)
(***************************************************************************)
CostWithinReceipts ==
  qty > 0 => /\ \E c \in paid : c <= avg
             /\ \E c \in paid : avg <= c

(***************************************************************************)
(* What the stock is worth at its average, and the sum of its ledger lines *)
(* drift apart by no more than half a unit for each rounding: averages are *)
(* rounded and multiplied by the quantity, lines are rounded on their own. *)
(***************************************************************************)
DriftBounded ==
  LET drift == 2 * (value * Scale - qty * avg)
  IN  - slack <= drift /\ drift <= slack
=============================================================================
