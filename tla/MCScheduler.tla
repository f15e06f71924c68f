----------------------------- MODULE MCScheduler -----------------------------
(***************************************************************************)
(* Scheduler for TLC: two orders of two goods, one of them for a customer  *)
(* on net terms, and three work orders for them.                           *)
(***************************************************************************)
EXTENDS Scheduler

CONSTANTS fg, base, drum, ann, bob

MCProducts == {fg, base}
MCUnitCost == [p \in MCProducts |-> 1]
MCProfiles == {[limit |-> NoLimit, net |-> 30, rating |-> r] : r \in {0, 1}}

Line(p) == [subject |-> p, qty |-> 1, price |-> 1, pack |-> NoPack, packs |-> 0]
Short == <<Line(fg)>>
Long == <<Line(base), Line(fg)>>
MCCarts == {Short, Long}
MCImports == {[customer |-> bob, number |-> 7, due |-> 1, cart |-> Short, mays |-> <<{}>>]}
\* One number of its own, and the one that the first line of the first order would get.
MCByHand == {[item |-> fg, qty |-> 1, serial |-> s] : s \in {<<0, 1>>, <<1, 1>>}}
MCEdits == {[cart |-> Long, due |-> 0]}   \* the ship date is taken away
MCAgingSteps == <<>>
=============================================================================
