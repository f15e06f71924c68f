---------------------------- MODULE MCFulfilment ----------------------------
(***************************************************************************)
(* Fulfilment for TLC: two orders of a good that is made of a raw          *)
(* material, one of them with the drum it is delivered in.                 *)
(***************************************************************************)
EXTENDS OrderPages

CONSTANTS fg, raw, drum, ann

MCProducts == {fg, raw, drum}
MCContainers == {drum}
MCItems == {fg, raw}
MCFormulated == {fg}
MCUnitCost == [p \in MCProducts |-> 1]
MCProfiles == {[limit |-> NoLimit, net |-> 30, rating |-> 0]}
MCRecipe == [p \in {fg} |-> [i \in {fg, raw} |-> IF i = raw THEN 1 ELSE 0]]
MCMaxOnHand == [i \in {fg, raw} |-> IF i = raw THEN 1 ELSE 0]

Line(p, q, pack) ==
  [subject |-> p, qty |-> q, price |-> 2, pack |-> pack, packs |-> IF pack = NoPack THEN 0 ELSE 1]
InDrum == <<Line(fg, 1, drum)>>
Trade == <<Line(drum, 1, NoPack), Line(raw, 1, NoPack)>>
MCCarts == {InDrum, Trade}
MCAgingSteps == <<>>

Entry(n, q) == [line |-> n, qty |-> q]
MCShipments == {<<Entry(1, 1)>>, <<Entry(2, 1)>>, <<Entry(2, 1), Entry(1, 1)>>}

MCBuilding == [k \in Locs |-> "main"]
MCCodeRank == [k \in Locs |-> k]
MCNewFlags == {}
MCPatches == {}
=============================================================================
