---------------------------- MODULE MCPurchasing ----------------------------
(***************************************************************************)
(* Purchasing for TLC: one purchase order for an item that is ordered in   *)
(* kilograms and for a container, one dock and one shelf in the same       *)
(* building.  The unit of a quantity is the last decimal of its column:    *)
(* two and one of them, received apart, become 4 and 2 in pounds, three at *)
(* once 7, of the exact 6.61.                                              *)
(***************************************************************************)
EXTENDS ReceivingPages

CONSTANTS raw, drum

MCItems == {raw}
MCContainers == {drum}
MCBuilding == [k \in Locs |-> "main"]
MCCodeRank == [k \in Locs |-> NumLocs - k]
MCNewFlags == {{"active", "isReceiving"}, {"active", "isDefault"}}
MCPatches == {[on |-> {}, off |-> {"active"}]}
\* LB_PER_KG, 2.20462262.
MCPoundsPer == [i \in Items |-> [num |-> 220462262, den |-> 100000000]]

MCOrderForms ==
  { <<[subject |-> raw, ordered |-> 3]>>,
    <<[subject |-> drum, ordered |-> 2], [subject |-> raw, ordered |-> 2]>> }

\* No request names a line twice.
MCReceipts ==
  { <<[line |-> 1, qty |-> 1]>>,
    <<[line |-> 1, qty |-> 2]>>,
    <<[line |-> 2, qty |-> 2], [line |-> 1, qty |-> 1]>> }

\* A request that names a line twice, and one that is one unit over the order.
MCTwiceTheSameLine == { <<[line |-> 1, qty |-> 1], [line |-> 1, qty |-> 2]>> }
MCOneUnitOver == { <<[line |-> 1, qty |-> 4]>> }
MCMaxOnHand == [i \in Items |-> 1]
=============================================================================
