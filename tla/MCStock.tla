------------------------------ MODULE MCStock ------------------------------
(***************************************************************************)
(* StockPages for TLC: one item, leaves in two buildings, codes in the     *)
(* reverse order of names, and one count of it or of a building.           *)
(***************************************************************************)
EXTENDS StockPages

MCBuilding == [k \in Locs |-> IF k <= 2 THEN "north" ELSE "south"]
MCCodeRank == [k \in Locs |-> NumLocs - k]
MCNewFlags == {{"active"}, {"active", "isDefault"}, {"isDefault"}}
MCPatches ==
  [on : SUBSET {"active", "isDefault"}, off : {{}}]
    \cup [on : {{}}, off : SUBSET {"active", "isDefault"}]
MCMaxOnHand == [i \in Items |-> 2]

MCScopes == {[items |-> Items, leaves |-> Locs], [items |-> Items, leaves |-> {1, 2}]}

Row(k) == <<CHOOSE i \in Items : TRUE, "INV", k>>
MCSheets ==
  {[row \in {Row(1)} |-> q] : q \in {0, 2}}
    \cup {[row \in {Row(2), Row(3)} |-> IF row = Row(2) THEN 0 ELSE 2]}
=============================================================================
