------------------------------ MODULE MCQbSync ------------------------------
(***************************************************************************)
(* QbSync for TLC: two items and a customer who may be renamed.            *)
(***************************************************************************)
EXTENDS QbSync

CONSTANTS oil, wax, ann

MCRows == {oil, wax, ann}
MCKindOf == [r \in MCRows |-> IF r = ann THEN "customer" ELSE "item"]
MCNamesOf == [r \in MCRows |->
  CASE r = oil -> {"rm-oil"} [] r = wax -> {"rm-wax"} [] r = ann -> {"ann", "anna"}]
=============================================================================
