---------------------------- MODULE MCProduction ----------------------------
(***************************************************************************)
(* Production for TLC: a raw material, a base made of it and a finished    *)
(* good made of the base.  No locations and no QC tests: MCPurchasing has  *)
(* those.                                                                  *)
(***************************************************************************)
EXTENDS Production

CONSTANTS raw, base, fg

MCItems == {raw, base, fg}
MCBuilding == [k \in Locs |-> "main"]
MCCodeRank == [k \in Locs |-> k]
MCNewFlags == {}
MCPatches == {}
Need(i, q) == [j \in MCItems |-> IF j = i THEN q ELSE 0]
MCBatches ==
  { [target |-> base, output |-> 1, required |-> Need(raw, 1)],
    [target |-> fg, output |-> 1, required |-> Need(base, 1)] }
MCMaxOnHand == [i \in MCItems |-> IF i = fg THEN 0 ELSE 1]
=============================================================================
