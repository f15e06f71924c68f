----------------------------- MODULE MCStockTxn -----------------------------
(***************************************************************************)
(* StockTxn for TLC: two clients that add or remove one unit.              *)
(***************************************************************************)
EXTENDS StockTxn

MCDeltas == {1, -1}
=============================================================================
