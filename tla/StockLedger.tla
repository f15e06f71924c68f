----------------------------- MODULE StockLedger -----------------------------
(***************************************************************************)
(* The stock book of one item, and the two postings that change it         *)
(* (StockService.post, apps/api/src/stock/stock.service.ts).               *)
(*                                                                         *)
(* A book joins three tables that the code writes separately:              *)
(*   onHand[s]     ItemStock.quantity of bucket s                          *)
(*   unlotted[s]   sum of the InventoryTxn lines of bucket s with no lot   *)
(*   lotQty[s][l]  sum of the InventoryTxn lines of bucket s for lot l     *)
(*   cell[s][k]    ItemStockLocation.quantity of bucket s at location k    *)
(* The ledger lines themselves are abstracted to these sums, which are all *)
(* that the code ever reads of them.  Costs are left out.                  *)
(*                                                                         *)
(* Lots are numbered in the order of receivedAt and locations in the order *)
(* of their names, so that Take (Quantities) visits them in the order the  *)
(* code does.  The location NoLoc stands for null.                         *)
(***************************************************************************)
EXTENDS Quantities

CONSTANTS NumLots, NumLocs

ASSUME CountsAssumption == NumLots \in Nat /\ NumLocs \in Nat

Lots == 1..NumLots
Locs == 1..NumLocs
NoLoc == 0

Statuses == {"INV", "WIP", "QUARANTINE"}

\* The buckets that have a breakdown by location (isLocated).
Located == {"INV", "QUARANTINE"}

Books ==
  [ onHand   : [Statuses -> Nat],
    unlotted : [Statuses -> Int],
    lotQty   : [Statuses -> [Lots -> Int]],
    cell     : [Located -> [Locs -> Nat]] ]

EmptyBook ==
  [ onHand   |-> [s \in Statuses |-> 0],
    unlotted |-> [s \in Statuses |-> 0],
    lotQty   |-> [s \in Statuses |-> Zero(NumLots)],
    cell     |-> [s \in Located |-> Zero(NumLocs)] ]

-----------------------------------------------------------------------------
(***************************************************************************)
(* Location rows.  Remove draws q down over the rows: the preferred        *)
(* location first, then the default ones, then the rest by name; it takes  *)
(* what there is and stops, never going below zero.                        *)
(***************************************************************************)
Place(c, q, loc) == [k \in Locs |-> IF k = loc THEN c[k] + q ELSE c[k]]

Rows(c, S) == [k \in Locs |-> IF k \in S THEN c[k] ELSE 0]

\* Mutation of Remove: what the preferred and the default rows lack is not drawn.
RemoveFlaggedRows(c, q, pref, defaults) ==
  LET first  == Take(Rows(c, {pref}), NumLocs, q)
      second == Take(Rows(c, defaults \ {pref}), NumLocs, q - Sum(first, NumLocs))
  IN  [k \in Locs |-> c[k] - first[k] - second[k]]

\* Mutation of Remove: all rows by name, whatever their flags.
RemoveByName(c, q, pref, defaults) ==
  LET taken == Take(c, NumLocs, q) IN [k \in Locs |-> c[k] - taken[k]]

Remove(c, q, pref, defaults) ==
  LET first  == Take(Rows(c, {pref}), NumLocs, q)
      left1  == q - Sum(first, NumLocs)
      second == Take(Rows(c, defaults \ {pref}), NumLocs, left1)
      left2  == left1 - Sum(second, NumLocs)
      third  == Take(Rows(c, Locs \ (defaults \cup {pref})), NumLocs, left2)
  IN  [k \in Locs |-> c[k] - first[k] - second[k] - third[k]]

-----------------------------------------------------------------------------
(***************************************************************************)
(* The postings.  slices[l] is the part of q that the ledger lines carry   *)
(* for lot l, the rest of q goes to lines without a lot.  A sequence of    *)
(* posts for the slices of one quantity (postOutFifo) adds up to one       *)
(* PostOut, because the draw-down of the locations does not depend on the  *)
(* lot.  An outbound posting needs Covers, or the transaction aborts       *)
(* (InsufficientStockError).                                               *)
(***************************************************************************)
Covers(b, s, q) == q <= b.onHand[s]

PostIn(b, s, slices, q, loc) ==
  [ onHand   |-> [b.onHand EXCEPT ![s] = @ + q],
    unlotted |-> [b.unlotted EXCEPT ![s] = @ + (q - Sum(slices, NumLots))],
    lotQty   |-> [b.lotQty EXCEPT ![s] = [l \in Lots |-> @[l] + slices[l]]],
    cell     |-> [t \in Located |->
                    IF t = s THEN Place(b.cell[t], q, loc) ELSE b.cell[t]] ]

PostOut(b, s, slices, q, pref, defaults) ==
  [ onHand   |-> [b.onHand EXCEPT ![s] = @ - q],
    unlotted |-> [b.unlotted EXCEPT ![s] = @ - (q - Sum(slices, NumLots))],
    lotQty   |-> [b.lotQty EXCEPT ![s] = [l \in Lots |-> @[l] - slices[l]]],
    cell     |-> [t \in Located |->
                    IF t = s THEN Remove(b.cell[t], q, pref, defaults)
                             ELSE b.cell[t]] ]

\* StockService.transfer: out of bucket s, then in to bucket t, for one lot.
Transfer(b, s, t, lot, q, from, to, defaults) ==
  PostIn(PostOut(b, s, At(lot, q, NumLots), q, from, defaults),
         t, At(lot, q, NumLots), q, to)

\* Mutation of FifoSlices: the newest lot first.
NewestFirstSlices(b, s, q, eligible) ==
  LET at(l) == NumLots + 1 - l
      taken == Take([l \in Lots |-> IF at(l) \in eligible THEN b.lotQty[s][at(l)] ELSE 0],
                    NumLots, q)
  IN  [l \in Lots |-> taken[at(l)]]

(***************************************************************************)
(* allocateLotsFifo: the slices of q over the lots with a positive sum in  *)
(* the bucket, oldest first; eligible leaves out the lots reserved for     *)
(* another order.                                                          *)
(***************************************************************************)
FifoSlices(b, s, q, eligible) ==
  Take([l \in Lots |-> IF l \in eligible THEN b.lotQty[s][l] ELSE 0], NumLots, q)

-----------------------------------------------------------------------------
\* The two facts about a book that every posting keeps (PlantProofs).
BookBalances(b) ==
  \A s \in Statuses : b.onHand[s] = b.unlotted[s] + Sum(b.lotQty[s], NumLots)

CellsWithinBook(b) == \A s \in Located : Sum(b.cell[s], NumLocs) <= b.onHand[s]

BookOK(b) == b \in Books /\ BookBalances(b) /\ CellsWithinBook(b)
=============================================================================
