-------------------------------- MODULE Stock --------------------------------
(***************************************************************************)
(* The stock book of every item and the operations that users run on it    *)
(* directly (apps/api/src/stock/stock.service.ts): adjustments, scrap and  *)
(* moves between locations.  Each action is one committed transaction;     *)
(* StockTxn looks inside a transaction.                                    *)
(***************************************************************************)
EXTENDS Location

CONSTANTS
  Items,        \* the inventory items
  Quantity,     \* bound: the quantities that requests carry
  MaxOnHand     \* bound: adjustments stop adding to item i at MaxOnHand[i]

ASSUME StockAssumption == Quantity \subseteq Nat /\ MaxOnHand \in [Items -> Nat]

VARIABLE book

stockVars == <<locs, book>>

StockTypeOK == LocationTypeOK /\ book \in [Items -> Books]

StockInit == LocationInit /\ book = [i \in Items |-> EmptyBook]

-----------------------------------------------------------------------------
NoSlices == Zero(NumLots)

\* adjust, direction IN: the receipt lands where resolveInbound says.
AdjustIn(i, q) ==
  /\ book[i].onHand["INV"] + q <= MaxOnHand[i]
  /\ book' = [book EXCEPT ![i] = PostIn(@, "INV", NoSlices, q, ResolveInbound("INV"))]
  /\ UNCHANGED locs

\* adjust, direction OUT: no lot, no preferred location.
AdjustedOut(i, q) == PostOut(book[i], "INV", NoSlices, q, NoLoc, Defaults)

AdjustOut(i, q) ==
  /\ Covers(book[i], "INV", q)
  /\ book' = [book EXCEPT ![i] = AdjustedOut(i, q)]
  /\ UNCHANGED locs

\* scrap: the line carries no lot; the location is only a preference.
ScrapFits(i, s, q, loc) ==
  /\ loc # NoLoc => "exists" \in locs[loc]
  /\ Covers(book[i], s, q)

Scrapped(i, s, q, loc) == PostOut(book[i], s, NoSlices, q, loc, Defaults)

Scrap(i, s, q, loc) ==
  /\ ScrapFits(i, s, q, loc)
  /\ book' = [book EXCEPT ![i] = Scrapped(i, s, q, loc)]
  /\ UNCHANGED locs

\* moveLocation: the source may be inactive, the destination may not.
MoveFits(i, s, from, to, q) ==
  /\ from # to
  /\ "exists" \in locs[from]
  /\ to \in ActiveLocs
  /\ q <= book[i].cell[s][from]

MovedRows(i, s, from, to, q) == Place(Remove(book[i].cell[s], q, from, Defaults), q, to)

MoveLocation(i, s, from, to, q) ==
  /\ MoveFits(i, s, from, to, q)
  /\ book' = [book EXCEPT ![i].cell[s] = MovedRows(i, s, from, to, q)]
  /\ UNCHANGED locs

StockStep ==
  \E i \in Items, q \in Quantity :
    \/ AdjustIn(i, q)
    \/ AdjustOut(i, q)
    \/ \E s \in Statuses, loc \in Locs \cup {NoLoc} : Scrap(i, s, q, loc)
    \/ \E s \in Located, from, to \in Locs : MoveLocation(i, s, from, to, q)

LocationStep == LocationNext /\ UNCHANGED book

StockNext == StockStep \/ LocationStep

StockSpec == StockInit /\ [][StockNext]_stockVars

-----------------------------------------------------------------------------
(***************************************************************************)
(* The bucket quantity is the sum of its ledger lines, those of a lot and  *)
(* those without one (post, 136-164).  The postings have it by their form, *)
(* whatever the lots; it is a step of the proofs, and what the lines say   *)
(* of a lot is LotsTraceable of module Quality.                            *)
(***************************************************************************)
LedgerBalances == \A i \in Items : BookBalances(book[i])

(***************************************************************************)
(* The location rows of a bucket never add up to more than the bucket      *)
(* (post, 166-168), although outbound postings skip what the rows do not   *)
(* cover (removeFromLocations is tolerant).                                *)
(***************************************************************************)
LocationsWithinStock == \A i \in Items : CellsWithinBook(book[i])

(***************************************************************************)
(* The part of a bucket that no location row holds grows only when stock   *)
(* comes in while there is no active leaf to put it (170-174); in every    *)
(* other step the breakdown keeps up with the bucket.                      *)
(***************************************************************************)
Unplaced(i, s) == book[i].onHand[s] - Sum(book[i].cell[s], NumLocs)

UnplacedOnlyWithoutLeaf ==
  [][\A i \in Items, s \in Located :
       Unplaced(i, s)' > Unplaced(i, s) => ActiveLocs = {}]_stockVars
=============================================================================
