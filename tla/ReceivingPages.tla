---------------------------- MODULE ReceivingPages ----------------------------
(***************************************************************************)
(* The screens on which goods are received and reviewed: the page of a     *)
(* purchase order (PurchaseOrderDetailView.vue) and of a lot               *)
(* (QualityLotView.vue), here from the present state of the server.        *)
(***************************************************************************)
EXTENDS Purchasing

CanReceive(o) == orders[o].status \in {"OPEN", "PARTIAL"}

CanCancel(o) ==
  /\ orders[o].status \notin {"NONE", "CANCELLED", "RECEIVED"}
  /\ Untouched(orders[o].lines)

\* Nothing of a line that is full within the tolerance is shown as remaining.
Remaining(line) ==
  IF line.received >= line.ordered - Tolerance THEN 0 ELSE line.ordered - line.received

\* "Receive remaining" fills in the exact difference.
FilledRemaining(line) == line.ordered - line.received

OpenLines(o) == {n \in DOMAIN orders[o].lines : Remaining(orders[o].lines[n]) > 0}

ReceiveRest(o) ==
  LET lines == orders[o].lines
      nth(k) == CHOOSE n \in OpenLines(o) : Cardinality({m \in OpenLines(o) : m < n}) = k - 1
  IN  [k \in 1..Cardinality(OpenLines(o)) |->
         [line |-> nth(k), qty |-> FilledRemaining(lines[nth(k)])]]

\* The docks that may be chosen; without one, none is sent.
Docks == IF ActiveLocs \cap Receiving = {} THEN {NoLoc} ELSE ActiveLocs \cap Receiving

Completes(o, dock) ==
  /\ ReceiptFits(o, ReceiveRest(o), dock)
  /\ StatusFromLines(Received(orders[o].lines, ReceiveRest(o))) = "RECEIVED"

-----------------------------------------------------------------------------
(***************************************************************************)
(* The page of a lot takes the results while it is PENDING and offers to   *)
(* return what was not returned yet.  The tests it lists are those of the  *)
(* item's form, not the result rows of the lot.  A numeric test is taken   *)
(* to have its limits in the item's specification; without them no value   *)
(* passes it.                                                              *)
(***************************************************************************)
Reviewable(l) == lots[l].qc = "PENDING"

ListedTests == Suite

LeftToReturn(l) == lots[l].qty - lots[l].returned

ReturnOffered(l) ==
  /\ lots[l].origin = "RECEIPT"
  /\ lots[l].qc \in {"REJECTED", "RETURNED"}
  /\ LeftToReturn(l) > 0

\* Every listed test is recorded as passed.
PassesAll(l) == Passing(ResultsAfter(l, [t \in ListedTests |-> "PASS"]))

ReturnsAll(l) ==
  /\ ReturnFits(l, LeftToReturn(l))
  /\ LotReturned(l, LeftToReturn(l)).qc = "RETURNED"

-----------------------------------------------------------------------------
(***************************************************************************)
(* An order can be received exactly while something of it is shown as      *)
(* remaining, and then "Receive remaining" on all of its lines, into any   *)
(* dock that is listed, is taken and closes the order, whatever the        *)
(* partial receipts and tolerances before (as long as there is room in the *)
(* model for the lots).  What the page lets be cancelled the server        *)
(* cancels.  Passing every test that is listed passes the lot, as long as  *)
(* no result was recorded beside them and the form of the item was not     *)
(* edited since the receipt (Suite is fixed here), and returning what is   *)
(* left of a lot closes it, if scrap has not taken it from the bucket.     *)
(***************************************************************************)
ReceivingCompletes ==
  /\ \A o \in Orders :
       /\ CanReceive(o) <=> orders[o].status \notin {"NONE", "CANCELLED"} /\ OpenLines(o) # {}
       /\ CanCancel(o) => Cancellable(o)
       /\ /\ CanReceive(o)
          /\ Cardinality(ItemEntries(orders[o].lines, ReceiveRest(o))) <= Cardinality(FreeLots)
          => \A dock \in Docks : Completes(o, dock)
  /\ \A l \in Lots :
       /\ Reviewable(l) => PassesAll(l)
       /\ ReturnOffered(l) /\ Covers(book[lots[l].item], "QUARANTINE", LeftToReturn(l))
            => ReturnsAll(l)
=============================================================================
