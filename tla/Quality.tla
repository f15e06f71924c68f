------------------------------- MODULE Quality -------------------------------
(***************************************************************************)
(* Lots and their quality control (apps/api/src/quality/quality.service.ts *)
(* and StockService.packOff).  A lot is created by a purchase receipt (into*)
(* QUARANTINE) or by a production run (into WIP); this module models what  *)
(* happens to it afterwards, the modules that extend it create lots.       *)
(*                                                                         *)
(* lots[l] is the ReceivedLot row of the l-th lot in the order of          *)
(* receivedAt; qc = "NONE" where no such lot exists yet.  tests[t] is the  *)
(* passed column of its test result t: "UNSET" stands for SQL null and     *)
(* "ABSENT" for no result row.                                             *)
(***************************************************************************)
EXTENDS Stock

CONSTANTS
  Tests,    \* the QC test types
  Suite     \* those a new lot starts with (the suite of the item's form)

ASSUME QualityAssumption == Suite \subseteq Tests /\ Items # {}

VARIABLE lots

qualityVars == <<locs, book, lots>>

QcStatuses == {"NONE", "PENDING", "APPROVED", "REJECTED", "RETURNED"}
Origins == {"RECEIPT", "PRODUCTION"}
Recorded == {"UNSET", "PASS", "FAIL"}
Outcomes == Recorded \cup {"ABSENT"}

LotRows ==
  [ item     : Items,
    origin   : Origins,
    source   : Nat \X Nat,        \* the purchase order and its line, or the work order
    qty      : Nat,
    packed   : Nat,
    returned : Nat,
    qc       : QcStatuses,
    tests    : [Tests -> Outcomes],
    loc      : Locs \cup {NoLoc} ]

NoLotRow ==
  [ item |-> CHOOSE i \in Items : TRUE, origin |-> "RECEIPT", source |-> <<0, 0>>,
    qty |-> 0, packed |-> 0, returned |-> 0, qc |-> "NONE",
    tests |-> [t \in Tests |-> "ABSENT"], loc |-> NoLoc ]

NewTests == [t \in Tests |-> IF t \in Suite THEN "UNSET" ELSE "ABSENT"]

QualityTypeOK == StockTypeOK /\ lots \in [Lots -> LotRows]

QualityInit == StockInit /\ lots = [l \in Lots |-> NoLotRow]

\* Lots are created in the order of their numbers, as receivedAt defaults to now.
FreeLots == {l \in Lots : lots[l].qc = "NONE"}
NextLot == CHOOSE l \in FreeLots : \A k \in FreeLots : l <= k

NewLot(item, origin, source, qty, loc) ==
  [ item |-> item, origin |-> origin, source |-> source, qty |-> qty,
    packed |-> 0, returned |-> 0, qc |-> "PENDING", tests |-> NewTests, loc |-> loc ]

-----------------------------------------------------------------------------
\* recordResults: one request may record several tests, and may record again.
ResultsAfter(l, results) ==
  [t \in Tests |-> IF t \in DOMAIN results THEN results[t] ELSE lots[l].tests[t]]

RecordResults(l, results) ==
  /\ lots[l].qc = "PENDING"
  /\ lots' = [lots EXCEPT ![l].tests = ResultsAfter(l, results)]
  /\ UNCHANGED <<locs, book>>

\* Mutation of AllPassed: a test without a result does not hold the lot back.
NoneFailed(l) == \A t \in Tests : lots[l].tests[t] # "FAIL"

Passing(tests) == \A t \in Tests : tests[t] \in {"PASS", "ABSENT"}

AllPassed(l) == Passing(lots[l].tests)

(***************************************************************************)
(* Where an approved receipt goes: the active default leaf of the building *)
(* it was received in, else where post sends inbound INV stock.            *)
(***************************************************************************)
PutAway(l) ==
  LET near == {k \in ActiveLocs \cap Defaults :
                 lots[l].loc # NoLoc /\ Building[k] = Building[lots[l].loc]}
  IN  IF near = {} THEN {ResolveInbound("INV")} ELSE near

Approve(l) ==
  /\ lots[l].qc = "PENDING"
  /\ AllPassed(l)
  /\ \/ /\ lots[l].origin = "RECEIPT"
        /\ Covers(book[lots[l].item], "QUARANTINE", lots[l].qty)
        /\ \E to \in PutAway(l) :
             book' = [book EXCEPT ![lots[l].item] =
               Transfer(@, "QUARANTINE", "INV", l, lots[l].qty, lots[l].loc, to, Defaults)]
     \/ /\ lots[l].origin = "PRODUCTION"
        /\ UNCHANGED book
  /\ lots' = [lots EXCEPT ![l].qc = "APPROVED"]
  /\ UNCHANGED locs

\* Mutation of Reject: an approved lot can still be rejected.
RejectReviewed(l) ==
  /\ lots[l].qc \in {"PENDING", "APPROVED"}
  /\ lots' = [lots EXCEPT ![l].qc = "REJECTED"]
  /\ UNCHANGED <<locs, book>>

Reject(l) ==
  /\ lots[l].qc = "PENDING"
  /\ lots' = [lots EXCEPT ![l].qc = "REJECTED"]
  /\ UNCHANGED <<locs, book>>

ReturnFits(l, q) ==
  /\ lots[l].origin = "RECEIPT"
  /\ lots[l].qc = "REJECTED"
  /\ q <= lots[l].qty - lots[l].returned
  /\ Covers(book[lots[l].item], "QUARANTINE", q)

LotReturned(l, q) ==
  LET returned == lots[l].returned + q
  IN  [lots[l] EXCEPT !.returned = returned,
                      !.qc = IF returned >= lots[l].qty THEN "RETURNED" ELSE @]

ReturnToVendor(l, q) ==
  /\ ReturnFits(l, q)
  /\ book' = [book EXCEPT ![lots[l].item] =
       PostOut(@, "QUARANTINE", At(l, q, NumLots), q, lots[l].loc, Defaults)]
  /\ lots' = [lots EXCEPT ![l] = LotReturned(l, q)]
  /\ UNCHANGED locs

\* Mutation of Packable: the review is not waited for.
PackableUnreviewed(i) ==
  [l \in Lots |->
     IF /\ lots[l].item = i
        /\ lots[l].origin = "PRODUCTION"
        /\ lots[l].qc \in {"PENDING", "APPROVED"}
     THEN lots[l].qty - lots[l].packed ELSE 0]

(***************************************************************************)
(* packOff draws the request down over the approved production lots, and   *)
(* transfers each slice from WIP to INV under its lot.                     *)
(***************************************************************************)
Packable(i) ==
  [l \in Lots |->
     IF /\ lots[l].item = i
        /\ lots[l].origin = "PRODUCTION"
        /\ lots[l].qc = "APPROVED"
     THEN lots[l].qty - lots[l].packed ELSE 0]

\* Mutation of PackOff: what leaves WIP leaves it without a lot.
PackOffUntraced(i, q) ==
  LET slices == Take(Packable(i), NumLots, q)
  IN  /\ q <= Sum(Packable(i), NumLots)
      /\ Covers(book[i], "WIP", q)
      /\ lots' = [l \in Lots |-> [lots[l] EXCEPT !.packed = @ + slices[l]]]
      /\ book' = [book EXCEPT ![i] =
           PostIn(PostOut(@, "WIP", NoSlices, q, NoLoc, Defaults),
                  "INV", slices, q, ResolveInbound("INV"))]
      /\ UNCHANGED locs

PackOff(i, q) ==
  LET slices == Take(Packable(i), NumLots, q)
  IN  /\ q <= Sum(Packable(i), NumLots)
      /\ Covers(book[i], "WIP", q)
      /\ lots' = [l \in Lots |-> [lots[l] EXCEPT !.packed = @ + slices[l]]]
      /\ book' = [book EXCEPT ![i] =
           PostIn(PostOut(@, "WIP", slices, q, NoLoc, Defaults),
                  "INV", slices, q, ResolveInbound("INV"))]
      /\ UNCHANGED locs

(***************************************************************************)
(* The staging of a component for production, INV -> WIP.  The line out of *)
(* INV is attributed to lots, oldest first; the line into WIP has no lot.  *)
(***************************************************************************)
Staged(b, q) ==
  PostIn(PostOut(b, "INV", FifoSlices(b, "INV", q, Lots), q, NoLoc, Defaults),
         "WIP", NoSlices, q, NoLoc)

QualityStep ==
  \/ \E l \in Lots :
       \/ \E T \in SUBSET Tests \ {{}} : \E results \in [T -> Recorded] : RecordResults(l, results)
       \/ Approve(l)
       \/ Reject(l)
       \/ \E q \in Quantity : ReturnToVendor(l, q)
  \/ \E i \in Items, q \in Quantity : PackOff(i, q)

\* The steps of the modules below, for the modules that extend this one.
PlantStep == QualityStep \/ (StockNext /\ UNCHANGED lots)

-----------------------------------------------------------------------------
(***************************************************************************)
(* What the ledger says about each lot agrees with the row of the lot: an  *)
(* unreviewed receipt is in QUARANTINE whole, a rejected one is there less *)
(* what went back to the vendor, an approved one has left; a production    *)
(* lot has left WIP by exactly what was packed off; and a lot is in INV    *)
(* only once approved, by at most what was moved there.  Traceability      *)
(* (quality.service 282, packOff "traceability follows the lot into INV")  *)
(* rests on it.                                                            *)
(***************************************************************************)
InBucket(s, l) == book[lots[l].item].lotQty[s][l]

ReceiptTraced(l) ==
  LET r == lots[l]
  IN  /\ InBucket("WIP", l) = 0
      /\ InBucket("QUARANTINE", l) =
           CASE r.qc = "PENDING" -> r.qty
             [] r.qc \in {"REJECTED", "RETURNED"} -> r.qty - r.returned
             [] OTHER -> 0
      /\ InBucket("INV", l) \in 0..(IF r.qc = "APPROVED" THEN r.qty ELSE 0)

ProductionTraced(l) ==
  LET r == lots[l]
  IN  /\ InBucket("QUARANTINE", l) = 0
      /\ InBucket("WIP", l) = r.qty - r.packed
      /\ InBucket("INV", l) \in 0..r.packed
      /\ r.packed \in 0..(IF r.qc = "APPROVED" THEN r.qty ELSE 0)

LotsTraceable ==
  \A l \in Lots :
    /\ lots[l].origin = "RECEIPT" => ReceiptTraced(l)
    /\ lots[l].origin = "PRODUCTION" => ProductionTraced(l)
    /\ \A i \in Items \ {lots[l].item}, s \in Statuses : book[i].lotQty[s][l] = 0

(***************************************************************************)
(* A lot is usable only if every test of its suite passed, whatever was    *)
(* recorded, re-recorded or failed on the way (approve, 123-130).          *)
(***************************************************************************)
ApprovedPassed ==
  \A l \in Lots : lots[l].qc = "APPROVED" =>
    /\ \A t \in Suite : lots[l].tests[t] = "PASS"
    /\ \A t \in Tests : lots[l].tests[t] \notin {"UNSET", "FAIL"}
=============================================================================
