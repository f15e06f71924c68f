------------------------------ MODULE Drawdown ------------------------------
(***************************************************************************)
(* The draw-down loop, row by row, as the code runs it over the lots of an *)
(* item (allocateLots, apps/api/src/stock/lot-allocation.ts) and over its  *)
(* location rows (removeFromLocations, stock.service.ts).  StockLedger     *)
(* uses its closed form, Remove; this module says that the loop computes   *)
(* it, whatever the rows hold.                                             *)
(***************************************************************************)
EXTENDS StockLedger, FiniteSets

CONSTANTS
  Held,       \* bound: what a row may hold; a lot may be below zero
  Requested   \* bound: the quantities asked for

ASSUME DrawdownAssumption == Held \subseteq Int /\ Requested \subseteq Nat

VARIABLES
  rows,       \* rows[k]: what row k holds when the loop starts
  pref,       \* the preferred location; NoLoc for lots
  defaults,   \* the default locations; {} for lots
  asked,      \* the quantity to draw down
  visited,    \* the rows the loop has been through
  taken,      \* taken[k]: the slice taken from row k
  remaining   \* what is still to be covered

drawVars == <<rows, pref, defaults, asked, visited, taken, remaining>>

DrawTypeOK ==
  /\ rows \in [Locs -> Held]
  /\ pref \in Locs \cup {NoLoc} /\ defaults \subseteq Locs /\ visited \subseteq Locs
  /\ asked \in Nat /\ taken \in [Locs -> Nat] /\ remaining \in Nat

DrawInit ==
  /\ rows \in [Locs -> Held]
  /\ pref \in Locs \cup {NoLoc}
  /\ defaults \in SUBSET Locs
  /\ asked \in Requested
  /\ visited = {}
  /\ taken = Zero(NumLocs)
  /\ remaining = asked

\* The sort: the preferred row, then the default ones, then by name.
Class(k) == IF k = pref THEN 0 ELSE IF k \in defaults THEN 1 ELSE 2

Before(j, k) == Class(j) < Class(k) \/ (Class(j) = Class(k) /\ j < k)

Visit(k) ==
  /\ remaining > 0
  /\ k \notin visited
  /\ \A j \in Locs \ visited : j # k => Before(k, j)
  /\ visited' = visited \cup {k}
  /\ IF rows[k] > 0
     THEN /\ taken' = [taken EXCEPT ![k] = MinOf(remaining, rows[k])]
          /\ remaining' = remaining - MinOf(remaining, rows[k])
     ELSE UNCHANGED <<taken, remaining>>
  /\ UNCHANGED <<rows, pref, defaults, asked>>

DrawNext == \E k \in Locs : Visit(k)

DrawSpec == DrawInit /\ [][DrawNext]_drawVars

-----------------------------------------------------------------------------
Done == remaining = 0 \/ visited = Locs

(***************************************************************************)
(* When the loop ends, each row is left with what the closed form says,    *)
(* and the part that no row covered (the slice with no lot) is what the    *)
(* rows lack: the slices and it add up to the request (allocateLots,       *)
(* 16-20: "the allocations always sum to exactly `quantity`").             *)
(***************************************************************************)
LoopComputesRemove ==
  Done => /\ [k \in Locs |-> rows[k] - taken[k]] = Remove(rows, asked, pref, defaults)
          /\ Sum(taken, NumLocs) + remaining = asked
          /\ remaining = Positive(asked - Sum(Available(rows, NumLocs), NumLocs))
=============================================================================
