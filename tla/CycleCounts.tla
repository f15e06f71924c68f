----------------------------- MODULE CycleCounts -----------------------------
(***************************************************************************)
(* Cycle counts (apps/api/src/cycle-count/cycle-count.service.ts): a list  *)
(* of location rows that someone counts while the plant goes on working,   *)
(* and whose differences are posted as adjustments.                        *)
(*                                                                         *)
(* The lines of count c are a function on the rows <<item, bucket, leaf>>  *)
(* that are on it, to the quantity that was counted.  The expected         *)
(* quantity of a line is shown to the user and never posted, and left out. *)
(***************************************************************************)
EXTENDS Stock, Functions

CONSTANTS
  CycleCountIds,  \* the counts
  Scopes,         \* what a count may cover: sets of items and of leaves
  Sheets          \* the quantities that one request records, by row

CountRows == Items \X Located \X Locs
Uncounted == -1

ASSUME CycleCountAssumption ==
  /\ Scopes \subseteq [items : SUBSET Items, leaves : SUBSET Locs]
  /\ \A sheet \in Sheets : DOMAIN sheet \subseteq CountRows /\ Range(sheet) \subseteq Nat

VARIABLE counts

countVars == <<locs, book, counts>>

NoCount == [status |-> "NONE", items |-> {}, leaves |-> {}, lines |-> <<>>]

CountsTypeOK ==
  /\ StockTypeOK
  /\ \A c \in CycleCountIds :
       /\ counts[c].status \in {"NONE", "OPEN", "COMPLETED", "CANCELLED"}
       /\ DOMAIN counts[c].lines \subseteq CountRows
       /\ Range(counts[c].lines) \subseteq Nat \cup {Uncounted}

CountInit == StockInit /\ counts = [c \in CycleCountIds |-> NoCount]

-----------------------------------------------------------------------------
InScope(c, row) == row[1] \in counts[c].items /\ row[3] \in counts[c].leaves

\* create: a line for each row of the scope that holds something now.
OpenCount(c, scope) ==
  LET held == {row \in scope.items \X Located \X scope.leaves :
                 book[row[1]].cell[row[2]][row[3]] > 0}
  IN  /\ counts[c].status = "NONE"
      /\ counts' = [counts EXCEPT ![c] =
           [ status |-> "OPEN", items |-> scope.items, leaves |-> scope.leaves,
             lines |-> [row \in held |-> Uncounted] ]]
      /\ UNCHANGED stockVars

\* recordCounts: lines of the count, and found rows in its scope.
RecordFits(c, sheet) ==
  /\ counts[c].status = "OPEN"
  /\ \A row \in DOMAIN sheet :
       \/ row \in DOMAIN counts[c].lines
       \/ InScope(c, row) /\ "exists" \in locs[row[3]]

RecordCounts(c, sheet) ==
  LET lines == counts[c].lines
  IN  /\ RecordFits(c, sheet)
      /\ counts' = [counts EXCEPT ![c].lines =
           [row \in DOMAIN lines \cup DOMAIN sheet |->
              IF row \in DOMAIN sheet THEN sheet[row] ELSE lines[row]]]
      /\ UNCHANGED stockVars

-----------------------------------------------------------------------------
(***************************************************************************)
(* post: for each counted line, the row is brought to what was counted, by *)
(* an adjustment of the difference from what it holds now.  The location   *)
(* of an outbound adjustment is the preferred one of the draw-down.        *)
(***************************************************************************)
\* Mutation of Adjusted: the outbound adjustment does not name its location.
AdjustedAnywhere(b, s, k, q) ==
  IF q >= b.cell[s][k] THEN PostIn(b, s, NoSlices, q - b.cell[s][k], k)
  ELSE PostOut(b, s, NoSlices, b.cell[s][k] - q, NoLoc, Defaults)

Adjusted(b, s, k, q) ==
  IF q >= b.cell[s][k] THEN PostIn(b, s, NoSlices, q - b.cell[s][k], k)
  ELSE PostOut(b, s, NoSlices, b.cell[s][k] - q, k, Defaults)

Adjustable(b, s, k, q) == q < b.cell[s][k] => Covers(b, s, b.cell[s][k] - q)

CountedOn(c, row) == row \in DOMAIN counts[c].lines /\ counts[c].lines[row] # Uncounted

AfterLeaf(c, i, s, k, b) ==
  IF CountedOn(c, <<i, s, k>>) THEN Adjusted(b, s, k, counts[c].lines[<<i, s, k>>]) ELSE b

\* The book b of item i after the lines of bucket s at the leaves up to k.
AfterLeaves(c, i, s, b) ==
  LET after[k \in 0..NumLocs] == IF k = 0 THEN b ELSE AfterLeaf(c, i, s, k, after[k - 1])
  IN  after

Reconciled(c, i) ==
  AfterLeaves(c, i, "QUARANTINE", AfterLeaves(c, i, "INV", book[i])[NumLocs])[NumLocs]

Postable(c) ==
  \A i \in Items, s \in Located, k \in Locs :
    CountedOn(c, <<i, s, k>>) =>
      Adjustable(AfterLeaves(c, i, s, book[i])[k - 1], s, k, counts[c].lines[<<i, s, k>>])

PostCount(c) ==
  /\ counts[c].status = "OPEN"
  /\ Postable(c)
  /\ book' = [i \in Items |-> Reconciled(c, i)]
  /\ counts' = [counts EXCEPT ![c].status = "COMPLETED"]
  /\ UNCHANGED locs

CancelCount(c) ==
  /\ counts[c].status = "OPEN"
  /\ counts' = [counts EXCEPT ![c].status = "CANCELLED"]
  /\ UNCHANGED stockVars

CountStep ==
  \E c \in CycleCountIds :
    \/ \E scope \in Scopes : OpenCount(c, scope)
    \/ \E sheet \in Sheets : RecordCounts(c, sheet)
    \/ PostCount(c)
    \/ CancelCount(c)

CountNext == CountStep \/ (StockNext /\ UNCHANGED counts)

CountSpec == CountInit /\ [][CountNext]_countVars

-----------------------------------------------------------------------------
(***************************************************************************)
(* "Reconcile the location to the counted amount" (233-238): when a count  *)
(* is completed every counted row holds what was counted and every other   *)
(* row what it held, whatever moved since the count was opened, and        *)
(* wherever the default locations are.                                     *)
(***************************************************************************)
CountReconciles ==
  [][\A c \in CycleCountIds :
       counts[c].status = "OPEN" /\ counts'[c].status = "COMPLETED" =>
         \A i \in Items, s \in Located, k \in Locs :
           book'[i].cell[s][k] = IF CountedOn(c, <<i, s, k>>)
                                 THEN counts[c].lines[<<i, s, k>>]
                                 ELSE book[i].cell[s][k]]_countVars
=============================================================================
