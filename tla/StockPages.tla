------------------------------ MODULE StockPages ------------------------------
(***************************************************************************)
(* The screens of the warehouse: the locations of an item with its moves   *)
(* and scrap (InventoryFormView.vue), the location tree                    *)
(* (LocationsView.vue) and the count sheet (CycleCountDetailView.vue).     *)
(* Each lists what may be chosen, here from the present state.             *)
(***************************************************************************)
EXTENDS CycleCounts

\* The stock that the item page shows, and the whole of it adjusted out.
OnHandShown(i) == book[i].onHand["INV"]

AdjustsAllOut(i) ==
  LET shown == OnHandShown(i)
      after == AdjustedOut(i, shown)
  IN  /\ Covers(book[i], "INV", shown)
      /\ after.onHand["INV"] = 0 /\ Sum(after.cell["INV"], NumLocs) = 0

\* The rows of an item, without those that are empty.
ItemLocations(i) == {r \in Located \X Locs : book[i].cell[r[1]][r[2]] > 0}

\* Those of the chosen bucket: the sources of a move.
Sources(i, s) == {k \in Locs : <<s, k>> \in ItemLocations(i)}

Targets(from) == ActiveLocs \ {from}

\* A move of all that the source is shown to hold.
MovesAll(i, s, from, to) ==
  LET shown == book[i].cell[s][from]
  IN  /\ MoveFits(i, s, from, to, shown)
      /\ MovedRows(i, s, from, to, shown) =
           [book[i].cell[s] EXCEPT ![from] = 0, ![to] = @ + shown]

\* Scrap of all that a location is shown to hold.
ScrapsAll(i, s, k) ==
  LET shown == book[i].cell[s][k]
  IN  /\ ScrapFits(i, s, shown, k)
      /\ Scrapped(i, s, shown, k).cell[s] = [book[i].cell[s] EXCEPT ![k] = 0]

(***************************************************************************)
(* The location form sends all three flags, whether touched or not.        *)
(***************************************************************************)
SavedForm(l, flags) == UpdatedLocs(l, flags, Flags \ flags)

SavesUntouched(l) == SavedForm(l, locs[l] \cap Flags) = locs

-----------------------------------------------------------------------------
IsOpen(c) == counts[c].status = "OPEN"

\* Mutation of FoundLeaves: every active leaf is listed.
FoundLeavesAnywhere(c) == ActiveLocs

FoundLeaves(c) == ActiveLocs \cap counts[c].leaves

FoundItems(c) == counts[c].items

\* A found row is sent alone; what was typed beside it is not.
FoundFits(c, i, s, k) == RecordFits(c, [row \in {<<i, s, k>>} |-> 1])

-----------------------------------------------------------------------------
(***************************************************************************)
(* What the screens list can be chosen.  The stock shown can be adjusted   *)
(* out, and leaves no location row behind.  A source can be moved to every *)
(* target, or scrapped, in the quantity that is shown, and then just that  *)
(* row is empty, although draw-downs are tolerant and may go on to other   *)
(* rows; a form of a leaf that was not touched saves without changing any  *)
(* leaf, although it sets flags that others lose; a found row is listed    *)
(* only where the count takes it; and an open count can always be posted,  *)
(* whatever was drawn in the meantime.                                     *)
(***************************************************************************)
ListedCanBeChosen ==
  /\ \A i \in Items : OnHandShown(i) > 0 => AdjustsAllOut(i)
  /\ \A i \in Items, s \in Located : \A k \in Sources(i, s) :
       /\ \A to \in Targets(k) : MovesAll(i, s, k, to)
       /\ ScrapsAll(i, s, k)
  /\ \A l \in Locs : "exists" \in locs[l] => SavesUntouched(l)
  /\ \A c \in CycleCountIds : IsOpen(c) =>
       /\ \A i \in FoundItems(c), s \in Located, k \in FoundLeaves(c) : FoundFits(c, i, s, k)
       /\ Postable(c)
=============================================================================
