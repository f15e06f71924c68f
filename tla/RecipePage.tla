------------------------------ MODULE RecipePage ------------------------------
(***************************************************************************)
(* The recipe part of the item page (InventoryFormView.vue): the versions  *)
(* of an item's formula, one of them shown and edited, or taken as the     *)
(* start of a new version; here from the present state of the server.      *)
(***************************************************************************)
EXTENDS Catalog

\* listByFinishedGood: active versions first, newer ones before older ones.
ListedBefore(r, s) ==
  \/ r.active /\ ~ s.active
  \/ r.active = s.active /\ r.version > s.version

\* The version that the page opens with, given the table of formulas.
Shown(rows, i) ==
  CHOOSE f \in FormulasIn(rows, i) :
    \A g \in FormulasIn(rows, i) \ {f} : ListedBefore(rows[f], rows[g])

\* What may be selected as a component of item i.
Offered(i) == {c \in Goods : Exists(c) /\ goods[c] # "FINISHED_GOOD"} \ {i}

\* requestProduction takes the newest of the active versions, if there is one.
Producible(rows, i) == \E f \in FormulasIn(rows, i) : rows[f].active

ToProduce(rows, i) ==
  CHOOSE f \in FormulasIn(rows, i) :
    /\ rows[f].active
    /\ \A g \in FormulasIn(rows, i) : rows[g].active => rows[g].version <= rows[f].version

\* The page, the costs and production agree on version f.
Leads(rows, i, f) == f = Shown(rows, i) /\ f = PreferredIn(rows, i) /\ f = ToProduce(rows, i)

-----------------------------------------------------------------------------
\* The types of the items were not edited so that they no longer fit the formula.
TypesFit(f) ==
  /\ goods[formulas[f].target] \in Made
  /\ \A c \in DOMAIN formulas[f].mix : goods[c] # "FINISHED_GOOD"

Room(i) == NextVersion(i) <= MaxVersion /\ \E f \in FormulaIds : formulas[f] = NoFormula

\* "Save recipe" on a version that was loaded and not touched.
SavesUntouched(f) ==
  LET r == formulas[f]
  IN  EditFits(f, r.mix, 0) /\ Rewritten(f, r.mix, r.active, 0) = formulas

\* "+ New version", pre-filled from version f, and "Create version" in row new.
TakesOver(f, new) ==
  LET r == formulas[f]
  IN  /\ Composable(goods, r.target, r.mix)
      /\ SaveFits(new, r.target, 0)
      /\ r.active => Leads(Saved(new, r.target, r.mix, 0, TRUE), r.target, new)

(***************************************************************************)
(* The version that the item page opens with is the one that is costed,    *)
(* and the one that is produced if there is an active one.  Any version    *)
(* can be saved as it is, without a change, and revised, whatever was      *)
(* removed, renumbered or switched off before ("smooth revisions",         *)
(* formula.service.ts 103): the copy of an active one takes over from then *)
(* on for the page, the costs and production.  What the page does not      *)
(* offer as a component the server refuses.                                *)
(***************************************************************************)
RevisionTakesOver ==
  \A i \in Goods :
    /\ FormulasOf(i) # {} =>
         /\ Shown(formulas, i) = Preferred(i)
         /\ Producible(formulas, i) => Leads(formulas, i, Preferred(i))
    /\ \A f \in FormulasOf(i) : TypesFit(f) =>
         /\ SavesUntouched(f)
         /\ Room(i) => \E new \in FormulaIds : TakesOver(f, new)
    /\ \A mix \in Mixes : Composable(goods, i, mix) => DOMAIN mix \subseteq Offered(i)
=============================================================================
