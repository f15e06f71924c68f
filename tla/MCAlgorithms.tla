---------------------------- MODULE MCAlgorithms ----------------------------
(***************************************************************************)
(* The computations the other modules rest on, for TLC.  They share no     *)
(* state but the formulas, so a behaviour exercises one of them and leaves *)
(* the others idle: the draw-down of every three rows of -1..2 for every   *)
(* request of 0..5, postings to a bucket that is costed in quarters, edits *)
(* of four items and three formulas, the rules on two materials of two     *)
(* formulas, the business variables of a customer rating and an operator   *)
(* role, the calendar of nine years, the form of a purchase order, or the  *)
(* pages that a user with any of the built-in roles opens.                 *)
(***************************************************************************)
EXTENDS Drawdown, Costing, Regulatory, RecipePage, Settings, Holidays, Suppliers, Access

CONSTANTS raw, base, blend, fg

MCHeld == -1..2
MCRequested == 0..5

MCGoods == {raw, base, blend, fg}
MCMixes ==
  { (raw :> 1 @@ base :> 1), (blend :> 1 @@ base :> 1), (raw :> 1 @@ blend :> 1) }
MCNewTypes ==
  raw :> {"RAW_MATERIAL"} @@ base :> {"SEMI_FINISHED"} @@ blend :> {"SEMI_FINISHED"} @@
  fg :> {"FINISHED_GOOD"}

MCScopeOf == "margin" :> "RATING" @@ "pours" :> "ROLE" @@ "lab" :> "NONE"
MCCatalogValue ==
  "margin" :> (Base :> 1 @@ "FLOOR" :> 1) @@ "pours" :> (Base :> 1 @@ "FLOOR" :> 2) @@
  "lab" :> (Base :> 2 @@ "FLOOR" :> 2)
MCValidValues == [k \in {"margin", "pours", "lab"} |-> IF k = "lab" THEN {1} ELSE {1, 2}]
MCPounds == <<2>>

MCRules ==
  [ruleType : {"FIXED"}, month : {2, 4, 12}, day : {1, 28, 29, 30, 31}] \cup
  [ruleType : {"NTH_WEEKDAY"}, month : {1, 2, 11}, weekday : 0..6, nth : (-1..5) \ {0}] \cup
  {[ruleType |-> "EXPLICIT", date |-> 738000]}
MCReadingDays == {1, 60, 330}

MCConfigs ==
  {[kinds |-> {"ITEM"}, status |-> "ACTIVE"], [kinds |-> {"CONTAINER"}, status |-> "ACTIVE"],
   [kinds |-> {}, status |-> "ACTIVE"], [kinds |-> {}, status |-> "INACTIVE"]}

MCGrants == {{"admin"}, {"inventory_clerk"}, {"viewer"}, {"inventory_clerk", "viewer"}}

VARIABLE subject

allVars == <<drawVars, costVars, regulatoryVars, settingsVars, holidayVars, supplierVars, accessVars,
             subject>>

DrawIdle ==
  /\ rows = [k \in Locs |-> 0] /\ pref = NoLoc /\ defaults = {} /\ asked = 0
  /\ visited = {} /\ taken = [k \in Locs |-> 0] /\ remaining = 0

Calendarless == holidays = [h \in HolidayIds |-> NoHoliday] /\ now = 0

Init ==
  /\ subject \in {"drawdown", "costing", "catalog", "rules", "settings", "holidays", "suppliers",
                 "access"}
  /\ CostInit /\ RegulatoryInit /\ SettingsInit /\ SuppliersInit /\ AccessInit
  /\ subject # "access" => userRoles = {"viewer"}
  /\ IF subject = "drawdown" THEN DrawInit ELSE DrawIdle
  /\ IF subject = "holidays" THEN HolidaysInit ELSE Calendarless

\* Bounds of the catalog: one formula is switched off at a time, and the recipe that an
\* item form has yet to save is one for blend.
OneOff ==
  /\ Cardinality({f \in FormulaIds : formulas'[f] # NoFormula /\ ~ formulas'[f].active}) <= 1
  /\ form' # NoRecipe => form'[1] = blend

Few ==
  /\ form' = NoRecipe
  /\ goods'[base] # "FINISHED_GOOD" /\ goods'[base] # "RAW_MATERIAL"
  /\ \A f \in FormulaIds : formulas'[f] # NoFormula => f < 3 /\ raw \in DOMAIN formulas'[f].mix

Next ==
  /\ UNCHANGED subject
  /\ \/ /\ subject = "drawdown" /\ DrawNext
        /\ UNCHANGED <<costVars, regulatoryVars, settingsVars, holidayVars, supplierVars, accessVars>>
     \/ /\ subject = "costing" /\ CostNext
        /\ UNCHANGED <<drawVars, regulatoryVars, settingsVars, holidayVars, supplierVars, accessVars>>
     \/ /\ subject = "catalog" /\ CatalogNext /\ OneOff
        /\ UNCHANGED <<drawVars, costVars, settingsVars, holidayVars, supplierVars, accessVars,
                       listing, ifra, sent, snapshot>>
     \/ /\ subject = "rules" /\ RegulatoryNext /\ OneOff /\ Few
        /\ UNCHANGED <<drawVars, costVars, settingsVars, holidayVars, supplierVars, accessVars>>
     \/ /\ subject = "settings" /\ SettingsNext
        /\ UNCHANGED <<drawVars, costVars, regulatoryVars, holidayVars, supplierVars, accessVars>>
     \/ /\ subject = "holidays" /\ HolidaysNext
        /\ UNCHANGED <<drawVars, costVars, regulatoryVars, settingsVars, supplierVars, accessVars>>
     \/ /\ subject = "suppliers" /\ SuppliersNext
        /\ UNCHANGED <<drawVars, costVars, regulatoryVars, settingsVars, holidayVars, accessVars>>
     \/ /\ subject = "access" /\ AccessNext
        /\ UNCHANGED <<drawVars, costVars, regulatoryVars, settingsVars, holidayVars, supplierVars>>

Spec == Init /\ [][Next]_allVars
=============================================================================
