------------------------------- MODULE Settings -------------------------------
(***************************************************************************)
(* Business variables                                                      *)
(* (apps/api/src/business-variables/business-variables.service.ts), the    *)
(* screen that edits them (BusinessVariablesView.vue), and the routing of  *)
(* pours, which reads two of them (production.service.ts).                 *)
(*                                                                         *)
(* A variable has one value, one per operator role, or a base value with   *)
(* an optional value per customer rating.  stored holds the rows, Unset    *)
(* where there is none; what is unset comes from the catalog in the code,  *)
(* and for a rating from the base.  One screen is modelled; what other     *)
(* users save are requests that may come at any time.                      *)
(***************************************************************************)
EXTENDS Integers, FiniteSets

CONSTANTS
  Keys,         \* the variables of the catalog
  ScopeOf,      \* ScopeOf[k]: "NONE", "ROLE" or "RATING"
  Roles,        \* OPERATOR_ROLES
  Ratings,      \* CUSTOMER_RATINGS
  CatalogValue, \* CatalogValue[k][s]: the default of k, for role s or for Base
  Entered,      \* the values that a user may type, whole numbers
  ValidValues,  \* ValidValues[k]: those of the type of k
  MaxEdits,     \* bound: the slots of a request
  LabKey,       \* smallPoursLabThresholdLb
  RobotKey,     \* robotPourThresholdLb
  Pours,        \* the component lines of a work order
  Pounds,       \* Pounds[p]: what line p requires
  FloorOnly,    \* the lines whose component is restricted to the floor
  Loaded        \* the lines whose component is in the robot: the stub says none

Base == "base"
Unset == -1

Slots == { sl \in Keys \X (Roles \cup Ratings \cup {Base}) :
             \/ ScopeOf[sl[1]] = "ROLE" /\ sl[2] \in Roles
             \/ ScopeOf[sl[1]] = "RATING" /\ sl[2] \in Ratings \cup {Base}
             \/ ScopeOf[sl[1]] = "NONE" /\ sl[2] = Base }

ASSUME SettingsAssumption ==
  /\ ScopeOf \in [Keys -> {"NONE", "ROLE", "RATING"}]
  /\ Base \notin Roles \cup Ratings /\ Roles \cap Ratings = {}
  /\ Entered \subseteq Nat /\ ValidValues \in [Keys -> SUBSET Entered]
  /\ \A k \in Keys : CatalogValue[k] \in [Roles \cup {Base} -> Nat]
  /\ MaxEdits \in Nat
  /\ LabKey \in Keys /\ RobotKey \in Keys
  /\ Pounds \in [Pours -> Nat]
  /\ FloorOnly \subseteq Pours /\ Loaded \subseteq Pours

VARIABLES
  stored,       \* stored[sl]: the row of slot sl
  shown,        \* what the screen loaded last ("original")
  edits,        \* what stands in its fields
  assigned      \* assigned[p]: assignedLocation of line p

settingsVars == <<stored, shown, edits, assigned>>

-----------------------------------------------------------------------------
\* getValue; a row that no slot of the catalog names does not exist.
GetValue(k, s) ==
  IF <<k, s>> \in Slots /\ stored[<<k, s>>] # Unset THEN stored[<<k, s>>]
  ELSE IF ScopeOf[k] = "ROLE" /\ s # Base THEN CatalogValue[k][s]
  ELSE IF ScopeOf[k] = "RATING" /\ s # Base /\ stored[<<k, Base>>] # Unset
       THEN stored[<<k, Base>>]
  ELSE CatalogValue[k][Base]

\* list: computed from one read of all rows, by a code path of its own.
Listed(rows) ==
  [sl \in Slots |->
     LET k == sl[1]
         fallback(s) == CatalogValue[k][IF ScopeOf[k] = "ROLE" THEN s ELSE Base]
         byBase == IF rows[<<k, Base>>] = Unset THEN fallback(Base) ELSE rows[<<k, Base>>]
     IN  IF rows[sl] # Unset THEN rows[sl]
         ELSE IF ScopeOf[k] = "RATING" THEN byBase ELSE fallback(sl[2])]

SettingsInit ==
  /\ stored = [sl \in Slots |-> Unset]
  /\ shown = Listed(stored)
  /\ edits = shown
  /\ assigned = [p \in Pours |-> "NONE"]

\* update, for the values in batch: one transaction, refused when one is not valid.
Accepted(batch) == \A sl \in DOMAIN batch : batch[sl] \in ValidValues[sl[1]]

After(batch) == [sl \in Slots |-> IF sl \in DOMAIN batch THEN batch[sl] ELSE stored[sl]]

UpdateSettings(batch) ==
  /\ Accepted(batch)
  /\ stored' = After(batch)
  /\ UNCHANGED <<shown, edits, assigned>>

-----------------------------------------------------------------------------
LoadScreen ==
  /\ shown' = Listed(stored)
  /\ edits' = shown'
  /\ UNCHANGED <<stored, assigned>>

Dirty == {sl \in Slots : edits[sl] # shown[sl]}

Type(sl, v) ==
  /\ edits' = [edits EXCEPT ![sl] = v]
  /\ Cardinality(Dirty \cup {sl}) <= MaxEdits
  /\ UNCHANGED <<stored, shown, assigned>>

\* Mutation of Changed: all that the screen shows is sent.
ChangedOrNot == edits

Changed == [sl \in Dirty |-> edits[sl]]

\* save: the reply of an accepted request is the new list; a refused one changes nothing.
Save ==
  /\ Dirty # {}
  /\ Accepted(Changed)
  /\ stored' = After(Changed)
  /\ shown' = Listed(stored')
  /\ edits' = shown'
  /\ UNCHANGED assigned

-----------------------------------------------------------------------------
(***************************************************************************)
(* assignPourLocation with the thresholds in force, for a robot that runs. *)
(***************************************************************************)
Route(p) ==
  IF p \in FloorOnly \/ Pounds[p] > GetValue(LabKey, Base) THEN "FLOOR"
  ELSE IF p \in Loaded /\ Pounds[p] < GetValue(RobotKey, Base) THEN "ROBOT" ELSE "LAB"

\* create, and recomputeAssignments, which also undoes what was set by hand.
RouteOrder ==
  /\ assigned' = [p \in Pours |-> Route(p)]
  /\ UNCHANGED <<stored, shown, edits>>

SetLineLocation(p, place) ==
  /\ assigned[p] # "NONE"
  /\ assigned' = [assigned EXCEPT ![p] = place]
  /\ UNCHANGED <<stored, shown, edits>>

SettingsNext ==
  \/ LoadScreen \/ Save
  \/ \E sl \in Slots, v \in Entered : Type(sl, v) \/ UpdateSettings([t \in {sl} |-> v])
  \/ RouteOrder
  \/ \E p \in Pours, place \in {"FLOOR", "LAB", "ROBOT"} : SetLineLocation(p, place)

SettingsSpec == SettingsInit /\ [][SettingsNext]_settingsVars

-----------------------------------------------------------------------------
(***************************************************************************)
(* Saving from a screen, however old, changes what the program uses in the *)
(* slots that its user edited, in the ratings that follow an edited base,  *)
(* and nowhere else ("so we only send what actually changed"); and then    *)
(* the screen shows what getValue returns.                                 *)
(***************************************************************************)
Follows(sl) ==
  /\ ScopeOf[sl[1]] = "RATING" /\ stored[sl] = Unset
  /\ <<sl[1], Base>> \in Dirty

SavedAsEdited ==
  [][edits # shown /\ edits' = shown' /\ stored' # stored =>
       \A sl \in Slots :
         LET now == GetValue(sl[1], sl[2])'
         IN  /\ shown'[sl] = now
             /\ now = CASE sl \in Dirty -> edits[sl]
                        [] sl \notin Dirty /\ Follows(sl) -> edits[<<sl[1], Base>>]
                        [] OTHER -> GetValue(sl[1], sl[2])]_settingsVars
=============================================================================
