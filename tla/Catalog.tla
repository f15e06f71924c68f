------------------------------- MODULE Catalog -------------------------------
(***************************************************************************)
(* Items and the formulas that make them                                   *)
(* (apps/api/src/inventory/inventory.service.ts,                           *)
(* formula/formula.service.ts), and the form that creates an item together *)
(* with its recipe in two requests (InventoryFormView.vue).                *)
(*                                                                         *)
(* A mix is a function from components to parts that add up to Whole, as   *)
(* the percentages of a formula add up to 100.  Several formulas, with a   *)
(* version each, may make one item.                                        *)
(***************************************************************************)
EXTENDS Integers, Sequences, FiniteSets

LOCAL INSTANCE FiniteSetsExt

CONSTANTS
  Goods,        \* the items, by SKU
  FormulaIds,   \* the formulas, positive numbers
  Mixes,        \* the compositions of requests
  Whole,        \* what the parts of a mix add up to
  NewTypes,     \* bound: NewTypes[i], the types that item i is created with
  Retyped,      \* bound: the items whose type is edited
  GivenVersions, \* the version numbers of requests that carry one
  MaxVersion    \* bound: the versions that are numbered

ItemTypes == {"RAW_MATERIAL", "SEMI_FINISHED", "FINISHED_GOOD"}
Made == {"SEMI_FINISHED", "FINISHED_GOOD"}

PartsOf(mix) == MapThenSumSet(LAMBDA c : mix[c], DOMAIN mix)

ASSUME CatalogAssumption ==
  /\ IsFiniteSet(Goods) /\ "NONE" \notin Goods /\ FormulaIds \subseteq Nat \ {0}
  /\ Whole \in Nat \ {0}
  /\ \A mix \in Mixes :
       /\ DOMAIN mix \subseteq Goods /\ DOMAIN mix # {}
       /\ \A c \in DOMAIN mix : mix[c] \in Nat \ {0}
       /\ PartsOf(mix) = Whole
  /\ NewTypes \in [Goods -> SUBSET ItemTypes]
  /\ Retyped \subseteq Goods
  /\ GivenVersions \subseteq 1..MaxVersion /\ MaxVersion \in Nat

VARIABLES
  goods,        \* goods[i]: the type of item i, its only column that is read here
  formulas,     \* formulas[f]: the row of formula f with its lines
  form          \* the recipe that the open item form has yet to save

catalogVars == <<goods, formulas, form>>

NoType == "NONE"
NoFormula == [target |-> "NONE", version |-> 0, active |-> FALSE, mix |-> <<>>]
NoRecipe == <<>>

CatalogInit ==
  /\ goods = [i \in Goods |-> NoType]
  /\ formulas = [f \in FormulaIds |-> NoFormula]
  /\ form = NoRecipe

Exists(i) == goods[i] # NoType

-----------------------------------------------------------------------------
\* create and createWithOpeningBalance: the SKU is unique and never changes.
CreateItem(i, type) ==
  /\ ~ Exists(i)
  /\ goods' = [goods EXCEPT ![i] = type]
  /\ UNCHANGED <<formulas, form>>

UpdateItem(i, type) ==
  /\ Exists(i)
  /\ goods' = [goods EXCEPT ![i] = type]
  /\ UNCHANGED <<formulas, form>>

-----------------------------------------------------------------------------
\* The formulas of item i in a table of formulas.
FormulasIn(rows, i) == {f \in FormulaIds : rows[f].target = i}

FormulasOf(i) == FormulasIn(formulas, i)

(***************************************************************************)
(* activeFormula (cost.service.ts) prefers active formulas, then newer     *)
(* ones, and takes an inactive one rather than none.                       *)
(***************************************************************************)
PreferredIn(rows, i) ==
  CHOOSE f \in FormulasIn(rows, i) :
    \A g \in FormulasIn(rows, i) \ {f} :
      \/ rows[f].active /\ ~ rows[g].active
      \/ rows[f].active = rows[g].active /\ rows[f].version > rows[g].version

Preferred(i) == PreferredIn(formulas, i)

Makes(i) == UNION {DOMAIN formulas[f].mix : f \in FormulasOf(i)}

\* The items in S and what is mixed into them.
Opened(S) == S \cup UNION {Makes(i) : i \in S}

\* What the items in S contain, through every formula that makes them.
Inside(S) ==
  LET grown[n \in 0..Cardinality(Goods)] == IF n = 0 THEN S ELSE Opened(grown[n - 1])
  IN  grown[Cardinality(Goods)]

\* Mutation of Composable: looks for the target among the components only.
ComposableDirectly(items, target, mix) ==
  /\ items[target] \in Made
  /\ \A c \in DOMAIN mix : items[c] \in ItemTypes \ {"FINISHED_GOOD"}
  /\ target \notin DOMAIN mix

\* validateComposition and assertNoCycle, for the item rows in items.
Composable(items, target, mix) ==
  /\ items[target] \in Made
  /\ \A c \in DOMAIN mix : items[c] \in ItemTypes \ {"FINISHED_GOOD"}
  /\ target \notin Inside(DOMAIN mix)

\* Mutation of NextVersion: the versions are counted.
NextVersionCounted(i) == 1 + Cardinality(FormulasOf(i))

\* One more than the highest version, 1 without any.
NextVersion(i) ==
  CHOOSE v \in {1} \cup {1 + formulas[f].version : f \in FormulasOf(i)} :
    \A f \in FormulasOf(i) : formulas[f].version < v

VersionFree(i, v, besides) == \A f \in FormulasOf(i) \ {besides} : formulas[f].version # v

\* version = 0: none is given.
Numbered(i, version) == IF version = 0 THEN NextVersion(i) ELSE version

SaveFits(f, target, version) ==
  /\ formulas[f] = NoFormula
  /\ \A g \in FormulaIds : formulas[g] = NoFormula => f <= g
  /\ Numbered(target, version) <= MaxVersion
  /\ VersionFree(target, Numbered(target, version), f)

Saved(f, target, mix, version, active) ==
  [formulas EXCEPT ![f] =
     [target |-> target, version |-> Numbered(target, version), active |-> active, mix |-> mix]]

SaveFormula(f, target, mix, version, active) ==
  /\ SaveFits(f, target, version)
  /\ formulas' = Saved(f, target, mix, version, active)

CreateFormula(f, target, mix, version, active) ==
  /\ Composable(goods, target, mix)
  /\ SaveFormula(f, target, mix, version, active)
  /\ UNCHANGED <<goods, form>>

\* create with newTarget: the item is a row of the same transaction.
CreateFormulaAndTarget(f, target, type, mix, active) ==
  LET items == [goods EXCEPT ![target] = type]
  IN  /\ ~ Exists(target)
      /\ type \in Made
      /\ Composable(items, target, mix)
      /\ SaveFormula(f, target, mix, 0, active)
      /\ goods' = items
      /\ UNCHANGED form

KeptOr(f, version) == IF version = 0 THEN formulas[f].version ELSE version

EditFits(f, mix, version) ==
  /\ formulas[f] # NoFormula
  /\ Composable(goods, formulas[f].target, mix)
  /\ VersionFree(formulas[f].target, KeptOr(f, version), f)

Rewritten(f, mix, active, version) ==
  [formulas EXCEPT ![f] = [target |-> formulas[f].target, version |-> KeptOr(f, version),
                           active |-> active, mix |-> mix]]

UpdateFormula(f, mix, active, version) ==
  /\ EditFits(f, mix, version)
  /\ formulas' = Rewritten(f, mix, active, version)
  /\ UNCHANGED <<goods, form>>

RemoveFormula(f) ==
  /\ formulas[f] # NoFormula
  /\ formulas' = [formulas EXCEPT ![f] = NoFormula]
  /\ UNCHANGED <<goods, form>>

-----------------------------------------------------------------------------
(***************************************************************************)
(* The form of a manufactured item with a recipe: one request creates the  *)
(* item and a second one the formula.  When the second is refused the item *)
(* stays, and a new attempt from the form runs into its SKU.               *)
(***************************************************************************)
SubmitItem(i, type, mix) ==
  /\ form = NoRecipe
  /\ ~ Exists(i)
  /\ type \in Made
  /\ goods' = [goods EXCEPT ![i] = type]
  /\ form' = <<i, mix>>
  /\ UNCHANGED formulas

SubmitRecipe ==
  /\ form # NoRecipe
  /\ IF Composable(goods, form[1], form[2])
     THEN \E f \in FormulaIds : SaveFormula(f, form[1], form[2], 0, TRUE)
     ELSE UNCHANGED formulas
  /\ form' = NoRecipe
  /\ UNCHANGED goods

CatalogNext ==
  \/ \E i \in Goods : \E type \in NewTypes[i] : CreateItem(i, type)
  \/ \E i \in Retyped, type \in ItemTypes : UpdateItem(i, type)
  \/ \E f \in FormulaIds, mix \in Mixes, active \in BOOLEAN :
       \/ \E i \in Goods, v \in GivenVersions \cup {0} : CreateFormula(f, i, mix, v, active)
       \/ \E i \in Goods : \E type \in NewTypes[i] : CreateFormulaAndTarget(f, i, type, mix, active)
       \/ \E v \in GivenVersions \cup {0} : UpdateFormula(f, mix, active, v)
  \/ \E f \in FormulaIds : RemoveFormula(f)
  \/ \E i \in Goods, mix \in Mixes : \E type \in NewTypes[i] : SubmitItem(i, type, mix)
  \/ SubmitRecipe

CatalogSpec == CatalogInit /\ [][CatalogNext]_catalogVars

-----------------------------------------------------------------------------
(***************************************************************************)
(* No item contains itself, through any versions of any formulas, whatever *)
(* is edited, retyped or removed in between (formula.service.ts 348-352:   *)
(* "formulas form a DAG").                                                 *)
(***************************************************************************)
NoCircularFormula == \A i \in Goods : i \notin Inside(Makes(i))
=============================================================================
