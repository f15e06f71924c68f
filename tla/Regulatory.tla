------------------------------ MODULE Regulatory ------------------------------
(***************************************************************************)
(* What the rules on raw materials mean for a finished good                *)
(* (apps/api/src/regulatory/regulatory.service.ts), on top of the formulas *)
(* of module Catalog: Prop 65, the limits per IFRA category, and the       *)
(* snapshot of what FormPak+ answered (formpak/formpak.client.ts).         *)
(*                                                                         *)
(* A limit is a number of Steps, the last decimal of the column, out of    *)
(* Hundred of them; NoLimit stands for a material without a row.  A        *)
(* refresh reads the formula, asks FormPak+ and stores the answer in a     *)
(* transaction of its own: anything may happen in between.                 *)
(***************************************************************************)
EXTENDS CostRollUp

LOCAL INSTANCE FiniteSetsExt

CONSTANTS
  Categories,   \* the IFRA categories
  Hundred,      \* 100 percent: 10^6 steps in the program
  Limits,       \* the limits that a request may carry
  Regulated,    \* bound: the items whose rows are edited
  Profiled      \* bound: the items whose profile is refreshed

ASSUME RegulatoryAssumption ==
  /\ Hundred \in Nat \ {0} /\ Limits \subseteq 0..Hundred
  /\ Regulated \subseteq Goods /\ Profiled \subseteq Goods

VARIABLES
  listing,      \* listing[i]: prop65Status of item i
  ifra,         \* ifra[i][c]: its limit in category c
  sent,         \* sent[i]: the composition that a refresh under way has sent
  snapshot      \* snapshot[i]: the composition that the stored profile answers

regulatoryVars == <<catalogVars, listing, ifra, sent, snapshot>>

NoLimit == -1
Nothing == [i \in Goods |-> 0]
Idle == <<>>

RegulatoryInit ==
  /\ CatalogInit
  /\ listing = [i \in Goods |-> "UNKNOWN"]
  /\ ifra = [i \in Goods |-> [c \in Categories |-> NoLimit]]
  /\ sent = [i \in Goods |-> Idle]
  /\ snapshot = [i \in Goods |-> Idle]

-----------------------------------------------------------------------------
\* The Prop 65 status and the limits of an item are edited with its other columns.
SetProp65(i, status) ==
  /\ Exists(i)
  /\ listing' = [listing EXCEPT ![i] = status]
  /\ UNCHANGED <<catalogVars, ifra, sent, snapshot>>

\* The rows of the request replace those of the item.
SetLimits(i, limits) ==
  /\ Exists(i)
  /\ ifra' = [ifra EXCEPT ![i] = limits]
  /\ UNCHANGED <<catalogVars, listing, sent, snapshot>>

-----------------------------------------------------------------------------
\* Mutation of Composition: what the formula itself names, bases not expanded.
CompositionOnTop(i) ==
  [m \in Goods |-> IF FormulasOf(i) # {} /\ m \in DOMAIN formulas[Preferred(i)].mix
                   THEN Share(Unity, formulas[Preferred(i)].mix[m]) ELSE 0]

\* derive: the effective fraction of each leaf, in units of 1/Unity.
Composition(i) == IF FormulasOf(i) = {} THEN Nothing ELSE RollUp(i)

Leaves(i) == {m \in Goods : Composition(i)[m] > 0}

Prop65(i) ==
  LET found == {listing[m] : m \in Leaves(i)}
  IN  CASE "LISTED" \in found -> "LISTED"
        [] "LISTED" \notin found /\ ("UNKNOWN" \in found \/ found = {}) -> "UNKNOWN"
        [] OTHER -> "NOT_LISTED"

HalfUp(n, d) == (2 * n + d) \div (2 * d)

Binding(i, c) == {m \in Leaves(i) : ifra[m][c] # NoLimit}

\* The smallest of limit / fraction over the leaves, at most 100 percent, rounded.
Cap(m, i, c) == HalfUp(ifra[m][c] * Unity, Composition(i)[m])

DerivedLimit(i, c) ==
  IF Binding(i, c) = {} THEN NoLimit
  ELSE Min({Hundred} \cup {Cap(m, i, c) : m \in Binding(i, c)})

-----------------------------------------------------------------------------
AskFormPak(i) ==
  /\ Exists(i)
  /\ sent[i] = Idle
  /\ sent' = [sent EXCEPT ![i] = Composition(i)]
  /\ UNCHANGED <<catalogVars, listing, ifra, snapshot>>

StoreProfile(i) ==
  /\ sent[i] # Idle
  /\ snapshot' = [snapshot EXCEPT ![i] = sent[i]]
  /\ sent' = [sent EXCEPT ![i] = Idle]
  /\ UNCHANGED <<catalogVars, listing, ifra>>

\* FormPak+ cannot be reached, or refuses.
RefreshFails(i) ==
  /\ sent[i] # Idle
  /\ sent' = [sent EXCEPT ![i] = Idle]
  /\ UNCHANGED <<catalogVars, listing, ifra, snapshot>>

RegulatoryNext ==
  \/ CatalogNext /\ UNCHANGED <<listing, ifra, sent, snapshot>>
  \/ \E i \in Regulated :
       \/ \E status \in {"LISTED", "NOT_LISTED", "UNKNOWN"} : SetProp65(i, status)
       \/ \E limits \in [Categories -> Limits \cup {NoLimit}] : SetLimits(i, limits)
  \/ \E i \in Profiled : AskFormPak(i) \/ StoreProfile(i) \/ RefreshFails(i)

RegulatorySpec == RegulatoryInit /\ [][RegulatoryNext]_regulatoryVars

-----------------------------------------------------------------------------
PartIn(m, k) ==
  IF m \in DOMAIN formulas[Preferred(k)].mix THEN formulas[Preferred(k)].mix[m] ELSE 0

\* The content of i, by replacing all bases by what they are made of, level by level.
Content(i) ==
  LET broken(flow) ==
        [m \in Goods |->
           (IF Expands(m) THEN 0 ELSE flow[m]) +
           MapThenSumSet(LAMBDA k : Share(flow[k], PartIn(m, k)), {k \in Goods : Expands(k)})]
      level[n \in 1..Cardinality(Goods)] ==
        IF n = 1 THEN [m \in Goods |-> Share(Unity, PartIn(m, i))] ELSE broken(level[n - 1])
  IN  level[Cardinality(Goods)]

(***************************************************************************)
(* A finished good used at its derived limit keeps every material in it,   *)
(* through any bases, within the material's own limit but for the rounding *)
(* of the percentage; the limit is no lower than that; and a good is free  *)
(* of Prop 65 only when all that it contains is ("indicative               *)
(* max-in-finished-product", shared-types/src/regulatory.ts 35).           *)
(***************************************************************************)
RulesCarryOver ==
  \A i \in Goods : goods[i] \in Made /\ FormulasOf(i) # {} =>
    LET content == Content(i)
        inside  == {m \in Goods : content[m] > 0}
    IN  /\ Prop65(i) = "NOT_LISTED" <=> \A m \in inside : listing[m] = "NOT_LISTED"
        /\ \A c \in Categories :
             LET limit == DerivedLimit(i, c)
                 bound == {m \in inside : ifra[m][c] # NoLimit}
                 within(m, used) == used * content[m] <= ifra[m][c] * Unity
             IN  /\ limit = NoLimit <=> bound = {}
                 /\ bound # {} => \A m \in bound : within(m, limit - 1)
                 /\ limit \in 0..(Hundred - 1) => \E m \in bound : ~ within(m, limit + 1)
=============================================================================
