----------------------------- MODULE CostRollUp -----------------------------
(***************************************************************************)
(* The roll-up of an item's cost (apps/api/src/cost/cost.service.ts): how  *)
(* much of each material one unit of it amounts to, through the formulas   *)
(* of its bases.                                                           *)
(***************************************************************************)
EXTENDS Catalog

LOCAL INSTANCE FiniteSetsExt

Expands(i) == goods[i] = "SEMI_FINISHED" /\ FormulasOf(i) # {}

\* What a fraction of 1 is counted as: fine enough for the deepest formula.
Unity == Whole ^ Cardinality(Goods)

\* Mutation of Share: a base inside a base counts as much as its parent.
ShareOfWhole(mult, part) == (Unity * part) \div Whole

Share(mult, part) == (mult * part) \div Whole

RECURSIVE Expanded(_, _, _)

\* expand: how much of each material one formula amounts to, mult being its own share.
Expanded(f, mult, path) ==
  LET mix == formulas[f].mix
      of(c, i) ==
        IF Expands(c) /\ c \notin path
        THEN Expanded(Preferred(c), Share(mult, mix[c]), path \cup {c})[i]
        ELSE IF c = i THEN Share(mult, mix[c]) ELSE 0
  IN  [i \in Goods |-> MapThenSumSet(LAMBDA c : of(c, i), DOMAIN mix)]

RollUp(i) == Expanded(Preferred(i), Unity, {i})

-----------------------------------------------------------------------------
(***************************************************************************)
(* The roll-up of every made item accounts for the whole of it, and ends   *)
(* at what is not made from anything: the guard of expand against a base   *)
(* on its own path never cuts the recursion short.                         *)
(***************************************************************************)
RollUpWhole ==
  \A i \in Goods :
    FormulasOf(i) # {} =>
      LET shares == RollUp(i)
      IN  /\ MapThenSumSet(LAMBDA j : shares[j], Goods) = Unity
          /\ \A j \in Goods : shares[j] > 0 => ~ Expands(j)
=============================================================================
