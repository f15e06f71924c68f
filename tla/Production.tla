------------------------------ MODULE Production ------------------------------
(***************************************************************************)
(* Production work orders: planning, staging and completion                *)
(* (apps/api/src/production/production.service.ts) and the pours and       *)
(* status changes that the compounding tool sends                          *)
(* (apps/api/src/compounder/compounder.service.ts).                        *)
(*                                                                         *)
(* A work order has one line per component: required, staged and consumed  *)
(* are the columns of its lines, zero for an item that is no component.    *)
(* Requested and queued orders (sales, scheduler) are not in this module:  *)
(* an order starts PLANNED.                                                *)
(***************************************************************************)
EXTENDS Quality

CONSTANTS
  NumWorkOrders,  \* the number of work orders
  Batches,        \* what a create request may ask for
  Free            \* the items whose average cost is zero

WorkOrders == 1..NumWorkOrders

ASSUME ProductionAssumption ==
  /\ NumWorkOrders \in Nat
  /\ Batches \subseteq [target : Items, output : Nat, required : [Items -> Nat]]
  /\ \A b \in Batches : b.required[b.target] = 0
  /\ Free \subseteq Items

VARIABLE workOrders

productionVars == <<locs, book, lots, workOrders>>

WorkOrderStatuses ==
  {"NONE", "PLANNED", "STAGED", "IN_PROGRESS", "ON_HOLD", "COMPLETED", "CANCELLED"}

WorkOrderRows ==
  [ status   : WorkOrderStatuses,
    target   : Items,
    output   : Nat,
    required : [Items -> Nat],
    staged   : [Items -> Nat],
    consumed : [Items -> Nat] ]

Nothing == [i \in Items |-> 0]

NoWorkOrder ==
  [ status |-> "NONE", target |-> CHOOSE i \in Items : TRUE, output |-> 0,
    required |-> Nothing, staged |-> Nothing, consumed |-> Nothing ]

ProductionTypeOK == QualityTypeOK /\ workOrders \in [WorkOrders -> WorkOrderRows]

ProductionInit == QualityInit /\ workOrders = [w \in WorkOrders |-> NoWorkOrder]

Components(w) == {i \in Items : workOrders[w].required[i] > 0}

-----------------------------------------------------------------------------
\* Orders are numbered as they are created.
CreateWorkOrder(w, batch) ==
  /\ workOrders[w].status = "NONE"
  /\ \A v \in WorkOrders : v < w => workOrders[v].status # "NONE"
  /\ workOrders' = [workOrders EXCEPT ![w] =
       [ status |-> "PLANNED", target |-> batch.target, output |-> batch.output,
         required |-> batch.required, staged |-> Nothing, consumed |-> Nothing ]]
  /\ UNCHANGED <<locs, book, lots>>

\* stage: each component goes INV -> WIP.
Stage(w) ==
  LET required == workOrders[w].required
  IN  /\ workOrders[w].status = "PLANNED"
      /\ \A i \in Components(w) : Covers(book[i], "INV", required[i])
      /\ book' = [i \in Items |-> IF i \in Components(w)
                                  THEN Staged(book[i], required[i]) ELSE book[i]]
      /\ workOrders' = [workOrders EXCEPT ![w].status = "STAGED", ![w].staged = required]
      /\ UNCHANGED <<locs, lots>>

\* Mutation of Pour: the line of the order does not record what was poured.
PourUnrecorded(w, i, q) ==
  /\ workOrders[w].status \in {"STAGED", "IN_PROGRESS"}
  /\ i \in Components(w)
  /\ Covers(book[i], "WIP", q)
  /\ book' = [book EXCEPT ![i] = PostOut(@, "WIP", NoSlices, q, NoLoc, Defaults)]
  /\ workOrders' = [workOrders EXCEPT ![w].status = "IN_PROGRESS"]
  /\ UNCHANGED <<locs, lots>>

\* recordPour: consumption out of WIP, without a lot.
Pour(w, i, q) ==
  /\ workOrders[w].status \in {"STAGED", "IN_PROGRESS"}
  /\ i \in Components(w)
  /\ Covers(book[i], "WIP", q)
  /\ book' = [book EXCEPT ![i] = PostOut(@, "WIP", NoSlices, q, NoLoc, Defaults)]
  /\ workOrders' = [workOrders EXCEPT ![w].status = "IN_PROGRESS",
                                      ![w].consumed[i] = @ + q]
  /\ UNCHANGED <<locs, lots>>

\* Mutation of Transitions: a run can be resumed once it is over.
TransitionsFromEnd ==
  [IN_PROGRESS |-> {"STAGED", "ON_HOLD", "COMPLETED"}, ON_HOLD |-> {"STAGED", "IN_PROGRESS"}]

Transitions == [IN_PROGRESS |-> {"STAGED", "ON_HOLD"}, ON_HOLD |-> {"STAGED", "IN_PROGRESS"}]

SetStatus(w, target) ==
  /\ workOrders[w].status \in Transitions[target]
  /\ workOrders' = [workOrders EXCEPT ![w].status = target]
  /\ UNCHANGED <<locs, book, lots>>

\* Mutation of ValueConsumed: the pours are not looked at.
IgnoresPours(w) == FALSE

(***************************************************************************)
(* complete: when the value consumed so far is zero, the staged quantities *)
(* are consumed wholesale; either way the output comes into WIP under a    *)
(* new PENDING lot.                                                        *)
(***************************************************************************)
ValueConsumed(w) == \E i \in Items \ Free : workOrders[w].consumed[i] > 0

Complete(w) ==
  LET wo == workOrders[w]
      out(i) == IF ValueConsumed(w) THEN 0 ELSE wo.staged[i]
      output == At(NextLot, wo.output, NumLots)
      consume(i) == PostOut(book[i], "WIP", NoSlices, out(i), NoLoc, Defaults)
  IN  /\ wo.status \in {"STAGED", "IN_PROGRESS"}
      /\ FreeLots # {}
      /\ \A i \in Components(w) : Covers(book[i], "WIP", out(i))
      /\ book' = [i \in Items |->
           IF i = wo.target THEN PostIn(book[i], "WIP", output, wo.output, NoLoc)
           ELSE IF i \in Components(w) THEN consume(i) ELSE book[i]]
      /\ lots' = [lots EXCEPT
           ![NextLot] = NewLot(wo.target, "PRODUCTION", <<w, 0>>, wo.output, NoLoc)]
      /\ workOrders' = [workOrders EXCEPT
           ![w].status = "COMPLETED",
           ![w].consumed = IF ValueConsumed(w) THEN @ ELSE wo.staged]
      /\ UNCHANGED locs

CancelWorkOrder(w) ==
  /\ workOrders[w].status = "PLANNED"
  /\ workOrders' = [workOrders EXCEPT ![w].status = "CANCELLED"]
  /\ UNCHANGED <<locs, book, lots>>

ProductionStep ==
  \E w \in WorkOrders :
    \/ \E batch \in Batches : CreateWorkOrder(w, batch)
    \/ Stage(w)
    \/ \E i \in Items, q \in Quantity : Pour(w, i, q)
    \/ \E target \in DOMAIN Transitions : SetStatus(w, target)
    \/ Complete(w)
    \/ CancelWorkOrder(w)

ProductionNext ==
  \/ ProductionStep
  \/ PlantStep /\ UNCHANGED workOrders

ProductionSpec == ProductionInit /\ [][ProductionNext]_productionVars

-----------------------------------------------------------------------------
(***************************************************************************)
(* Stock in process that no lot accounts for is what the work orders have  *)
(* staged and not consumed: an order's lines and the WIP bucket move by    *)
(* the same amounts, except when WIP stock is scrapped, which leaves the   *)
(* orders alone (stage 293-296, recordPour 163-166, complete 360-365).     *)
(***************************************************************************)
InProcess(i) ==
  Sum([w \in WorkOrders |-> workOrders[w].staged[i] - workOrders[w].consumed[i]],
      NumWorkOrders)

UnlottedWip(i) == book[i].unlotted["WIP"]

WipFollowsOrders ==
  [][\A i \in Items :
       \/ UnlottedWip(i)' - UnlottedWip(i) = InProcess(i)' - InProcess(i)
       \/ /\ UNCHANGED workOrders
          /\ UnlottedWip(i)' < UnlottedWip(i)
          /\ lots' = lots]_productionVars

(***************************************************************************)
(* A completed order has exactly one output lot, of its target and its     *)
(* output quantity, and no other order has any (complete 377-413).         *)
(***************************************************************************)
OutputLots(w) ==
  {l \in Lots : /\ lots[l].qc # "NONE" /\ lots[l].origin = "PRODUCTION"
                /\ lots[l].source = <<w, 0>>}

OutputMatchesOrder ==
  \A w \in WorkOrders :
    IF workOrders[w].status = "COMPLETED"
    THEN \E l \in Lots : /\ OutputLots(w) = {l}
                         /\ lots[l].item = workOrders[w].target
                         /\ lots[l].qty = workOrders[w].output
    ELSE OutputLots(w) = {}

(***************************************************************************)
(* "If any pours were posted, that consumption already stands" (complete   *)
(* 329-331): completing an order does not consume again what was poured.   *)
(***************************************************************************)
PouredConsumptionStands ==
  [][\A w \in WorkOrders :
       /\ workOrders[w].status # "COMPLETED" /\ workOrders'[w].status = "COMPLETED"
       /\ workOrders[w].consumed # Nothing
       => /\ workOrders'[w].consumed = workOrders[w].consumed
          /\ \A i \in Components(w) : book'[i] = book[i]]_productionVars

(***************************************************************************)
(* Lots leave INV oldest first: no step takes from a lot of an item while  *)
(* an older one keeps stock (allocateLotsFifo, 278-281).                   *)
(***************************************************************************)
OldestLotFirst ==
  [][\A i \in Items, k, l \in Lots :
       /\ k < l
       /\ book'[i].lotQty["INV"][l] < book[i].lotQty["INV"][l]
       => book'[i].lotQty["INV"][k] <= 0]_productionVars
=============================================================================
