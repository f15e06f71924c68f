------------------------------ MODULE Scheduler ------------------------------
(***************************************************************************)
(* From a sales order to the floor: production requests                    *)
(* (sales-order.service.ts), the planner's queue                           *)
(* (apps/api/src/scheduler/scheduler.service.ts, SchedulerView.vue) and    *)
(* the reservation of work orders for sales orders                         *)
(* (production.service.ts).                                                *)
(*                                                                         *)
(* jobs[w] is the row of the w-th work order to be created.  "STAGED"      *)
(* stands for every status from STAGED to ON_HOLD: what a run consumes is  *)
(* in module Production.  The queue is a set of jobs with a position each, *)
(* as it is in the table, and not a sequence.                              *)
(***************************************************************************)
EXTENDS SalesAccounts, FiniteSets

CONSTANTS
  Jobs,         \* the work orders, positive numbers
  RushDays,     \* RUSH_WINDOW_MS, in days
  ByHand,       \* what the work orders that are made by hand ask for
  FloorJobs,    \* bound: the jobs that the floor starts
  Movable,      \* bound: the jobs that are reassigned
  Formulated    \* the products that an active formula makes

ASSUME SchedulerAssumption ==
  /\ Jobs \subseteq Nat \ {0} /\ Jobs # {} /\ Products # {}
  /\ RushDays \in Nat
  /\ FloorJobs \subseteq Jobs /\ Movable \subseteq Jobs
  /\ Formulated \subseteq Products \ Containers
  /\ ByHand \subseteq [item : Formulated, qty : Nat \ {0}, serial : Nat \X Nat]

VARIABLE jobs

schedulerVars == <<jars, customers, orders, lastNumber, today, jobs>>
salesOnly == <<jars, customers, orders, lastNumber, today>>

JobStatuses ==
  {"NONE", "REQUESTED", "QUEUED", "PLANNED", "STAGED", "COMPLETED", "CANCELLED"}

NoPosition == -1

(***************************************************************************)
(* order and line are the sales order and its line that the job is made    *)
(* for (0: none); serial is its unique workOrderNumber, <<so, n>> for      *)
(* `WO-<so>-L<n>`. That of an order made by hand is typed, and may be one  *)
(* of these or, <<0, n>>, any other text.                                  *)
(***************************************************************************)
JobRows ==
  [ status : JobStatuses, order : SalesOrders \cup {0}, line : Nat, serial : Nat \X Nat,
    item : Products, qty : Nat, pos : Nat \cup {NoPosition} ]

NoJob ==
  [ status |-> "NONE", order |-> 0, line |-> 0, serial |-> <<0, 0>>,
    item |-> CHOOSE p \in Products : TRUE, qty |-> 0, pos |-> NoPosition ]

SchedulerTypeOK ==
  /\ AccountsTypeOK
  /\ jobs \in [Jobs -> JobRows]

SchedulerInit ==
  /\ AccountsInit
  /\ jobs = [w \in Jobs |-> NoJob]

InStatus(s) == {w \in Jobs : jobs[w].status = s}
Queued == InStatus("QUEUED")
Created == Jobs \ InStatus("NONE")

\* Jobs are numbered as they are created: createdAt.
FreeJobs(n) == {w \in InStatus("NONE") : Cardinality({v \in InStatus("NONE") : v < w}) < n}

-----------------------------------------------------------------------------
(***************************************************************************)
(* The run-order rules: rush orders first, then the customer's rating, A   *)
(* to D and then none, then the ship date, a missing one last; due = 0 is  *)
(* a missing date.  A key is compared component by component.              *)
(***************************************************************************)
Due(w) == IF jobs[w].order = 0 THEN 0 ELSE orders[jobs[w].order].due
Rating(w) == IF jobs[w].order = 0 THEN 4 ELSE customers[orders[jobs[w].order].customer].rating
Rush(w) == Due(w) # 0 /\ Due(w) - today < RushDays

RuleKey(w) == <<IF Rush(w) THEN 0 ELSE 1, Rating(w), IF Due(w) = 0 THEN 1 ELSE 0, Due(w)>>

KeyBefore(a, b) ==
  \E n \in DOMAIN a : a[n] < b[n] /\ \A k \in DOMAIN a : k < n => a[k] = b[k]

\* Mutation of SuggestedSlot: counts the jobs that the rules put strictly before w.
SlotBeforeEquals(w) == Cardinality({q \in Queued : KeyBefore(RuleKey(q), RuleKey(w))})

SuggestedSlot(w) == Cardinality({q \in Queued : ~ KeyBefore(RuleKey(w), RuleKey(q))})

(***************************************************************************)
(* The queue is read in the order of the positions, and applyPositions     *)
(* numbers it anew from 0.                                                 *)
(***************************************************************************)
Rank(w, Q) == Cardinality({q \in Q : jobs[q].pos < jobs[w].pos})

Renumbered(w, pos) == [jobs[w] EXCEPT !.pos = pos]

\* The job table with w put into the queue of the others at slot t.
Insert(w, t) ==
  LET rest == Queued \ {w}
      rank(q) == Rank(q, rest)
  IN  [q \in Jobs |->
         IF q = w THEN [jobs[w] EXCEPT !.status = "QUEUED", !.pos = t]
         ELSE IF q \in rest THEN Renumbered(q, IF rank(q) < t THEN rank(q) ELSE rank(q) + 1)
         ELSE jobs[q]]

Enqueue(w, position) ==
  /\ jobs[w].status = "REQUESTED"
  /\ jobs' = Insert(w, MinOf(position, Cardinality(Queued)))
  /\ UNCHANGED salesOnly

EnqueueSuggested(w) == Enqueue(w, SuggestedSlot(w))

\* The slot of w among the chosen jobs S, sorted by the rules and then by age.
Turn(w, S) ==
  Cardinality({v \in S : \/ KeyBefore(RuleKey(v), RuleKey(w))
                         \/ v < w /\ ~ KeyBefore(RuleKey(w), RuleKey(v))})

\* Mutation of QueueByRules: the jobs that are queued already keep their positions.
QueueByRulesAppended(S) ==
  /\ S # {} /\ S \subseteq InStatus("REQUESTED")
  /\ jobs' = [w \in Jobs |->
       IF w \in S
       THEN [jobs[w] EXCEPT !.status = "QUEUED", !.pos = Cardinality(Queued) + Turn(w, S)]
       ELSE jobs[w]]
  /\ UNCHANGED salesOnly

\* queueByRules: the chosen jobs are sorted among themselves and go to the end.
QueueByRules(S) ==
  /\ S # {} /\ S \subseteq InStatus("REQUESTED")
  /\ jobs' = [w \in Jobs |->
       IF w \in S
       THEN [jobs[w] EXCEPT !.status = "QUEUED", !.pos = Cardinality(Queued) + Turn(w, S)]
       ELSE IF w \in Queued THEN Renumbered(w, Rank(w, Queued)) ELSE jobs[w]]
  /\ UNCHANGED salesOnly

\* Mutation of Reposition: w changes places with the job at the target.
RepositionSwaps(w, position) ==
  LET target == MinOf(position, Cardinality(Queued) - 1)
  IN  /\ jobs[w].status = "QUEUED"
      /\ jobs' = [q \in Jobs |->
           IF q = w THEN Renumbered(q, target)
           ELSE IF q \in Queued /\ Rank(q, Queued) = target
                THEN Renumbered(q, Rank(w, Queued))
           ELSE IF q \in Queued THEN Renumbered(q, Rank(q, Queued)) ELSE jobs[q]]
      /\ UNCHANGED salesOnly

Reposition(w, position) ==
  /\ jobs[w].status = "QUEUED"
  /\ jobs' = Insert(w, MinOf(position, Cardinality(Queued \ {w})))
  /\ UNCHANGED salesOnly

Release(w) ==
  /\ jobs[w].status = "QUEUED"
  /\ jobs' = [q \in Jobs |->
       IF q = w THEN [jobs[q] EXCEPT !.status = "PLANNED", !.pos = NoPosition]
       ELSE IF q \in Queued THEN Renumbered(q, Rank(q, Queued \ {w})) ELSE jobs[q]]
  /\ UNCHANGED salesOnly

ReleaseAll ==
  /\ jobs' = [q \in Jobs |->
       IF q \in Queued THEN [jobs[q] EXCEPT !.status = "PLANNED", !.pos = NoPosition]
       ELSE jobs[q]]
  /\ UNCHANGED salesOnly

-----------------------------------------------------------------------------
(***************************************************************************)
(* The board: a card dropped at index i of the queued column, i being the  *)
(* number of cards above the gap.  Within the queue the server inserts     *)
(* into the queue without this card, so the index shifts down by one below *)
(* the card's own place; a drop that changes nothing sends no request.     *)
(***************************************************************************)
\* Mutation of DropIndex: the shift is forgotten.
DropIndexUnshifted(w, i) == MinOf(i, Cardinality(Queued) - 1)

DropIndex(w, i) ==
  MinOf(IF Rank(w, Queued) < i THEN i - 1 ELSE i, Cardinality(Queued) - 1)

Drop(w, i) ==
  \/ /\ jobs[w].status = "REQUESTED"
     /\ Enqueue(w, MinOf(i, Cardinality(Queued)))
  \/ /\ jobs[w].status = "QUEUED"
     /\ DropIndex(w, i) # Rank(w, Queued)
     /\ Reposition(w, DropIndex(w, i))

\* The arrows of a queued card.
MoveUp(w) == jobs[w].pos > 0 /\ Reposition(w, jobs[w].pos - 1)

MoveDown(w) == jobs[w].pos < Cardinality(Queued) - 1 /\ Reposition(w, jobs[w].pos + 1)

-----------------------------------------------------------------------------
JobsOf(o) == {w \in Created : jobs[w].order = o}
JobsOfLine(o, n) == {w \in JobsOf(o) : jobs[w].line = n}

(***************************************************************************)
(* requestProduction: one REQUESTED job for each line that has none and    *)
(* that an active formula makes, all or none of them: one number that is   *)
(* taken already aborts the request.                                       *)
(***************************************************************************)
Wanted(o) ==
  {n \in DOMAIN orders[o].lines :
     /\ orders[o].lines[n].subject \in Formulated
     /\ JobsOfLine(o, n) = {}}

Serial(o, n) == <<orders[o].number, n>>

Requestable(o) ==
  /\ orders[o].status \notin {"NONE", "CANCELLED"}
  /\ orders[o].paidAt \/ customers[orders[o].customer].net > 0

RequestFits(o) ==
  LET lines == Wanted(o)
  IN  /\ Requestable(o)
      /\ lines # {}
      /\ Cardinality(FreeJobs(Cardinality(lines))) = Cardinality(lines)
      /\ \A n \in lines, w \in Created : jobs[w].serial # Serial(o, n)

AfterRequest(o) ==
  LET lines == Wanted(o)
      free == FreeJobs(Cardinality(lines))
      lineOf(w) == CHOOSE n \in lines :
        Cardinality({k \in lines : k < n}) = Cardinality({v \in free : v < w})
  IN  [w \in Jobs |->
         IF w \notin free THEN jobs[w]
         ELSE [ status |-> "REQUESTED", order |-> o, line |-> lineOf(w),
                serial |-> Serial(o, lineOf(w)),
                item |-> orders[o].lines[lineOf(w)].subject,
                qty |-> orders[o].lines[lineOf(w)].ordered, pos |-> NoPosition ]]

RequestProduction(o) ==
  /\ RequestFits(o)
  /\ jobs' = AfterRequest(o)
  /\ UNCHANGED salesOnly

\* create (production.service.ts): a job of no sales order, PLANNED at once.
CreateJob(w, batch) ==
  /\ w \in FreeJobs(1)
  /\ \A v \in Created : jobs[v].serial # batch.serial
  /\ jobs' = [jobs EXCEPT ![w] =
       [NoJob EXCEPT !.status = "PLANNED", !.serial = batch.serial,
                     !.item = batch.item, !.qty = batch.qty]]
  /\ UNCHANGED salesOnly

\* cancel: the position stays, and leaves a gap in the queue.
CancelJob(w) ==
  /\ jobs[w].status \in {"REQUESTED", "QUEUED", "PLANNED"}
  /\ jobs' = [jobs EXCEPT ![w].status = "CANCELLED"]
  /\ UNCHANGED salesOnly

\* stage and complete, without the material; module Fulfilment adds it.
StartJob(w) ==
  /\ jobs[w].status = "PLANNED"
  /\ jobs' = [jobs EXCEPT ![w].status = "STAGED"]
  /\ UNCHANGED salesOnly

FinishJob(w) ==
  /\ jobs[w].status = "STAGED"
  /\ jobs' = [jobs EXCEPT ![w].status = "COMPLETED"]
  /\ UNCHANGED salesOnly

\* reassign, with the target line or, n = 0, for the order as a whole.
ReassignFits(w, o, n) ==
  /\ jobs[w].status \notin {"NONE", "CANCELLED"}
  /\ orders[o].status \notin {"NONE", "CANCELLED"}
  /\ n # 0 => /\ n \in DOMAIN orders[o].lines
              /\ orders[o].lines[n].subject = jobs[w].item
  /\ <<o, n>> # <<jobs[w].order, jobs[w].line>>

AfterReassign(w, o, n) == [jobs EXCEPT ![w].order = o, ![w].line = n]

Reassign(w, o, n) ==
  /\ ReassignFits(w, o, n)
  /\ jobs' = AfterReassign(w, o, n)
  /\ UNCHANGED salesOnly

\* Mutation of EditOrder: the rows of the lines can always be replaced.
EditOrderFreely(o, e, may) == UpdateOrder(o, e, may) /\ UNCHANGED jobs

(***************************************************************************)
(* update replaces the lines by deleting their rows, which the foreign key *)
(* of the work orders refuses as long as one of them is referenced.        *)
(***************************************************************************)
EditOrder(o, e, may) ==
  /\ "cart" \in DOMAIN e => \A w \in JobsOf(o) : jobs[w].line = 0
  /\ UpdateOrder(o, e, may)
  /\ UNCHANGED jobs

QueueStep ==
  \/ \E w \in Jobs :
       \/ EnqueueSuggested(w)
       \/ \E i \in 0..Cardinality(Queued) : Enqueue(w, i) \/ Reposition(w, i) \/ Drop(w, i)
       \/ Release(w)
  \/ \E S \in SUBSET InStatus("REQUESTED") : QueueByRules(S)
  \/ ReleaseAll

JobStep ==
  \/ \E w \in Jobs :
       \/ CancelJob(w)
       \/ \E batch \in ByHand : CreateJob(w, batch)
  \/ \E w \in Movable, o \in SalesOrders :
       \E n \in 0..Len(orders[o].lines) : Reassign(w, o, n)
  \/ \E o \in SalesOrders : RequestProduction(o)

OrdersStep ==
  \/ \E o \in SalesOrders :
       \/ OrderStep(o) /\ UNCHANGED jobs
       \/ \E e \in Edits, may \in Grants : EditOrder(o, e, may)
  \/ OtherAccountsStep /\ UNCHANGED jobs

FloorStep == \E w \in FloorJobs : StartJob(w) \/ FinishJob(w)

SchedulerNext ==
  \/ QueueStep
  \/ JobStep
  \/ FloorStep
  \/ OrdersStep

SchedulerSpec == SchedulerInit /\ [][SchedulerNext]_schedulerVars

-----------------------------------------------------------------------------
Ahead(u, v) == jobs[u].pos < jobs[v].pos

(***************************************************************************)
(* No two queued jobs share a position, so the queue has one order,        *)
(* although cancelling a job leaves a gap that the next change closes.     *)
(***************************************************************************)
QueueUnambiguous == \A u, v \in Queued : u # v => Ahead(u, v) \/ Ahead(v, u)

(***************************************************************************)
(* What a planner decided about two jobs stands: a step moves at most one  *)
(* job of the queue past others, however the queue is renumbered.          *)
(***************************************************************************)
QueueOrderStable ==
  [][\E w \in Jobs : \A u, v \in (Queued \cap Queued') \ {w} :
       Ahead(u, v)' <=> Ahead(u, v)]_schedulerVars

(***************************************************************************)
(* "Run-order rules: RUSH first, then customer rating A to D (null last),  *)
(* then earliest requested ship date, then oldest created" (297-300),      *)
(* stated anew: the first three, and all four.                             *)
(***************************************************************************)
RunsBefore(a, b) ==
  \/ Rush(a) /\ ~ Rush(b)
  \/ /\ Rush(a) <=> Rush(b)
     /\ \/ Rating(a) < Rating(b)
        \/ /\ Rating(a) = Rating(b)
           /\ Due(a) # 0 /\ (Due(b) = 0 \/ Due(a) < Due(b))

RunsFirst(a, b) == RunsBefore(a, b) \/ (a < b /\ ~ RunsBefore(b, a))

(***************************************************************************)
(* The suggested slot (suggestedSlot 362-373) keeps a queue in the order   *)
(* of the first three rules, and puts the job behind every one that all    *)
(* four run first.  The fourth is kept in this direction only: an older    *)
(* job that is queued late goes behind a younger one of an equal key.      *)
(***************************************************************************)
FollowsRules == \A u, v \in Queued : Ahead(u, v) => ~ RunsBefore(v, u)

SuggestedKeepsRules ==
  [][\A w \in Jobs :
       FollowsRules /\ EnqueueSuggested(w) =>
         /\ FollowsRules'
         /\ \A q \in Queued : RunsFirst(q, w) => Ahead(q, w)']_schedulerVars

(***************************************************************************)
(* A card lands where the planner puts it: dropped into a gap, exactly the *)
(* other cards above that gap are ahead of it; moved by an arrow, it       *)
(* passes its neighbour, as long as no cancelled job has left a gap in the *)
(* positions, which the arrows count with (SchedulerView.vue 82-126).      *)
(***************************************************************************)
Gapless == {jobs[q].pos : q \in Queued} = 0..Cardinality(Queued) - 1

CardsLand ==
  [][\A w \in Jobs :
       /\ \A i \in 0..Cardinality(Queued) :
            Drop(w, i) =>
              \A q \in Queued \ {w} : Ahead(q, w)' <=> Rank(q, Queued) < i
       /\ Gapless /\ MoveUp(w) => Rank(w, Queued)' = Rank(w, Queued) - 1
       /\ Gapless /\ MoveDown(w) => Rank(w, Queued)' = Rank(w, Queued) + 1]_schedulerVars

(***************************************************************************)
(* A job that is reserved for a line of a sales order makes what that line *)
(* orders, through edits of the order and reassignments of the job.        *)
(***************************************************************************)
JobsProduceTheirLine ==
  \A w \in Created :
    jobs[w].line # 0 =>
      /\ jobs[w].line \in DOMAIN orders[jobs[w].order].lines
      /\ orders[jobs[w].order].lines[jobs[w].line].subject = jobs[w].item
=============================================================================
