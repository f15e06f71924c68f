# FW3: a TLA+ model of the plant, its orders and its accounts

FW3 is a multi-tenant ERP for a compounding plant: a NestJS API over Prisma and
SQL Server (`src/apps/api`), request and response schemas in
`src/packages/shared-types`, a Vue client (`src/apps/web`) and a Redis/BullMQ
queue for the QuickBooks synchronisation. Every operation that changes the
domain is one handler of a service that runs one database transaction; apart
from the synchronisation, the only shared state is the database. The isolation
level is never set, so SQL Server's READ COMMITTED applies, and no table has a
version column.

The model is built around what all services share, the stock ledger, and grows
outwards from it.

## Inventory of the system

| Part | State | Operations | What makes it correct |
| --- | --- | --- | --- |
| Stock (`stock/`) | `ItemStock` per item and bucket (INV, WIP, QUARANTINE), `ItemStockLocation` per item, bucket and leaf, the append-only `InventoryTxn` ledger with an optional lot, the average cost | post, transfer, postOutFifo, adjust, scrap, moveLocation, packOff | a bucket is the sum of its ledger lines; its location rows never exceed it; nothing goes below zero; oldest lot first; value and average do not drift apart |
| Locations (`location/`) | tree of buildings, aisles, racks and areas with active, default and receiving flags | create, update | one default and one receiving leaf per building; inbound stock finds a leaf if there is one |
| Quality (`quality/`) | `ReceivedLot` (quantity, packed, returned, status), one result per test | recordResults, approve, reject, returnToVendor | only a lot with a full set of passes becomes usable; the lot row and its ledger lines agree; a review is final |
| Purchasing (`purchasing/`) | orders, lines with ordered and received quantity; vendors and what they supply | create, update, cancel, receive; vendor create, update | what the order received is what reached stock; an order shown as open can be received to its end; the form sends what the server takes |
| Production (`production/`) and compounder (`compounder/`) | work orders with required, staged and consumed quantities, where each line is poured | create, stage, pour, hold, resume, complete, cancel, reassign, route | one output lot per completed order; material is consumed once; WIP and orders move together |
| Containers (`container/`) | a count and an average cost per container | create, update, adjust, scrap, receive, consume, sell | packing and shipping take what the order says |
| Sales (`sales/`) | orders, shipments, payments, refunds, packing | create, import, update, ship, pack, pay, refund, request production, cancel | what was made for an order goes to no other; money only settles; the credit limit holds for new orders; form and server agree |
| Scheduler (`scheduler/`) | requested and queued work orders with a position | enqueue, queue by rules, reposition, release | one position per queued order; only what was moved moves; the rules are kept |
| Cycle counts (`cycle-count/`) | sheets of location rows with counted quantities | create, record, post, cancel | posting sets each counted location to the count, once |
| QuickBooks (`qb/`, `jobs/`) | jobs in Redis, `qbListId` on items and customers, records at the agent | enqueue, sync | one record per row across crashes and overlaps; every row dealt with |
| Formulas, cost (`formula/`, `cost/`) | versions of formulas as percentage lists | create, update, remove, roll-up | no item contains itself; the roll-up accounts for the whole; one formula is "the" formula |
| Regulatory (`regulatory/`) | Prop 65 and IFRA data of materials, snapshots from FormPak | edits, derive, refresh | the limits of a finished good follow from the shares of its materials |
| Business variables, holidays | values with fallbacks and history; rules of dates | edits, resolution | what a screen saves is what it showed; dates fall on their rule |
| Web client (`apps/web`) | what each screen loaded, and the form in it | lists, fills in, submits | what a screen offers, the server takes |
| Permissions (`auth/`, `permissions.ts`, `router.ts`) | roles of a user, the session, the permissions that the client loaded | sign in and out, load, follow a link; a guard for every request | no link leads a built-in role to a page that does not load; what a control sends, the server takes |
| The rest (alerts, reorder, robot, web connector, audit, config) | to-do rows, a report, stubs, wiring | single-row edits and reads | no state that the above reads |

How the parts interact. Purchasing, quality, production, the compounder, sales
and cycle counts call `StockService` inside their own transaction; quality and
production write `ReceivedLot`; sales creates work orders (REQUESTED), the
scheduler queues and releases them (PLANNED), production and the compounder run
them; lot reservation is resolved from the lot through its work order to the
sales order; packing and shipping draw on containers. There are no messages
between parts, apart from the synchronisation job and its calls to the agent.

What is hard. Order of legal calls across services on one lot, one bucket or
one order; read-compute-write transactions under READ COMMITTED; columns that
several handlers keep in step; rules that are written twice, in a page and in a
handler, or in two queries; requests with repeated entries; tolerances,
roundings, zero costs and units; job crashes. `PROJECT.json` lists each hazard
at its line with the properties aimed at it.

## Modules

```
Quantities -- StockLedger -- Location -- Stock -+- Quality -+- Purchasing -- ReceivingPages
     |             |                            |           |- Production
     |             \- Drawdown                  |           |
     |                             CycleCounts -/           +- Fulfilment -- OrderPages
     |                                  \- StockPages       |
     \- ContainerStock -- SalesAccounts --+-- Scheduler ----/
                               |          \-- AccountsPages
                               \- implements Settlement

Catalog -+- CostRollUp -- Regulatory      Costing   Settings   Holidays   Suppliers
         \- RecipePage                    StockTxn (a posting by statement)   QbSync   Access

QuantitiesProofs -+- PlantProofs -+- PurchasingProofs
                  |               |- ProductionProofs
                  |               \- FulfilmentProofs
                  |- SalesProofs -/
                  \- AlgorithmsProofs           QbSyncProofs
```

`EXTENDS` composes them: a module adds variables and actions to those it
extends and keeps all their steps, so `PurchasingNext` interleaves purchase
orders with QC, stock operations and location edits, and `FulfilmentNext`
interleaves sales, planning, production and stock. An action is one committed
transaction of the handler it is named after: every refusal of the handler is a
conjunct of its guard, and a transaction that aborts changes nothing. The
exceptions are `StockTxn` (one statement a step), `QbSync` (one call a step),
`Drawdown` (one row a step) and `Regulatory` (a refresh is two steps, around
its call to FormPak).

The plant:

- **Quantities**: `Sum`, `Take` and other arithmetic on numbered rows. A
  quantity is an integer number of 0.0001 units, the precision of the columns.
  `Take` is the draw-down of `allocateLots` in closed form, `Rounded` what a
  column or `toDecimalPlaces` makes of a quotient.
- **StockLedger**: the book of one item, as a record. The ledger is reduced to
  the sums that the code reads: per bucket, per lot, and without a lot. The book
  has the two postings (`PostIn`, `PostOut`), which stand for `StockService.post`
  with `applyInbound`/`applyOutbound`, `placeAtLocation` and
  `removeFromLocations`; `Transfer`; and the FIFO attribution. Several `post`
  calls for the slices of one quantity are one `PostOut`: the draw-down of
  location rows does not see lots, and drawing a then b takes the same rows as
  drawing a + b.
- **Location**: `locs[k]` is the set of flags of leaf k. Leaves are numbered in
  the order of their names, which is the order `removeFromLocations` sorts by;
  `CodeRank` gives the order by code, which `resolveInboundLocationId` uses. The
  two differ in the runs.
- **Stock**: the books of all items, with the adjustments, scrap and moves.
- **CycleCounts**: counts over a scope of items and leaves. Expected quantities
  are shown and never posted, and left out.
- **Quality**: lots in the order of `receivedAt` (a new lot takes the next
  number), test results with SQL null, approval with its put-away, rejection,
  returns, and pack-off; `Staged` is the FIFO move to WIP that work orders share.
  `PutAway` is a set because `findFirst` without an order
  may return any default leaf of the building.
- **Purchasing**: orders and receipts. A request is a list of entries; `Received`
  reproduces the loop that adds each entry to the quantity loaded before it, and
  `WithinOrdered` is the CHECK constraint of the table: a receipt that breaks it
  aborts. A line is ordered and received in the unit of the item, stock is in
  pounds: `ToPounds` multiplies by a ratio (for kilograms 2.20462262, as in the
  code) and rounds to four decimals, lot by lot.
- **Production**: work orders from PLANNED on. WIP is one bucket per item that
  all orders share. `Free` is the set of items whose average cost is zero, the
  only thing about cost that a handler branches on.
- **Drawdown**: the loop of `allocateLots` and `removeFromLocations`, one row a
  step, with the sort as written in the code.
- **StockTxn**: one posting statement by statement. Writers lock a row until
  they commit, readers wait for a writer and keep no lock: SQL Server's READ
  COMMITTED. One bucket with one location.
- **Costing**: the moving average of one bucket in integers of the last decimal;
  every rounding of the code is in it, and what the roundings may add up to is
  counted in a history variable.

Orders and money:

- **ContainerStock**: containers with their count, the operations of their own
  service, and `Holds`/`Less` for the postings of packing and shipping.
- **SalesAccounts**: customers, orders with their lines, payments and refunds as
  sums, the credit and price checks, the receivables report. Quantities and
  prices have four decimals, so what they multiply to has eight; an amount of
  money is an integer number of 0.00000001, of which `Step` make the fourth
  decimal. The server sums at full precision, rounds the cost of a line to a
  `Step`, and takes payments and refunds of whole `Step`s only (`Payable`); the
  form rounds its total to a `Cent` and no cost. **Settlement** is
  the abstract specification of an order's account: what it asks for may change,
  money moves only towards it and never past it.
- **Scheduler**: production requests, the queue and the board. A job in the
  queue has a position; the queue is not a sequence because the table is not.
- **Fulfilment**: composes Scheduler and Quality: work orders consume material
  and open a lot, pack-off puts it in INV, shipping draws permitted lots.
  `sold` is the sum of SHIPMENT lines by order and lot.

Reference data:

- **Catalog**: items by type, formulas with versions, the cycle check as a
  closure (`Inside`), the two requests of the item form.
- **CostRollUp**: the roll-up of shares through formulas of formulas, in integers
  fine enough for every division to be exact. It recurses along a path, and is
  apart from Catalog so that Catalog can be proved about.
- **Regulatory**: on top of that, the data of materials and what is derived.
- **Settings**: the business variables, a screen that goes stale, and the
  routing of pours that reads them.
- **Holidays**: dates as day numbers, with `Date.UTC` external.
- **Suppliers**: vendors and the form of a purchase order on the snapshot it was
  opened with.
- **Access**: what the built-in roles hold, what each endpoint requires (one
  definition for a controller), what each page loads, offers and links to under
  a set of permissions (one for a page), and a client that keeps the permissions
  of the time it was loaded while roles are edited and sessions expire.
- **QbSync**: the synchronisation with a queue, workers, an agent and QuickBooks
  as the code uses them.

Screens (**StockPages**, **ReceivingPages**, **AccountsPages**, **OrderPages**,
**RecipePage**): what a page lists, enables, fills in and sends, written as
operators over the state of the server. They state what the code leaves to the
reader: that a page which decides for itself decides as the handler does. They
work on the present state; only where a stale page matters by itself (Settings,
Suppliers, the item form of Catalog) is what it loaded a variable.

A definition whose comment starts with "Mutation of" is a plausible bug. The
specifications never use it; the mutants of `PROJECT.json` put it in place of
the definition it names to confirm that the property there notices.

## Runs

| Run | Instance | Shows |
| --- | --- | --- |
| `stock` | 1 item, 3 leaves in 2 buildings, quantities 1 and 2, 1 cycle count | the breakdown by location under adjustments, scrap, moves, edits of leaves and a count; what the warehouse screens list can be chosen |
| `algorithms` | eight independent instances in turn, see below | the draw-down loop, costs, formulas, regulatory limits, variables, holidays, the purchase order form, what each role is shown |
| `purchasing` | 1 order of up to 2 lines (an item in kg, a container), 2 lots, a dock and a shelf, 1 test | the inbound side, from order to usable stock, and its pages |
| `production` | 3 work orders in 2 levels, 2 output lots | staging, pours, completion, pack-off; orders, lots and ledger agree |
| `accounts` | 2 orders, 2 customers, an item and a container | orders, credit, payments, refunds; the refinement of Settlement; form and page |
| `scheduler` | 3 jobs for 2 orders of 2 products | requests, the queue, the rules, the board |
| `fulfilment` | 2 orders, 2 jobs, 2 lots, a packing container | from the request to the shipment; order, shipping and work order pages |
| `qbsync` | 2 items, 1 customer, 2 jobs, 2 workers, 1 fault | crashes, retries, overlapping runs; liveness |
| `free_material`, `tolerance`, `duplicate_line`, `concurrent_posts` | the instances above with the one input that matters | four disagreements between code and documentation, below |

`algorithms` chooses its subject in the initial state and leaves the others
idle: every 3 rows of -1..2 and requests of 0..5 for the draw-down; up to six
postings to a bucket costed in quarters; four items, three formulas and two
versions; two formulas of two materials for the limits; one variable each
without scope, by rating and by role; every rule of the calendar over nine
years, among them leap years and every week-day of January 1st; two vendors,
two items and a container; a user who is an admin, a clerk, a viewer or both of
the last two. The other bounds are there for time only: `OneOff`
allows one inactive formula at a time, `Few` two formulas that all contain the
raw material, and `MaxPlaced` one placed order (with two, checked apart, the
form holds as well).

Why the bounds are enough. Two lots are needed for FIFO, for a partial take and
for one lot using up another's stock; three leaves for two in one building and
one elsewhere, with preferred, default and other rows all distinct; three work
orders for two output lots of one item and an order that draws on them; two
orders for a credit limit to be used up by another one and for stock to be
reserved against someone; three jobs for a queue in which something stays put;
two jobs and two workers for runs that overlap; three formulas for an indirect
cycle. `MaxOnHand` bounds only what adjustments add; receipts are bounded by the
orders, output by the work orders. Numbers in a request beyond the smallest that
allow "part of", "all of" and "more than" repeat the same comparisons.

Units. In `purchasing` a kilogram is 2.20462262 pounds as in the code, and
quantities are in ten-thousandths: two receipts of 1 and 2 make lots of 2 and 4,
while 3 are 6.61, so the two sides of `ReceiptsMatchStock` do come apart by a
rounding. In `accounts` a `Step` is 4 and a `Cent` 8 instead of 10^4 and 10^6,
so that a few small amounts meet each other: a customer's limit is reached
exactly, one draft is a quarter of a cent over it and taken by the form for the
limit itself, and another order costs an amount that no payment can carry.
Without the clause `ClearOfRounding` the run violates `FormForesees`. In the
other runs of sales `Step` is 1, as they check nothing about money. In
`scheduler` a work order created by hand carries a number that is new or the one
that a request for an order line is going to want.

`purchasing` leaves out requests that name a line twice and receipts within the
tolerance over the order, which are the subjects of `duplicate_line` and
`tolerance`. Orders of no more than the tolerance (0.001) are left out too:
`poStatusFromLines` takes such a line as received before anything arrives.

Deadlock is checked but in `algorithms` and `qbsync`, where a loop ends, a bound
on postings is reached, or all jobs have run.

**Fairness.** Only `qbsync` states any. A worker that is free takes a waiting
job and a call ends with an answer or an error (`WF` of `Take` and `RunStep`),
since BullMQ polls and `fetch` settles; the queue checks for stalled jobs
(`WF` of `Reclaim`). Users, crashes and failures have none, and faults are
bounded by `MaxFaults`. Everywhere else a handler runs because someone asks, so
nothing has to happen; there "can always be finished" is stated as a guard that
holds and the row it leads to (`OffersHonoured`, `ReceivingCompletes`,
`RevisionTakesOver`, `FilledInAmountsSettle`, `FilledFormAccepted`,
`ListedCanBeChosen`). No property uses `ENABLED`.

**Refinement.** `AccountsSettle` is `SalesAccounts` implementing `Settlement`
(`INSTANCE Settlement WITH owed <- ..., net <- ...`), checked by `accounts` and
proved for every instance in `SalesProofs`. `LoopIsRemove` plays the same part
for the draw-down: the loop, one row a step, ends in what the closed form of the
postings says.

## What the runs show

The eight passing runs find every property to hold. Four statements of the
repository do not:

1. `free_material`: "If any pours were posted, that consumption already stands".
   Completion looks at the value of the pours, so pours of a material whose
   average cost is zero do not count and the staged quantity is consumed again.
2. `tolerance`: an overage within the tolerance is accepted by the handler
   and refused by the CHECK constraint.
3. `duplicate_line`: a receive request with two entries for a line posts both and
   records the last.
4. `concurrent_posts`: two postings on one bucket at once lose one of the updates
   of the balance, not of the location row nor of the ledger.

Where a property excludes a case, the code does something there that a reader
should know:

- `FilledInAmountsSettle` is about orders without refunds. After a refund and an
  edit that raises the total, `recordPayment` still compares with the sum of
  payments alone (sales-order.service.ts 905-906) and refuses part of the
  balance that the page fills in. It is also about amounts of at most four
  decimals, which is what the requests hold (shared-types money.ts 12-19,
  sales.ts 254-288). Quantity times price can have eight: 12.5 at 1.2345 are
  15.43125, the page fills that in, and the request is refused. No other payment
  settles such an order either: 15.4312 leaves a balance and 15.4313 is too much.
- `FormForesees` is about drafts clear of rounding (`ClearOfRounding`). The form
  compares the total as displayed, to two decimals and with a slack of 1e-9
  (SalesOrderFormView.vue 192-196, 210-214), the server the exact one
  (sales-order.service.ts 184-190): with a limit of 100, the form takes 1 at
  100.004 for 100 and the server refuses it; where parts of a cent are left of a
  limit, the form may also refuse what the server takes. And the server rounds the
  cost of a line to four decimals (sales-order.service.ts 106, cost.service.ts 72)
  where the form does not: 12.5 at a cost and a price of 1.2345 sell at exactly
  their cost for the form and below it for the server, which compares with
  15.4313. Numbers of the form are doubles and exact here; the slack of 1e-9
  covers their error at the limit for amounts up to about a million.
- `ReceiptsMatchStock` is exact for what is ordered in pounds. Each receipt of
  kilograms is converted and rounded to four decimals by itself
  (purchase-order.service.ts 258), so partial receipts can add up to another
  weight than one for the whole: three of 1 kg are 6.6138 lb, 3 kg are 6.6139.
  The property allows half of the fourth decimal for each lot.
- `SuggestedKeepsRules` claims the last of the rules of
  scheduler.service.ts 297-300, "then oldest created", in one direction only: a
  job goes behind all that the rules run first. Since `suggestedSlot` (362-373)
  also goes past those of an equal key (`<= 0` at 371), a job that is older than
  a queued one of an equal key goes behind it, contrary to that comment.
- `OffersHonoured` leaves out stock without a lot. Once an item has a lot with
  stock, only permitted lots may be shipped (stock.service.ts 256-275), while
  the shipping page offers the whole of the stock.
- The form and the schema let the number of containers of a line be left empty
  (SalesOrderFormView.vue 282-285, shared-types sales.ts 93). The order page then
  offers to pack, since it looks at the container alone (SalesOrderDetailView.vue
  51-63), and the server refuses (sales-order.service.ts 854-865).
- What is "left to ship" of a line may be up to the tolerance of 0.001: an order
  whose lines leave no more is SHIPPED (`poStatusFromLines`), and is not listed.
- `RequestProduction` needs a free number, and so does `CreateJob`, whose number
  is typed and may be the one that a line is going to want. After a reassignment
  the line may be requested again, and the page says that it needs a new batch,
  but the number `WO-<order>-L<line>` (sales-order.service.ts 1100) is still held
  by the reassigned work order, so the request fails until that is cleared by
  hand.
- `paidAt` survives a refund, so production may be requested for an order that
  is no longer paid (sales-order.service.ts 1071).
- `RevisionTakesOver` is about formulas whose items kept types that fit: an item
  can be retyped after it is used in a formula, and the formula can then not be
  saved any more.
- `FilledFormAccepted` excludes the two things on the form that are typed and have
  to be new: the number of the order, which no order of the tenant may have, a
  cancelled one included (purchase-order.service.ts 111-113, 552-557), and the SKU
  of a new item. Either is answered with a conflict.
- The comment of `assertProcurable` (purchase-order.service.ts 433-437) speaks of
  items that are not finished goods and of active containers; the code takes any
  that exist, and so does `Procurable`.

## Proofs

The theorems hold for every value of the constants that satisfies the named
assumptions: any number of items, lots, leaves, orders, work orders, rows and
workers, and any natural quantities. The named assumptions only type the
constants (orders, lots and leaves are numbered from 1), except that a batch does
not contain its own target, that items and containers are disjoint, that there
is at least one item, product, customer and job, and that an item row has one
name in QuickBooks, which no other item row has. Years are counted from 1.

| Theorem | Statement |
| --- | --- |
| `StockCorrect` | `StockSpec => [](StockTypeOK /\ LedgerBalances /\ LocationsWithinStock)` |
| `OneHolderOfEachFlag` | `StockSpec => []OneFlagPerBuilding` |
| `BreakdownKeepsUp` | `StockSpec => UnplacedOnlyWithoutLeaf` (an action property) |
| `PurchasingCorrect` | `PurchasingSpec => [](PurchasingTypeOK /\ LedgerBalances /\ LocationsWithinStock /\ ApprovedPassed)` |
| `ReceiptsTraceable` | `PurchasingSpec => []LotsTraceable` |
| `StockMovesWithOrders` | `LinesNamedOnce` implies `PurchasingSpec => []ReceiptsMatchStock` |
| `ReceivingCanComplete` | `OrdersExceedTolerance` and `Tests = Suite` imply `PurchasingSpec => []ReceivingCompletes` |
| `ProductionCorrect` | `ProductionSpec => [](ProductionTypeOK /\ LedgerBalances /\ LocationsWithinStock /\ ApprovedPassed)` |
| `OutputTraceable` | `ProductionSpec => []LotsTraceable` |
| `LotsLeaveInOrder` | `ProductionSpec => OldestLotFirst` (an action property) |
| `OneOutputLot` | `ProductionSpec => []OutputMatchesOrder` |
| `PoursStand`, `WipFollowsLines` | `Free = {}` implies `ProductionSpec => PouredConsumptionStands`, `ProductionSpec => WipFollowsOrders` (action properties) |
| `LoopIsRemove` | `DrawSpec => [](DrawTypeOK /\ LoopComputesRemove)` |
| `CostsDriftBounded`, `CostsWithinReceipts` | `CostSpec => []DriftBounded`, `CostSpec => []CostWithinReceipts` |
| `AccountsWellTyped`, `NeverOverRefunded` | `AccountsSpec => []AccountsTypeOK`, `AccountsSpec => []RefundsWithinPayments` |
| `AccountsImplementSettlement` | `AccountsSpec => AccountsSettle` (the refinement) |
| `CreditLimitHolds` | `AccountsSpec => NewOrdersWithinCredit` (an action property) |
| `SchedulerCorrect` | `SchedulerSpec => [](SchedulerTypeOK /\ QueueUnambiguous /\ JobsProduceTheirLine)` |
| `QueueOrderStands`, `SuggestionsKeepTheRules`, `CardsLandWherePut` | `SchedulerSpec => QueueOrderStable`, `=> SuggestedKeepsRules`, `=> CardsLand` (action properties) |
| `OrdersSettleAsFilledIn` | `AccountsSpec => []FilledInAmountsSettle` |
| `FormAgreesWithServer` | `AccountsSpec => []FormForesees` |
| `FulfilmentCorrect` | `FulfilmentSpec => [](FulfilmentTypeOK /\ LedgerBalances /\ LocationsWithinStock /\ LotsTraceable /\ QueueUnambiguous /\ JobsProduceTheirLine /\ LotsSoldAreTraced)` |
| `ShipmentsAreTraced` | `EachLineOnce` implies `FulfilmentSpec => []ShipmentsTraced` |
| `OffersAreHonoured` | `SalesExceedTolerance` and `PacksCounted` imply `FulfilmentSpec => []OffersHonoured` |
| `ReservationsKept` | `FulfilmentSpec => ReservedStockKept` (an action property) |
| `CountsKeepTheBooks`, `CountsReconcile` | `CountSpec => [](CountsTypeOK /\ LedgerBalances /\ LocationsWithinStock)`, `CountSpec => CountReconciles` (an action property) |
| `FormulasStayAcyclic` | `CatalogSpec => []NoCircularFormula` |
| `RevisionsTakeOver` | `CatalogSpec => []RevisionTakesOver` |
| `ScreensSaveTheirEdits` | `SettingsSpec => SavedAsEdited` (an action property) |
| `HolidaysFallOnRule` | `HolidaysSpec => []HolidaysOnRule` |
| `FilledFormsAccepted` | `SuppliersSpec => []FilledFormAccepted` |
| `ListedIsAccepted` | `CountSpec => []ListedCanBeChosen` |
| `OneRecordForARow`, `LinksApart` | `SyncSpec => []NoSecondRecord`, `SyncSpec => [](SyncTypeOK /\ LinksFit /\ ItemsLinkedApart)` |

Seven hypotheses are not facts of the code. Two are needed as the runs show.
`LinesNamedOnce` (no receive request names a line twice): without it
`duplicate_line` breaks `ReceiptsMatchStock`. `Free = {}` (no material has the
average cost zero): without it `free_material` breaks `PouredConsumptionStands`,
and the consumption that is posted again empties WIP of what other orders staged.
`EachLineOnce` (no ship request names a line twice) is of the same kind as the
first: `ship` too adds each entry to the quantity that it loaded before, so of two
entries for a line stock gives both and the line records the last. The requests
that the shipping page builds, and the run `fulfilment`, satisfy it.
`OrdersExceedTolerance` (an order asks for more than the tolerance of 0.001 on
some line): an order of less is OPEN although nothing of it is shown as
remaining. `Tests = Suite` (a lot has results for the tests its page lists, and
no others): the endpoint takes any test type, and a failed test that the page
does not list cannot be recorded again there. These two hold in the run
`purchasing`. `SalesExceedTolerance` says of sales orders what
`OrdersExceedTolerance` says of purchase orders, for the same reason.
`PacksCounted` (a line that names a container says how many): see above, of what
the form lets be left empty. These two hold in the run `fulfilment`.

The argument, from the bottom up. Each inductive invariant was checked by TLC on
the instance of its run before it was proved.

1. `QuantitiesProofs`: `Rounded(n, d)` is within half of n/d (`RoundedWithin`) and
   does not leave an interval of integers around it (`RoundedBetween`). `Sum` is
   well defined (its recursive function exists and is unique, by induction in the
   form of a least counterexample, since the induction theorems of the library
   take an operator), `SumAdd`, `SumNat`, `SumMoved` (renumbering the rows keeps
   the sum), `SumOfParts` (so does sorting them into parts), `SumStops` (rows of
   zeros at the end add nothing), `TakeBounds` (a slice is between 0 and its row),
   `SumTake` (the slices add up to the smaller of the request and what the rows
   have) and `TakeInOrder` (a row is only taken from when those before it are used
   up). `FewerElements`, `BelowOrder` and `BelowNumbers` say that the number of
   elements below one of a finite ordered set is its place in it.
2. `PlantProofs`, the book: `TakeRows` and `RowsSplit` split a column into the
   preferred, default and other rows; `RemoveOK` concludes that `Remove` leaves
   non-negative rows and takes min(q, sum of rows). `PostInOK` and `PostOutOK` say
   that a posting keeps `BookOK`: types, balance and location rows. The
   conjunction is inductive as it stands (`LedgerBalances`, that a bucket is the
   sum of its ledger lines, by the form of the postings, which put in one line
   what the slices leave; it is a lemma for the rest and no run lists it):
   non-negative buckets need the guard `Covers`; the rows stay within the bucket
   only because they are non-negative and what the draw-down leaves in them is at
   most what is left in the bucket. `PostInGap` and `PostOutGap` follow the part
   of a bucket that no row holds.
3. `PlantProofs`, the operations: one lemma per action of `StockNext`.
   `BreakdownKeepsUp` adds that inbound stock finds a leaf whenever one is active
   (`ResolveInboundType`) and that a move conserves the sum (`MoveKeepsSum`).
   `OneHolderOfEachFlag` rests on `GivenFlags`: an edit gives a leaf only flags
   that it takes from the others of the building.
4. `PlantProofs`, the lots: the inductive invariant `PlantInv` adds to the books
   that a lot row is typed, that a lot never packs off more than it has (without
   which the slices of a pack-off could be negative), and two facts that
   `ApprovedPassed` needs: a lot that exists has a result row for every test of
   its suite, and an approved one has no row that is not a pass. They are
   inductive because results are recorded only while a lot is PENDING. `TraceInv`
   is behind `LotsTraceable`, which is not inductive: a new lot takes a number, so
   a number without a lot must be a row of zeros that no ledger line names; lots
   are created in the order of their numbers; and nothing of a lot under review
   has been returned, since an approval moves all of it.
5. `PurchasingProofs`: one lemma per action, on top of `PlantStepOK` for the
   steps they inherit. A receipt is in order whatever entries the request repeats
   (`ReceivedType`, `NewLotRowsOK`): the defect of `duplicate_line` is between
   order and stock, not in the ledger. For `ReceiptsMatchStock`, both sides grow
   by what the entries of the request ask for: the lines (`LinesReceivedGrows`,
   where an entry is added to the quantity loaded before the loop, hence the
   hypothesis) and the new lots, which are the entries renumbered (`SumMoved`).
   Each new lot adds half a unit to how far they may be apart (`RoundedWithin`).
   `ReceiptsInv` adds that an order not yet created has no lines, that no lot was
   received empty and that the lot of a line is of an item: an order whose lines
   have received nothing then has no lots, and may have its lines replaced.
   The pages: `CompletionInv` relates the stored status to the lines (`OrderOK`: an
   order that is OPEN or PARTIAL has a line that is not full within the
   tolerance, one that is RECEIVED has none), and a lot marked RETURNED went back
   whole. `Numbering` (the n-th element of a finite set of numbers exists and is
   unique) gives that "Receive remaining" names each open line once, so it fills
   exactly these (`RestFills`).
6. `ProductionProofs`: `LotsLeaveInOrder` is `TakeInOrder` after `OnlyStagingDraws`
   has shown that staging alone takes from lots in INV oldest first.
   `OneOutputLot` needs that an order that is not completed has no output lot.
   `PoursStand` and `WipFollowsLines` need `TargetsApart` (no order contains its
   target, so output does not land among the material) and `StagedAsRequired`
   (an order has staged nothing or all it requires, and has consumed nothing
   before): what a completion then consumes is what its lines still hold.
7. `AlgorithmsProofs`, costs: the inductive invariant `CostInv` is types,
   `DriftBounded` and `CostWithinReceipts`; a receipt adds to the drift the
   rounding of its line and that of the average times the new quantity, which is
   what `slack` grows by, an issue only that of its line, since the average
   stays. The draw-down: `DrawInv` says that the rows visited are closed under
   "ahead of" in the order of the sort, and that each gave the slice that those
   ahead of it do not cover; `RemoveTakesSlices` that the three passes of the
   closed form take the same slices. So the postings of every other module take
   what the loop takes.
8. `SalesProofs`, accounts: every action of an order changes one row, so
   `RowKeepsInv` reduces the step to that row, and one lemma per action shows
   it typed and its refunds within its payments. `AccountsInv` adds to both
   that an unused row is `NoOrder`, without which creating an order could take
   over the money of an earlier one. For the refinement, `AccountsOfRow` says
   how a row maps to an account; creation, edits and cancellation keep the
   money (`KeepingMoneyBills`), payments and refunds keep what is asked and move
   towards it (`PaymentSettles`, `RefundSettles`); the other steps stutter. For
   credit, the check of a new order adds up the debt of the customer's orders and
   the report adds it up by age: `ReportIsExposure` (from `SumOfParts`) says that
   these agree, and `NewOrderAdds` what a new row adds to both.
9. `SalesProofs`, queue: `SchedulerInv` adds to the accounts that the jobs are
   finitely many, that queued ones have distinct numbers as positions, and that
   the line of a job is one of an order. Places are cardinalities, so the lemmas
   are about counting: what an insertion or a release does to the order of the
   rest (`SlidOrder`, `InsertOK`, `LeavingOK`) and that the rules order the jobs
   by a key of four numbers in which no two agree (`KeyOrder`, `TurnsDiffer`).
10. `QbSyncProofs`: whatever a run has listed, read or been answered, however
   old it is by now, every record it holds for a row was entered under a name
   that is the row's (`Fits`); and the agent answers every further request for a
   row with the record it created for it (`CreatedAnswered`). Both stand because
   records and replies are only added. The run `qbsync` has one customer; the
   theorems cover customers that take over each other's names.
11. `SalesProofs`, the order form: `FormInv` adds to the accounts that every
    customer holds one of the profiles, so that the margin of the form is a
    number and prices are naturals. `PayloadKeepsCost` says that what the form
    strips from a line changes neither its cost nor its revenue, and
    `ReportIsExposure` that the exposure it reads is the one the check computes.
    A number farther than half a unit from another stays on its side when that
    one is rounded (`ApartRounded`), and whole cents are rounded to themselves
    (`WholeCents`): so the roundings that only one of the two makes decide
    nothing on a draft that is clear of them.
    The order page: `PaymentOfBalance` needs that nothing was refunded, since the
    server compares with payments alone, and it and `RefundOfSurplus` that the
    amount is `Payable`.
12. `PlantProofs`, counts: a row that is counted is brought to its count by one
    posting up or down at its leaf, and no other row changes (`AfterLeafOK`); the
    rows of a sheet are posted one after the other, and `CountedUpTo` says of
    each state of that loop which of them are at their count already and that the
    book is in order. A posting down starts at the counted row and takes no more
    than it holds, so default leaves never matter. `CountInv` adds to `StockInv`
    that the rows of a sheet are rows of items and leaves, with natural counts.
   The screens: `PagesInv` adds one flag per building, and that a leaf with a
   flag, with stock or on a sheet was created (`LeavesKnown`: a draw-down fills
   no row, `RemoveFillsNone`, and inbound stock lands on a leaf that exists,
   `InboundKnown`). So what a screen offers exists, and an untouched form, which
   sets flags that others lose, finds no other leaf to take them from.
   `CountPostable`: between two lines of a sheet no row holds more than its
   bucket, so each adjustment down is covered.
13. `FulfilmentProofs`: the plant and the queue share the jobs and the lots.
    `FulfilmentInv` joins `PlantInv`, `TraceInv` and `SchedulerInv` with four
    facts about what was sold: its type; every lot is the output of a job
    (`ProductionOnly`), so a lot enters INV by pack-off alone; a lot that was
    sold from is approved (`SoldApproved`); and what was packed off of a lot that
    no recipe consumes is in INV or sold (`PackedStands`), without which a
    shipment could take more from a lot than was ever there. For
    `ShipmentsTraced`, `SalesCovered` is inductive once a line that was shipped
    is known to stay on its order; a shipment adds to both sides what its entries
    ask for, when no line is named twice. For `ReservedStockKept`, a shipment
    draws from permitted lots only, and a lot reserved for another order is not
    permitted; reservation follows the job, hence "or a work order changes".
    The pages: `OffersInv` adds that an order is OPEN or PARTIAL exactly while
    more than the tolerance of a line is left (`SalesStatusTells`). A request for
    all that remains has one entry for each line that leaves something
    (`AllRemainingEntries`), and none of them touches the stock of another's
    item (`BookUntouched`), so that checking them one after the other is checking
    each alone. A request for production pairs the free jobs with the lines in
    their order, one to one (`RequestMatches`).
14. `AlgorithmsProofs`, formulas: `Inside(S)` is the least set that contains S and
    is closed under what its items are made of (`InsideLeast`, `InsideClosed`:
    the iteration stops within the number of items, as each round that is not the
    last adds one). A new version adds edges out of its target only, so a cycle
    it closes passes through the target, and then the target is inside its
    components, which the check refuses (`NoNewCycle`). `CatalogInv` adds
    that formulas and the form hold items and mixes only; the second request of
    the form is checked like any other when it is sent.
    The item page: `VersionsInv` adds that rows are typed, that components stay
    items and that the versions of an item stay apart, for which the next version
    has to be past all others (`NextVersionAbove`). One active version then is
    ahead of the rest in the order of the page (`ActiveLeads`), and the three
    definitions that choose a formula choose it (`FirstLeads`). A saved version
    passes the check again because the item is not inside itself
    (`StaysComposable`).
15. `AlgorithmsProofs`, variables: `SavedSlot` follows one slot through a save. The
    order of the fallbacks matters: a slot that follows the base gets what the
    base is edited to although nothing is stored for it.
16. `AlgorithmsProofs`, calendar: days of one week day are seven apart
    (`EverySevenDays`), the first of a month is in its first seven days
    (`FirstWeek`); so the n-th is found by adding weeks (`NthDates`, whose count
    is a bijection with the weeks before it), the last by going back from the end
    of the month (`LastDates`). `YearFound` says that the year of today exists.
17. `AlgorithmsProofs`, the purchase order form: `SuppliersInv` says that each line
    is good (`GoodLines`): of a kind that its vendor was known to supply when the
    form was opened, and blank or referring to what is offered for that kind.
    Changing the vendor keeps it because a line of another kind starts over. What
    was offered exists when the form is sent, since no item is removed
    (`OfferedExists`). Once the order is placed its vendor supplied all it refers
    to; of the vendors of which that holds the first by name is suggested, as
    none ranks above it (`FirstFullMatch`).

Only model-checked, and why:

- `RowsDealtWith`: liveness under fairness.
- `RollUpWhole` and `RulesCarryOver`: the roll-up is recursive over data of any
  depth, which the proof system does not handle.
- `OfferedIsAccepted`: its only parameters are the sets of built-in roles that a
  user may hold. What roles permit is nested (a viewer's in a clerk's in an
  admin's) and the run has all three, so TLC goes through every case there is.

## Not modelled

- Purchasing alerts: rows that a person opens and resolves, read by no handler.
- Item specs and the evaluation of a measured value (`quality-eval`): a result
  is a pass, a failure or unset.
- Edits of an item's physical form after a receipt: the page of a lot then lists
  the tests of the new form, and rows of the old one hold back the approval.
- `batchRequirements` of formulas: what a work order needs is an input
  (`Batches`, `Recipe`).
- Carrier, tracking and notes of a shipment; addresses and contacts; creation
  of customers, who exist from the start.
- The average cost of containers, computed by the functions that Costing models.
- The reorder report and the other read-only reports, the robot and Web
  Connector stubs, OIDC, the audit row of each transaction, configuration, and
  how screens display what they loaded.
- Roles other than the built-in ones, which only the database can define, pages
  opened by typing an address that no link shows, and requests sent with
  permissions that were taken away meanwhile: the server refuses those, and
  `OfferedIsAccepted` claims nothing of them. It leaves out two controls too:
  the Save buttons of an existing item and container are shown to every reader
  of the page and are refused without `inventory:update` (`Ungated`).
- Concurrency inside transactions other than a posting: `StockTxn` shows what
  READ COMMITTED does to one; approvals, completions, packing and payments read
  and write in the same way and are atomic here.

## Plan

1. StockTxn: several buckets and lines (lock order and deadlock), then the
   status checks of approvals, completions and payments, statement by statement.
2. Proofs: what a posting does to a line under READ COMMITTED, once the lock
   order is modelled.
3. Alerts and reassignment with several movable jobs in the scheduler run; item
   specs with a measured value and its bounds.
4. A larger accounts instance with three orders of one customer.
