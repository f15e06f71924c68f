------------------------------ MODULE OrderPages ------------------------------
(***************************************************************************)
(* The screens of fulfilment: the order page (SalesOrderDetailView.vue),   *)
(* the shipping page (ShippingView.vue), the work order page               *)
(* (ProductionDetailView.vue) and the feasibility that the scheduler's     *)
(* board shows (scheduler.service.ts, toDto).  Each computes what it       *)
(* offers, here from the present state of the server.                      *)
(***************************************************************************)
EXTENDS Fulfilment

Remaining(line) == line.ordered - line.shipped

CanShip(o) == orders[o].status \in {"OPEN", "PARTIAL"}

CanCancel(o) ==
  /\ orders[o].status \notin {"NONE", "CANCELLED", "SHIPPED"}
  /\ Unshipped(orders[o])

CanPack(o) ==
  /\ orders[o].status \notin {"NONE", "CANCELLED"}
  /\ ~ orders[o].packed
  /\ \E n \in DOMAIN orders[o].lines : orders[o].lines[n].pack # NoPack

CanRequest(o) ==
  /\ orders[o].status \notin {"NONE", "CANCELLED"}
  /\ orders[o].paidAt \/ customers[orders[o].customer].net > 0

Unfinished(w) == jobs[w].status \notin {"COMPLETED", "CANCELLED"}

\* The work order shown for a line is an unfinished one if there is any.
ProductionPending(o, n) == \E w \in JobsOfLine(o, n) : Unfinished(w)

\* The work orders that a job table reserves for a line.
ReservedIn(table, o, n) ==
  {w \in Jobs : table[w].status # "NONE" /\ table[w].order = o /\ table[w].line = n}

\* "No work order is reserved for this line".
NeedsBatch(table, o, n) ==
  /\ ReservedIn(table, o, n) = {}
  /\ orders[o].lines[n].subject \notin Containers
  /\ Remaining(orders[o].lines[n]) > 0

(***************************************************************************)
(* The shipping page lists the orders that are OPEN or PARTIAL and shows   *)
(* for each item what is in INV, whoever it is reserved for.               *)
(***************************************************************************)
OnHand(i) == book[i].onHand["INV"]

EntriesLeft(o) == {n \in DOMAIN orders[o].lines : Remaining(orders[o].lines[n]) > 0}

\* Everything that remains, filled in line by line.
AllRemaining(o) ==
  LET lines == orders[o].lines
      nth(k) == CHOOSE n \in EntriesLeft(o) :
                  Cardinality({m \in EntriesLeft(o) : m < n}) = k - 1
  IN  [k \in 1..Cardinality(EntriesLeft(o)) |->
         [line |-> nth(k), qty |-> Remaining(lines[nth(k)])]]

\* No line of the order is marked short or pending; container stock is not shown.
ShowsReady(o) ==
  \A n \in EntriesLeft(o) :
    LET line == orders[o].lines[n]
    IN  line.subject \in Items =>
          ~ ProductionPending(o, n) /\ Remaining(line) <= OnHand(line.subject)

-----------------------------------------------------------------------------
(***************************************************************************)
(* The board: a job is blocked by a material or by the containers of its   *)
(* line.                                                                   *)
(***************************************************************************)
MaterialShort(w, i) == OnHand(i) < Need(w, i)

ContainerShort(w) ==
  /\ jobs[w].line # 0
  /\ LET line == orders[jobs[w].order].lines[jobs[w].line]
     IN  line.pack # NoPack /\ line.packs > 0 /\ jars[line.pack].qty < line.packs

Blocked(w) == (\E i \in Parts(w) : MaterialShort(w, i)) \/ ContainerShort(w)

-----------------------------------------------------------------------------
(***************************************************************************)
(* The work order page: the orders that a job can be moved to, the lines   *)
(* of an order that ask for its product, and the button that confirms.     *)
(***************************************************************************)
ReassignTargets(w) ==
  {o \in SalesOrders : orders[o].status \notin {"NONE", "CANCELLED"}} \ {jobs[w].order}

MatchingLines(w, o) == {n \in DOMAIN orders[o].lines : orders[o].lines[n].subject = jobs[w].item}

CanReassign(w, o, n) ==
  /\ jobs[w].status # "CANCELLED"
  /\ o \in ReassignTargets(w)
  /\ n \in MatchingLines(w, o)

-----------------------------------------------------------------------------
(***************************************************************************)
(* What the page cannot see of the stock of an order's items: lots that    *)
(* are reserved for another order, and stock of no lot beside lots.        *)
(***************************************************************************)
NothingWithheld(o) ==
  \A n \in EntriesLeft(o) :
    LET i == orders[o].lines[n].subject
    IN  i \in Items /\ Lotted(book[i]) # {} => PermittedQty(book[i], o) >= OnHand(i)

OneLinePerItem(o) ==
  \A m, n \in EntriesLeft(o) :
    orders[o].lines[m].subject = orders[o].lines[n].subject => m = n

ShipsWhole(o) ==
  /\ ShipFits(o, AllRemaining(o))
  /\ SalesStatus(ShippedLines(orders[o].lines, AllRemaining(o))) = "SHIPPED"

\* Lines that would get their work order: formulated, and with a number that is free.
BatchExpected(o) ==
  /\ \E n \in Wanted(o) : NeedsBatch(jobs, o, n)
  /\ \A n \in Wanted(o), w \in Created : jobs[w].serial # Serial(o, n)
  /\ Cardinality(FreeJobs(Cardinality(Wanted(o)))) = Cardinality(Wanted(o))

\* The request is accepted, no line that a formula makes is left out, and none gets two.
RequestsAll(o) ==
  /\ RequestFits(o)
  /\ \A n \in DOMAIN orders[o].lines : orders[o].lines[n].subject \in Formulated =>
       /\ ReservedIn(AfterRequest(o), o, n) # {}
       /\ n \in Wanted(o) => \E w \in Jobs : ReservedIn(AfterRequest(o), o, n) = {w}

\* "The original sales order line now needs a new batch."
Uncovers(w, o, n) ==
  /\ JobsOfLine(o, n) = {w}
  /\ Remaining(orders[o].lines[n]) > 0

Reassigns(w, o, n) ==
  /\ ReassignFits(w, o, n)
  /\ \A old \in SalesOrders : \A m \in DOMAIN orders[old].lines :
       Uncovers(w, old, m) => NeedsBatch(AfterReassign(w, o, n), old, m)

(***************************************************************************)
(* An order stays on the shipping page exactly as long as more than the    *)
(* tolerance of some line is to be shipped.  What is shown as ready and    *)
(* withheld for nobody ships in one request, every line together, and      *)
(* completes the order ("Ship the ready lines now"); a line shown as       *)
(* "Needs batch" gets its work order by the button; what can be cancelled  *)
(* or packed by the page can be by the server.  An unblocked job can be    *)
(* staged once it is on the floor (board 43-91), and a job moved to        *)
(* another order leaves its line marked "Needs batch" (work order page).   *)
(***************************************************************************)
OffersHonoured ==
  /\ \A o \in SalesOrders :
       /\ CanShip(o) <=> /\ orders[o].status \notin {"NONE", "CANCELLED"}
                         /\ \E n \in EntriesLeft(o) : Remaining(orders[o].lines[n]) > Tolerance
       /\ CanCancel(o) => OrderCancellable(o)
       /\ CanPack(o) /\ Holds(PacksOf(orders[o].lines)) => PackFits(o)
       /\ CanRequest(o) /\ BatchExpected(o) => RequestsAll(o)
       /\ /\ CanShip(o) /\ ShowsReady(o) /\ NothingWithheld(o) /\ OneLinePerItem(o)
          /\ Holds(ContainersOf(o, AllRemaining(o)))
          => ShipsWhole(o)
  /\ \A w \in InStatus("PLANNED") : ~ Blocked(w) => MaterialCovered(w)
  /\ \A w \in Created, o \in SalesOrders : \A n \in DOMAIN orders[o].lines :
       CanReassign(w, o, n) => Reassigns(w, o, n)
=============================================================================
