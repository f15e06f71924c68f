------------------------------ MODULE Suppliers ------------------------------
(***************************************************************************)
(* Vendors (apps/api/src/purchasing/vendor.service.ts) and the form on     *)
(* which a purchase order is drawn up (PurchaseOrderFormView.vue).         *)
(*                                                                         *)
(* The form works on what it loaded when it was opened: the active         *)
(* vendors, what each is known to supply, and the items.  A line buys an   *)
(* item, a new item that the order creates, or a container.                *)
(***************************************************************************)
EXTENDS Integers, Sequences, FiniteSets

CONSTANTS
  Vendors,      \* numbered in the order of their names
  Skus,         \* the items that exist or may be created with an order
  Existing,     \* the items that exist at the start
  Packaging,    \* the containers
  Configs,      \* the configurations that a vendor may be given
  PoNumbers,    \* the numbers that may be typed on the form
  Edited,       \* bound: the vendors whose configuration is edited
  MaxLines,     \* bound: the lines of an order
  MaxPlaced     \* bound: the orders that are placed

Both == {"ITEM", "CONTAINER"}

\* What a vendor is said to supply, maybe nothing, and whether it is active.
VendorConfigs == [kinds : SUBSET Both, status : {"ACTIVE", "INACTIVE"}]

NotCreated == [kinds |-> {}, status |-> "ABSENT"]

Blank == [sku |-> "", new |-> FALSE]
NoVendor == 0

\* kind, and the reference: an item, a new item or a container.
DraftLines == [kind : Both, ref : [sku : Skus \cup Packaging \cup {""}, new : BOOLEAN]]

ASSUME SuppliersAssumption ==
  /\ Vendors \subseteq Nat \ {0}
  /\ Existing \subseteq Skus /\ Skus \cap Packaging = {} /\ "" \notin Skus \cup Packaging
  /\ Configs \subseteq VendorConfigs /\ Edited \subseteq Vendors
  /\ MaxLines \in Nat \ {0} /\ MaxPlaced \in Nat

VARIABLES
  vendors,      \* vendors[v]: the configuration of vendor v
  stocked,      \* the items that exist
  placed,       \* the orders: number, vendor, what their lines refer to, and whether cancelled
  known,        \* what the form loaded
  draft         \* the form, Closed or with its vendor and lines

supplierVars == <<vendors, stocked, placed, known, draft>>

Closed == [open |-> FALSE, vendor |-> NoVendor, lines |-> <<>>]

\* supplySummary: what each vendor was asked for in those of the orders that stand.
SupplySummary(orders) ==
  [v \in Vendors |-> UNION {orders[n].refs : n \in {k \in DOMAIN orders :
                              orders[k].vendor = v /\ orders[k].status # "CANCELLED"}}]

Snapshot == [vendors |-> vendors, stocked |-> stocked, supplied |-> SupplySummary(placed)]

SuppliersInit ==
  /\ vendors = [v \in Vendors |-> NotCreated]
  /\ stocked = Existing
  /\ placed = <<>>
  /\ known = Snapshot
  /\ draft = Closed

-----------------------------------------------------------------------------
CreateVendor(v, config) ==
  /\ vendors[v] = NotCreated
  /\ vendors' = [vendors EXCEPT ![v] = config]
  /\ UNCHANGED <<stocked, placed, known, draft>>

UpdateVendor(v, config) ==
  /\ vendors[v] # NotCreated
  /\ vendors' = [vendors EXCEPT ![v] = config]
  /\ UNCHANGED <<stocked, placed, known, draft>>

\* A vendor that is said to supply nothing is not configured, and may supply both.
AllowedKinds(v) ==
  IF v = NoVendor \/ known.vendors[v].kinds = {} THEN Both ELSE known.vendors[v].kinds

FirstKind(kinds) == IF "ITEM" \in kinds THEN "ITEM" ELSE "CONTAINER"

NewDraftLine(v) == [kind |-> FirstKind(AllowedKinds(v)), ref |-> Blank]

OpenForm ==
  /\ ~ draft.open
  /\ known' = Snapshot
  /\ draft' = [open |-> TRUE, vendor |-> NoVendor, lines |-> <<NewDraftLine(NoVendor)>>]
  /\ UNCHANGED <<vendors, stocked, placed>>

Edit(new) == draft.open /\ draft' = new /\ UNCHANGED <<vendors, stocked, placed, known>>

\* Mutation of FitLine: the reference stays.
FitKind(line, kinds) ==
  IF line.kind \in kinds THEN line ELSE [line EXCEPT !.kind = FirstKind(kinds)]

\* The watcher of the vendor: a line of a kind that it does not supply starts over.
FitLine(line, kinds) ==
  IF line.kind \in kinds THEN line ELSE [kind |-> FirstKind(kinds), ref |-> Blank]

PickVendor(v) ==
  /\ known.vendors[v].status = "ACTIVE"
  /\ Edit([draft EXCEPT !.vendor = v,
             !.lines = [n \in DOMAIN @ |-> FitLine(@[n], AllowedKinds(v))]])

AddDraftLine ==
  /\ Len(draft.lines) < MaxLines
  /\ Edit([draft EXCEPT !.lines = Append(@, NewDraftLine(draft.vendor))])

RemoveDraftLine(n) ==
  Edit([draft EXCEPT !.lines = SubSeq(@, 1, n - 1) \o SubSeq(@, n + 1, Len(@))])

PickKind(n, kind) ==
  /\ kind \in AllowedKinds(draft.vendor) \ {draft.lines[n].kind}
  /\ Edit([draft EXCEPT !.lines[n] = [kind |-> kind, ref |-> Blank]])

\* The second column: the items and "New material", or the containers.
RefsOffered(kind) ==
  IF kind = "ITEM" THEN [sku : known.stocked, new : {FALSE}] \cup [sku : Skus, new : {TRUE}]
  ELSE [sku : Packaging, new : {FALSE}]

PickRef(n, ref) ==
  /\ ref \in RefsOffered(draft.lines[n].kind)
  /\ Edit([draft EXCEPT !.lines[n].ref = ref])

-----------------------------------------------------------------------------
(***************************************************************************)
(* create (purchase-order.service.ts): an item or a container that does    *)
(* not exist, or the SKU of a new item that does, aborts it as a whole,    *)
(* and so does a number that another order has, be it a cancelled one; new *)
(* items are created one after the other.  What the vendor supplies, or    *)
(* whether it is active, is not looked at.                                 *)
(***************************************************************************)
NewLinesOf(lines) == {n \in DOMAIN lines : lines[n].kind = "ITEM" /\ lines[n].ref.new}

Procurable(line) == line.ref.sku \in IF line.kind = "ITEM" THEN stocked ELSE Packaging

NewSkusFree(lines) ==
  \A n \in NewLinesOf(lines) :
    /\ lines[n].ref.sku \in Skus \ stocked
    /\ \A m \in NewLinesOf(lines) : lines[m].ref.sku = lines[n].ref.sku => m = n

NumberFree(number) == \A n \in DOMAIN placed : placed[n].number # number

Orderable(d, number) ==
  /\ d.open /\ d.vendor # NoVendor /\ d.lines # <<>>
  /\ \A n \in DOMAIN d.lines \ NewLinesOf(d.lines) : Procurable(d.lines[n])
  /\ NewSkusFree(d.lines) /\ NumberFree(number)

RefsOf(lines) == {lines[n].ref.sku : n \in DOMAIN lines}

OrderFrom(d, number) ==
  [number |-> number, vendor |-> d.vendor, refs |-> RefsOf(d.lines), status |-> "OPEN"]

SubmitDraft(number) ==
  /\ Orderable(draft, number)
  /\ Len(placed) < MaxPlaced
  /\ stocked' = stocked \cup {draft.lines[n].ref.sku : n \in NewLinesOf(draft.lines)}
  /\ placed' = Append(placed, OrderFrom(draft, number))
  /\ draft' = Closed
  /\ UNCHANGED <<vendors, known>>

CancelPlaced(n) ==
  /\ placed' = [placed EXCEPT ![n].status = "CANCELLED"]
  /\ UNCHANGED <<vendors, stocked, known, draft>>

SuppliersNext ==
  \/ \E config \in Configs : \/ \E v \in Vendors : CreateVendor(v, config)
                             \/ \E v \in Edited : UpdateVendor(v, config)
  \/ OpenForm
  \/ \E v \in Vendors : PickVendor(v)
  \/ AddDraftLine
  \/ \E n \in DOMAIN draft.lines :
       \/ RemoveDraftLine(n)
       \/ \E kind \in Both : PickKind(n, kind)
       \/ \E ref \in RefsOffered(draft.lines[n].kind) : PickRef(n, ref)
  \/ \E number \in PoNumbers : SubmitDraft(number)
  \/ \E n \in DOMAIN placed : CancelPlaced(n)

SuppliersSpec == SuppliersInit /\ [][SuppliersNext]_supplierVars

-----------------------------------------------------------------------------
(***************************************************************************)
(* The list of vendors: those that supplied more of what the lines refer   *)
(* to come first.                                                          *)
(***************************************************************************)
PriorMatches(supplied, v, refs) == Cardinality(supplied[v] \cap refs)

RanksAbove(supplied, u, v, refs) ==
  \/ PriorMatches(supplied, u, refs) > PriorMatches(supplied, v, refs)
  \/ PriorMatches(supplied, u, refs) = PriorMatches(supplied, v, refs) /\ u < v

\* At most three vendors that supplied something before.
SuggestedVendors(supplied, refs) ==
  {v \in Vendors : /\ PriorMatches(supplied, v, refs) > 0
                   /\ Cardinality({u \in Vendors : RanksAbove(supplied, u, v, refs)}) < 3}

Filled ==
  /\ draft.open /\ draft.vendor # NoVendor /\ draft.lines # <<>>
  /\ \A n \in DOMAIN draft.lines : draft.lines[n].ref # Blank

\* Once the order is placed, the vendors suggested for its lines supplied all of them.
Remembered(d, number) ==
  LET supplied == SupplySummary(Append(placed, OrderFrom(d, number)))
      refs     == RefsOf(d.lines)
  IN  /\ \A u \in Vendors : RanksAbove(supplied, u, d.vendor, refs) => refs \subseteq supplied[u]
      /\ \E u \in SuggestedVendors(supplied, refs) : refs \subseteq supplied[u]

(***************************************************************************)
(* However the vendor and the kinds of the lines were changed, every line  *)
(* of the form is of a kind that its vendor was known to supply ("so the   *)
(* form stays consistent", 128-129), and a form with all its fields filled *)
(* (with values that the schema it is parsed with takes) is accepted,      *)
(* unless its number or a SKU that is to be new is taken: both are typed.  *)
(* What it orders is from then on known of its vendor, which is suggested  *)
(* for such lines.                                                         *)
(***************************************************************************)
FilledFormAccepted ==
  /\ \A n \in DOMAIN draft.lines : draft.lines[n].kind \in AllowedKinds(draft.vendor)
  /\ \A number \in PoNumbers :
       Filled /\ NewSkusFree(draft.lines) /\ NumberFree(number)
         => Orderable(draft, number) /\ Remembered(draft, number)
=============================================================================
