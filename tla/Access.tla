-------------------------------- MODULE Access --------------------------------
(***************************************************************************)
(* Permissions: what the roles hold (packages/shared-types/permissions.ts, *)
(* written to the database by prisma/seed.ts), what every endpoint         *)
(* requires (the controllers), and what the web client shows: its routes   *)
(* (router.ts), the requests that a page needs to load, the requests its   *)
(* controls send and the pages it links to (App.vue, views/).              *)
(*                                                                         *)
(* The server reads the permissions of the user for every request, the     *)
(* client holds those of the time it was loaded.  An endpoint is named     *)
(* after the function of lib/api.ts that calls it; those that only other   *)
(* clients call are left out.  A page is taken with every control that     *)
(* some state of its data lets it show.                                    *)
(***************************************************************************)
EXTENDS TLC

CONSTANT Grants   \* bound: the sets of roles that the user is given

VARIABLES
  userRoles,    \* the roles of the user, rows of the database
  session,      \* whether the server knows the session
  held,         \* the permissions in the store of the client, or NoUser
  page,         \* the route that is shown
  typed         \* whether it was reached by its address, not by a link

accessVars == <<userRoles, session, held, page, typed>>

NoUser == {"no user"}

-----------------------------------------------------------------------------
Reads ==
  {"inventory:read", "location:read", "cycle_count:read", "formula:read", "vendor:read",
   "po:read", "customer:read", "so:read", "production:read", "qc:read", "qb:sync:view",
   "business_variables:read"}

Edits ==
  {"inventory:create", "inventory:update", "formula:create", "formula:update", "stock:adjust",
   "stock:move", "stock:scrap", "cycle_count:manage", "location:manage", "vendor:manage",
   "vendor:return", "po:create", "po:update", "po:receive", "customer:manage", "so:create",
   "so:update", "so:ship", "so:credit-override", "so:request-production", "so:record-payment",
   "so:issue-refund", "production:create", "production:execute", "production:schedule",
   "qc:review", "qc:spec:manage"}

Reserved == {"formula:delete", "so:price-override", "qb:sync:run", "business_variables:manage"}

HeldBy(role) ==
  CASE role = "admin" -> Reads \cup Edits \cup Reserved
    [] role = "inventory_clerk" -> Reads \cup Edits
    [] role = "viewer" -> Reads

ASSUME AccessAssumption ==
  \A roles \in Grants : roles # {} /\ roles \subseteq {"admin", "inventory_clerk", "viewer"}

-----------------------------------------------------------------------------
(***************************************************************************)
(* The endpoints, a definition for a controller: all the calls require the *)
(* permission.                                                             *)
(***************************************************************************)
Under(permission, calls) == [c \in calls |-> permission]

InventoryController ==
  Under("inventory:read", {"listInventory", "valuation", "getInventory"})
  @@ Under("inventory:create", {"createInventory", "createOpeningStock"})
  @@ Under("inventory:update", {"updateInventory"})

StockController ==
  Under("inventory:read", {"stockPositions", "itemPosition", "itemLedger", "lotLedger", "itemScraps"})
  @@ Under("location:read", {"itemLocations", "itemLocationMoves"})
  @@ Under("stock:adjust", {"adjustStock"})
  @@ Under("stock:move", {"moveStock"})
  @@ Under("stock:scrap", {"scrapStock"})
  @@ Under("production:execute", {"packOff"})

RegulatoryController ==
  Under("inventory:read", {"fgRegulatorySummary", "getFgRegulatory"})
  @@ Under("inventory:update", {"refreshFgRegulatory"})

CostController == Under("so:read", {"getItemCost"})

FormulaController ==
  Under("formula:read", {"listFormulas", "listFormulasForItem", "getFormula", "formulaRequirements"})
  @@ Under("formula:create", {"createFormula"})
  @@ Under("formula:update", {"updateFormula"})
  @@ Under("formula:delete", {"deleteFormula"})

LocationController ==
  Under("location:read", {"listLocations", "locationContents"})
  @@ Under("location:manage", {"createLocation", "updateLocation"})

CycleCountController ==
  Under("cycle_count:read", {"listCycleCounts", "getCycleCount"})
  @@ Under("cycle_count:manage",
           {"createCycleCount", "recordCycleCounts", "postCycleCount", "cancelCycleCount"})

ContainerController ==
  Under("inventory:read", {"listContainers", "getContainer", "containerTransactions"})
  @@ Under("inventory:create", {"createContainer"})
  @@ Under("inventory:update", {"updateContainer"})
  @@ Under("stock:adjust", {"adjustContainer"})
  @@ Under("stock:scrap", {"scrapContainer"})

QualityController ==
  Under("qc:read", {"listQualityLots", "getQualityLot", "listVendorReturns", "getItemQualitySpec"})
  @@ Under("qc:review", {"recordQualityResults", "approveQualityLot", "rejectQualityLot"})
  @@ Under("vendor:return", {"returnLotToVendor"})
  @@ Under("qc:spec:manage", {"setItemQualitySpec"})

VendorController ==
  Under("vendor:read", {"listVendors", "vendorSupplySummary", "getVendor"})
  @@ Under("vendor:manage", {"createVendor", "updateVendor"})

PurchaseOrderController ==
  Under("po:read", {"listPurchaseOrders", "getPurchaseOrder"})
  @@ Under("po:create", {"createPurchaseOrder"})
  @@ Under("po:update", {"cancelPurchaseOrder"})
  @@ Under("po:receive", {"receivePurchaseOrder"})

\* Mutation of PurchasingAlertController: shortages are for those who can act on them.
AlertsForBuyers ==
  Under("po:update", {"purchasingReorder", "listPurchasingAlerts", "resolvePurchasingAlert"})
  @@ Under("production:schedule", {"createPurchasingAlert"})

PurchasingAlertController ==
  Under("po:read", {"purchasingReorder", "listPurchasingAlerts"})
  @@ Under("production:schedule", {"createPurchasingAlert"})
  @@ Under("po:update", {"resolvePurchasingAlert"})

CustomerController ==
  Under("customer:read", {"listCustomers", "getCustomer"})
  @@ Under("customer:manage", {"createCustomer", "updateCustomer"})

ArController == Under("so:read", {"listAr", "customerAr"})

SalesOrderController ==
  Under("so:read", {"listSalesOrders", "pendingShipments", "customerPriceHistory",
                    "getSalesOrder", "salesOrderHistory"})
  @@ Under("so:create", {"createSalesOrder", "importSalesOrders"})
  @@ Under("so:update", {"updateSalesOrder", "cancelSalesOrder"})
  @@ Under("so:record-payment", {"recordSalesOrderPayment"})
  @@ Under("so:issue-refund", {"issueSalesOrderRefund"})
  @@ Under("so:request-production", {"requestProduction"})
  @@ Under("so:ship", {"packSalesOrder", "shipSalesOrder", "updateShipment"})

ProductionController ==
  Under("production:read", {"listProductionWorkOrders", "getProductionWorkOrder"})
  @@ Under("production:create", {"createProductionWorkOrder"})
  @@ Under("production:execute",
           {"stageProductionWorkOrder", "completeProductionWorkOrder", "cancelProductionWorkOrder"})
  @@ Under("production:schedule", {"reassignProductionWorkOrder"})

\* The permission is stated once, for the class.
SchedulerController ==
  Under("production:schedule",
        {"schedulerBoard", "schedulerReorder", "enqueueWorkOrder", "queueByRules",
         "repositionWorkOrder", "releaseWorkOrder", "releaseAllWorkOrders"})

BusinessVariablesController ==
  Under("business_variables:read", {"getBusinessVariables"})
  @@ Under("business_variables:manage", {"updateBusinessVariables"})

CompanyHolidaysController ==
  Under("business_variables:read", {"getCompanyHolidays"})
  @@ Under("business_variables:manage",
           {"createCompanyHoliday", "updateCompanyHoliday", "deleteCompanyHoliday"})

JobsController == Under("qb:sync:run", {"qbSync"})

Required ==
  InventoryController @@ StockController @@ RegulatoryController @@ CostController
  @@ FormulaController @@ LocationController @@ CycleCountController @@ ContainerController
  @@ QualityController @@ VendorController @@ PurchaseOrderController
  @@ PurchasingAlertController @@ CustomerController @@ ArController @@ SalesOrderController
  @@ ProductionController @@ SchedulerController @@ BusinessVariablesController
  @@ CompanyHolidaysController @@ JobsController

-----------------------------------------------------------------------------
(***************************************************************************)
(* AuthGuard and PermissionsGuard, for every request.                      *)
(***************************************************************************)
Effective == IF session THEN UNION {HeldBy(role) : role \in userRoles} ELSE NoUser

Permitted(call) == Required[call] \in Effective

-----------------------------------------------------------------------------
(***************************************************************************)
(* The pages: the requests that load one, those that its controls send,    *)
(* and its links.  A load that is refused leaves the page, or the part of  *)
(* it that waits for the answer, with nothing but an error: requests that  *)
(* are awaited together fail together.  Loads whose errors the page passes *)
(* over, and links that the header of every page has too, are left out.    *)
(***************************************************************************)
View(loads, offers, links) == [loads |-> loads, offers |-> offers, links |-> links]

If(P, permission, S) == IF permission \in P THEN S ELSE {}

InventoryList(P) ==
  View({"listInventory", "stockPositions", "valuation", "listContainers"},
       If(P, "qb:sync:run", {"qbSync"}) \cup If(P, "production:execute", {"packOff"}),
       If(P, "inventory:update", {"inventory-edit"})
       \cup If(P, "inventory:read", {"container-detail"})
       \cup (IF {"inventory:create", "stock:adjust"} \subseteq P THEN {"inventory-opening"} ELSE {}))

RawMaterials(P) ==
  View({"listInventory", "stockPositions"}, {},
       If(P, "inventory:create", {"inventory-new"}) \cup If(P, "inventory:read", {"inventory-edit"}))

FinishedGoods(P) ==
  View({"listInventory", "fgRegulatorySummary"}, {},
       If(P, "inventory:create", {"inventory-new"}) \cup If(P, "inventory:read", {"inventory-edit"}))

\* Whoever may create or update formulas is shown the controls of both.
ForRecipes(P, S) == IF P \cap {"formula:create", "formula:update"} # {} THEN S ELSE {}

\* The form of a new item, with its recipe.
ItemForm(P) ==
  View({}, {"createInventory"} \cup ForRecipes(P, {"createFormula"}), {"inventory-edit"})

OpeningStock(P) ==
  View({}, {"createOpeningStock", "createContainer"}, {"inventory-edit", "container-detail"})

ItemLoads(P) ==
  {"getInventory", "itemPosition", "itemLedger", "itemLocations", "listLocations",
   "itemLocationMoves", "itemScraps", "getItemQualitySpec", "getFgRegulatory"}
  \cup If(P, "formula:read", {"listInventory", "listFormulasForItem", "getFormula"})

ItemStockOffers(P) ==
  If(P, "stock:adjust", {"adjustStock"}) \cup If(P, "stock:move", {"moveStock"})
  \cup If(P, "stock:scrap", {"scrapStock"})

ItemRecipeOffers(P) ==
  If(P, "qc:spec:manage", {"setItemQualitySpec"})
  \cup If(P, "formula:read", {"formulaRequirements"})
  \cup ForRecipes(P, {"createFormula", "updateFormula"})
  \cup If(P, "formula:delete", {"deleteFormula"})
  \cup If(P, "inventory:update", {"refreshFgRegulatory"})

\* Every reader is shown the Save button of an item, as of a container.
ItemPage(P) ==
  View(ItemLoads(P), {"updateInventory"} \cup ItemStockOffers(P) \cup ItemRecipeOffers(P), {})

Locations(P) ==
  View({"listLocations", "locationContents"},
       If(P, "location:manage", {"createLocation", "updateLocation"}), {"inventory-edit"})

CycleCountList(P) ==
  View({"listCycleCounts"}, {},
       {"cycle-count-detail"} \cup If(P, "cycle_count:manage", {"cycle-count-new"}))

CycleCountForm(P) ==
  View({"listLocations", "listInventory"}, {"createCycleCount"}, {"cycle-count-detail"})

CycleCountDetail(P) ==
  View({"getCycleCount"} \cup If(P, "cycle_count:manage", {"listInventory", "listLocations"}),
       If(P, "cycle_count:manage", {"recordCycleCounts", "postCycleCount", "cancelCycleCount"}), {})

QualityQueue(P) == View({"listQualityLots"}, {}, {"quality-lot"})

QualityLot(P) ==
  View({"getQualityLot", "getItemQualitySpec", "lotLedger"},
       If(P, "qc:review", {"recordQualityResults", "approveQualityLot", "rejectQualityLot"})
       \cup If(P, "vendor:return", {"returnLotToVendor"}), {})

SchedulerBoard(P) ==
  View({"schedulerBoard", "schedulerReorder"},
       {"enqueueWorkOrder", "queueByRules", "repositionWorkOrder", "releaseWorkOrder",
        "releaseAllWorkOrders", "createPurchasingAlert"},
       {"production-new"})

ProductionList(P) ==
  View({"listProductionWorkOrders"}, {},
       {"production-detail"} \cup If(P, "production:create", {"production-new"}))

ProductionQueue(P) == View({"listProductionWorkOrders"}, {}, {"production-detail"})

ProductionForm(P) ==
  View({"listInventory", "listFormulas"}, {"createProductionWorkOrder"}, {"production-detail"})

ProductionDetail(P) ==
  View({"getProductionWorkOrder"},
       If(P, "production:execute",
          {"stageProductionWorkOrder", "completeProductionWorkOrder", "cancelProductionWorkOrder"})
       \cup If(P, "production:schedule",
               {"listSalesOrders", "getSalesOrder", "reassignProductionWorkOrder"}), {})

VendorList(P) ==
  View({"listVendors", "vendorSupplySummary"}, {},
       {"vendor-detail"} \cup If(P, "vendor:manage", {"vendor-new"}))

VendorForm(P) == View({}, If(P, "vendor:manage", {"createVendor"}), {})

VendorPage(P) == View({"getVendor"}, If(P, "vendor:manage", {"updateVendor"}), {})

PurchaseOrderList(P) ==
  View({"listPurchaseOrders", "listPurchasingAlerts", "purchasingReorder"},
       If(P, "po:update", {"resolvePurchasingAlert"}),
       {"purchase-order-detail"} \cup If(P, "po:create", {"purchase-order-new"}))

PurchaseOrderForm(P) ==
  View({"listVendors", "listInventory", "listContainers", "vendorSupplySummary"},
       {"createPurchaseOrder"}, {"purchase-order-detail"})

PurchaseOrderDetail(P) ==
  View({"getPurchaseOrder", "listLocations"},
       If(P, "po:receive", {"receivePurchaseOrder"}) \cup If(P, "po:update", {"cancelPurchaseOrder"}),
       {})

CustomerList(P) ==
  View({"listCustomers"}, {}, {"customer-detail"} \cup If(P, "customer:manage", {"customer-new"}))

CustomerForm(P) == View({}, If(P, "customer:manage", {"createCustomer"}), {})

CustomerPage(P) == View({"getCustomer"}, If(P, "customer:manage", {"updateCustomer"}), {})

SalesOrderList(P) ==
  View({"listSalesOrders"}, {},
       {"sales-order-detail"} \cup If(P, "so:create", {"sales-order-new", "sales-order-import"}))

SalesOrderForm(P) ==
  View({"listCustomers", "listInventory", "listContainers", "getBusinessVariables"},
       {"createSalesOrder"}, {"sales-order-detail"})

ImportSalesOrders(P) == View({}, {"importSalesOrders"}, {"sales-order-detail"})

SalesOrderOffers(P) ==
  If(P, "so:ship", {"packSalesOrder", "shipSalesOrder", "updateShipment"})
  \cup If(P, "so:update", {"updateSalesOrder", "cancelSalesOrder"})
  \cup If(P, "so:record-payment", {"recordSalesOrderPayment"})
  \cup If(P, "so:issue-refund", {"issueSalesOrderRefund"})
  \cup If(P, "so:request-production", {"requestProduction"})

SalesOrderDetail(P) == View({"getSalesOrder"}, SalesOrderOffers(P), {"production-detail"})

Receivables(P) == View({"listAr"}, {}, {"accounts-receivable-detail"})

ReceivablesDetail(P) == View({"customerAr"}, {}, {"sales-order-detail"})

Shipping(P) ==
  View({"pendingShipments", "stockPositions"}, If(P, "so:ship", {"shipSalesOrder"}),
       {"sales-order-detail"})

ContainerList(P) ==
  View({"listContainers"}, {},
       {"container-detail"} \cup If(P, "inventory:create", {"container-new"}))

ContainerForm(P) == View({}, {"createContainer"}, {})

ContainerPage(P) ==
  View({"getContainer", "containerTransactions"},
       {"updateContainer"} \cup If(P, "stock:adjust", {"adjustContainer"})
       \cup If(P, "stock:scrap", {"scrapContainer"}), {})

BusinessVariables(P) ==
  View({"getBusinessVariables", "getCompanyHolidays"},
       If(P, "business_variables:manage",
          {"updateBusinessVariables", "createCompanyHoliday", "updateCompanyHoliday",
           "deleteCompanyHoliday"}), {})

-----------------------------------------------------------------------------
StockRoutes(P) ==
  "login" :> View({}, {}, {})
  @@ "inventory" :> InventoryList(P) @@ "raw-materials" :> RawMaterials(P)
  @@ "finished-goods" :> FinishedGoods(P) @@ "inventory-new" :> ItemForm(P)
  @@ "inventory-opening" :> OpeningStock(P) @@ "inventory-edit" :> ItemPage(P)
  @@ "locations" :> Locations(P) @@ "cycle-counts" :> CycleCountList(P)
  @@ "cycle-count-new" :> CycleCountForm(P) @@ "cycle-count-detail" :> CycleCountDetail(P)
  @@ "quality" :> QualityQueue(P) @@ "quality-lot" :> QualityLot(P)
  @@ "scheduler" :> SchedulerBoard(P) @@ "production" :> ProductionList(P)
  @@ "production-queue" :> ProductionQueue(P) @@ "production-new" :> ProductionForm(P)
  @@ "production-detail" :> ProductionDetail(P)

TradeRoutes(P) ==
  "vendors" :> VendorList(P) @@ "vendor-new" :> VendorForm(P) @@ "vendor-detail" :> VendorPage(P)
  @@ "purchase-orders" :> PurchaseOrderList(P) @@ "purchase-order-new" :> PurchaseOrderForm(P)
  @@ "purchase-order-detail" :> PurchaseOrderDetail(P)
  @@ "customers" :> CustomerList(P) @@ "customer-new" :> CustomerForm(P)
  @@ "customer-detail" :> CustomerPage(P)
  @@ "sales-orders" :> SalesOrderList(P) @@ "accounts-receivable" :> Receivables(P)
  @@ "accounts-receivable-detail" :> ReceivablesDetail(P) @@ "shipping" :> Shipping(P)
  @@ "containers" :> ContainerList(P) @@ "business-variables" :> BusinessVariables(P)
  @@ "container-new" :> ContainerForm(P) @@ "container-detail" :> ContainerPage(P)
  @@ "sales-order-new" :> SalesOrderForm(P) @@ "sales-order-import" :> ImportSalesOrders(P)
  @@ "sales-order-detail" :> SalesOrderDetail(P)

Routes(P) == StockRoutes(P) @@ TradeRoutes(P)

\* The links in the header of every page.
Header(P) ==
  {"inventory", "raw-materials", "finished-goods", "locations", "cycle-counts", "quality",
   "production", "production-queue", "vendors", "purchase-orders", "customers", "sales-orders",
   "accounts-receivable", "shipping", "containers"}
  \cup If(P, "production:schedule", {"scheduler"})
  \cup If(P, "business_variables:read", {"business-variables"})

-----------------------------------------------------------------------------
AccessInit ==
  /\ userRoles \in Grants
  /\ session = FALSE /\ held = NoUser
  /\ page = "login" /\ typed = FALSE

\* beforeEach of the router, for the permissions P in the store.
Guarded(target, P) ==
  CASE target # "login" /\ P = NoUser -> "login"
    [] target = "login" /\ P # NoUser -> "inventory"
    [] OTHER -> target

\* The sign-in page, which then opens the inventory.
SignIn ==
  /\ page = "login" /\ held = NoUser
  /\ session' = TRUE /\ UNCHANGED userRoles
  /\ held' = Effective'
  /\ page' = "inventory" /\ typed' = FALSE

SignOut ==
  /\ held # NoUser
  /\ session' = FALSE /\ held' = NoUser
  /\ page' = "login" /\ typed' = FALSE
  /\ UNCHANGED userRoles

\* A link of the page, or of the header.
Follow(target) ==
  /\ held # NoUser
  /\ page' = Guarded(target, held)
  /\ \/ target \in Header(held) /\ typed' = FALSE
     \/ target \in Routes(held)[page].links \ Header(held) /\ typed' = typed
  /\ UNCHANGED <<userRoles, session, held>>

\* The client is loaded at an address, or again where it is: it asks who the user is.
Load(target) ==
  /\ held' = Effective
  /\ page' = Guarded(target, held')
  /\ typed' = (page' = target)
  /\ UNCHANGED <<userRoles, session>>

\* The roles of a user are edited in the database; no endpoint does it.
Regrant(roles) ==
  /\ roles # userRoles
  /\ userRoles' = roles
  /\ UNCHANGED <<session, held, page, typed>>

\* The session expires, or the user is deactivated.
Expire ==
  /\ session
  /\ session' = FALSE
  /\ UNCHANGED <<userRoles, held, page, typed>>

AccessNext ==
  \/ SignIn \/ SignOut \/ Expire
  \/ \E target \in DOMAIN Routes({}) : Follow(target) \/ Load(target)
  \/ \E roles \in Grants : Regrant(roles)

-----------------------------------------------------------------------------
\* The controls that every reader of a page is shown, whatever may come of them.
Ungated == {"updateInventory", "updateContainer"}

(***************************************************************************)
(* While the client's permissions are those of the user, a page that was   *)
(* reached through links loads, and all that it offers is accepted but the *)
(* Save buttons that are not gated: whichever built-in roles are held, no  *)
(* link leads to a page that a single request leaves unusable, and no      *)
(* control, shown by one permission, sends a request that needs another.   *)
(***************************************************************************)
OfferedIsAccepted ==
  held # NoUser /\ held = Effective /\ ~ typed =>
    LET shown == Routes(held)[page]
    IN  /\ \A call \in shown.loads \cup (shown.offers \ Ungated) : Permitted(call)
        /\ \A target \in shown.links \cup Header(held) :
             \A call \in Routes(held)[target].loads : Permitted(call)
=============================================================================
