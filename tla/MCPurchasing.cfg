SPECIFICATION PurchasingSpec
CONSTANTS
  raw = raw
  drum = drum
  NumLots = 2
  NumLocs = 2
  Building <- MCBuilding
  CodeRank <- MCCodeRank
  NewFlags <- MCNewFlags
  Patches <- MCPatches
  Items <- MCItems
  Quantity = {2}
  MaxOnHand <- MCMaxOnHand
  Tests = {t1}
  Suite = {t1}
  NumOrders = 1
  Containers <- MCContainers
  OrderForms <- MCOrderForms
  Receipts <- MCReceipts
  Tolerance = 1
  PoundsPer <- MCPoundsPer
INVARIANTS
  LotsTraceable
  ApprovedPassed
  ReceiptsMatchStock
  ReceivingCompletes
