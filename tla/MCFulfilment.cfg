SPECIFICATION FulfilmentSpec
CONSTANTS
  fg = fg
  raw = raw
  drum = drum
  ann = ann
  NumLots = 2
  NumLocs = 0
  Building <- MCBuilding
  CodeRank <- MCCodeRank
  NewFlags <- MCNewFlags
  Patches <- MCPatches
  Items <- MCItems
  Quantity = {1}
  MaxOnHand <- MCMaxOnHand
  Tests = {}
  Suite = {}
  Containers <- MCContainers
  Counts = {1}
  MaxJars = 1
  NumSalesOrders = 2
  Customers = {ann}
  Products <- MCProducts
  UnitCost <- MCUnitCost
  Step = 1
  Profiles <- MCProfiles
  Carts <- MCCarts
  Edits = {}
  Imports = {}
  Amounts = {}
  Numbers = {}
  Grants = {{}}
  Days = {0}
  FirstNumber = 1
  LeadDays = 3
  AgingSteps <- MCAgingSteps
  Jobs = {1, 2}
  RushDays = 3
  ByHand = {}
  FloorJobs = {1, 2}
  Movable = {1}
  Formulated <- MCFormulated
  Recipe <- MCRecipe
  Shipments <- MCShipments
  Tolerance = 0
INVARIANTS
  ShipmentsTraced
  OffersHonoured
PROPERTIES
  ReservedStockKept
