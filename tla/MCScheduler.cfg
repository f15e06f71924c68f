SPECIFICATION SchedulerSpec
CONSTANTS
  fg = fg
  base = base
  drum = drum
  ann = ann
  bob = bob
  Containers = {}
  Counts = {}
  MaxJars = 0
  NumSalesOrders = 2
  Customers = {ann, bob}
  Products <- MCProducts
  UnitCost <- MCUnitCost
  Step = 1
  Profiles <- MCProfiles
  Carts <- MCCarts
  Edits <- MCEdits
  Imports <- MCImports
  Amounts = {}
  Numbers = {}
  Grants = {{}}
  Days = {0}
  FirstNumber = 1
  LeadDays = 3
  AgingSteps <- MCAgingSteps
  Jobs = {1, 2, 3}
  RushDays = 3
  ByHand <- MCByHand
  FloorJobs = {}
  Movable = {}
  Formulated <- MCProducts
INVARIANTS
  QueueUnambiguous
  JobsProduceTheirLine
PROPERTIES
  QueueOrderStable
  SuggestedKeepsRules
  CardsLand
