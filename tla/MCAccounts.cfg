SPECIFICATION AccountsSpec
CONSTANTS
  fg = fg
  drum = drum
  ann = ann
  bob = bob
  Containers <- MCContainers
  Counts = {0}
  MaxJars = 1
  NumSalesOrders = 2
  Customers = {ann, bob}
  Products <- MCProducts
  UnitCost <- MCUnitCost
  Step = 4
  Profiles <- MCProfiles
  Carts <- MCCarts
  Edits <- MCEdits
  Imports <- MCImports
  Amounts = {8, 16}
  Numbers = {2}
  Grants = {{}}
  Days <- MCDays
  FirstNumber = 1
  LeadDays = 3
  AgingSteps <- MCAgingSteps
  Margin <- MCMargin
  Cent = 8
INVARIANTS
  RefundsWithinPayments
  FormForesees
  FilledInAmountsSettle
PROPERTIES
  NewOrdersWithinCredit
  AccountsSettle
