SPECIFICATION ProductionSpec
CONSTANTS
  raw = raw
  base = base
  fg = fg
  NumLots = 2
  NumLocs = 0
  Building <- MCBuilding
  CodeRank <- MCCodeRank
  NewFlags <- MCNewFlags
  Patches <- MCPatches
  Items <- MCItems
  Quantity = {1}
  MaxOnHand <- MCMaxOnHand
  Tests = {}
  Suite = {}
  NumWorkOrders = 3
  Batches <- MCBatches
  Free = {}
INVARIANTS
  LotsTraceable
  OutputMatchesOrder
PROPERTIES
  PouredConsumptionStands
  OldestLotFirst
  WipFollowsOrders
