SPECIFICATION CountSpec
CONSTANTS
  NumLots = 0
  NumLocs = 3
  Building <- MCBuilding
  CodeRank <- MCCodeRank
  NewFlags <- MCNewFlags
  Patches <- MCPatches
  Items = {i1}
  Quantity = {1, 2}
  MaxOnHand <- MCMaxOnHand
  CycleCountIds = {1}
  Scopes <- MCScopes
  Sheets <- MCSheets
INVARIANTS
  LocationsWithinStock
  OneFlagPerBuilding
  ListedCanBeChosen
PROPERTIES
  CountReconciles
  UnplacedOnlyWithoutLeaf
