SPECIFICATION Spec
CONSTANTS
  raw = raw
  base = base
  blend = blend
  fg = fg
  NumLots = 0
  NumLocs = 3
  Held <- MCHeld
  Requested <- MCRequested
  Scale = 4
  Moved = {1, 2, 3}
  UnitCosts = {0, 1, 3}
  MaxQty = 5
  MaxPosts = 6
  Goods <- MCGoods
  FormulaIds = {1, 2, 3}
  Mixes <- MCMixes
  Whole = 2
  NewTypes <- MCNewTypes
  Retyped = {base}
  GivenVersions = {}
  MaxVersion = 2
  Categories = {"4"}
  Hundred = 10
  Limits = {3}
  Regulated = {raw}
  Profiled = {fg}
  Keys = {"margin", "pours", "lab"}
  ScopeOf <- MCScopeOf
  Roles = {"FLOOR"}
  Ratings = {"A"}
  CatalogValue <- MCCatalogValue
  Entered = {1, 2}
  ValidValues <- MCValidValues
  MaxEdits = 2
  LabKey = "lab"
  RobotKey = "lab"
  Pours = {1}
  Pounds <- MCPounds
  FloorOnly = {}
  Loaded = {}
  HolidayIds = {1}
  Rules <- MCRules
  Years = {2023, 2024, 2025, 2026, 2027, 2028, 2029, 2030, 2031}
  ReadingDays <- MCReadingDays
  Vendors = {1, 2}
  Skus = {"m1", "m2"}
  Existing = {"m1"}
  Packaging = {"c1"}
  Configs <- MCConfigs
  PoNumbers = {1, 2}
  Edited = {2}
  MaxLines = 2
  MaxPlaced = 1
  Grants <- MCGrants
INVARIANTS
  LoopComputesRemove
  DriftBounded
  NoCircularFormula
  RollUpWhole
  RevisionTakesOver
  RulesCarryOver
  HolidaysOnRule
  FilledFormAccepted
  OfferedIsAccepted
PROPERTIES
  SavedAsEdited
CHECK_DEADLOCK FALSE
