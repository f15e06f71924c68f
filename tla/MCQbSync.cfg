SPECIFICATION SyncSpec
CONSTANTS
  oil = oil
  wax = wax
  ann = ann
  Rows <- MCRows
  KindOf <- MCKindOf
  NamesOf <- MCNamesOf
  Editable = {ann}
  ByHand = {wax}
  Jobs = {1, 2}
  Workers = {1, 2}
  MaxFaults = 1
INVARIANTS
  NoSecondRecord
  ItemsLinkedApart
PROPERTIES
  RowsDealtWith
CHECK_DEADLOCK FALSE
