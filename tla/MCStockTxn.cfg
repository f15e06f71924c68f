SPECIFICATION TxnSpec
CONSTANTS
  Clients = {c1, c2}
  Deltas <- MCDeltas
  MaxStock = 2
  Nobody = Nobody
INVARIANTS
  LocationsMatchStock
