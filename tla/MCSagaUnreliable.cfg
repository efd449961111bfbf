SPECIFICATION Spec
CONSTANTS
  Orders = {o1, o2}
  Replicas = {r1}
  Loops = {"poll", "notify"}
  BatchSize = 1
  MaxAttempts = 1
  InitialStock = 1
  FaultKinds = {"refuse", "lose", "delay", "garble"}
  MaxFaults = 3
  None = None
INVARIANTS
  CompletedIsFulfilled
  LedgerNeverAhead
  StockConserved
PROPERTY UsesWarehouse
SYMMETRY Symmetry
