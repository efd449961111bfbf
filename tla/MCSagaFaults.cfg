SPECIFICATION Spec
CONSTANTS
  Orders = {o1, o2}
  Replicas = {r1, r2}
  Loops = {"poll"}
  BatchSize = 2
  MaxAttempts = 1
  InitialStock = 2
  FaultKinds = {"refuse", "lose", "garble", "crash"}
  MaxFaults = 3
  None = None
INVARIANTS
  TypeOK
  OutboxAgreesWithLedger
  OneTransactionPerEvent
  LedgerInvariant
PROPERTY KeepsPromise
SYMMETRY Symmetry
