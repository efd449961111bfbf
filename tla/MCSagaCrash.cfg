SPECIFICATION Spec
CONSTANTS
  Orders = {o1, o2}
  Replicas = {r1, r2}
  Loops = {"poll"}
  BatchSize = 2
  MaxAttempts = 1
  InitialStock = 1
  FaultKinds = {"crash"}
  MaxFaults = 3
  None = None
INVARIANT PaidAsSettled
SYMMETRY Symmetry
