SPECIFICATION Spec
CONSTANTS
  Orders = {o1}
  Replicas = {r1}
  Loops = {"poll"}
  BatchSize = 1
  MaxAttempts = 1
  InitialStock = 0
  FaultKinds = {}
  MaxFaults = 0
  None = None
INVARIANT CompensationCompletes
