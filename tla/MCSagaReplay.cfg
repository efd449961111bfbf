SPECIFICATION Spec
CONSTANTS
  Orders = {o1}
  Replicas = {r1}
  Loops = {"poll"}
  BatchSize = 1
  MaxAttempts = 1
  InitialStock = 1
  FaultKinds = {"refuse", "crash"}
  MaxFaults = 4
  None = None
INVARIANT CompletedIsFulfilled
