SPECIFICATION Spec
CONSTANTS
  Orders = {o1}
  Replicas = {r1}
  Loops = {"poll"}
  BatchSize = 1
  MaxAttempts = 1
  InitialStock = 1
  FaultKinds = {"lose"}
  MaxFaults = 2
  None = None
INVARIANT AllOrNothing
