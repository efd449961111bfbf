SPECIFICATION FairSpec
CONSTANTS
  Orders = {o1, o2}
  Replicas = {r1, r2}
  Loops = {"poll"}
  BatchSize = 2
  MaxAttempts = 3
  InitialStock = 3
  FaultKinds = {"refuse", "lose", "crash"}
  MaxFaults = 2
  None = None
PROPERTY EveryOrderCompletes
