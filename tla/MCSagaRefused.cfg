SPECIFICATION FairSpec
CONSTANTS
  Orders = {o1, o2}
  Replicas = {r1}
  Loops = {"poll", "notify"}
  BatchSize = 2
  MaxAttempts = 1
  InitialStock = 1
  FaultKinds = {"refuse", "wipe"}
  MaxFaults = 4
  None = None
INVARIANT RemaindersAreLogged
PROPERTIES
  LedgerStepsValid
  EveryOrderSettles
