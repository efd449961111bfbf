SPECIFICATION Spec
INVARIANTS
  TypeOK
  EventIsBacked
  HoldIsRecorded
  AnswersAreTrue
  AbandonedByFaults
  IntakeInvariant
PROPERTY KeepsOrder
CONSTANTS
  r1 = r1
  r2 = r2
  r3 = r3
  r4 = r4
  k1 = k1
  k2 = k2
  Keys <- MCKeys
  Requests <- MCRequests
  Key <- MCKey
  BadCards = {r2, r4}
  FaultKinds = {"database", "payment", "stop"}
  MaxFaults = 2
  Nobody = Nobody
