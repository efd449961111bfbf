SPECIFICATION FairSpec
INVARIANTS
  TypeOK
  StockAccounted
  AnswersAreTrue
  OnlyReleasesDeadlock
  NobodyIsStuck
  InventoryInvariant
CHECK_DEADLOCK FALSE
PROPERTIES
  RefusalsAreForced
  KeepsStock
  EveryRequestEnds
CONSTANTS
  o1 = o1
  o2 = o2
  o3 = o3
  o4 = o4
  k1 = k1
  k2 = k2
  reserve1 = reserve1
  retry1 = retry1
  reserve2 = reserve2
  reserve3 = reserve3
  reserve4 = reserve4
  release1 = release1
  again2 = again2
  release2 = release2
  add1 = add1
  readd1 = readd1
  add2 = add2
  add3 = add3
  create1 = create1
  create2 = create2
  Products <- MCProducts
  Orders <- MCOrders
  Keys <- MCKeys
  Requests <- MCRequests
  Body <- MCBody
  Lines <- MCLines
  Catalogue <- MCCatalogue
  Shelf <- MCShelf
  Standing = {o2}
  MaxRequests = 3
  FaultKinds = {"database", "stop"}
  MaxFaults = 1
  Nobody = Nobody
  Nothing = Nothing
