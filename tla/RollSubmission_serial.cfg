SPECIFICATION Spec
CONSTANTS
  Threads = {t1}
  Refs = {r1}
  LegsOf <- OwnLegs
  Qty = 2
  MaxOrders = 2
  MaxBook = 3
  MaxFaults = 1
  MaxCrashes = 0
  t1 = t1
  r1 = r1
INVARIANTS
  LiveRollsKnown
  BooksMatchLegs
  ImbalanceFrozen
CHECK_DEADLOCK FALSE
