SPECIFICATION FairSpec
CONSTANTS
  Threads = {t1}
  Refs = {r1}
  LegsOf <- OwnLegs
  Qty = 1
  MaxOrders = 1
  MaxBook = 2
  MaxFaults = 2
  MaxCrashes = 1
  t1 = t1
  r1 = r1
INVARIANTS
  NeverFalselyOver
PROPERTIES
  EveryUnknownResolved
  EveryRollSettled
CHECK_DEADLOCK FALSE
