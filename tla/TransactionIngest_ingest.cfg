SPECIFICATION FairSpec
CONSTANTS
  b1 = b1
  o1 = o1
  o2 = o2
  f1 = f1
  f2 = f2
  f3 = f3
  Books = {b1}
  Orders = {o1, o2}
  AppOrders = {o1}
  HomeOf <- HomeIsFirst
  Fills = {f1, f2, f3}
  OrderOf <- RollOrders
  KeyOf <- HalvesAlike
  Closing = {f2, f3}
  Whole = {o1, o2}
  MaxTroubles = 2
CHECK_DEADLOCK FALSE
INVARIANTS
  EachFillOnce
PROPERTIES
  UndoneWhole
  EveryFillAccounted
