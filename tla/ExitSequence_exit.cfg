SPECIFICATION Spec
CONSTANTS
  c1 = c1
  c2 = c2
  Exits = {click, pass}
  click = click
  pass = pass
  Calls <- TwoCalls
  StrikeOf <- Strikes
  MaxLots = 2
  MaxOrders = 3
  MaxTroubles = 1
SYMMETRY ExitSymmetry
CHECK_DEADLOCK FALSE
INVARIANTS
  NakedOnlyIfCrossed
  NeverLegsOutOnTop
  BookIsAccount
PROPERTIES
  OkMeansOut
