SPECIFICATION FairSpec
CONSTANTS
  Rolls = {"ROLL_OUT"}
  Exits = {"EXIT"}
  Clear = "NO_ACTION"
  Valid <- MCValid
  Closed = {1}
  End = 3
  MaxRecs = 3
  MaxOrders = 2
  MaxRequests = 1
INVARIANTS
  FillsKept
  OpenClaimIsCurrent
PROPERTIES
  NeverReopens
  EveryDeferredEnds
CHECK_DEADLOCK FALSE
