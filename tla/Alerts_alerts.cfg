SPECIFICATION FairSpec
CONSTANTS
  N = 2
  Mandatory = {2}
  LogMax = 2
  MaxFlips = 3
  MaxCalls = 1
  MaxTroubles = 1
INVARIANTS
  PagedOnce
PROPERTIES
  MarksTheOneShown
  ConditionsTracked
CHECK_DEADLOCK FALSE
