SPECIFICATION FairSpec
CONSTANTS
  Strikes = {1}
  Expiries = {1}
  Puts = TRUE
  MaxLots = 2
  MaxEvents = 3
  MaxTroubles = 0
CHECK_DEADLOCK FALSE
INVARIANTS
  MirrorInStep
PROPERTIES
  HealConverges
