SPECIFICATION Spec
CONSTANTS
  Strikes = {1}
  Expiries = {1}
  Puts = FALSE
  MaxLots = 1
  MaxEvents = 3
  MaxTroubles = 1
CHECK_DEADLOCK FALSE
INVARIANTS
  NothingHidden
PROPERTIES
  FrozenUntilResolved
  HealKeepsCorrections
