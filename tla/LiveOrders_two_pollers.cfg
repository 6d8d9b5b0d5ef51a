SPECIFICATION Spec
CONSTANTS
  Threads = {t1, t2}
  Intents = {sell_short}
  FrozenBlocked = {sell_short}
  Qty = 1
  MAX_RESUBMIT_ATTEMPTS = 2
  CANCEL_POLL_MAX_ATTEMPTS = 2
  MaxOrders = 1
  MaxBook = 3
  MaxFaults = 0
  MaxCrashes = 0
  t1 = t1
  t2 = t2
  sell_short = sell_short
INVARIANTS
  BookedOnce
SYMMETRY ThreadSymmetry
CHECK_DEADLOCK FALSE
