SPECIFICATION FairSpec
CONSTANTS
  Threads = {t1}
  Intents = {put_opened}
  FrozenBlocked = {}
  Qty = 2
  MAX_RESUBMIT_ATTEMPTS = 2
  CANCEL_POLL_MAX_ATTEMPTS = 2
  MaxOrders = 2
  MaxBook = 3
  MaxFaults = 2
  MaxCrashes = 1
  t1 = t1
  put_opened = put_opened
INVARIANTS
  TypeOK
  NeverForgotten
  OneLiveOrder
  FillCounted
  ClosedLockOpens
  BookedOnlyIfFilled
  LockNeverFreesLive
PROPERTIES
  ReviewLatched
  EverySettled
CHECK_DEADLOCK FALSE
