SPECIFICATION Spec
CONSTANTS
  Threads = {t1, t2}
  Updates = {u1, u2}
  Books = {live, demo}
  Live = live
  Kinds = {"mutate", "stale", "backup", "reset"}
  Keep = 2
  MaxBackups = 3
  MaxFaults = 1
  MaxLines = 1
  MaxActs = 1
  t1 = t1
  t2 = t2
  u1 = u1
  u2 = u2
  live = live
  demo = demo
INVARIANTS
  Recoverable
PROPERTIES
  LedgerSpec
SYMMETRY StoreSymmetry
CHECK_DEADLOCK FALSE
