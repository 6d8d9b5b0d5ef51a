SPECIFICATION Spec
CONSTANTS
  N = 2
  End = 6
  Tapes <- MCTapes
  Budgets = {0, 2400}
  TrialLeft = 3
  MaxTrades = 2
  MaxLosses = 1
  DayStop = 3
  MaxFaults = 2
INVARIANTS
  Guardrails
  ExitFollowsTape
  LogsAgree
  CutoffClosesAll
CHECK_DEADLOCK FALSE
