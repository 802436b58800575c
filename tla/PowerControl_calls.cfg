CONSTANTS
  w1 = w1
  w2 = w2
  Workers <- TwoWorkers
  Parts <- PowerParts
  Budgets <- PowerBudgets
  Reasons = {"application", "sleepTimer"}
  Seconds <- SecondsAtLimits
  WakeupSources = {"voice", "unknown"}
SPECIFICATION PowerSpec
SYMMETRY Interchangeable
INVARIANTS PowerTypeOK ReasonOfLastSleep BeforeRebootAnswered LastEventsTellTruth
CHECK_DEADLOCK FALSE
