CONSTANTS
  w1 = w1
  w2 = w2
  t1 = t1
  t2 = t2
  t3 = t3
  Workers <- TwoWorkers
  Threads <- ThreeThreads
  Parts <- FirmwareParts
  Budgets <- FirmwareBudgets
  Replies <- ServerReplies
  States = {0, 2, 4, 8}
  Totals = {3, 250}
SPECIFICATION FirmwareSpec
INVARIANTS FirmwareTypeOK OnlyOverlapTerminates EndDoesNoHarm UpdateToldTruly
PROPERTIES DownloadToldTruly CallsEnd
CHECK_DEADLOCK FALSE
