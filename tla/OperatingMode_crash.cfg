CONSTANTS
  w1 = w1
  w2 = w2
  t1 = t1
  t2 = t2
  Main = Main
  NoTimer = NoTimer
  Workers <- OneWorker
  Tids <- OneTimer
  Durations <- Untimed
  MaxCalls = 1
  MaxCrashes = 1
  MaxCycles = 0
  Serial = TRUE
SPECIFICATION Spec
INVARIANT PermanentModeKept
CHECK_DEADLOCK FALSE
