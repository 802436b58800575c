CONSTANTS
  w1 = w1
  w2 = w2
  t1 = t1
  t2 = t2
  Main = Main
  NoTimer = NoTimer
  Workers <- OneWorker
  Tids <- TwoTimers
  Durations <- AnyDuration
  MaxCalls = 3
  MaxCrashes = 2
  MaxCycles = 1
  Serial = TRUE
SPECIFICATION FairSpec
INVARIANTS TypeOK SettledAgree DaemonFollows TimedModeIsTimed
PROPERTY ModeExpires
CHECK_DEADLOCK FALSE
