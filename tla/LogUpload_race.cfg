CONSTANTS
  w1 = w1
  w2 = w2
  p1 = p1
  p2 = p2
  p3 = p3
  Workers <- TwoWorkers
  Bus = bus
  Pids <- TwoPids
  NoPid = NoPid
  NoThread = NoThread
  logUploadBeforeDeepSleepEnabled = TRUE
SPECIFICATION Spec
INVARIANT NoOrphan
