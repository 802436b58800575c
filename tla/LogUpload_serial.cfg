CONSTANTS
  w1 = w1
  w2 = w2
  p1 = p1
  p2 = p2
  p3 = p3
  Workers <- OneWorker
  Bus = bus
  Pids <- ThreePids
  NoPid = NoPid
  NoThread = NoThread
  logUploadBeforeDeepSleepEnabled = TRUE
SPECIFICATION FairSpec
INVARIANT NoOrphan
PROPERTIES PostedIsReported CallsReturn
