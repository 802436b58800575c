CONSTANTS
  c1 = c1
  c2 = c2
  p1 = p1
  p2 = p2
  Shell = Shell
  NoThread = NoThread
  Clients <- OneClient
  PoolThreads <- TwoPoolThreads
  Sources <- ApiOnly
  MaxInstances = 2
  MaxEvents = 3
  MaxCalls = 2
SPECIFICATION FairSpec
INVARIANT JobsHoldObject
PROPERTIES ImplementsDelivery EventsArrive ReleasedIsDestroyed
CHECK_DEADLOCK FALSE
