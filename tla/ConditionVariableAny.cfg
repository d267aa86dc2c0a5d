SPECIFICATION FairSpec
CONSTANTS
  t1 = t1  t2 = t2  t3 = t3
  Thread <- Threads3
  NoThread = NoThread
  MaxItems = 2
INVARIANTS
  NoStrandedConsumer
  ImmuneToDestruction
PROPERTIES
  ClosingReleasesAll
  TimedWaitReturns
