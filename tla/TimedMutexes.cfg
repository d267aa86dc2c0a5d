SPECIFICATION EitherSpec
CONSTANTS
  t1 = t1  t2 = t2  t3 = t3
  Thread <- Threads3
  NoThread = NoThread
  UINT_MAX = 2
INVARIANTS
  MutualExclusion
  NoStrandedWaiter
  CountIsNesting
  RecursiveNoStrandedWaiter
PROPERTIES
  NoEarlyRefusal
  ImplementsLock
  FreeLockIsTaken
  TimedCallReturns
  RecursiveImplementsLock
  RecursiveFreeLockIsTaken
