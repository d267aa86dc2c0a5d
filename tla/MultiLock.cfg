SPECIFICATION FairSpec
CONSTANTS
  t1 = t1  t2 = t2  a = a  b = b  c = c
  Thread <- Threads2
  Mutex <- Mutexes3
  NoThread = NoThread
  ArgLists <- AllOrders
  MayThrow = TRUE
INVARIANTS
  AllOrNothing
  UnlocksOnlyHeld
  NoCircularWait
PROPERTIES
  BlocksInsteadOfSpinning
