SPECIFICATION WorkersSpec
CONSTANTS
  t1 = t1  t2 = t2  o1 = o1  o2 = o2  m1 = m1  m2 = m2  v1 = v1  v2 = v2
  h1 = h1  h2 = h2  w1 = w1  w2 = w2  b1 = b1  b2 = b2
  Thread <- Threads
  NoId = NoId
  Object <- Objects
  Absent = Absent
  Mutex <- Mutexes
  Variable <- Variables
  Nil = Nil
  Desired = 2
  Shared <- Shareds
  Weak <- Weaks
  Block <- Blocks
  NoBlock = NoBlock
  LockExpired = FALSE
SYMMETRY Symmetry
\* The program may terminate, and its threads may all wait for one another
CHECK_DEADLOCK FALSE
INVARIANTS
  OneHandlePerThread
  CallableFreedOnce
  HoldsAccounted
  NoPermitCreated
  JoinedHasLetGo
  CountsExact
  OwnedIsAlive
  ReleasedOnce
  NoLeak
