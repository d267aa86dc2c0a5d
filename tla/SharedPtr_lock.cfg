SPECIFICATION Spec
CONSTANTS
  t1 = t1  t2 = t2  h1 = h1  h2 = h2  w1 = w1  w2 = w2  b1 = b1  b2 = b2
  Thread <- Threads
  Shared <- Shareds
  Weak <- Weaks
  Block <- Blocks
  NoBlock = NoBlock
  LockExpired = TRUE
INVARIANTS
  OwnedIsAlive
