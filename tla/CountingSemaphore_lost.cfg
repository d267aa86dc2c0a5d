SPECIFICATION Spec
CONSTANTS
  t1 = t1  t2 = t2  t3 = t3
  Thread <- Threads3
  Desired = 3
SYMMETRY Symmetry
\* Threads may all block in acquire
CHECK_DEADLOCK FALSE
INVARIANTS
  NoPermitLost
