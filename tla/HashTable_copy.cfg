SPECIFICATION Spec
CONSTANTS
  a = a  c = c
  Table <- Tables
  Key <- Keys
  Hash <- Hashes
  Null = Null
  Freed = Freed
  DefaultBuckets = 2
  Requests = {3}
  MaxNodes = 5
  MaxShared = 4
SYMMETRY Symmetry
INVARIANTS
  BucketsMapOwnElements
