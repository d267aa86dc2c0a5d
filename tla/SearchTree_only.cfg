SPECIFICATION Spec
CONSTANTS
  a = a  b = b
  Map <- Maps
  Key <- Keys
  Nil = Nil
  Null = Null
  MaxNodes = 7
  MaxShared = 3
INVARIANTS
  HeadLinksMinAndMax
CHECK_DEADLOCK FALSE
