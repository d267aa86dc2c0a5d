SPECIFICATION Spec
CONSTANTS
  a = a  b = b
  Map <- Maps
  Key <- Keys
  Nil = Nil
  Null = Null
  MaxNodes = 10
  MaxShared = 2
SYMMETRY Symmetry
INVARIANTS
  IsRedBlackTree
  IteratesInOrder
PROPERTIES
  EraseReturnsNext
  ImplementsMap
  RepairAdvances
\* Erasing the only element may crash the program
CHECK_DEADLOCK FALSE
