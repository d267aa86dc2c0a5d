SPECIFICATION AllSpec
CONSTANTS
  object1 = object1  object2 = object2
  Table <- Objects
  Key <- Keys
  Hash <- Hashes
  Null = Null
  Freed = Freed
  Value <- Bit
  DefaultValue = 0
  Object <- Objects
  Raw = Raw
  Moved = Moved
  NoBlock = NoBlock
  Terminator = Terminator
  BlockSize = 2
  DequeBlocks = 2
  BitsPerBlock = 2
  BitsetSizes <- SomeSizes
  DequeMax = 4
  DequeShared = 2
  VectorCells = 1
  VectorMax = 4
  VectorShared = 2
  VectorRequest = 4
  StringCells = 1
  StringMax = 3
  StringShared = 3
  StringRequest = 3
  DefaultBuckets = 2
  Requests = {3}
  MaxNodes = 5
  MaxShared = 3
SYMMETRY Symmetry
INVARIANTS
  LinksExact
  CellsExact
  MeetsReferences
PROPERTIES
  ImplementsMap
  ListsImplementSequence
  ArraysImplementSequence
  ImplementsQueue
  ActsOnBits
