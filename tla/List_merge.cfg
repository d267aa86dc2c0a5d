SPECIFICATION Spec
CONSTANTS
  list1 = list1  list2 = list2
  Object <- Lists
  Elem <- Elems
  Rank <- Ranks
  Twin <- Twins
  Null = Null
  MergesIntoEmpty = TRUE
INVARIANTS
  LinksAgree
