SPECIFICATION Spec
CONSTANTS
  PostLists <- SmallLists
  Mults <- SomeMults
  Halves <- SomeHalves
  Heights <- SomeHeights
  Codes <- SomeCodes
INVARIANTS
  TypeOK
  NeighborsAreNearest
  EveryHeightHasItsCode
  LineIsStraight
  FloorIsDrawn
