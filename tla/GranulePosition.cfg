SPECIFICATION Spec
CONSTANTS
  BlockSizes <- MCBlockSizes
  MaxSkip = 3
  MaxBlocks = 6
  MaxLost = 1
INVARIANTS
  PlayedAsMarked
  PositionIsTrue
  NeverPlaysMore
CHECK_DEADLOCK FALSE
