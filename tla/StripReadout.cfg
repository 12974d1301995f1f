SPECIFICATION StripSpec
CONSTANTS
  BlockPairs <- MCBlockPairs
  LAPOUT_CHUNK = 3
CHECK_DEADLOCK FALSE
INVARIANTS
  PcmIsLapped
  PcmReadsInside
