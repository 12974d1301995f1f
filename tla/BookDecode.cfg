SPECIFICATION DecodeSpec
CONSTANTS
  ByteBits = 4
  WordBytes = 4
  LongBits = 16
  MaxLength = 16
  SizeBits = 10
  Shapes <- MCShapes
  Values <- MCValues
  Packets = {2, 9}
  Calls <- MCCalls
  DECODE_VEC_STACK = 2
INVARIANTS
  MemoryOwned
  AcceptedIffTree
  QuantvalsExact
  WalkStaysInTable
  DecodesTheCodeword
  ValuesInPlace
PROPERTY
  UnpackEnds
CHECK_DEADLOCK FALSE
