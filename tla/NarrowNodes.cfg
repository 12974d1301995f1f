SPECIFICATION DecodeSpec
CONSTANTS
  ByteBits = 8
  WordBytes = 3
  LongBits = 32
  MaxLength = 24
  SizeBits = 24
  Shapes <- SlightlyLarge
  Values <- MCValues
  Packets = {4}
  Calls <- EntryCall
  DECODE_VEC_STACK = 32
INVARIANT NodesFit
CHECK_DEADLOCK FALSE
