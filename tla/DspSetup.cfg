SPECIFICATION SetupSpec
CONSTANTS
  Rates = 16
  LongMax = 7
  PtrBytes = 4
  StateBytes = 28
  LookBytes = 20
  DSP_ARENA_SAFETY = 8
  DSP_ARENA_MAX_BYTES = 5000
  Sent <- MCSent
INVARIANTS
  HeaderMemoryOwned
  ArenaIsExact
  HeadersAreSound
CHECK_DEADLOCK FALSE
