SPECIFICATION PlayerSpec
CONSTANTS
  Formats <- MCFormats
  ChannelRequests <- MCChannelRequests
  RoleSelections <- MCRoleSelections
  Granules <- MCGranules
  OutputSizes <- MCOutputSizes
  MagicLen = 2
  MaxPackets = 8
  Obedience = {TRUE}
  Sizings <- AllSizings
  FirstBuffer = 2
  MaxAudio = 4
  MaxPieces = 1
CHECK_DEADLOCK FALSE
INVARIANTS
  NothingIsLeftBehind
PROPERTIES
  PlaysToTheEnd
  TooSmallIsRecovered
  OneRetryIsEnough
