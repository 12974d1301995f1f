SPECIFICATION PlayerSpec
CONSTANTS
  Formats <- MCFormats
  ChannelRequests <- MCChannelRequests
  RoleSelections <- MCRoleSelections
  Granules <- MCGranules
  OutputSizes <- MCOutputSizes
  MagicLen = 2
  MaxPackets = 8
  Obedience = {TRUE}
  Sizings <- LazySizing
  FirstBuffer = 0
  MaxAudio = 4
  MaxPieces = 1
CHECK_DEADLOCK FALSE
PROPERTIES
  PlaysToTheEnd
