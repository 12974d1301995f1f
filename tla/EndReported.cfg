SPECIFICATION Spec
CONSTANTS
  Formats <- MCFormats
  ChannelRequests <- OwnChannels
  RoleSelections <- NoRoles
  Granules <- MCGranules
  OutputSizes <- MCOutputSizes
  MagicLen = 2
  MaxPackets = 7
  Obedience = {FALSE}
PROPERTIES
  EndReportedOnEveryCall
