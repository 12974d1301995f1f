SPECIFICATION Spec
CONSTANTS
  Formats <- MCFormats
  ChannelRequests <- MCChannelRequests
  RoleSelections <- MCRoleSelections
  Granules <- MCGranules
  OutputSizes <- MCOutputSizes
  MagicLen = 2
  MaxPackets = 7
  Obedience = {TRUE, FALSE}
INVARIANTS
  TypeOK
  PendingIffUnread
  DecodeNeverFails
  SafeBuffer
  WindowInsideLap
  LapCoherent
  PacketCountTracksSequence
  LapoutNeverRejected
  HeapIsOwned
  FreshUntilIdentified
  HeadersValidated
PROPERTIES
  HeldFrameStays
  EndOfStreamIsFinal
  DeliversPcm
