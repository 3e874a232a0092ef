CONSTANTS
  p = p
  q = q
  r = r
  x = x
  y = y
  caps = caps
  status = status
  Receivers <- MCPeers
  Kinds <- MCKinds
  Relays = {x, y}
  Configurations <- MCConfigurations
  Concurrency = 2
  MinDelay = 1
  MaxDelay = 2
  Doublings = 1
  RateMax = 2
  RateWindow = 3
  MaxRuns = 2
  MaxVersions <- MCVersions
  MaxFaults = 1
SPECIFICATION FairTransportSpec
INVARIANT AtMostTwiceTheLimit
PROPERTIES EveryPeerIsPosted AnnouncementsArrive
CHECK_DEADLOCK FALSE
