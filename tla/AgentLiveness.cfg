CONSTANTS
  Conn = {c1, c2}
  Key = {k1}
  Expiry = {2}
  PoolLimit = 2
  ConnectionMs = 1
  ReadMs = 1
  ResponseMs = 1
  WindowMs = 1
  MaxRequests = 0
  RequireConfirmation = TRUE
  Modes = {"accepting", "once"}
  PeerFaults = {"early"}
  MaxUptime = 1
  LastArrival = 0
  MaxWallSteps = 0
SPECIFICATION FairSpec
PROPERTIES ConnectionsFinish PromptsEnd StoppedEnds
