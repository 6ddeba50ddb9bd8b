CONSTANTS
  Conn = {c1, c2, c3}
  Key = {k1}
  Expiry = {3}
  PoolLimit = 1
  ConnectionMs = 4
  ReadMs = 1
  ResponseMs = 1
  WindowMs = 1
  MaxRequests = 1
  RequireConfirmation = FALSE
  Modes = {"accepting"}
  PeerFaults = {}
  MaxUptime = 2
  LastArrival = 2
  MaxWallSteps = 1
SYMMETRY Symmetry
SPECIFICATION Spec
INVARIANTS RateBound
