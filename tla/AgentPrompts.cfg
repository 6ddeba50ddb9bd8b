CONSTANTS
  Conn = {c1, c2}
  Key = {k1}
  Expiry = {1}
  PoolLimit = 2
  ConnectionMs = 1
  ReadMs = 1
  ResponseMs = 1
  WindowMs = 1
  MaxRequests = 0
  RequireConfirmation = TRUE
  Modes = {"accepting"}
  PeerFaults = {"early", "late"}
  MaxUptime = 1
  LastArrival = 0
  MaxWallSteps = 1
SYMMETRY Symmetry
SPECIFICATION Spec
INVARIANTS TypeOK PromptExclusive ApprovedByUser AbandonedMeansCancelled PoolConserved
PROPERTY AnswerWhileAlive
