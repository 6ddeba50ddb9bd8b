SPECIFICATION Spec
CONSTANTS
  Proc <- MCProc
  Items <- MCItems
  HostConfigs <- MCHostConfigs
  AgentConfigs <- MCAgentConfigs
  AgentDecisions = {"approved", "cancelled"}
  AgentKey = "agentKey"
  NonceLen = 1
  Nonce <- MCNonce
  Pid <- MCPid
  Timeout = 2
  Skew = 1
  ResponseMs = 1
  LinuxBase = 2
  MacBases = {0, 3}
  LastStart = 0
  Texts <- MCTexts
  MaxClock = 2
  MaxChanges = 1
INVARIANTS
  TypeOK
  ShownWasSigned
  DecisionIsAboutWhatPamAsked
  PlainExchangeIsUnderstood
CHECK_DEADLOCK FALSE
