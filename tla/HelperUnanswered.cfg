CONSTANTS
  Helper = {h1}
  Timeouts = {0, 2, 7}
  MaxMs = 7
  Skew = 1
  ResponseMs = 1
  Decisions = {"approved", "unavailable"}
  ReplayCache = "on"
  Faults = {}
  LinuxBase = 1
  MacBase = 1
  MaxUptime = 3
  LastStart = 1
  MaxWallSteps = 0
  MaxAnswers = 2
SPECIFICATION Spec
INVARIANT UnansweredFallsBack
