CONSTANTS
  Helper = {h1, h2}
  Timeouts = {0, 2, 7}
  MaxMs = 7
  Skew = 1
  ResponseMs = 1
  Decisions = {"approved"}
  ReplayCache = "on"
  Faults = {"transport", "disk", "kill"}
  LinuxBase = 1
  MacBase = 1
  MaxUptime = 2
  LastStart = 1
  MaxWallSteps = 1
  MaxAnswers = 2
SYMMETRY Symmetry
SPECIFICATION Spec
INVARIANTS TypeOK MarkersCoverUsed
PROPERTIES ImplementsTransaction
