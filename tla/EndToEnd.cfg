CONSTANTS
  TimeoutArgs = {0, 2, 9}
  DefaultTimeout = 1
  MaxTimeout = 2
  GracePolls = 1
  MaxTime = 2
  HelperTimeouts = {2}
  Skew = 0
  ResponseMs = 2
  MaxMs = 7
  Decisions = {"approved", "denied"}
  HelperFaults = {"transport", "kill"}
  LinuxBase = 1
  MacBase = 1
  MaxWallSteps = 1
  MaxAnswers = 1
SPECIFICATION SystemSpec
INVARIANTS TypeOK SuccessMeansApproved FallbackIsJustified NoChildLeft SignalsOwnChild
INVARIANTS SuccessMeansConsent TamperMeansStale
PROPERTIES CallReturns OrphansEnd
