CONSTANTS
  TimeoutArgs = {0, 1, 2, 3}
  DefaultTimeout = 1
  MaxTimeout = 2
  GracePolls = 2
  MaxTime = 3
SPECIFICATION Spec
INVARIANT TamperFailsClosed
