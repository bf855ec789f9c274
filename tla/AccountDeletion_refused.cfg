SPECIFICATION Spec
CONSTANTS
  p1 = p1
  p2 = p2
  Purges = {p1, p2}
  NRetries = 1
  MaxResumeFailures = 3
  MaxConfirms = 1
  MaxCalls = 2
  MaxWrites = 1
  MaxFaults = 1
  MaxCrashes = 0
  Situations = {"halfway"}
INVARIANT RefusedIsKept
CHECK_DEADLOCK FALSE
