SPECIFICATION FairSpec
CONSTANTS
  p1 = p1
  p2 = p2
  Purges = {p1, p2}
  NRetries = 1
  MaxResumeFailures = 3
  MaxConfirms = 2
  MaxCalls = 2
  MaxWrites = 1
  MaxFaults = 2
  MaxCrashes = 1
  Situations = {}
INVARIANTS
  NothingIsLeft
  ChargedIsKnown
  ToldOnce
PROPERTY AcceptedEnds
CHECK_DEADLOCK FALSE
