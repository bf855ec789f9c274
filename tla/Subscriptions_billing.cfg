SPECIFICATION FairSpec
CONSTANTS
  c1 = c1
  c2 = c2
  Calls = {c1, c2}
  MaxAsks = 2
  MaxChanges = 2
  MaxFaults = 1
  MaxCrashes = 1
  Situations = {}
INVARIANTS
  OneOfEach
  CopyIsLast
  RepeatsAccounted
PROPERTY EventsEnd
CHECK_DEADLOCK FALSE
