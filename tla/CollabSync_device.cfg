SPECIFICATION Spec
CONSTANTS
  Clients = {c1}
  MaxEdits = 3
  MaxFaults = 3
  CatchUpLimit = 3
  FlushLimit = 1
  Situations = {"restart", "close", "kill", "early", "reject"}
INVARIANTS
  AppliedOnceInOrder
  NothingLost
CHECK_DEADLOCK FALSE
