SPECIFICATION FairSpec
CONSTANTS
  Clients = {c1, c2}
  MaxEdits = 1
  MaxFaults = 2
  CatchUpLimit = 1
  FlushLimit = 1
  Situations = {"restart", "close", "kill", "early", "reject"}
INVARIANTS
  StatesAgree
  EditsStayVisible
PROPERTY Converge
CHECK_DEADLOCK FALSE
