SPECIFICATION FairSpec
CONSTANTS
  u1 = u1
  u2 = u2
  Users = {u1, u2}
  Conns = {1, 2}
  Rooms = {1, 2}
  PerUser = 2
  MaxOpenings = 2
  MaxEvents = 2
INVARIANTS RoomsAgree SlotsMatchSockets IdleLosesNothing PurgeIsLast
PROPERTY NobodyLingers
CHECK_DEADLOCK FALSE
