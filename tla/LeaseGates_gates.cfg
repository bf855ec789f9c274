SPECIFICATION GatesSpec
CONSTANTS
  Clients = {c1, c2}
  NoOne = NoOne
  Kinds = {route}
  Itineraries = {i1}
  MaxRuns = 1
  MaxSent = 1
  MaxUnread = 2
SYMMETRY ClientSymmetry
INVARIANTS
  GatesAgree
  LeaseIsUsed
  RequestIsAnswered
CHECK_DEADLOCK FALSE
