SPECIFICATION Spec
CONSTANTS
  Clients = {c1, c2, c3}
  NoOne = NoOne
  Kinds = {route}
  Itineraries = {i1}
  TTL = 2
  AuthorPriority = 1
  MaxHold = 3
  Penalty = 4
  MaxTime = 8
SYMMETRY Symmetry
INVARIANTS
  TypeOK
  HoldIsBounded
  PenaltyServed
PROPERTIES
  TakenOnlyWhenOver
  ImplementsHolders
CHECK_DEADLOCK FALSE
