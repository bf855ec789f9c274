SPECIFICATION Spec
CONSTANTS
  project = project
  itinerary = itinerary
  p = p
  q = q
  Objects = {project, itinerary, p, q}
  Root = project
  NoObject = NoObject
  Parent <- MCParent
  Keys <- MCKeys
  Values <- MCValues
  NoValue <- MCNoValue
  Between <- MCBetween
  Itineraries = {itinerary}
  Inputs <- MCInputs
  Settable <- MCSettable
  RouteKey = "route"
  First <- MCFirst
  MaxMine = 2
  MaxTheirs = 1
  MaxRoutes = 1
  MaxMoves = 2
  MaxRejects = 1
  Situations = {}
INVARIANTS
  DocumentsAgree
  UndoIsExact
PROPERTIES
  OthersKept
  RouteNotAlone
CHECK_DEADLOCK FALSE
