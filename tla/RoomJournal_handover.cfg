SPECIFICATION FairSpec
CONSTANTS
  NRooms = 3
  MaxSeq = 3
  FileIds = {f1, f2, f3}
  NoFile = NoFile
  Overlap = "never"
  Faults = {"append"}
INVARIANTS TypeOK PromisesKept ShadowAgrees
PROPERTIES ImplementsDurableLog BatchesSettle
CHECK_DEADLOCK FALSE
