SPECIFICATION Spec
CONSTANTS
  NRooms = 2
  MaxSeq = 4
  FileIds = {f1, f2, f3}
  NoFile = NoFile
  Overlap = "fenced"
  Faults = {}
INVARIANT DurableKept
CHECK_DEADLOCK FALSE
