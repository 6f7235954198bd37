SPECIFICATION Spec
CONSTANTS
  r1 = r1
  r2 = r2
  r3 = r3
  Request <- Searches
  Kind <- SearchKind
  Permits <- OnePermit
  TextWorkers = 1
  Deadline = TRUE
  Endings = {"ok", "failed"}
INVARIANTS SlotCoversWork
CHECK_DEADLOCK FALSE
