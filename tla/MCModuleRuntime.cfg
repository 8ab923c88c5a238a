SPECIFICATION FairSpec
CONSTANTS
  Correlations = {c1, c2}
  MaxInFlight = 1
  MaxBody = 1
  MaxChunks = 2
  OutCap = 1
  InCap = 1
  Deadlines = {0, 2}
  Bodies <- PartBodies
  HandlerStatuses = {"OK"}
  MaxEvents = 3
  MaxClock = 2
INVARIANTS
  JobsAccounted
  DoneHasRoom
  ServesUntil
CHECK_DEADLOCK FALSE
PROPERTIES
  Stops
