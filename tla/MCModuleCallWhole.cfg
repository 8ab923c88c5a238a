SPECIFICATION CallSpec
CONSTANTS
  Correlations = {1, 2}
  MaxInFlight = 1
  MaxBody = 2
  MaxChunks = 1
  OutCap = 1
  InCap = 1
  Deadlines = {0}
  Bodies <- PartBodies
  HandlerStatuses = {"OK"}
  MaxEvents = 0
  MaxClock = 1
  Callers = {"a", "b"}
  Owner <- TwoOwners
  MaxFrags = 2
  UpCap = 2
  DownCap = 2
INVARIANT WholeRequests
CHECK_DEADLOCK FALSE
