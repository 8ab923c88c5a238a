SPECIFICATION CallFair
CONSTANTS
  Correlations = {1, 2}
  MaxInFlight = 1
  MaxBody = 2
  MaxChunks = 2
  OutCap = 1
  InCap = 1
  Deadlines = {0, 1}
  Bodies <- PartBodies
  HandlerStatuses = {"OK"}
  MaxEvents = 0
  MaxClock = 2
  Callers = {"a"}
  Owner <- OneOwner
  MaxFrags = 2
  UpCap = 1
  DownCap = 1
INVARIANTS
  AnswersSound
PROPERTIES
  CallsEnd
  
CHECK_DEADLOCK FALSE
