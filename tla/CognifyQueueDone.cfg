SPECIFICATION QueueSpec
CONSTANTS
  Drainers = {d1}
  Timed = {}
  Units = {u1}
  Blank = {}
  MaxAttempts = 2
  MaxChanges = 1
  MaxCrashes = 0
  NoUnit = NoUnit
INVARIANT DoneIsCognified
CHECK_DEADLOCK FALSE
