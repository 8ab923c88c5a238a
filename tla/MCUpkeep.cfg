SPECIFICATION UpkeepSpec
CONSTANTS
  Callers = {c1, c2}
  Rows = {r1, r2}
  Relative = 1
  OpenEnded = 2
  MaxCalls = 4
  MaxFail = 1
  First = c1
  Shared = r1
  Workers = {w1}
  Timer = timer
  TriggerInserts = 2
  TriggerSecs = 1
  Interval = 1
  MaxRows = 1
  Prunes = {TRUE}
  Drainers = {d1, d2}
  Timed = {d2}
  Units = {u1, u2}
  Blank = {u3}
  MaxAttempts = 2
  MaxChanges = 1
  MaxCrashes = 1
  NoUnit = NoUnit
INVARIANTS
  TriggerArmed JobsSound
PROPERTIES
  OnlyForward DeadlineKept NeverReactivated PendingEnds EventuallyMaintained DrainsEnd
CHECK_DEADLOCK FALSE
