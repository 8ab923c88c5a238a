SPECIFICATION CacheSpec
CONSTANTS
  Readers = {r1}
  Ids = {1}
  Hints = {h1, h2}
  MaxWrites = 1
  MaxReads = 2
  MaxDay = 1
  Absent = Absent
INVARIANT HintAnswered
CHECK_DEADLOCK FALSE
