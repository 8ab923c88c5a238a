SPECIFICATION FairSpec
CONSTANTS
  Calls = {c1, c2, c3}
  Threshold = 2
  BaseMS = 1
  MaxMS = 3
  CounterMax = 3
  MaxClock = 7
  OutageEnd = 3
  MaxJumps = 1
INVARIANTS
  ProbeHeld
  OpenIsEarned
  RetryAfterBounded
PROPERTIES
  Recovers
