SPECIFICATION FairSpec
CONSTANTS
  HdrLen = 4
  MsgHdrLen = 2
  MaxPayload = 6
  MaxBody = 12
  RefWrap = 16
  Capacity = 2
  Wrap = 4
  Torn = torn
  SlotSize = 8
  Budget = 6
  ArenaSize = 8
  Calls <- MCCalls
  Foreign <- MCForeign
  MaxEpoch = 1
INVARIANTS
  
  FramesSound
PROPERTIES
  PayloadStable
  RingsAreQueues
  
CHECK_DEADLOCK FALSE
