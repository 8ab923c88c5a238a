SPECIFICATION MCSpec
CONSTANTS
  Callers = {c1, c2}
  First = c1
  RawKeys = {"k", "K", "kk"}
  Normalize <- MCNormalize
  Similar <- MCSimilar
  Sessions = {"s"}
  Facts = {"a", "b", "c", "e", "p", "x"}
  Refused = {"x"}
  Private = {"p"}
  Ephemeral = {"e"}
  Clash <- MCClash
  Contents <- MCContents
  Confidences = {7, 9}
  MaxCalls = 3
  MaxFail = 1
  MaxDigest = 1
INVARIANTS OneCurrent  LinksPointBack
PROPERTIES  HistoryKept
