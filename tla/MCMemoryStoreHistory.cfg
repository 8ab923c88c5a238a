SPECIFICATION MCSpec
CONSTANTS
  Callers = {c1}
  First = c1
  RawKeys = {"k", "K", "kk"}
  Normalize <- MCNormalize
  Similar <- MCSimilar
  Sessions = {"s"}
  Facts = {"a", "b", "c", "e", "p", "x"}
  Refused = {"x"}
  Private = {"p"}
  Ephemeral = {"e"}
  Clash <- MCClash
  Contents <- MCContents
  Confidences = {7, 9}
  MaxCalls = 3
  MaxFail = 0
  MaxDigest = 1
PROPERTY HistoryKeptAlways
