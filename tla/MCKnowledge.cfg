SPECIFICATION KSpec
CONSTANTS
  Parts = {"directives", "reminders", "cache", "assembly", "recall", "answer", "search",
           "memo", "dates", "derived", "chunks", "graph", "walk", "expand"}
  None = None
  Workers = {"w1", "w2"}
  Memories = {1, 2, 3}
  Disagree <- Contradictory
  TopicOf <- Topic
  Queries = {"q"}
  Threshold = 2
  MaxCalls = 3
  MaxDays = 2
  MaxFailures = 1
  Unset = None
  Threads = {"w1", "w2"}
  Reminders = {1, 2, 3}
  Once = {1, 3}
  DueBy <- LastDay
  Entity <- EntityOf
  File <- FileOf
  MaxRows = 2
  ArmedCap = 8
  MaxReminderDays = 3
  MaxReminderCalls = 5
  Absent = None
  Readers = {"r"}
  Ids = {1, 2}
  Hints = {"h"}
  MaxWrites = 3
  MaxReads = 2
  MaxDay = 3
  MemoryIds = {1, 2}
  Contents = {"c", "d"}
  NamesIn <- Named
  Pronouns = {"d"}
  Mode = "heuristic"
  Prior <- Earlier
  Supersedes <- Newer
  Stored <- InStore
  MaxIndexCalls = 2
  Nil = None
  Findings <- Rankings
  QueryWords = {{}, {"a", "b"}, {"b"}}
  Thresholds = {40, 51}
  ChunkFloors = {0, 30}
  MaxCitations = 2
  Slack = 2
  InTable <- Listable
  CapOf <- Caps
  MaxMatches = 2
  Length <- LengthOf
  Frame = 4
  Asked = {0, 1, 5, 90}
  DefaultTurn = 4
  DefaultSession = 7
  MinLimit = 3
  MaxLimit = 8
  Findable = {1, 2, 3, 4, 5, 6}
  ScopeRank <- Ranks
  Archived = {4}
  SummaryIds = {1, 2, 3}
  FactIds = {4, 6}
  Finds <- QueryResults
  Linked <- Links
  Bridged <- Bridges
  Nearby <- Sessions
  Settings <- SearchCalls
  PoolCap = 4
  SubPool = 2
  WideBuffer = 5
  PageLimit = 3
  PageRoom = 4
  SummaryFloor = 2
  FactFloor = 1
  Primary <- Prime
  Spare <- Others
  HintWords = {"a", "q", "the"}
  Trivial = {"the"}
  Boost <- Boosted
  MaxCandidates = 4
  TopCandidates = 3
  MaxItems = 3
  BlockChars = 60
  TokenBudget = 7
  LowBelow = 40
INVARIANTS
  QuestionsSound RemindersSound   AnswerSound  
  
PROPERTIES  TerminalLeftByStaleCallsOnly HitsAreFresh
CHECK_DEADLOCK FALSE
