SPECIFICATION MCSpec
CONSTANTS
  Topic <- MCTopic
  Filter <- MCFilter
  Limit = 2
  MaxClient = 2
  MaxCalls = 3
  MaxPublish = 2
  Driver = {"a", "b", "r"}
  FileQuery = {"q1", "q2"}
  On <- MCOn
  ReadOnly <- MCReadOnly
  Scanner = {"s1", "s2"}
  Db = {0, 1}
  ScanLimit = 1
  Stored <- MCStored
  Reader = {"r1", "r2"}
  Kinds <- MCKinds
  Size = 4
  Matching = {2, 3, 4}
  ReadLimits = {0, 2}
  PageLimit = 1
  MaxPages = 3
  MaxEvaluated = 2
  Call = {"c1", "c2", "c3"}
  Queries = {"c1", "c2"}
  MaxKills = 2
  Entries = 4
  PageSize = 2
  Group <- MCGroup
  ListLimits = {2, 9}
  Endpoint = {"e1", "e2"}
  Batches <- MCBatches
  Time = {1, 2}
  TimesOf <- MCTimesOf
  Inputs = {"q1", "q3"}
INVARIANTS  InOrder MessagesKept   
CHECK_DEADLOCK FALSE
