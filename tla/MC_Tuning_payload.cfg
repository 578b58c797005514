SPECIFICATION MCSpec
CONSTANTS
  Parts = {"dynamo"}
  MaxResolved = 3
  MaxTables = 2
  Sizes = {13, 30}
  Gsi = {"g1", "g2"}
  Lsi = {"l1"}
  NoIndex = "none"
  AllSeries = {"op", "tab", "idx"}
  Priority <- MCPriority
  IndexLimits = {1, 3}
  Payloads = {8, 12, 30}
  Described <- MCDescribed
  Requests <- MCRequests
  Points <- MCPoints
  User = {u1}
  Analyze = {}
  Tuning = {}
  u1 = u1
  LostAnswers = FALSE
  Casts = {{u1}}
INVARIANTS WithinPayloadLimit
CHECK_DEADLOCK FALSE
