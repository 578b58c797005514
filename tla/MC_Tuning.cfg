SPECIFICATION MCSpec
CONSTANTS
  Parts = {"oracle", "rdb", "dynamo", "evidence"}
  MaxResolved = 3
  MaxTables = 2
  Sizes = {13, 30}
  Gsi = {"g1", "g2"}
  Lsi = {"l1"}
  NoIndex = "none"
  AllSeries = {"op", "tab", "idx"}
  Priority <- MCPriority
  IndexLimits = {1, 3}
  Payloads = {8, 12, 30}
  Described <- MCDescribed
  Requests <- MCRequests
  Points <- MCPoints
  User = {u1, u2}
  Analyze = {a1}
  Tuning = {t1, t2}
  u1 = u1
  u2 = u2
  a1 = a1
  t1 = t1
  t2 = t2
  LostAnswers = TRUE
  Casts = {{u1, a1, t1}, {u1, t1, t2}, {u1, u2, a1}}
INVARIANTS LevelRestored Unmixed OwnCursor 
PROPERTIES GuardFreed
CHECK_DEADLOCK FALSE
