SPECIFICATION MCSpec
CONSTANTS
  Vendors = {"postgres", "sqlserver", "oracle", "sqlite"}
  MaxSamples <- MCMaxSamples
  Wanted = {{"counters", "waits"}, {"waits"}}
  MaxResets = 1
  MaxChanges = 1
  MaxChecks = 2
  MaxPoints = 2
  Selection = {{"reads", "requests"}}
  MaxCalls = 3
  MaxLine = 2
  MaxSession = 2
  MaxTime = 2
  MaxWork = 2
  MaxRestarts = 1
  Schemas = {"shop", "Shop"}
  Tables = {"a", "b", "c"}
  Columns = {"k", "a"}
  Lower <- MCLower
  QuoteIdent <- MCQuoteIdent
  Qualified <- MCQualified
  ForeignKeys <- MCForeignKeys
  UniqueKeys <- MCUniqueKeys
  Held = 2
  SearchNames <- MCSearchNames
  Filters <- MCFilters
  MaxDdl = 1
  Subject <- MCSubject
  Filter = {1, 2, 3}
  StorageType = {"standard"}
  PageSize = 2
  MaxViews = 2
  MaxConfigured = 1
  MaxCandidates = 3
  Concurrency = 2
  TopLimits <- MCTopLimits
  Resource <- MCResource
INVARIANTS   OneSession 
CHECK_DEADLOCK FALSE
