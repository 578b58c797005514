SPECIFICATION MCSpec
CONSTANTS
  Parts = {"flow", "plans", "catalog", "access", "log", "stacks"}
  Dialects = {"MySQL", "Postgres", "SQLServer", "Oracle", "SQLite"}
  Killers = {k1}
  MaxWrites = 3
INVARIANTS AllOrNothing RollbackUnlessKilled Reported 
PROPERTIES KilledIsLost  Implements
CHECK_DEADLOCK FALSE
