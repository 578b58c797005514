SPECIFICATION Spec
CONSTANTS
  Dialects = {"SQLServer"}
  Killers = {k1}
  MaxWrites = 2
INVARIANTS RollbackOnError
CHECK_DEADLOCK FALSE
