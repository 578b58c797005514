SPECIFICATION Spec
CONSTANTS
  Conn = {k1, k2}
  Query = {q1}
  Tran = {}
  Explain = {e1}
  Showplan = {}
  Capture = {}
  LostAnswers = FALSE
  Casts = {{q1, e1}}
INVARIANTS PlanIsNotRun
CHECK_DEADLOCK FALSE
