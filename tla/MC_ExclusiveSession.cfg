SPECIFICATION FairSpec
CONSTANTS
  Conn = {k1, k2}
  Query = {q1}
  Tran = {t1}
  Explain = {e1}
  Showplan = {p1}
  Capture = {x1, x2}
  LostAnswers = TRUE
  Casts = {{q1, t1, p1, x1, x2}, {q1, e1, x1}, {t1, e1, p1, x1}}
INVARIANTS CaptureRestores PlanRestores PlannedOnly NeverBlocked Unmixed
PROPERTIES GuardReleased
CHECK_DEADLOCK FALSE
