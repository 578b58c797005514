SPECIFICATION Spec
CONSTANTS
  Kinds = {"serverStreaming"}
  Capacity = 4
  MaxBytes = 6
  PauseAt = 3
  ResumeAt = 1
  Prefetch = 2
  Sizes = {1}
  MaxMessages = 3
  MaxSends = 0
INVARIANTS SuccessIsComplete
CHECK_DEADLOCK FALSE
