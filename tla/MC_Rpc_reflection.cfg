SPECIFICATION MCSpec
CONSTANTS
  Parts = {"reflection"}
  Verifier = {"x1", "x2"}
  Service = {"s1", "s2"}
  File = {"f1", "f2", "f3"}
  FileOf <- MCFileOf
  Deps <- MCDeps
  UnaryCall = {"u1", "u2"}
  Kinds = {"clientStreaming"}
  Capacity = 3
  MaxBytes = 4
  PauseAt = 2
  ResumeAt = 1
  Prefetch = 1
  Sizes = {1}
  MaxMessages = 1
  MaxSends = 0
INVARIANTS UnimplementedIsTrue
CHECK_DEADLOCK FALSE
