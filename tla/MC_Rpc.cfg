SPECIFICATION MCSpec
CONSTANTS
  Parts = {"stream", "reflection", "unary"}
  Verifier = {"x1", "x2"}
  Service = {"s1", "s2"}
  File = {"f1", "f2", "f3"}
  FileOf <- MCFileOf
  Deps <- MCDeps
  UnaryCall = {"u1", "u2"}
  Kinds = {"serverStreaming", "clientStreaming", "bidiStreaming"}
  Capacity = 3
  MaxBytes = 4
  PauseAt = 2
  ResumeAt = 1
  Prefetch = 1
  Sizes = {1, 3}
  MaxMessages = 2
  MaxSends = 1
INVARIANTS Flowing NoReaderLost Delivered NothingAfterEnd 
PROPERTIES Ends
CHECK_DEADLOCK FALSE
