SPECIFICATION MCSpec
CONSTANTS
  Parts = {"drivers", "aws", "identity"}
  Workflow = {w1}
  Transaction = {t1}
  Reuser = {r1}
  Session = {s1}
  Closer = {c1, c2}
  MaxDriver = 2
  MaxConnect = 2
  Casts = {{w1, s1, c1}, {t1, r1, c1}, {r1, s1}, {t1, s1}, {s1, c1, c2}}
  Selected = {"Cloudwatch", "DynamoDB"}
  Endpoints = {"e1"}
  Users = {u1, u2}
  MaxMade = 2
  Callers = {i1, i2}
  MaxCalls = 3
  MaxGrants = 2
INVARIANTS CloseAllCloses Explained Usable NothingLeftBehind 
PROPERTIES FlowsEnd
CHECK_DEADLOCK FALSE
