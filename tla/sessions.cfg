SPECIFICATION FairSpec
CONSTANTS
  u1 = u1
  NoUser = NoUser
  r1 = r1
  r2 = r2
  Users <- MCUsers
  Requests <- MCRequests
  MaxTokens = 3
  MaxTime = 3
  TTL = 1
  Retention = 0
  BatchSize = 1
INVARIANTS
  ChainsAreWhole
PROPERTIES
  TableEmpties
  RequestsEnd
  ChainSpec
CHECK_DEADLOCK FALSE
