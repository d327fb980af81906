SPECIFICATION Spec
CONSTANTS
  u1 = u1
  NoUser = NoUser
  c1 = c1
  c2 = c2
  Users <- MCUsers
  Calls <- MCCalls
  Modules <- MCModules
  Pasts <- MCPasts
  MaxVersion = 3
INVARIANTS
  TrustIsEarned
  DeletionsAreCarriedOut
  CacheIsTrue

  
CHECK_DEADLOCK FALSE
