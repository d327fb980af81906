SPECIFICATION FairSpec
CONSTANTS
  Rows = {r1}
  Pollers = {p1, p2}
  NoRow = NoRow
  NoPoller = NoPoller
  BatchSize = 1
  Visibility = 2
  BaseDelay = 1
  MaxDelay = 2
  MaxAttempts = 3
  Leased = TRUE
  MaxFaults = 2
INVARIANT LeaseKeepsApart
PROPERTY KeepsPromise
PROPERTY EveryRowSettles
CHECK_DEADLOCK FALSE
