SPECIFICATION Spec
CONSTANTS
  Rows = {r1, r2}
  Pollers = {p1, p2}
  NoRow = NoRow
  NoPoller = NoPoller
  BatchSize = 1
  Visibility = 1
  BaseDelay = 1
  MaxDelay = 1
  MaxAttempts = 2
  Leased = FALSE
  MaxFaults = 1
SYMMETRY Symmetry
INVARIANT TwiceOnlyInTrouble
INVARIANT NudgeNotLost
CHECK_DEADLOCK FALSE
