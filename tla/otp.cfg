SPECIFICATION Spec
CONSTANTS
  ann = ann
  c1 = c1
  c2 = c2
  Target = Target
  NoRow = NoRow
  Requesters = {ann}
  Calls <- MCCalls
  MaxAttempts = 2
  SendCap <- TwoAndThree
  GuessCap <- TwoAndThree
  Before <- OthersTwo
  MaxCodes = 2
  MaxDays = 1
SYMMETRY Symmetry
INVARIANTS CodeHolds BudgetsHold
PROPERTY RightGuessIsHeard
CHECK_DEADLOCK FALSE
