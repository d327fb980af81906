SPECIFICATION Spec
CONSTANTS
  packA = packA
  packG = packG
  subA = subA
  subG = subG
  c1 = c1
  c2 = c2
  Packs = {packA, packG}
  Subs = {subA, subG}
  OnAndroid = {packG, subG}
  Nothing = Nothing
  Operator = Operator
  Calls <- MCCalls
  Scenarios <- MCScenarios
  Period = 1
  Horizon = 2
SYMMETRY Symmetry
INVARIANTS PurchasesSettleOnce StoreIsFollowed CacheNeverDenies
CHECK_DEADLOCK FALSE
