SPECIFICATION Spec
CONSTANTS
  Offers <- PackAndWelcome
  Amounts = {1}
  Included = 0
  TTL = 1
  MaxLots = 2
  Horizon = 2
  first = first
  retry = retry
  other = other
  Calls = {first, retry}
  Keyed = {first, retry}
  KeyOf <- Keys
  Price <- ThreeEach
  MaxRefunds = 2
  MaxFaults = 1
INVARIANTS Reconciled PaidOnce RefundedOnce HoldsAreCovered
CHECK_DEADLOCK FALSE
