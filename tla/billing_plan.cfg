SPECIFICATION Spec
CONSTANTS
  Offers <- OnePack
  Amounts = {}
  Included = 1
  TTL = 1
  MaxLots = 1
  Horizon = 1
  first = first
  retry = retry
  other = other
  Calls = {first, retry, other}
  Keyed = {first, retry}
  KeyOf <- Keys
  Price <- ThreeEach
  MaxRefunds = 1
  MaxFaults = 0
INVARIANTS PaysItsPrice QuotaIsKept
CHECK_DEADLOCK FALSE
