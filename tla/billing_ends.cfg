SPECIFICATION FairSpec
CONSTANTS
  Offers <- OnePack
  Amounts = {1}
  Included = 0
  TTL = 1
  MaxLots = 1
  Horizon = 1
  first = first
  retry = retry
  other = other
  Calls = {first, retry}
  Keyed = {first, retry}
  KeyOf <- Keys
  Price <- ThreeEach
  MaxRefunds = 1
  MaxFaults = 2
PROPERTIES CostsItsFee EveryHoldEnds EveryMeetupIsPaid
CHECK_DEADLOCK FALSE
