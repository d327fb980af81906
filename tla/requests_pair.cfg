SPECIFICATION Spec
CONSTANTS
  host = host
  ann = ann
  bob = bob
  m1 = m1
  m2 = m2
  Users = {host, ann, bob}
  Meetups = {m1, m2}
  HostOf <- TwoHosts
  Capacity <- SeatEach
  Start <- TwoStarts
  End <- TwoEnds
  Leavers = {}
  Horizon = 3
  MaxAsks = 1
INVARIANTS NoDoubleBooking SeatRules
CHECK_DEADLOCK FALSE
