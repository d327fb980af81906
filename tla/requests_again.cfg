SPECIFICATION FairSpec
CONSTANTS
  host = host
  ann = ann
  bob = bob
  m1 = m1
  m2 = m2
  Users = {host, ann}
  Meetups = {m1}
  HostOf <- OneHost
  Capacity <- OneSeat
  Start <- OneStart
  End <- OneEnd
  Leavers = {host, ann}
  Horizon = 2
  MaxAsks = 3
INVARIANTS AskedAgainOnce SeatRules EndedIsTold
PROPERTIES DecidedStays KeepsSeats EveryMeetupEnds DeletionConverges
CHECK_DEADLOCK FALSE
