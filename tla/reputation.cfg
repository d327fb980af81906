SPECIFICATION Spec
CONSTANTS
  c1 = c1
  c2 = c2
  m1 = m1
  m2 = m2
  NoOne = NoOne
  NoMeetup = NoMeetup
  People <- MCPeople
  Reviewers <- MCReviewers
  LockKey <- Colliding
  Calls <- MCCalls
  Meetups <- MCMeetups
  Attends <- MCAttends
  Starts <- MCStarts
SYMMETRY Symmetry
INVARIANTS
  ProfilesCatchUp
  ReviewIsWhole
  StandoffNeedsCollision
CHECK_DEADLOCK FALSE
