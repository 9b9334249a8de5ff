SPECIFICATION FairSpec
CONSTANTS
  s1 = s1
  s2 = s2
  s3 = s3
  p1 = p1
  p2 = p2
  p3 = p3
  NoPid = NoPid
  Servers <- ThreeServers
  First = s1
  Pids <- ThreePids
  KnowsStarts = TRUE
  MaxAttempt = 2
INVARIANTS
  TypeOK
  AdmitsOnYes
  AttemptIsOnes
PROPERTIES
  TakenFromTheDead
  ReservesAsKeeper
  NeverSentLater
  DeadReplaced
CHECK_DEADLOCK FALSE
