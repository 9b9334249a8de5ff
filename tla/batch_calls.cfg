SPECIFICATION Spec
CONSTANTS
  NumRows = 1
  MaxAttempt = 2
  MaxRunners = 3
  Capacity = 1
  Copies = 1
  MaxBlocks = 2
  Idempotent = FALSE
  Ssh = TRUE
  MaxCrashes = 0
  Calls <- AllCalls
  MaxCalls = 2
INVARIANTS
  TypeOK
  FuturesAreOut
  AtMostOnce
  OutcomeIsOwn
PROPERTIES
  SettledSticks
  ReturnsOnlyUnstarted
  
