SPECIFICATION Spec
CONSTANTS
  NumRows = 1
  MaxAttempt = 2
  MaxRunners = 3
  Capacity = 1
  Copies = 2
  MaxBlocks = 1
  Idempotent = FALSE
  Ssh = FALSE
  MaxCrashes = 0
  Calls <- Stopping
  MaxCalls = 1
INVARIANTS
  AtMostOnce
  
