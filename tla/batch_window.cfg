SPECIFICATION Spec
CONSTANTS
  NumRows = 2
  MaxAttempt = 2
  MaxRunners = 3
  Capacity = 1
  Copies = 1
  MaxBlocks = 1
  Idempotent = FALSE
  Ssh = FALSE
  MaxCrashes = 0
  Calls <- NoCalls
  MaxCalls = 0
INVARIANTS
  WindowKept
