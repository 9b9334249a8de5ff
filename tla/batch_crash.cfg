SPECIFICATION FairSpec
CONSTANTS
  NumRows = 1
  MaxAttempt = 2
  MaxRunners = 2
  Capacity = 1
  Copies = 1
  MaxBlocks = 2
  Idempotent = FALSE
  Ssh = TRUE
  MaxCrashes = 1
  Calls <- Resuming
  MaxCalls = 1
INVARIANTS
  AdmittingHasYes
PROPERTIES
  InFlightResolves
