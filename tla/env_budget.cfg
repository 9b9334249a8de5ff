SPECIFICATION Spec
CONSTANTS
  s1 = s1
  s2 = s2
  e1 = e1
  e2 = e2
  j1 = j1
  j2 = j2
  None = None
  Servers <- TwoServers
  Envs <- TwoEnvs
  Jobs <- TwoJobs
  HandJobs = {}
  Worst <- TwoWorst
  Charge <- TwoCharge
  Caps = {3}
  Ceiling = 5
  Calls = {"status"}
  Mortal <- TwoServers
  Deadlines = FALSE
  LosesSubmits = FALSE
  Prompt = TRUE
SYMMETRY Symmetry
INVARIANTS
  HoldsCover
  
PROPERTIES
  BudgetKept
CHECK_DEADLOCK FALSE
