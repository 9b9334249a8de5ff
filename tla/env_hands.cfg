SPECIFICATION Spec
CONSTANTS
  s1 = s1
  s2 = s2
  e1 = e1
  e2 = e2
  j1 = j1
  j2 = j2
  None = None
  Servers <- OneServer
  Envs <- OneEnv
  Jobs <- TwoJobs
  HandJobs <- SecondJob
  Worst <- TwoWorst
  Charge <- TwoCharge
  Caps = {2, 4}
  Ceiling = 4
  Calls = {"status", "stop_cancel", "abort"}
  Mortal = {}
  Deadlines = FALSE
  LosesSubmits = TRUE
  Prompt = TRUE
INVARIANTS
  HoldsCover
PROPERTIES
  DownIsTrue
CHECK_DEADLOCK FALSE
