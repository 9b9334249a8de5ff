SPECIFICATION Spec
CONSTANTS
  s1 = s1
  s2 = s2
  e1 = e1
  e2 = e2
  j1 = j1
  j2 = j2
  None = None
  Servers <- TwoServers
  Envs <- TwoEnvs
  Jobs <- OneJob
  HandJobs = {}
  Worst <- OneWorst
  Charge <- OneCharge
  Caps = {2}
  Ceiling = 4
  Calls = {"stop_cancel"}
  Mortal <- TwoServers
  Deadlines = FALSE
  LosesSubmits = FALSE
  Prompt = TRUE
SYMMETRY Symmetry
INVARIANTS
  TypeOK
PROPERTIES
  StopHolds
  DownIsTrue
  
CHECK_DEADLOCK FALSE
