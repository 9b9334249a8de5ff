SPECIFICATION FairSpec
CONSTANTS
  s1 = s1
  s2 = s2
  e1 = e1
  e2 = e2
  j1 = j1
  j2 = j2
  None = None
  Servers <- OneServer
  Envs <- OneEnv
  Jobs <- OneJob
  HandJobs = {}
  Worst <- OneWorst
  Charge <- OneCharge
  Caps = {2, 4}
  Ceiling = 4
  Calls = {"stop_cancel", "stop_keep", "drain", "abort_job"}
  Mortal = {}
  Deadlines = TRUE
  LosesSubmits = FALSE
  Prompt = TRUE
PROPERTIES
  StopEndsDown
CHECK_DEADLOCK FALSE
