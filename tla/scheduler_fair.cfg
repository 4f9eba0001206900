\* Liveness: requests may keep arriving and ending for ever.
SPECIFICATION FairSchedulerSpec
CONSTANTS
  Requests = {r1, r2, r3}
  Keys = {k1}
  NoKey = NoKey
  MaxRunning = 2
  StepMode = TRUE
  TotalSteps = 2
PROPERTIES
  NoStarvation
