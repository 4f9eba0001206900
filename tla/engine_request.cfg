\* Request mode: two requests, one RPC with a timeout, close().
SPECIFICATION Spec
CONSTANTS
  t1 = t1
  t2 = t2
  t3 = t3
  r1 = r1
  r2 = r2
  r3 = r3
  k1 = k1
  k2 = k2
  NoKey = NoKey
  None = None
  Tasks = {t1, t2}
  Requests = {r1, r2}
  Keys = {k1, k2}
  ReqId <- OwnIds
  TaskKey <- OneKey
  Rpcs = {c1}
  TimedRpcs = {c1}
  MaxRunning = 1
  TotalSteps = 1
  StepMode = FALSE
  Streaming = FALSE
  PlainAborts = FALSE
  EarlyFailures = FALSE
  Closing = TRUE
CHECK_DEADLOCK FALSE
INVARIANTS
  NoLostWaiter
  ClosedMeansQuiet
