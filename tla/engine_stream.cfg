\* Streaming: partial results, cancellations, close().
SPECIFICATION Spec
CONSTANTS
  t1 = t1
  t2 = t2
  t3 = t3
  r1 = r1
  r2 = r2
  r3 = r3
  k1 = k1
  k2 = k2
  NoKey = NoKey
  None = None
  Tasks = {t1, t2}
  Requests = {r1, r2}
  Keys = {k1, k2}
  ReqId <- OwnIds
  TaskKey <- OneKey
  Rpcs = {}
  TimedRpcs = {}
  MaxRunning = 2
  TotalSteps = 2
  StepMode = TRUE
  Streaming = TRUE
  PlainAborts = FALSE
  EarlyFailures = TRUE
  Closing = TRUE
CHECK_DEADLOCK FALSE
INVARIANTS
  NoLostWaiter
  AnsweredOnce
