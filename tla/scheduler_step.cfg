\* Three request ids, two batch keys and requests without a key, batches of two,
\* two denoise steps per request.
SPECIFICATION SchedulerSpec
CONSTANTS
  Requests = {r1, r2, r3}
  Keys = {k1, k2}
  NoKey = NoKey
  MaxRunning = 2
  StepMode = TRUE
  TotalSteps = 2
SYMMETRY Symmetry
INVARIANTS
  SchedulerTypeOK
  QueuesMatchStatus
  BatchIsLegal
  CachedNotFinished
PROPERTIES
  VerdictIsFinal
  LifecycleSpec
