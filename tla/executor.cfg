\* A call of each kind, one with a timeout, worker deaths and both shutdowns.
SPECIFICATION FairSpec
CONSTANTS
  w1 = w1
  w2 = w2
  gather = gather
  forward = forward
  solo = solo
  Workers = {w1, w2}
  Leader = w1
  Calls = {gather, solo}
  AllRanks = {gather}
  Gathered = {gather}
  TimedCalls = {solo}
  Stop = Stop
  None = None
CHECK_DEADLOCK FALSE
INVARIANTS
  CallsNeverDeadlock
  AnswersAreOwn
  SuccessMeansAllRanks
PROPERTIES
  OnlyDeathsAreReported
  CallsEnd
  DeathsAreReported
  WorkersEnd
