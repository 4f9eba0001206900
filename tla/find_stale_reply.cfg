\* Two calls, the first with a timeout; no liveness.
SPECIFICATION Spec
CONSTANTS
  w1 = w1
  w2 = w2
  gather = gather
  forward = forward
  solo = solo
  Workers = {w1, w2}
  Leader = w1
  Calls = {gather, forward}
  AllRanks = {gather, forward}
  Gathered = {gather}
  TimedCalls = {gather}
  Stop = Stop
  None = None
CHECK_DEADLOCK FALSE
INVARIANTS
  ResultsAreRouted
