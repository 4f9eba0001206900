\* Two requests, two replicas, two crashes, cancellations or silences of a live replica.
SPECIFICATION FairSpec
CONSTANTS
  r1 = r1
  r2 = r2
  a1 = a1
  a2 = a2
  Requests = {r1, r2}
  Addrs = {a1, a2}
  Initial = {a1}
  None = None
  MaxUpsets = 2
CHECK_DEADLOCK FALSE
INVARIANTS
  SentAreServed
  SubmittedIsBound
  NoOrphanWork
  AffinityReleased
PROPERTIES
  RequestsAnswered
