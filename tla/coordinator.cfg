\* Two replicas, four upsets; one tick of timeout, two until collection.
SPECIFICATION FairSpec
CONSTANTS
  a1 = a1
  a2 = a2
  Addrs = {a1, a2}
  Loads = {0, 1}
  Gone = Gone
  Timeout = 1
  GcTtl = 2
  MaxWire = 1
  MaxUpsets = 4
INVARIANTS
  CoordTypeOK
  RunningIsListed
PROPERTIES
  HubConverges
