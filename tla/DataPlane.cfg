CONSTANTS
  Scenarios <- MCScenarios
  Cores = {0, 1}
  Ports = {0, 1, 2}
  MaxQueue = 2
  MaxRxQueue = 2
  MaxPortRxQueue = 2
  Burst = 2
  NbMbuf = 3
SPECIFICATION FairSpec
INVARIANTS BuffersOwnedOnce PortOrder LookupAgrees RegisterExact
PROPERTIES Drained
CHECK_DEADLOCK FALSE
