CONSTANTS
  Scenarios <- Packed
  MaxSwitches <- MCMaxSwitches
  MaxDigests <- MCMaxDigests
  NThreads = 3
SPECIFICATION Spec
INVARIANTS OnlyReported
CHECK_DEADLOCK FALSE
