CONSTANTS
  Scenarios <- MCScenarios
  MaxSwitches <- MCMaxSwitches
  MaxDigests <- MCMaxDigests
  NThreads = 3
SPECIFICATION FairSpec
INVARIANTS StreamInSync AtMostOnceInOrder DecodedAsBuilt
  ConfiguredWhenInitialised ForwardedBeforeLearned
PROPERTIES EverythingAnswered Served
CHECK_DEADLOCK FALSE
