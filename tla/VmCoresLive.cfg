SPECIFICATION FairSpec
CONSTANTS
  MaxCores = 3
  Host = Host
  None = None
PROPERTIES
  WaitReturns
  InterruptReachesHost
  CancelQuiesces
  SpawnReturns
CHECK_DEADLOCK FALSE
