SPECIFICATION Spec
CONSTANTS
  MaxCores = 4
  Host = Host
  None = None
INVARIANTS
  TypeOK
  HostCoresJoined
  NoEndedCoreRegistered
  DropKeepsHostCores
PROPERTIES
  NoCoreAfterInterrupt
  ImplementsJoin
CHECK_DEADLOCK FALSE
