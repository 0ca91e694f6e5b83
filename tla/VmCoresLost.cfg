SPECIFICATION Spec
CONSTANTS
  MaxCores = 3
  Host = Host
  None = None
INVARIANT
  WaitJoinsEveryCore
CHECK_DEADLOCK FALSE
