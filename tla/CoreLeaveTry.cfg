CONSTANTS
  Texts <- MCTexts
  Names <- MCNames
  Sources <- LeaveTrySources
  Programs <- LeaveTryPrograms
  Entries = {"main"}
  VCycle = 4
  CallStackMax = 4
  StackMax = 4
  MemoryMax = 20
SPECIFICATION CSpec
CHECK_DEADLOCK FALSE
INVARIANTS
  UncaughtTerminates
