CONSTANTS
  Texts <- MCTexts
  Names <- MCNames
  Sources <- LimitSources
  Programs <- LimitPrograms
  Entries = {"main"}
  VCycle = 3
  CallStackMax = 3
  StackMax = 2
  MemoryMax = 20
SPECIFICATION CFairSpec
CHECK_DEADLOCK FALSE
INVARIANTS
  ResourcesBounded
PROPERTIES
  CancelStops
  LooplessStops
