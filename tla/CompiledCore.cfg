CONSTANTS
  Texts <- MCTexts
  Names <- MCNames
  Sources <- MCSources
  Programs <- MCPrograms
  Entries = {"main", "@init"}
  VCycle = 4
  CallStackMax = 4
  StackMax = 4
  MemoryMax = 20
SPECIFICATION CSpec
CHECK_DEADLOCK FALSE
INVARIANTS
  MpMatchesFrames
  CatchLabelsLive
  OperandsDropped
  AgreesWithTree
  GlobalsInitialised
PROPERTIES
  ImplementsFrames
