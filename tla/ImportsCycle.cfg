SPECIFICATION Spec
CONSTANTS
  Names = {main, a, b}
  Entry = main
  Sources <- MCSources
SYMMETRY NameSymmetry
CHECK_DEADLOCK FALSE
INVARIANTS
  SearchEnds
