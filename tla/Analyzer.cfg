SPECIFICATION ASpec
CONSTANTS
  Names = {main, a, b}
  Entry = main
  Sources <- MCSources
  Functions <- MCFunctions
  Rewritten <- MCRewritten
SYMMETRY NameSymmetry
CHECK_DEADLOCK FALSE
INVARIANTS
  TypeOK
  AcceptedIsAcyclic
  CyclesDiagnosed
  CyclePathsAreReal
  BodiesKeepTheirType
  OptimizerKeepsEnds
  RewritingKeepsEnds
