CONSTANTS
  Literals <- MCLiterals
  Annotations <- MCAnnotations
  Openings <- MCOpenings
  MaxStatements = 2
SPECIFICATION Spec
INVARIANTS TypesHold NeverPanics CastsValidate CastsCopy EnginesCastAlike
CHECK_DEADLOCK FALSE
