CONSTANTS
  None = None
  Old = Old
  Foreign = Foreign
  Hole = Hole
  Opt <- AllOpts
  Block = 2
  Others = TRUE
SPECIFICATION Spec
INVARIANTS
  TypeOK
  WorkersContained
  TempsCleanedUp
PROPERTIES
  OldGoesForReplacement
  ImplementsContract
