CONSTANTS
  None = None
  Old = Old
  Opt <- AllOpts
SPECIFICATION Spec
INVARIANTS
  TypeOK
  WholeOrNothing
  TempManaged
