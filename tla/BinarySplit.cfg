CONSTANTS
  None = None
  Old = Old
  ShardId = {1, 2, 3, 4, 5}
  Job <- AllJobs
  Disk <- Disks
  Windows = TRUE
  GzBurst = 1
  Buffer = 3
SPECIFICATION Spec
INVARIANTS
  TypeOK
  ShardsExact
  TempsCleanedUp
PROPERTIES
  VanishesOnlyForReplacement
  ImplementsContract
