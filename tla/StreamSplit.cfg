CONSTANTS
  None = None
  Old = Old
  ShardId = {1, 2, 3, 4}
  Job <- AllJobs
  Disk <- Disks
  Windows = FALSE
  GzBurst = 2
  MaxLines = 4
  LineSize <- Sizes
SPECIFICATION Spec
INVARIANTS
  TypeOK
  FinalShardsWhole
  ManifestDescribesShards
  TempsCleanedUp
  LayoutIsGreedy
PROPERTIES
  ImplementsContract
