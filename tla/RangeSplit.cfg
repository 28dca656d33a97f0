CONSTANTS
  None = None
  Old = Old
  ShardId = {1, 2, 3, 4, 5}
  Job <- AllJobs
  Disk <- OneDisk
  Windows = FALSE
  GzBurst = 1
  Block = 2
  Probe = 2
SPECIFICATION FairSpec
INVARIANTS
  TypeOK
  LinesKept
  LayoutIsGreedy
PROPERTIES
  RunEnds
  ImplementsContract
