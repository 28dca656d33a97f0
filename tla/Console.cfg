CONSTANTS
  w1 = w1
  w2 = w2
  Worker = {w1, w2}
  Pieces = 2
  MaxTicks = 2
  Chunk = 2
  Job <- AllJobs
  Nothing = nothing
  Delims <- MCDelims
  ByteOf <- MCByteOf
  RowLimit = 5
  DetectJob <- DetectJobs
SPECIFICATION ConsoleSpec
INVARIANTS
  TypeOK
  OutputConsistent
  SamplesAreRight
  VerdictIsRight
  EncodingIsRight
PROPERTIES
  LoopEnds
