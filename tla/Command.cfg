CONSTANTS
  None = none
  Segment <- MCSegment
  Escaped <- MCEscaped
  Decoded <- MCDecoded
  Cwd <- MCCwd
  Profile = {"p", "q", "r"}
  File = {"f1", "f2", "f3", "f4"}
  Project = {"flag", "leg", "named", "google"}
  Job <- CopyJobs
  MaxPath = 35
  Radix = 2
  Width = 2
  SplitJob <- SplitJobs
  DoctorJob <- DoctorJobs
SPECIFICATION CommandSpec
INVARIANTS
  TypeOK
  PlanIsExact
  OneTransferPerPlace
  LegsAsDocumented
  PlanCoversOutputs
  DoctorForetells
  ExitTells
