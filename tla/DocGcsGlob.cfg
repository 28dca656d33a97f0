CONSTANTS
  None = none
  Segment <- MCSegment
  Escaped <- MCEscaped
  Decoded <- MCDecoded
  Cwd <- MCCwd
  Profile = {"p", "q", "r"}
  File = {"f1", "f2", "f3", "f4"}
  Project = {"flag", "leg", "named", "google"}
  Job <- CopyJobs
SPECIFICATION Spec
INVARIANTS
  GlobsArePlanned
