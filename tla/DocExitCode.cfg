CONSTANTS
  None = None
  Torn = Torn
  g1 = g1
  g2 = g2
  z1 = z1
  p1 = p1
  p2 = p2
  l1 = l1
  l2 = l2
  Cloud = {g1, g2, z1}
  Gcs = {g1, g2}
  Local = {p1, p2}
  Landing = {l1, l2}
  Land <- LandOf
  Job <- BatchJobs
SPECIFICATION Spec
INVARIANTS
  ExitIsWorst
