-------------------------------- MODULE Inspect --------------------------------
(***************************************************************************)
(* inspect (cmd/dimlox/inspect.go): exactly one of --head, --tail, --mid   *)
(* and --wc (Sample) or --detect (Detect); the other part is idle.         *)
(***************************************************************************)
EXTENDS Sample, Detect

SampleIdle ==
  /\ pc = "idle" /\ job = Nothing /\ end = 0 /\ at = 0 /\ limit = 0
  /\ lines = <<>> /\ count = 0

DetectIdle ==
  /\ step = "idle" /\ query = Nothing /\ rows = <<>> /\ next = 1 /\ left = {}
  /\ dominant = NoDominant /\ best = NoScore /\ told = Nothing

InspectInit == (SampleInit /\ DetectIdle) \/ (DetectInit /\ SampleIdle)

InspectNext ==
  \/ SampleNext /\ UNCHANGED detectVars
  \/ DetectNext /\ UNCHANGED sampleVars

InspectSpec == InspectInit /\ [][InspectNext]_<<sampleVars, detectVars>>
==============================================================================
