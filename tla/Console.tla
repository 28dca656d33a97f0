-------------------------------- MODULE Console --------------------------------
(***************************************************************************)
(* What a command tells while and after it reads: the progress of a        *)
(* transfer, which two goroutines print (Progress), or what inspect was    *)
(* asked (Inspect).  A process does one or the other.                      *)
(***************************************************************************)
EXTENDS Progress, Inspect

ProgressIdle ==
  /\ interactive = FALSE /\ main = "idle" /\ loop = "returned"
  /\ worker = [w \in Worker |-> [at |-> "returned", moved |-> 0, sum |-> 0, seen |-> 0]]
  /\ total = 0 /\ current = 0 /\ done = FALSE /\ shown = 0
  /\ tick = FALSE /\ ticks = 0 /\ out = <<>>

ConsoleInit ==
  \/ Init /\ SampleIdle /\ DetectIdle
  \/ InspectInit /\ ProgressIdle

ConsoleNext ==
  \/ Next /\ UNCHANGED <<sampleVars, detectVars>>
  \/ InspectNext /\ UNCHANGED vars

ConsoleSpec ==
  /\ ConsoleInit
  /\ [][ConsoleNext]_<<vars, sampleVars, detectVars>>
  /\ Fairness
==============================================================================
