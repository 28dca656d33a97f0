-------------------------------- MODULE Command --------------------------------
(***************************************************************************)
(* What a command decides before any data moves: one process runs the plan *)
(* of cp (CopyPlan), the preflight of split (SplitPlan) or doctor (Doctor).*)
(* The other two are idle.                                                 *)
(***************************************************************************)
EXTENDS CopyPlan, SplitPlan, Doctor

CopyIdle ==
  /\ pc = "idle" /\ job = None /\ at = 1 /\ entry = 1
  /\ matches = <<>> /\ resolved = <<>> /\ items = <<>> /\ seen = {}

SplitIdle ==
  /\ phase = "idle" /\ ask = None /\ mode = None
  /\ planned = 0 /\ shards = 0 /\ longest = 0 /\ opened = 0

DoctorIdle ==
  /\ stage = "idle" /\ visit = None /\ status = [p \in {} |-> {}] /\ exit = Unset

CommandInit ==
  \/ Init /\ SplitIdle /\ DoctorIdle
  \/ SplitPlanInit /\ CopyIdle /\ DoctorIdle
  \/ DoctorInit /\ CopyIdle /\ SplitIdle

CommandNext ==
  \/ Next /\ UNCHANGED <<splitPlanVars, doctorVars>>
  \/ SplitPlanNext /\ UNCHANGED <<vars, doctorVars>>
  \/ DoctorNext /\ UNCHANGED <<vars, splitPlanVars>>

CommandSpec == CommandInit /\ [][CommandNext]_<<vars, splitPlanVars, doctorVars>>
==============================================================================
