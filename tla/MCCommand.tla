------------------------------- MODULE MCCommand -------------------------------
(* Instances of Command for TLC: those of its three parts. *)
EXTENDS Command, MCCopyPlan, MCSplitPlan, MCDoctor
==============================================================================
