----------------------------- MODULE GetContract -----------------------------
(***************************************************************************)
(* What a download promises about the destination path, and all a copy     *)
(* needs to know of it: the old file may go, once, and only when it was    *)
(* to be replaced; the new one appears in one step, complete; and nothing  *)
(* happens to it afterwards.                                               *)
(***************************************************************************)
VARIABLES
  target,     \* what the destination path shows
  replace     \* an existing destination may be replaced

vars == <<target, replace>>

Init == target \in {"absent", "old"} /\ replace \in BOOLEAN

Remove ==
  /\ replace
  /\ target = "old"
  /\ target' = "absent"
  /\ UNCHANGED replace

Publish ==
  /\ target = "absent" \/ (replace /\ target = "old")
  /\ target' = "new"
  /\ UNCHANGED replace

Next == Remove \/ Publish

Spec == Init /\ [][Next]_vars
==============================================================================
