---------------------------- MODULE SplitContract ----------------------------
(***************************************************************************)
(* What a split promises to whoever watches the output directory, whatever *)
(* the mode: shards appear one at a time, each a non-empty run of the      *)
(* source that continues where the previous one stopped; a shard that has  *)
(* appeared never changes; and the manifest appears last, once, and only   *)
(* when the whole source is out.  At any point the run may simply stop.    *)
(*                                                                         *)
(* The source is a range of positions (lines or bytes).                    *)
(***************************************************************************)
EXTENDS Integers, Sequences

VARIABLES
  first, last,  \* the positions to be split: first .. last
  shards,       \* the published shards, each a sequence of positions
  listed        \* the manifest is published

vars == <<first, last, shards, listed>>

\* The last position that is out.
Done ==
  IF shards = <<>> THEN first - 1
  ELSE LET s == shards[Len(shards)] IN s[Len(s)]

Init ==
  /\ shards = <<>>
  /\ listed = FALSE

Publish ==
  /\ ~listed
  /\ \E n \in 1 .. (last - Done) :
       shards' = Append(shards, [k \in 1 .. n |-> Done + k])
  /\ UNCHANGED <<first, last, listed>>

List ==
  /\ ~listed
  /\ Done >= last
  /\ listed' = TRUE
  /\ UNCHANGED <<first, last, shards>>

Next == Publish \/ List

Spec == Init /\ [][Next]_vars
==============================================================================
