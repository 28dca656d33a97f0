---------------------------- MODULE MCBinarySplit ----------------------------
(* Instances of BinarySplit for TLC. *)
EXTENDS BinarySplit

Options(sizes, limits, drySet) ==
  {[rows |-> 2, bytes |-> b, header |-> FALSE, manifest |-> m, dryRun |-> d,
    gz |-> FALSE, size |-> n] :
     b \in limits, m \in BOOLEAN, d \in drySet, n \in sizes}

\* The limit is below, equal to and above the buffer; the sources are empty, a
\* multiple of the limit, and not.
AllJobs == Options({0, 1, 6, 7}, {0, 2, 3, 5}, BOOLEAN)

Clean == [shards |-> {}, parts |-> {}, manifest |-> FALSE, manifestPart |-> FALSE]
Killed == [shards |-> {1}, parts |-> {2}, manifest |-> TRUE, manifestPart |-> TRUE]
Disks == {Clean, Killed}
==============================================================================
