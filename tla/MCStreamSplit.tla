---------------------------- MODULE MCStreamSplit ----------------------------
(* Instances of StreamSplit for TLC. *)
EXTENDS StreamSplit, FiniteSets

Sizes == <<1, 2, 1, 2>>

Limits == {[rows |-> 2, bytes |-> 0], [rows |-> 0, bytes |-> 3],
           [rows |-> 1, bytes |-> 3]}

Options(linesSet, gzSet, drySet) ==
  {[rows |-> l.rows, bytes |-> l.bytes, header |-> h, manifest |-> m, dryRun |-> d,
    gz |-> g, lines |-> n, newline |-> nl] :
     l \in Limits, h \in BOOLEAN, m \in BOOLEAN, d \in drySet, g \in gzSet,
     n \in linesSet, nl \in BOOLEAN}

AllJobs == Options({0, 1, 4}, BOOLEAN, BOOLEAN)

\* What earlier runs leave: nothing, two shards and their manifest, or two
\* shards of a killed run with its temporaries.
Clean == [shards |-> {}, parts |-> {}, manifest |-> FALSE, manifestPart |-> FALSE]
Finished == [shards |-> {1, 2}, parts |-> {}, manifest |-> TRUE, manifestPart |-> FALSE]
Killed == [shards |-> {1}, parts |-> {2}, manifest |-> TRUE, manifestPart |-> TRUE]
Disks == {Clean, Finished, Killed}
==============================================================================
