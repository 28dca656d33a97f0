----------------------------- MODULE MCDownload -----------------------------
(* Instances of Download for TLC. *)
EXTENDS Download

Options(overwriteSet, verifySet, sourceSet, workersSet, versionsSet) ==
  {[overwrite |-> o, verify |-> v, compress |-> s.compress, remote |-> s.remote,
    summed |-> s.summed, workers |-> w, versions |-> vs] :
     o \in overwriteSet, v \in verifySet, s \in sourceSet, w \in workersSet,
     vs \in versionsSet}

Cloud == [compress |-> FALSE, remote |-> TRUE, summed |-> TRUE]
Unsummed == [Cloud EXCEPT !.summed = FALSE]
Local == [compress |-> FALSE, remote |-> FALSE, summed |-> FALSE]
Compressed == [Cloud EXCEPT !.compress = TRUE]
LocalCompressed == [Local EXCEPT !.compress = TRUE]

\* Three ranges, the last one short, on fewer workers than ranges.
Alone == Options(BOOLEAN, {TRUE}, {Cloud}, {1, 2}, {<<5>>, <<0>>})

\* A replacement that is longer, as long, shorter, and so short that a later
\* range lies beyond its end.
Replaced == Options(BOOLEAN, BOOLEAN, {Cloud, Unsummed}, {2},
                    {<<3, 4>>, <<3, 3>>, <<4, 3>>, <<4, 1>>, <<0, 3>>})

Streams == Options(BOOLEAN, BOOLEAN, {Local, Compressed, LocalCompressed}, {1},
                   {<<0>>, <<2>>, <<2, 3>>, <<3, 2>>})

AllOpts == Alone \cup Replaced \cup Streams
==============================================================================
