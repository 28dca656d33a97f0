----------------------------- MODULE MCRangeSplit -----------------------------
(* Instances of RangeSplit for TLC. *)
EXTENDS RangeSplit

Limits == {[rows |-> 2, bytes |-> 0], [rows |-> 0, bytes |-> 3]}

Objects(size) == {[size |-> size, nl |-> nl] : nl \in SUBSET (1 .. size)}

Options(versionSet, drySet) ==
  {[rows |-> l.rows, bytes |-> l.bytes, header |-> h, manifest |-> TRUE, dryRun |-> d,
    gz |-> FALSE, versions |-> v] :
     l \in Limits, h \in BOOLEAN, d \in drySet, v \in versionSet}

\* Every object of these sizes, whatever its lines, left alone.
Alone == {<<o>> : o \in UNION {Objects(n) : n \in {0, 1, 5}}}
AloneJobs == Options(Alone, BOOLEAN)

\* Objects that are replaced once: by as many bytes cut elsewhere, by fewer (so
\* that a later range lies beyond the end, or right at it) and by more.
Early == {[size |-> 5, nl |-> {2, 4}], [size |-> 5, nl |-> {4}]}
Late == {[size |-> 5, nl |-> {1, 3, 5}], [size |-> 0, nl |-> {}],
          [size |-> 2, nl |-> {2}], [size |-> 3, nl |-> {}], [size |-> 7, nl |-> {3, 6}]}
ReplacedJobs == Options({<<b, a>> : b \in Early, a \in Late}, BOOLEAN)

AllJobs == AloneJobs \cup ReplacedJobs

Clean == [shards |-> {}, parts |-> {}, manifest |-> FALSE, manifestPart |-> FALSE]
Killed == [shards |-> {1}, parts |-> {2}, manifest |-> TRUE, manifestPart |-> TRUE]
OneDisk == {Clean}
Disks == {Killed}
==============================================================================
