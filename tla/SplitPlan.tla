------------------------------- MODULE SplitPlan -------------------------------
(***************************************************************************)
(* What split decides before it reads the source (internal/split/common.go,*)
(* preflight.go): the mode, the names of the outputs, and whether the      *)
(* longest of them is short enough; and the names the run then uses.  How  *)
(* the shards are filled is in StreamSplit, RangeSplit and BinarySplit;    *)
(* here a run opens one shard after the other, as many as its source can   *)
(* fill.                                                                   *)
(*                                                                         *)
(* A path is its length.                                                   *)
(***************************************************************************)
EXTENDS Integers, FiniteSets, FiniteSetsExt

CONSTANTS
  MaxPath,  \* windowsMaxPath
  Radix,    \* the radix and the least width of the index in a shard's name,
  Width,    \* 10 and 4 in the code
  SplitJob  \* the splits that may be asked for

ASSUME NumbersAssumption == MaxPath \in Nat /\ Radix \in Nat \ {0, 1} /\ Width \in Nat \ {0}

\* size: what Stat tells; content: the rows of the source, for a text mode; a
\* row of an uncompressed source takes at least a byte of it.
ASSUME SplitJobAssumption ==
  \A j \in SplitJob :
    /\ j.mode \in {"auto", "stream", "range", "binary"}
    /\ j.outFmt \in {"match", "text", "gz"}
    /\ {j.rows, j.bytes, j.size, j.content, j.stem} \subseteq Nat
    /\ {j.remote, j.textLike, j.compressed, j.windows, j.legal} \subseteq BOOLEAN
    /\ ~j.compressed => j.content <= j.size

VARIABLES
  phase,    \* where the run is
  ask,      \* what was asked
  mode,     \* the mode it runs in
  planned,  \* the longest path the preflight has seen
  shards,   \* shards published
  longest,  \* the longest path an output had so far, as a .part
  opened    \* the longest .part opened so far, of an output or not

splitPlanVars == <<phase, ask, mode, planned, shards, longest, opened>>

SplitOver == {"done", "failed"}

------------------------------------------------------------------------------
(* Names.                                                                    *)

Power[d \in Nat] == IF d = 0 THEN 1 ELSE Radix * Power[d - 1]

\* The digits of an index, padded with zeroes.
Digits(n) == CHOOSE d \in Width .. Width + n :
               /\ Power[d] > n
               /\ d = Width \/ Power[d - 1] <= n

Larger(a, b) == IF a > b THEN a ELSE b

\* resolveOutputCompression
CompressOut == ask.outFmt = "gz" \/ (ask.outFmt = "match" /\ ask.compressed)

\* "<stem>_shard_<n>.psv" or ".psv.gz", "<stem>_part_<n>.bin" and
\* "<stem>_manifest.jsonl"; ask.stem counts the directory too.
TextShardPath(n) == ask.stem + 7 + Digits(n) + 4 + (IF CompressOut THEN 3 ELSE 0)
BinaryShardPath(n) == ask.stem + 6 + Digits(n) + 4
ManifestPath == ask.stem + 15
ShardPath(n) == IF mode = "binary" THEN BinaryShardPath(n) ELSE TextShardPath(n)
Part(path) == path + 5

------------------------------------------------------------------------------
(* Split.                                                                    *)

SplitPlanInit ==
  /\ ask \in SplitJob
  /\ phase = "check"
  /\ mode = ask.mode
  /\ planned = 0
  /\ shards = 0
  /\ longest = 0
  /\ opened = 0

\* resolveMode
ResolveMode ==
  CASE ask.mode # "auto" -> ask.mode
    [] ask.mode = "auto" /\ ask.compressed -> "stream"
    [] ask.mode = "auto" /\ ~ask.compressed /\ ask.textLike ->
         IF ask.remote THEN "range" ELSE "stream"
    [] OTHER -> "binary"

\* The limits, Stat and the output directory.
Check ==
  /\ phase = "check"
  /\ \/ /\ ask.rows > 0 \/ ask.bytes > 0
        /\ mode' = ResolveMode
        /\ phase' = "preflight"
     \/ phase' = "failed" /\ UNCHANGED mode
  /\ UNCHANGED <<ask, planned, shards, longest, opened>>

\* (fault) the last, smaller shard is not counted.
EstimatedMaxShardIndex_Floor ==
  IF ask.size = 0 THEN Power[Width] - 1
  ELSE IF mode = "binary" /\ ask.bytes > 0 THEN Larger(1, ask.size \div ask.bytes)
  ELSE Larger(1, ask.size)

\* estimatedMaxShardIndex
EstimatedMaxShardIndex ==
  IF ask.size = 0 THEN Power[Width] - 1
  ELSE IF mode = "binary" /\ ask.bytes > 0
       THEN Larger(1, (ask.size + ask.bytes - 1) \div ask.bytes)
  ELSE Larger(1, ask.size)

\* longestPlannedOutputPath
LongestPlanned ==
  Max({Part(ManifestPath), Part(ShardPath(EstimatedMaxShardIndex))})

Fits == LongestPlanned < MaxPath

\* preflightSplitOutputs: on Windows a path too long ends the run, elsewhere
\* it is only warned of.
SplitPreflight ==
  /\ phase = "preflight"
  /\ planned' = LongestPlanned
  /\ phase' = IF ask.legal /\ (Fits \/ ~ask.windows) THEN "run" ELSE "failed"
  /\ UNCHANGED <<ask, mode, shards, longest, opened>>

\* Range takes an uncompressed cloud text only; any run may fail.
SplitFails ==
  /\ phase \in {"run", "rest"}
  /\ phase' = "failed"
  /\ UNCHANGED <<ask, mode, planned, shards, longest, opened>>

Suits == mode = "range" => ask.remote /\ ~ask.compressed /\ ask.textLike

\* As many shards as can be filled: each has a row, or, in binary mode, all but
\* the last have the limit.
MaxShards ==
  IF mode # "binary" THEN ask.content
  ELSE IF ask.bytes = 0 THEN 0 ELSE (ask.size + ask.bytes - 1) \div ask.bytes

\* A .part is opened; it becomes an output when it is renamed.
OpenPart(path) == opened' = Larger(opened, path)
Publish(path) == OpenPart(path) /\ longest' = Larger(longest, path)

NextShard ==
  /\ phase = "run"
  /\ Suits
  /\ shards < MaxShards
  /\ shards' = shards + 1
  /\ Publish(Part(ShardPath(shards + 1)))
  /\ UNCHANGED <<phase, ask, mode, planned>>

\* A binary source that ends where a shard does may tell its end only to the
\* next read: one more shard is opened, and dropped for being empty.
Spare == mode = "binary" /\ ask.bytes > 0 /\ ask.size % ask.bytes = 0

DropShard ==
  /\ phase = "run"
  /\ Suits
  /\ Spare
  /\ shards = MaxShards
  /\ OpenPart(Part(ShardPath(shards + 1)))
  /\ phase' = "rest"
  /\ UNCHANGED <<ask, mode, planned, shards, longest>>

\* The manifest is closed.
Finish ==
  /\ phase \in {"run", "rest"}
  /\ Suits
  /\ Publish(Part(ManifestPath))
  /\ phase' = "done"
  /\ UNCHANGED <<ask, mode, planned, shards>>

SplitEnded == phase \in SplitOver /\ UNCHANGED splitPlanVars

SplitPlanNext == Check \/ SplitPreflight \/ SplitFails \/ NextShard \/ DropShard \/ Finish \/ SplitEnded

SplitPlanSpec == SplitPlanInit /\ [][SplitPlanNext]_splitPlanVars

------------------------------------------------------------------------------
(* Properties.                                                               *)

\* How many shards there are can be told from the size.
Sized == mode = "binary" \/ ~ask.compressed

\* The shard that is dropped has a wider index than any that is kept.
OneWider ==
  /\ Spare
  /\ shards = MaxShards
  /\ Digits(shards + 1) > Digits(shards)
  /\ opened = planned + 1

\* No output of a split in binary mode or of an uncompressed source has a longer
\* path than the preflight has seen, however many shards there are and however
\* wide their index gets; so on Windows no output is written whose path reaches
\* the limit.  The empty .part that a binary split opens after a source of full
\* shards is not looked at by the preflight: where its index is the first with
\* one more digit it may be one longer (and on Windows fail to open once all
\* shards are published), and nothing else may.
PlanCoversOutputs ==
  opened > 0 /\ Sized =>
    /\ longest <= planned
    /\ ask.windows /\ longest > 0 => longest < MaxPath
    /\ opened <= planned \/ OneWider
==============================================================================
