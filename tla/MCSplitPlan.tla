------------------------------ MODULE MCSplitPlan ------------------------------
(* Instances of SplitPlan for TLC. *)
EXTENDS SplitPlan

\* With radix 2 and width 2 the index widens at 4 and at 8.  Stems put the
\* longest path below, at and above the limit; a compressed source may hold
\* more rows than bytes.
NarrowJobs ==
  {j \in [mode : {"auto", "stream", "range", "binary"}, outFmt : {"match", "text", "gz"},
          rows : {0, 1}, bytes : {0, 1, 2}, size : {0, 1, 2, 3, 4, 5, 7, 8, 9}, content : {0, 1, 4, 8, 9},
          stem : {11, 12, 13, 14, 15}, remote : BOOLEAN, textLike : BOOLEAN, compressed : BOOLEAN,
          windows : {TRUE}, legal : {TRUE}] :
     /\ ~j.compressed => j.content <= j.size
     /\ j.mode # "auto" => j.remote /\ j.textLike}
  \cup
  {[mode |-> "auto", outFmt |-> "gz", rows |-> 1, bytes |-> 0, size |-> 3, content |-> 3,
    stem |-> 15, remote |-> FALSE, textLike |-> TRUE, compressed |-> FALSE, windows |-> w,
    legal |-> l] : w, l \in BOOLEAN}

\* A binary shard has a longer name than the manifest from an index of six
\* digits on: here 32 shards of two bytes, and 31 full ones of one byte.
WideJobs ==
  {[mode |-> "binary", outFmt |-> "match", rows |-> 0, bytes |-> b, size |-> z, content |-> 0,
    stem |-> s, remote |-> FALSE, textLike |-> FALSE, compressed |-> FALSE, windows |-> TRUE,
    legal |-> TRUE] : b \in {1, 2}, z \in {31, 32, 62, 63, 64}, s \in 12 .. 15}
SplitJobs == NarrowJobs \cup WideJobs

==============================================================================
