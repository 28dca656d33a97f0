----------------------------- MODULE BinarySplit -----------------------------
(***************************************************************************)
(* Binary mode (internal/split/binary.go): the source is copied through a  *)
(* fixed buffer into shards of exactly job.bytes bytes, the last of which  *)
(* may be shorter.  A shard is opened before it is known whether anything  *)
(* is left to put in it, and thrown away when nothing was.                 *)
(*                                                                         *)
(* A byte is its position; a row of a shard is what one Read delivered.    *)
(* Nothing is compressed and there is no header: job.gz and job.header are *)
(* FALSE.                                                                  *)
(***************************************************************************)
EXTENDS SplitOutput, SequencesExt

CONSTANT Buffer  \* binaryCopyBufferSize

ASSUME BufferAssumption == Buffer \in Nat \ {0}
ASSUME SourceAssumption ==
  \A j \in Job : j.size \in Nat /\ ~j.gz /\ ~j.header

\* A shard is the pieces it was written in.
FileState == [hdr : BOOLEAN, rows : Seq(Seq(Nat)), whole : BOOLEAN]
EntryType == [index : Nat, rows : Nat, bytes : Nat, md5 : FileState \cup {None}]

\* The markers are neither shards nor manifests.
ASSUME MarkersAreNotFiles == {None, Old} \cap (FileState \cup Seq(EntryType)) = {}

VARIABLES
  taken,  \* bytes read from the source so far
  eof     \* reachedEOF

readVars == <<taken, eof>>
vars == <<outVars, taken, eof>>

Smaller(a, b) == IF a < b THEN a ELSE b

\* readBinaryShard's stats.bytes, and how much of the shard is missing.
Filled == IF job.dryRun THEN dry.bytes ELSE shard.n
Remaining == job.bytes - Filled

\* Inside readBinaryShard, and about to call Read.
Filling == pc = "fill" /\ (job.dryRun \/ shard.st = "open")
Reading == Filling /\ Remaining > 0 /\ ~eof

Init ==
  /\ OutInit
  /\ taken = 0
  /\ eof = FALSE

Start == NewManifestWriter("loop") /\ UNCHANGED readVars

\* A context check, at the top of the loop or between two reads, or a reader
\* that fails: the shard in progress is aborted.
Fails ==
  /\ pc = "loop" \/ Reading
  /\ pc' = "abort"
  /\ UNCHANGED <<job, cancelled, disk, index, shard, man, dry, result, readVars>>

\* The top of the loop: the next shard is opened, even when none will be needed.
NextShard ==
  /\ pc = "loop"
  /\ ~cancelled
  /\ pc' = "fill"
  /\ UNCHANGED <<job, cancelled, disk, index, shard, man, dry, result, readVars>>

OpenShard ==
  /\ pc = "fill"
  /\ NewShardWriter(FALSE, 0)
  /\ UNCHANGED readVars

\* (fault) a full buffer is read, whatever the shard has room for.
Room_WholeBuffer == Buffer

Room == Smaller(Buffer, Remaining)

MayRead == ~cancelled

\* One Read of at most the buffer and at most what the shard has room for: it
\* delivers as much as it likes, and the last bytes with or without io.EOF.
ReadPiece ==
  /\ Reading
  /\ MayRead
  /\ \E n \in 1 .. Smaller(Room, job.size - taken) :
       /\ taken' = taken + n
       /\ eof' \in {FALSE, taken + n = job.size}
       /\ IF job.dryRun
          THEN /\ dry' = [dry EXCEPT !.open = TRUE, !.bytes = @ + n]
               /\ UNCHANGED <<shardPart, shard, pc>>
          ELSE /\ \/ WriteOk([k \in 1 .. n |-> taken + k], n, 0) /\ UNCHANGED pc
                  \/ WriteFails
               /\ UNCHANGED dry
  /\ UNCHANGED <<job, cancelled, shardFile, manFile, manPart, index, man, result>>

\* A Read at the end of the source.
ReadEOF ==
  /\ Reading
  /\ MayRead
  /\ taken = job.size
  /\ eof' = TRUE
  /\ UNCHANGED <<pc, job, cancelled, disk, index, shard, man, dry, result, taken>>

ShardEnds == Filling /\ ~Reading

\* (fault) the empty shard is kept.
DropsEmpty_Never == FALSE

DropsEmpty == Filled = 0

\* (fault) the empty shard is forgotten, and its .part with it.
AfterDrop_Leaves == shardPart

AfterDrop == [shardPart EXCEPT ![index] = None]

\* Nothing was put in: the shard is aborted and the loop is over.
EmptyShard ==
  /\ ShardEnds
  /\ DropsEmpty
  /\ IF job.dryRun
     THEN UNCHANGED <<shardPart, shard>>
     ELSE shardPart' = AfterDrop /\ shard' = NoShard
  /\ pc' = "commit"
  /\ UNCHANGED <<job, cancelled, shardFile, manFile, manPart, index, man, dry, result, readVars>>

\* A shard with content is closed, or entered in the plan.
AfterShard == IF eof THEN "commit" ELSE "loop"

ShardFilled ==
  /\ ShardEnds
  /\ ~DropsEmpty
  /\ IF job.dryRun
     THEN /\ index' = index + 1
          /\ result' = Append(result, Entry(index + 1, 0, dry.bytes, None))
          /\ dry' = NoDry
          /\ pc' = AfterShard
     ELSE pc' = "flush" /\ UNCHANGED <<index, result, dry>>
  /\ UNCHANGED <<job, cancelled, disk, shard, man, readVars>>

Record == RecordShard(AfterShard) /\ UNCHANGED readVars

Output ==
  /\ \/ FlushShard \/ UnlinkShard \/ RenameShard
     \/ CloseManifest \/ UnlinkManifest \/ RenameManifest
     \/ AbortShard \/ AbortManifest
  /\ UNCHANGED readVars

Process ==
  \/ Start \/ Fails \/ NextShard \/ OpenShard \/ ReadPiece \/ ReadEOF
  \/ EmptyShard \/ ShardFilled \/ Record \/ Output

Environment == (Cancel \/ Crash) /\ UNCHANGED readVars

Ended == pc \in Terminal /\ UNCHANGED vars

Next == Process \/ Environment \/ Ended

Spec == Init /\ [][Next]_vars

------------------------------------------------------------------------------
(* Properties.                                                               *)

\* The shapes of the variables; job.bytes bounds the shard in progress.
TypeOK ==
  /\ pc \in Terminal \cup {"start", "loop", "fill", "flush", "unlink", "rename", "record",
                           "commit", "unlinkManifest", "renameManifest", "abort", "abortManifest"}
  /\ job \in Job
  /\ cancelled \in BOOLEAN
  /\ shardFile \in [ShardId -> FileState \cup {None, Old}]
  /\ shardPart \in [ShardId -> FileState \cup {None, Old}]
  /\ manFile \in Seq(EntryType) \cup {None, Old}
  /\ manPart \in Seq(EntryType) \cup {None, Old}
  /\ index \in Nat
  /\ shard \in [st : {"none", "open", "closed", "aborted"}, rows : {0}, n : 0 .. job.bytes]
  /\ man \in {"none", "open", "closed", "aborted"}
  /\ dry \in [open : BOOLEAN, rows : {0}, bytes : 0 .. job.bytes]
  /\ result \in Seq(EntryType)
  /\ taken \in 0 .. job.size
  /\ eof \in BOOLEAN

Content(i) == FlattenSeq(shardFile[i].rows)
ShardSize(i) == Smaller(job.bytes, job.size - (i - 1) * job.bytes)

\* Every published shard holds exactly its slice of the source, whatever pieces
\* the reader delivered it in: job.bytes bytes, or what is left of the source.
\* In particular no shard is empty.  A run that reports success has as many of
\* them as the source fills, written or planned: none is added when the source
\* ends exactly at a limit, and the dry run predicts the real one.
ShardsExact ==
  /\ \A i \in Published :
       /\ i = 1 \/ i - 1 \in Published
       /\ shardFile[i].whole
       /\ Content(i) # <<>>
       /\ Len(Content(i)) = ShardSize(i)
       /\ \A k \in 1 .. Len(Content(i)) : Content(i)[k] = (i - 1) * job.bytes + k
  /\ pc = "done" /\ job.bytes > 0 =>
       /\ job.size <= Len(result) * job.bytes
       /\ \A i \in 1 .. Len(result) : result[i].bytes \in {ShardSize(i)} \ {0}
       /\ Published = IF job.dryRun THEN {} ELSE 1 .. Len(result)

\* A binary split implements the contract; without a limit on bytes there is
\* nothing it would split.
Contract == INSTANCE SplitContract WITH
  first <- 1,
  last <- IF job.bytes > 0 THEN job.size ELSE 0,
  shards <- [i \in Published |-> Content(i)],
  listed <- New(manFile)

ImplementsContract == Contract!Spec
==============================================================================
