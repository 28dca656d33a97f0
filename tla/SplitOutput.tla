----------------------------- MODULE SplitOutput -----------------------------
(***************************************************************************)
(* The output side that the three split modes share: the shard writer      *)
(* (internal/split/writer.go), the manifest writer (manifest.go), the      *)
(* rename that publishes a file (internal/fileutil/atomic.go), the         *)
(* rotation test and the close path (stream.go), and the deferred cleanup  *)
(* of every mode.  A mode (StreamSplit, RangeSplit, BinarySplit) extends   *)
(* this module with its reader and composes the actions below.             *)
(*                                                                         *)
(* A step is what the program does between two points where the disk can   *)
(* be observed by somebody else, an operation can fail, or the process can *)
(* die.  A file is its rows; bytes matter only as the count that rotation  *)
(* compares with the limit.                                                *)
(*                                                                         *)
(* A definition marked (fault) is the one after it with a bug seeded: it   *)
(* is used to see that the properties would notice, and by nothing else.   *)
(***************************************************************************)
EXTENDS Integers, Sequences

CONSTANTS
  None,      \* no file under that name
  Old,       \* a file left by an earlier run over the same directory
  ShardId,   \* the indexes a shard file name can carry
  Job,       \* the option records a run may be started with
  Disk,      \* the output directories a run may find
  Windows,   \* TRUE: a rename needs the target removed first
  GzBurst    \* bound: compressed bytes one call into gzip may emit

ASSUME MarkerAssumption == None # Old
ASSUME ShardIdAssumption == ShardId \subseteq Nat \ {0}
ASSUME GzBurstAssumption == GzBurst \in Nat
ASSUME WindowsAssumption == Windows \in BOOLEAN

\* common.go:113 rejects a run without a positive limit.
ASSUME JobAssumption ==
  \A j \in Job : /\ j.rows \in Nat /\ j.bytes \in Nat
                 /\ j.rows > 0 \/ j.bytes > 0
                 /\ {j.header, j.manifest, j.dryRun, j.gz} \subseteq BOOLEAN

ASSUME DiskAssumption ==
  \A d \in Disk : /\ d.shards \subseteq ShardId /\ d.parts \subseteq ShardId
                  /\ {d.manifest, d.manifestPart} \subseteq BOOLEAN

VARIABLES
  pc,          \* where the run is
  job,         \* its options
  cancelled,   \* ctx.Err() # nil
  shardFile,   \* per index, the file under the final shard name
  shardPart,   \* per index, the file under the .part name
  manFile,     \* the file under the manifest name: a sequence of entries
  manPart,     \* the file under the manifest's .part name
  index,       \* the index of the newest shard
  shard,       \* the shardWriter: st, and the counts rotation reads
  man,         \* the manifestWriter: "none", "open" or "closed"
  dry,         \* the dryShard
  result       \* result.Shards, the entries in the order they were closed

disk == <<shardFile, shardPart, manFile, manPart>>
outVars == <<pc, job, cancelled, shardFile, shardPart, manFile, manPart,
             index, shard, man, dry, result>>

Terminal == {"done", "failed", "crashed"}

\* A file this run created: whether the header was copied, the rows after it,
\* and whether every byte handed to the writer has reached the file.  What goes
\* through gzip is held back until Close.
FreshFile(hdr) == [hdr |-> hdr, rows |-> <<>>, whole |-> ~hdr \/ ~job.gz]
TornFile == [hdr |-> FALSE, rows |-> <<>>, whole |-> FALSE]
WithRow(f, row) == [hdr |-> f.hdr, rows |-> Append(f.rows, row), whole |-> f.whole /\ ~job.gz]
New(f) == f \notin {None, Old}

NoShard == [st |-> "none", rows |-> 0, n |-> 0]
NoDry == [open |-> FALSE, rows |-> 0, bytes |-> 0]

Published == {i \in ShardId : New(shardFile[i])}

------------------------------------------------------------------------------
(* Sizes and rotation.                                                       *)

\* countingHashWriter.n after a write of size bytes: exact for plain output;
\* gzip holds data back and emits any part of it, plus framing.
CountAfter(n, size) == IF job.gz THEN n .. (n + GzBurst) ELSE {n + size}

\* (fault) a shard is full one row late.
Full_RowsAfter(rows, bytes) ==
  \/ job.rows > 0 /\ rows > job.rows
  \/ job.bytes > 0 /\ bytes >= job.bytes

\* shouldRotateStreamShard
Full(rows, bytes) ==
  \/ job.rows > 0 /\ rows >= job.rows
  \/ job.bytes > 0 /\ bytes >= job.bytes

\* buildManifestEntry: the checksum stands for the content that was hashed;
\* a dry run has none.
Entry(i, rows, bytes, md5) == [index |-> i, rows |-> rows, bytes |-> bytes, md5 |-> md5]

------------------------------------------------------------------------------
(* The manifest writer.                                                      *)

Writes == job.manifest /\ ~job.dryRun

\* newManifestWriter: a stale .part is removed and a fresh one opened.  A
\* failure (here or in the steps before it) ends the run before anything else.
NewManifestWriter(next) ==
  /\ pc = "start"
  /\ \/ /\ manPart' = IF Writes THEN <<>> ELSE manPart
        /\ man' = IF Writes THEN "open" ELSE "none"
        /\ pc' = next
     \/ /\ manPart' \in {manPart} \cup (IF Writes THEN {None} ELSE {})
        /\ pc' = "failed"
        /\ UNCHANGED man
  /\ UNCHANGED <<job, cancelled, shardFile, shardPart, manFile, index, shard, dry, result>>

\* manifestWriter.Close, first half: closed is set before the file is closed,
\* so when that fails the deferred Abort does nothing.
CloseManifest ==
  /\ pc = "commit"
  /\ \/ man = "none" /\ pc' = "done" /\ UNCHANGED man
     \/ /\ man = "open"
        /\ man' = "closed"
        /\ pc' \in {IF Windows THEN "unlinkManifest" ELSE "renameManifest", "abort"}
  /\ UNCHANGED <<job, cancelled, disk, index, shard, dry, result>>

\* AtomicRename on Windows removes the target before it renames.
UnlinkManifest ==
  /\ pc = "unlinkManifest"
  /\ \/ manFile' = None /\ pc' = "renameManifest"
     \/ pc' = "abort" /\ UNCHANGED manFile
  /\ UNCHANGED <<job, cancelled, shardFile, shardPart, manPart, index, shard, man, dry, result>>

RenameManifest ==
  /\ pc = "renameManifest"
  /\ \/ manFile' = manPart /\ manPart' = None /\ pc' = "done"
     \/ pc' = "abort" /\ UNCHANGED <<manFile, manPart>>
  /\ UNCHANGED <<job, cancelled, shardFile, shardPart, index, shard, man, dry, result>>

------------------------------------------------------------------------------
(* The shard writer.                                                         *)

\* newShardWriter, and WriteHeader when the mode has captured a header of
\* hdrSize bytes: the .part is removed and created anew.  When the open fails
\* there is no writer to abort; when the header write fails there is.
NewShardWriter(hasHdr, hdrSize) ==
  /\ shard.st = "none"
  /\ ~job.dryRun
  /\ index + 1 \in ShardId
  /\ index' = index + 1
  /\ \/ \E n \in (IF hasHdr THEN CountAfter(0, hdrSize) ELSE {0}) :
          /\ shardPart' = [shardPart EXCEPT ![index + 1] = FreshFile(hasHdr)]
          /\ shard' = [st |-> "open", rows |-> 0, n |-> n]
          /\ UNCHANGED pc
     \/ /\ \E f \in {None, shardPart[index + 1]} :
             shardPart' = [shardPart EXCEPT ![index + 1] = f]
        /\ pc' = "abort"
        /\ UNCHANGED shard
     \/ /\ hasHdr
        /\ shardPart' = [shardPart EXCEPT ![index + 1] = TornFile]
        /\ shard' = [st |-> "open", rows |-> 0, n |-> 0]
        /\ pc' = "abort"
  /\ UNCHANGED <<job, cancelled, shardFile, manFile, manPart, man, dry, result>>

\* A piece goes through write, which may fail half way.
WriteOk(row, size, counted) ==
  \E n \in CountAfter(shard.n, size) :
    /\ shardPart' = [shardPart EXCEPT ![index] = WithRow(@, row)]
    /\ shard' = [shard EXCEPT !.rows = @ + counted, !.n = n]

WriteFails ==
  /\ shardPart' = [shardPart EXCEPT ![index].whole = FALSE]
  /\ pc' = "abort"
  /\ UNCHANGED shard

\* shardWriter.WriteRow, then the rotation test of the caller.
WriteRow(row, size, next) ==
  /\ shard.st = "open"
  /\ \/ /\ WriteOk(row, size, 1)
        /\ pc' = IF Full(shard'.rows, shard'.n) THEN "flush" ELSE next
     \/ WriteFails
  /\ UNCHANGED <<job, cancelled, shardFile, manFile, manPart, index, man, dry, result>>

AfterFlush == IF Windows THEN "unlink" ELSE "rename"

\* (fault) gzip is not closed.
FlushShard_NoGzip ==
  /\ pc = "flush"
  /\ shard' = [shard EXCEPT !.st = "closed"]
  /\ pc' = AfterFlush
  /\ UNCHANGED <<job, cancelled, disk, index, man, dry, result>>

\* shardWriter.Close, first half: gzip is closed, which flushes it, then the
\* file.  closed is set before either, so a failure leaves the .part to nobody.
FlushShard ==
  /\ pc = "flush"
  /\ shard.st = "open"
  /\ \/ \E n \in (IF job.gz THEN CountAfter(shard.n, 0) ELSE {shard.n}) :
          /\ shard' = [shard EXCEPT !.st = "closed", !.n = n]
          /\ shardPart' = [shardPart EXCEPT ![index].whole = TRUE]
          /\ pc' = AfterFlush
     \/ /\ shard' = [shard EXCEPT !.st = "closed"]
        /\ pc' = "abort"
        /\ UNCHANGED shardPart
  /\ UNCHANGED <<job, cancelled, shardFile, manFile, manPart, index, man, dry, result>>

\* AtomicRename on Windows, the removal of the target.
UnlinkShard ==
  /\ pc = "unlink"
  /\ \/ shardFile' = [shardFile EXCEPT ![index] = None] /\ pc' = "rename"
     \/ pc' = "abort" /\ UNCHANGED shardFile
  /\ UNCHANGED <<job, cancelled, shardPart, manFile, manPart, index, shard, man, dry, result>>

\* AtomicRename: the .part takes the final name.
RenameShard ==
  /\ pc = "rename"
  /\ \/ /\ shardFile' = [shardFile EXCEPT ![index] = shardPart[index]]
        /\ shardPart' = [shardPart EXCEPT ![index] = None]
        /\ pc' = "record"
     \/ pc' = "abort" /\ UNCHANGED <<shardFile, shardPart>>
  /\ UNCHANGED <<job, cancelled, manFile, manPart, index, shard, man, dry, result>>

\* (fault) a failed manifest write is ignored.
RecordShard_Unchecked(next) ==
  /\ pc = "record"
  /\ LET e == Entry(index, shard.rows, shard.n, shardFile[index])
     IN /\ manPart' \in (IF man = "open" THEN {manPart, Append(manPart, e)} ELSE {manPart})
        /\ result' = Append(result, e)
  /\ shard' = NoShard
  /\ pc' = next
  /\ UNCHANGED <<job, cancelled, shardFile, shardPart, manFile, index, man, dry>>

\* The end of closeTextShard: the entry goes to the manifest's .part (a no-op
\* when there is no manifest) and to the result; the mode forgets the shard.
RecordShard(next) ==
  /\ pc = "record"
  /\ LET e == Entry(index, shard.rows, shard.n, shardFile[index])
     IN \/ /\ manPart' = IF man = "open" THEN Append(manPart, e) ELSE manPart
           /\ result' = Append(result, e)
           /\ shard' = NoShard
           /\ pc' = next
        \/ /\ man = "open"
           /\ pc' = "abort"
           /\ UNCHANGED <<manPart, result, shard>>
  /\ UNCHANGED <<job, cancelled, shardFile, shardPart, manFile, index, man, dry>>

------------------------------------------------------------------------------
(* The dry run: the same layout, counted and not written.                    *)

\* A row of a dry run, with the start and the close of its shard.
DryRow(hdrSize, size, next) ==
  /\ job.dryRun
  /\ LET i == IF dry.open THEN index ELSE index + 1
         rows == dry.rows + 1
         bytes == (IF dry.open THEN dry.bytes ELSE hdrSize) + size
     IN /\ index' = i
        /\ IF Full(rows, bytes)
           THEN dry' = NoDry /\ result' = Append(result, Entry(i, rows, bytes, None))
           ELSE dry' = [open |-> TRUE, rows |-> rows, bytes |-> bytes] /\ UNCHANGED result
  /\ pc' = next
  /\ UNCHANGED <<job, cancelled, disk, shard, man>>

------------------------------------------------------------------------------
(* The end of the source and the ways out.                                   *)

\* After the last row: close the shard in progress, if any, then the manifest.
Finish ==
  /\ pc = "finish"
  /\ IF job.dryRun /\ dry.open
     THEN /\ result' = Append(result, Entry(index, dry.rows, dry.bytes, None))
          /\ dry' = NoDry
     ELSE UNCHANGED <<result, dry>>
  /\ pc' = IF shard.st = "open" THEN "flush" ELSE "commit"
  /\ UNCHANGED <<job, cancelled, disk, index, shard, man>>

\* (fault) the temporary is closed and left.
AbortShard_NoRemove ==
  /\ pc = "abort"
  /\ shard' = [shard EXCEPT !.st = IF @ = "open" THEN "aborted" ELSE @]
  /\ pc' = "abortManifest"
  /\ UNCHANGED <<job, cancelled, disk, index, man, dry, result>>

\* The deferred shardWriter.Abort: nothing when Close already ran.
AbortShard ==
  /\ pc = "abort"
  /\ IF shard.st = "open"
     THEN /\ shardPart' = [shardPart EXCEPT ![index] = None]
          /\ shard' = [shard EXCEPT !.st = "aborted"]
     ELSE UNCHANGED <<shardPart, shard>>
  /\ pc' = "abortManifest"
  /\ UNCHANGED <<job, cancelled, shardFile, manFile, manPart, index, man, dry, result>>

\* The deferred manifestWriter.Abort, which runs after the shard's.
AbortManifest ==
  /\ pc = "abortManifest"
  /\ IF man = "open"
     THEN manPart' = None /\ man' = "aborted"
     ELSE UNCHANGED <<manPart, man>>
  /\ pc' = "failed"
  /\ UNCHANGED <<job, cancelled, shardFile, shardPart, manFile, index, shard, dry, result>>

\* A signal cancels the root context (cmd/dimlox/main.go).
Cancel ==
  /\ pc \notin Terminal
  /\ ~cancelled
  /\ cancelled' = TRUE
  /\ UNCHANGED <<pc, job, disk, index, shard, man, dry, result>>

\* The process is killed: no deferred function runs.
Crash ==
  /\ pc \notin Terminal
  /\ pc' = "crashed"
  /\ UNCHANGED <<job, cancelled, disk, index, shard, man, dry, result>>

------------------------------------------------------------------------------
OutInit ==
  /\ pc = "start"
  /\ job \in Job
  /\ cancelled = FALSE
  /\ \E d \in Disk :
       /\ shardFile = [i \in ShardId |-> IF i \in d.shards THEN Old ELSE None]
       /\ shardPart = [i \in ShardId |-> IF i \in d.parts THEN Old ELSE None]
       /\ manFile = IF d.manifest THEN Old ELSE None
       /\ manPart = IF d.manifestPart THEN Old ELSE None
  /\ index = 0
  /\ shard = NoShard
  /\ man = "none"
  /\ dry = NoDry
  /\ result = <<>>

------------------------------------------------------------------------------
(* Properties every mode owes.                                               *)

\* A final shard name only ever shows a complete shard: all bytes flushed, at
\* least one row, the header iff one was asked for.  (A failed write, a failed
\* gzip flush, a cancellation or a kill may strike at any step.)
FinalShardsWhole ==
  \A i \in Published :
    /\ shardFile[i].whole
    /\ shardFile[i].rows # <<>>
    /\ shardFile[i].hdr = job.header

\* A manifest under its final name was written by a run whose every shard is
\* published, and lists exactly the shards on disk, in order, with the row
\* count and the checksum of what is there.
ManifestDescribesShards ==
  New(manFile) =>
    /\ Published = 1 .. Len(manFile)
    /\ \A i \in 1 .. Len(manFile) :
         /\ manFile[i].index = i
         /\ manFile[i].md5 = shardFile[i]
         /\ manFile[i].rows = Len(shardFile[i].rows)

\* When a run ends other than by a kill, the only .part files of its own it may
\* leave are those whose Close failed; a successful run also replaced every
\* leftover .part under an index it used.
TempsCleanedUp ==
  /\ pc = "failed" =>
       /\ \A i \in ShardId : New(shardPart[i]) => i = index /\ shard.st = "closed"
       /\ New(manPart) => man = "closed"
  /\ pc = "done" =>
       /\ \A i \in ShardId : ~New(shardPart[i])
       /\ ~job.dryRun => \A i \in 1 .. index : shardPart[i] = None
       /\ ~New(manPart)

\* Where rename replaces its target, a published file is only ever replaced by
\* another: at no step, and so at no kill, is an output an earlier run left
\* missing from the directory.
OutputsNeverVanish ==
  [][/\ \A i \in ShardId : shardFile[i] # None => shardFile'[i] # None
     /\ manFile # None => manFile' # None]_outVars

\* Where rename cannot replace its target, an output may be missing for a while,
\* and for good after a kill or a failed rename: but whenever one goes missing,
\* its complete replacement is on disk under the .part name.
VanishesOnlyForReplacement ==
  [][/\ \A i \in ShardId : shardFile[i] # None /\ shardFile'[i] = None =>
          New(shardPart[i]) /\ shardPart'[i] = shardPart[i] /\ shardPart[i].whole
     /\ manFile # None /\ manFile' = None =>
          New(manPart) /\ manPart' = manPart /\ Published = 1 .. Len(manPart)]_outVars

\* A layout in the making: the shards it has finished and the one in progress.
Uncut == [done |-> <<>>, rows |-> 0, bytes |-> 0]

\* One more row, of that size, under the limits of j; a shard begins with hdr bytes.
Placing(j, cut, size, hdr) ==
  LET s == [rows |-> cut.rows + 1, bytes |-> size + IF cut.rows > 0 THEN cut.bytes ELSE hdr]
  IN IF s.rows = j.rows \/ (j.bytes > 0 /\ s.bytes >= j.bytes)
     THEN [done |-> Append(cut.done, s), rows |-> 0, bytes |-> 0]
     ELSE [done |-> cut.done, rows |-> s.rows, bytes |-> s.bytes]

\* The layout in the making after the first r rows of these sizes.
Cuts(j, sizes, hdr) ==
  LET Cut[r \in 0 .. Len(sizes)] ==
        IF r = 0 THEN Uncut ELSE Placing(j, Cut[r - 1], sizes[r], hdr)
  IN Cut

\* The layout greedy filling gives rows of these sizes.
Layout(j, sizes, hdr) ==
  LET last == Cuts(j, sizes, hdr)[Len(sizes)]
  IN IF last.rows = 0 THEN last.done
     ELSE Append(last.done, [rows |-> last.rows, bytes |-> last.bytes])

AgreesWith(layout) ==
  /\ Len(result) <= Len(layout)
  /\ \A i \in 1 .. Len(result) :
       result[i].index = i /\ result[i].rows = layout[i].rows
  /\ pc = "done" => Len(result) = Len(layout)

\* A dry run plans, and a real run produces, the greedy layout: a shard closes
\* with the row that reaches a limit and with no other, and only the last may
\* stay below both.  So a dry run predicts the real run, except where the
\* limit is on compressed bytes; for plain output it predicts the bytes too.
Greedy(layout) ==
  /\ job.dryRun \/ ~job.gz \/ job.bytes = 0 => AgreesWith(layout)
  /\ job.dryRun \/ ~job.gz =>
       \A i \in 1 .. Len(result) : result[i].bytes = layout[i].bytes

\* "Print the planned shard layout and write nothing": a dry run changes no
\* file, whichever way it ends.
DryRunWritesNothing == [][job.dryRun => UNCHANGED disk]_outVars
==============================================================================
