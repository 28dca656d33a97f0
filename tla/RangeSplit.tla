------------------------------ MODULE RangeSplit ------------------------------
(***************************************************************************)
(* Range mode (internal/split/rangesplit.go): a cloud object is read in    *)
(* bounded blocks, each through a reader of its own, and the lines are put *)
(* together again across the seams.  The size is the one Stat returned     *)
(* before the split; the object can be replaced while it is being read.    *)
(*                                                                         *)
(* A byte is the version of the object it was read from and its position.  *)
(***************************************************************************)
EXTENDS SplitOutput, SequencesExt

CONSTANTS
  Block,   \* rangeReadBlockSize
  Probe    \* rangeHeaderReadSize

\* A job carries the versions of the object: its size and the positions of its
\* newlines, now and after each replacement that may happen.
ASSUME BlocksAssumption == {Block, Probe} \subseteq Nat \ {0}
ASSUME VersionsAssumption ==
  \A j \in Job :
    /\ j.versions \in Seq([size : Nat, nl : SUBSET Nat]) \ {<<>>}
    /\ \A g \in 1 .. Len(j.versions) : j.versions[g].nl \subseteq 1 .. j.versions[g].size

\* A row of a shard is the bytes of a line.
FileState == [hdr : BOOLEAN, rows : Seq(Seq(Nat \X Nat)), whole : BOOLEAN]
EntryType == [index : Nat, rows : Nat, bytes : Nat, md5 : FileState \cup {None}]

\* The markers are neither shards nor manifests.
ASSUME MarkersAreNotFiles == {None, Old} \cap (FileState \cup Seq(EntryType)) = {}

VARIABLES
  gen,         \* the version a reader opened now would get
  offset,      \* the position up to which the object has been read
  headerLine,  \* the header line
  pending,     \* combined: bytes read and not yet made into rows; the carry
  row,         \* the line in hand
  drained      \* the loop is over and the carry has been taken

readVars == <<gen, offset, headerLine, pending, row, drained>>
vars == <<outVars, gen, offset, headerLine, pending, row, drained>>

Size == job.versions[1].size
EndsLine(b) == b[2] \in job.versions[b[1]].nl

\* What a reader of the range gives: the object as it is now, cut at its end.
\* The reader takes the context, so it gives nothing once that is cancelled.
Bytes(from, length) ==
  LET end == job.versions[gen].size
      n == IF from + length <= end THEN length ELSE IF from < end THEN end - from ELSE 0
  IN [k \in 1 .. n |-> <<gen, from + k>>]

\* (fault) a range is not cut at the size.
Length_NoMin(block) == block

Length(block) == IF block < Size - offset THEN block ELSE Size - offset

\* The bytes up to and with the first newline, and what follows.
LineOf(s) == SubSeq(s, 1, SelectInSeq(s, EndsLine))
RestOf(s) == SubSeq(s, SelectInSeq(s, EndsLine) + 1, Len(s))

Init ==
  /\ OutInit
  /\ gen = 1
  /\ offset = 0
  /\ headerLine = <<>>
  /\ pending = <<>>
  /\ row = <<>>
  /\ drained = FALSE

Start == NewManifestWriter(IF job.header THEN "header" ELSE "loop") /\ UNCHANGED readVars

\* readRangeHeader, one probe: the line so far grows by what the probe holds of
\* it.  A probe that gives nothing drops the header and starts from offset 0.
ProbeHeader ==
  /\ pc = "header"
  /\ offset < Size
  /\ ~cancelled
  /\ LET got == Bytes(offset, Length(Probe))
         part == IF LineOf(got) = <<>> THEN got ELSE LineOf(got)
     IN IF got = <<>>
        THEN headerLine' = <<>> /\ offset' = 0 /\ pc' = "loop"
        ELSE /\ headerLine' = headerLine \o part
             /\ offset' = offset + Len(part)
             /\ pc' = IF EndsLine(part[Len(part)]) \/ offset' >= Size THEN "loop" ELSE "header"
  /\ UNCHANGED <<job, cancelled, disk, index, shard, man, dry, result, gen, pending, row, drained>>

\* An empty object has no header to probe for.
NoHeader ==
  /\ pc = "header"
  /\ offset >= Size
  /\ pc' = "loop"
  /\ UNCHANGED <<job, cancelled, disk, index, shard, man, dry, result, readVars>>

\* The context check at the top of the loop, and a reader that fails.
ReadFails ==
  /\ \/ pc = "header"
     \/ pc = "loop" /\ offset < Size
  /\ pc' = "abort"
  /\ UNCHANGED <<job, cancelled, disk, index, shard, man, dry, result, readVars>>

MayRead == ~cancelled

\* (fault) the carry of the previous block is dropped.
Combined_NoCarry(chunk) == chunk

Combined(chunk) == pending \o chunk

\* (fault) the offset moves by the length that was asked for.
After_Asked(chunk) == offset + Length(Block)

After(chunk) == offset + Len(chunk)

\* (fault) a block that gives nothing is asked for again.
AfterEmpty_Continue == "loop"

AfterEmpty == "carry"

\* readRangeChunk: an empty chunk ends the loop as the end of the object does.
ReadChunk ==
  /\ pc = "loop"
  /\ offset < Size
  /\ MayRead
  /\ LET chunk == Bytes(offset, Length(Block))
     IN /\ pc' = IF chunk = <<>> THEN AfterEmpty ELSE "lines"
        /\ offset' = After(chunk)
        /\ pending' = IF chunk = <<>> THEN pending ELSE Combined(chunk)
  /\ UNCHANGED <<job, cancelled, disk, index, shard, man, dry, result, gen, headerLine, row, drained>>

LoopEnds ==
  /\ pc = "loop"
  /\ offset >= Size
  /\ pc' = "carry"
  /\ UNCHANGED <<job, cancelled, disk, index, shard, man, dry, result, readVars>>

\* processRangeChunk: the next line; what is left after the last newline is a
\* row at the end of the object and the carry before it.
TakeLine ==
  /\ pc = "lines"
  /\ IF LineOf(pending) # <<>>
     THEN row' = LineOf(pending) /\ pending' = RestOf(pending) /\ pc' = "row"
     ELSE IF pending # <<>> /\ offset >= Size
     THEN row' = pending /\ pending' = <<>> /\ pc' = "row"
     ELSE pc' = "loop" /\ UNCHANGED <<row, pending>>
  /\ UNCHANGED <<job, cancelled, disk, index, shard, man, dry, result, gen, offset, headerLine, drained>>

\* After the loop a carry that is left becomes the last row.
TakeCarry ==
  /\ pc = "carry"
  /\ IF pending # <<>>
     THEN row' = pending /\ pending' = <<>> /\ pc' = "row"
     ELSE pc' = "finish" /\ UNCHANGED <<row, pending>>
  /\ drained' = TRUE
  /\ UNCHANGED <<job, cancelled, disk, index, shard, man, dry, result, gen, offset, headerLine>>

AfterRow == IF drained THEN "finish" ELSE "lines"

\* writeLine: startShard when none is open, the row, and closeShard when full.
OpenShard ==
  /\ pc = "row"
  /\ NewShardWriter(headerLine # <<>>, Len(headerLine))
  /\ UNCHANGED readVars

Row ==
  /\ pc = "row"
  /\ WriteRow(row, Len(row), AfterRow)
  /\ UNCHANGED readVars

PlanRow ==
  /\ pc = "row"
  /\ DryRow(Len(headerLine), Len(row), AfterRow)
  /\ UNCHANGED readVars

Record == RecordShard(AfterRow) /\ UNCHANGED readVars

Output ==
  /\ \/ FlushShard \/ UnlinkShard \/ RenameShard
     \/ Finish \/ CloseManifest \/ UnlinkManifest \/ RenameManifest
     \/ AbortShard \/ AbortManifest
  /\ UNCHANGED readVars

Process ==
  \/ Start \/ ProbeHeader \/ NoHeader \/ ReadFails \/ ReadChunk \/ LoopEnds
  \/ TakeLine \/ TakeCarry \/ OpenShard \/ Row \/ PlanRow \/ Record \/ Output

\* Somebody replaces the object.
Replace ==
  /\ pc \notin Terminal
  /\ gen < Len(job.versions)
  /\ gen' = gen + 1
  /\ UNCHANGED <<outVars, offset, headerLine, pending, row, drained>>

Environment == Replace \/ ((Cancel \/ Crash) /\ UNCHANGED readVars)

Ended == pc \in Terminal /\ UNCHANGED vars

Next == Process \/ Environment \/ Ended

Spec == Init /\ [][Next]_vars

\* What the run does of itself, as far as reads succeed; once cancelled, they fail.
Advance ==
  \/ Start \/ ProbeHeader \/ NoHeader \/ ReadChunk \/ LoopEnds \/ (ReadFails /\ cancelled)
  \/ TakeLine \/ TakeCarry \/ OpenShard \/ Row \/ PlanRow \/ Record \/ Output

\* Every step of the run is the next statement of one goroutine, which is always
\* scheduled; but no read owes it a failure that would end it.
FairSpec == Spec /\ WF_vars(Advance)

------------------------------------------------------------------------------
(* Properties.                                                               *)

Byte == {<<g, p>> : g \in 1 .. Len(job.versions), p \in 1 .. offset}

\* The shapes of the variables.
TypeOK ==
  /\ pc \in Terminal \cup {"start", "header", "loop", "lines", "carry", "row", "flush", "unlink",
                           "rename", "record", "finish", "commit", "unlinkManifest",
                           "renameManifest", "abort", "abortManifest"}
  /\ job \in Job
  /\ cancelled \in BOOLEAN
  /\ shardFile \in [ShardId -> FileState \cup {None, Old}]
  /\ shardPart \in [ShardId -> FileState \cup {None, Old}]
  /\ manFile \in Seq(EntryType) \cup {None, Old}
  /\ manPart \in Seq(EntryType) \cup {None, Old}
  /\ index \in Nat
  /\ shard \in [st : {"none", "open", "closed", "aborted"}, rows : Nat, n : Nat]
  /\ man \in {"none", "open", "closed", "aborted"}
  /\ dry \in [open : BOOLEAN, rows : Nat, bytes : Nat]
  /\ result \in Seq(EntryType)
  /\ gen \in 1 .. Len(job.versions)
  /\ offset \in 0 .. Size
  /\ {headerLine, pending, row} \subseteq Seq(Byte)
  /\ drained \in BOOLEAN

\* The lines of the object that Stat saw, the last with or without its newline.
LineEnds ==
  LET ends == job.versions[1].nl \cup ({Size} \ {0})
  IN [k \in 1 .. Cardinality(ends) |->
        CHOOSE e \in ends : Cardinality({f \in ends : f <= e}) = k]
SourceLines ==
  [k \in 1 .. Len(LineEnds) |->
     LET before == IF k = 1 THEN 0 ELSE LineEnds[k - 1]
     IN [i \in 1 .. LineEnds[k] - before |-> <<1, before + i>>]]
HasHeader == job.header /\ Size > 0
Body == IF HasHeader THEN Tail(SourceLines) ELSE SourceLines

PublishedRows == FlattenSeq([i \in 1 .. Cardinality(Published) |-> shardFile[i].rows])

\* The rows of the published shards are lines of the object, whole and in order,
\* wherever the seams between blocks fall, and the header is its first line,
\* however many probes that takes; provided nobody replaces the object.
LinesReassembled ==
  gen = 1 =>
    /\ Published = 1 .. Cardinality(Published)
    /\ \A i \in Published : shardFile[i].whole /\ shardFile[i].hdr = job.header
    /\ IsPrefix(PublishedRows, Body)
    /\ HasHeader /\ Published # {} => headerLine = SourceLines[1]
    /\ pc = "done" /\ ~job.dryRun => PublishedRows = Body

\* The shard that is open or being published.
InProgress == IF shard.st \in {"open", "closed"} /\ pc # "record" THEN shardPart[index].rows ELSE <<>>

Carried ==
  headerLine \o FlattenSeq(PublishedRows) \o FlattenSeq(InProgress)
    \o (IF pc = "row" THEN row ELSE <<>>) \o pending

\* Whatever happens to the object meanwhile, each position read so far is in
\* exactly one place, in order: the header, a published shard, the shard in
\* progress, the line in hand or the carry.
EveryOffsetOnce ==
  ~job.dryRun /\ pc \notin {"start", "header", "abort", "abortManifest", "failed", "crashed"} =>
    /\ Len(Carried) = offset
    /\ \A k \in 1 .. offset : Carried[k][2] = k

\* Nothing is lost, repeated or torn where blocks meet: not in the shards
\* (LinesReassembled), and not in what is between the object and them
\* (EveryOffsetOnce).
LinesKept == LinesReassembled /\ EveryOffsetOnce

\* The shards, planned or produced, are those greedy filling cuts the lines into:
\* the seams between blocks do not show in the layout either.
LayoutIsGreedy ==
  gen = 1 => Greedy(Layout(job, [k \in 1 .. Len(Body) |-> Len(Body[k])],
                           IF HasHeader THEN LineEnds[1] ELSE 0))

\* Every run comes to an end, though no read ever fails: whatever the sizes of the
\* blocks and of the object, and though the object becomes shorter than Stat saw
\* it, the loop makes progress or stops, and never asks for ever for a block that
\* is no longer there.
RunEnds == <>(pc \in Terminal)

Unchanging == Len(job.versions) = 1

\* A range split of an object nobody replaces implements the contract, the
\* positions being those of its bytes after the header.
Contract == INSTANCE SplitContract WITH
  first <- IF HasHeader THEN LineEnds[1] + 1 ELSE 1,
  last <- Size,
  shards <- IF Unchanging
            THEN [i \in Published |->
                    LET bytes == FlattenSeq(shardFile[i].rows)
                    IN [k \in 1 .. Len(bytes) |-> bytes[k][2]]]
            ELSE <<>>,
  listed <- Unchanging /\ New(manFile)

ImplementsContract == Contract!Spec
==============================================================================
