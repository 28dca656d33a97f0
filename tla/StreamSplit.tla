----------------------------- MODULE StreamSplit -----------------------------
(***************************************************************************)
(* Stream mode (internal/split/stream.go): the source is read line by      *)
(* line, the first line is kept as header when asked for, every other line *)
(* goes to the shard in progress, and a shard that reached a limit is      *)
(* closed and published before the next line is read.                      *)
(*                                                                         *)
(* A line is its number in the source.                                     *)
(***************************************************************************)
EXTENDS SplitOutput

CONSTANTS
  MaxLines,  \* bound: lines of the longest source
  LineSize   \* bytes of each line

ASSUME LinesAssumption ==
  /\ MaxLines \in Nat
  /\ LineSize \in [1 .. MaxLines -> Nat \ {0}]
  /\ 1 .. MaxLines \subseteq ShardId

\* A source is how many lines it has and whether the last ends in a newline.
ASSUME SourceAssumption ==
  \A j \in Job : j.lines \in 0 .. MaxLines /\ j.newline \in BOOLEAN

FileState == [hdr : BOOLEAN, rows : Seq(1 .. MaxLines), whole : BOOLEAN]
EntryType == [index : Nat, rows : Nat, bytes : Nat, md5 : FileState \cup {None}]

\* The markers are neither shards nor manifests.
ASSUME MarkersAreNotFiles == {None, Old} \cap (FileState \cup Seq(EntryType)) = {}

VARIABLES
  read,        \* lines taken from the reader so far
  headerLine,  \* TRUE once the header has been captured
  eof          \* readErr = io.EOF was returned

vars == <<pc, job, cancelled, shardFile, shardPart, manFile, manPart, index,
          shard, man, dry, result, read, headerLine, eof>>
readVars == <<read, headerLine, eof>>

HeaderSize == IF headerLine THEN LineSize[1] ELSE 0

Init ==
  /\ OutInit
  /\ read = 0
  /\ headerLine = FALSE
  /\ eof = FALSE

Start == NewManifestWriter("loop") /\ UNCHANGED readVars

\* The top of the loop: a cancelled context ends the run.
LoopCancelled ==
  /\ pc = "loop"
  /\ cancelled
  /\ pc' = "abort"
  /\ UNCHANGED <<job, cancelled, disk, index, shard, man, dry, result, readVars>>

\* readLine: the last line comes with io.EOF when it has no newline, alone
\* when it has one.
ReadFails ==
  /\ pc = "loop"
  /\ ~cancelled
  /\ pc' = "abort"
  /\ UNCHANGED <<job, cancelled, disk, index, shard, man, dry, result, readVars>>

ReadEOF ==
  /\ pc = "loop"
  /\ ~cancelled
  /\ read = job.lines
  /\ eof' = TRUE
  /\ pc' = "finish"
  /\ UNCHANGED <<job, cancelled, disk, index, shard, man, dry, result, read, headerLine>>

IsHeader == job.header /\ ~headerLine

\* (fault) the end of the source is noticed one line late.
HasLine_OneMore == read <= job.lines

HasLine == read < job.lines

MayRead == ~cancelled

\* (fault) the line kept as header is a row as well.
ReadLine_HeaderAsRow ==
  /\ pc = "loop"
  /\ MayRead
  /\ HasLine
  /\ read' = read + 1
  /\ eof' = (read + 1 = job.lines /\ ~job.newline)
  /\ headerLine' = (headerLine \/ job.header)
  /\ pc' = "row"
  /\ UNCHANGED <<job, cancelled, disk, index, shard, man, dry, result>>

ReadLine ==
  /\ pc = "loop"
  /\ MayRead
  /\ HasLine
  /\ read' = read + 1
  /\ eof' = (read + 1 = job.lines /\ ~job.newline)
  /\ IF IsHeader
     THEN headerLine' = TRUE /\ pc' = IF eof' THEN "finish" ELSE "loop"
     ELSE pc' = "row" /\ UNCHANGED headerLine
  /\ UNCHANGED <<job, cancelled, disk, index, shard, man, dry, result>>

AfterRow == IF eof THEN "finish" ELSE "loop"

OpenShard ==
  /\ pc = "row"
  /\ NewShardWriter(headerLine, HeaderSize)
  /\ UNCHANGED readVars

Row ==
  /\ pc = "row"
  /\ WriteRow(read, LineSize[read], AfterRow)
  /\ UNCHANGED readVars

PlanRow ==
  /\ pc = "row"
  /\ DryRow(HeaderSize, LineSize[read], AfterRow)
  /\ UNCHANGED readVars

Record == RecordShard(AfterRow) /\ UNCHANGED readVars

Output ==
  /\ \/ FlushShard \/ UnlinkShard \/ RenameShard
     \/ Finish \/ CloseManifest \/ UnlinkManifest \/ RenameManifest
     \/ AbortShard \/ AbortManifest
  /\ UNCHANGED readVars

Process ==
  \/ Start \/ LoopCancelled \/ ReadFails \/ ReadEOF \/ ReadLine
  \/ OpenShard \/ Row \/ PlanRow \/ Record \/ Output

Environment == (Cancel \/ Crash) /\ UNCHANGED readVars

\* A run that has ended stays ended.
Ended == pc \in Terminal /\ UNCHANGED vars

Next == Process \/ Environment \/ Ended

Spec == Init /\ [][Next]_vars

------------------------------------------------------------------------------
(* Properties.                                                               *)

\* The shapes of the variables.
TypeOK ==
  /\ pc \in Terminal \cup {"start", "loop", "row", "flush", "unlink", "rename", "record",
                           "finish", "commit", "unlinkManifest", "renameManifest",
                           "abort", "abortManifest"}
  /\ job \in Job
  /\ cancelled \in BOOLEAN
  /\ shardFile \in [ShardId -> FileState \cup {None, Old}]
  /\ shardPart \in [ShardId -> FileState \cup {None, Old}]
  /\ manFile \in Seq(EntryType) \cup {None, Old}
  /\ manPart \in Seq(EntryType) \cup {None, Old}
  /\ index \in Nat
  /\ shard \in [st : {"none", "open", "closed", "aborted"}, rows : Nat, n : Nat]
  /\ man \in {"none", "open", "closed", "aborted"}
  /\ dry \in [open : BOOLEAN, rows : Nat, bytes : Nat]
  /\ result \in Seq(EntryType)
  /\ read \in 0 .. MaxLines
  /\ headerLine \in BOOLEAN
  /\ eof \in BOOLEAN

FirstRow == IF job.header THEN 2 ELSE 1
LastOf(i) == shardFile[i].rows[Len(shardFile[i].rows)]

\* The published shards, read in index order, are the rows of the source in
\* source order from the first on: no row is lost, repeated or out of place,
\* within a shard or across a boundary, at any step of any run.
ShardsInSourceOrder ==
  \A i \in Published :
    LET rows == shardFile[i].rows
    IN /\ \A k \in 1 .. Len(rows) - 1 : rows[k + 1] = rows[k] + 1
       /\ IF i = 1 THEN rows[1] = FirstRow
          ELSE i - 1 \in Published /\ rows[1] = LastOf(i - 1) + 1

\* A run that reports success has published every row of the source.
SuccessIsComplete ==
  pc = "done" /\ ~job.dryRun =>
    IF job.lines < FirstRow THEN Published = {}
    ELSE \E i \in Published : LastOf(i) = job.lines

RowSizes == SubSeq(LineSize, FirstRow, job.lines)
HeaderBytes == IF job.header /\ job.lines > 0 THEN LineSize[1] ELSE 0
StreamLayout == Layout(job, RowSizes, HeaderBytes)

\* The shards of a run, planned or produced, are those greedy filling cuts the
\* rows of the source into: a shard closes with the row that reaches a limit
\* and with no other, so a dry run predicts the real one.
LayoutIsGreedy == Greedy(StreamLayout)

\* Once the context is cancelled no further line is read: the run deals with
\* the line it has in hand and stops at the top of the loop, wherever in the
\* life of a shard the signal arrived.
CancelStopsReading == [][cancelled => read' = read]_vars

\* A stream split implements the contract: the shards that carry new content
\* are the contract's shards, the manifest that carries new content its list.
Contract == INSTANCE SplitContract WITH
  first <- FirstRow,
  last <- job.lines,
  shards <- [i \in Published |-> shardFile[i].rows],
  listed <- New(manFile)

ImplementsContract == Contract!Spec
==============================================================================
