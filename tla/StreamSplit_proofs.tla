------------------------- MODULE StreamSplit_proofs --------------------------
(***************************************************************************)
(* Theorems about StreamSplit, for every source, every set of limits,      *)
(* every directory an earlier run may have left, and every interleaving of *)
(* failures, a signal and a kill.                                          *)
(*                                                                         *)
(* None of the properties is inductive: that a shard about to be published *)
(* continues the one before it depends on how many rows are in the .part,  *)
(* which depends on where in the source the reader is, which depends on    *)
(* the header and on what the last read returned.  IInv says these things  *)
(* for every point of the run; it is shown to hold initially and to be     *)
(* kept by each action, and the theorems follow from it.  That the shards   *)
(* are those of the greedy layout needs a second invariant, LayoutInv,     *)
(* which says how far the layout has come at each point of the run.        *)
(***************************************************************************)
EXTENDS StreamSplit, SequenceTheorems, WellFoundedInduction, TLAPS

Dead == {"abort", "abortManifest", "failed", "crashed"}
Live == ~job.dryRun /\ pc \notin Dead
N == Len(result)

\* The last row that has been handed to a shard, or the one before the first.
Placed ==
  IF read < FirstRow THEN FirstRow - 1
  ELSE IF pc = "row" THEN read - 1 ELSE read

\* The row the next shard has to begin with.
NextAfter == IF N = 0 THEN FirstRow ELSE LastOf(N) + 1

\* The file the open or closing shard is in.
Carrier == IF pc = "record" THEN shardFile[index] ELSE shardPart[index]

\* What the reader's variables say about where the run is.
ReaderInv ==
  /\ headerLine <=> (job.header /\ read >= 1)
  /\ read <= job.lines
  /\ eof => read = job.lines
  /\ pc = "start" => read = 0
  /\ pc = "row" => read >= FirstRow
  /\ pc \in {"finish", "commit", "unlinkManifest", "renameManifest", "done"} => eof

\* Where in its life the shard writer is at each point of the run.
WriterInv ==
  /\ job.dryRun => /\ shard.st = "none" /\ Published = {}
                   /\ pc \notin {"flush", "unlink", "rename", "record",
                                 "unlinkManifest", "renameManifest"}
  /\ pc \in {"start", "commit", "unlinkManifest", "renameManifest", "done"} => shard.st = "none"
  /\ pc \in {"loop", "row", "finish"} => shard.st \in {"none", "open"}
  /\ pc = "flush" => shard.st = "open"
  /\ pc \in {"unlink", "rename", "record"} => shard.st = "closed"
  /\ shard.st = "none" => shard.rows = 0
  /\ shard.st # "none" => index \in ShardId
  /\ pc = "abortManifest" \/ pc = "failed" => shard.st # "open"

\* The published shards are those recorded, plus the one about to be.
PublishedInv ==
  Live => /\ Published = 1 .. (IF pc = "record" THEN N + 1 ELSE N)
          /\ index = IF shard.st = "none" THEN N ELSE N + 1
          /\ N > 0 \/ shard.st # "none" => read >= FirstRow
          /\ NextAfter = Placed + 1 - shard.rows

\* What the open or closing shard holds.
CarrierInv ==
  Live /\ shard.st \in {"open", "closed"} =>
    /\ Carrier \in FileState
    /\ Carrier.hdr = job.header
    /\ ~job.gz \/ shard.st = "closed" => Carrier.whole
    /\ Len(Carrier.rows) = shard.rows
    /\ \A k \in 1 .. shard.rows : Carrier.rows[k] = Placed - shard.rows + k
    /\ shard.rows = 0 => pc = "row"

\* The result lists what is published.
ResultInv ==
  Live => \A i \in 1 .. N :
            /\ result[i].index = i
            /\ result[i].md5 = shardFile[i]
            /\ result[i].rows = Len(shardFile[i].rows)

\* The manifest under construction is the result so far.
ManifestInv ==
  /\ pc = "start" => man = "none" /\ N = 0
  /\ job.dryRun => man = "none"
  /\ pc \in {"loop", "row", "flush", "unlink", "rename", "record", "finish", "commit"}
       => man \in {"none", "open"}
  /\ man = "open" /\ pc \notin Dead => manPart = result
  /\ pc \in {"unlinkManifest", "renameManifest"} => man = "closed" /\ manPart = result
  /\ pc # "done" => ~New(manFile)
  /\ New(manFile) => manFile = result /\ ~job.dryRun

\* Who owns the temporaries.
TempsInv ==
  /\ \A i \in ShardId : New(shardPart[i]) =>
       i = index /\ shard.st \in {"open", "closed"} /\ pc # "record"
  /\ Live => \A i \in 1 .. N : shardPart[i] = None
  /\ pc = "record" => shardPart[index] = None
  /\ New(manPart) => man \in {"open", "closed"}
  /\ pc = "failed" => man # "open"
  /\ pc = "done" => ~New(manPart)

IInv ==
  /\ TypeOK
  /\ ReaderInv
  /\ WriterInv
  /\ PublishedInv
  /\ CarrierInv
  /\ ResultInv
  /\ ManifestInv
  /\ TempsInv
  /\ ShardsInSourceOrder
  /\ FinalShardsWhole

\* The options of a run have the types its limits, flags and source give them
\* (common.go:113 admits only positive limits).
LEMMA JobType ==
  ASSUME job \in Job
  PROVE  /\ job.rows \in Nat /\ job.bytes \in Nat
         /\ job.header \in BOOLEAN /\ job.manifest \in BOOLEAN
         /\ job.dryRun \in BOOLEAN /\ job.gz \in BOOLEAN
         /\ job.lines \in Nat /\ job.lines <= MaxLines /\ job.newline \in BOOLEAN
  BY JobAssumption, SourceAssumption, LinesAssumption

\* The markers for no file and an earlier run's file are not files of this run.
LEMMA Markers ==
  /\ None \notin FileState /\ Old \notin FileState
  /\ None \notin Seq(EntryType) /\ Old \notin Seq(EntryType)
  BY MarkersAreNotFiles

\* countingHashWriter.n stays a number, whatever gzip emits.
LEMMA CountAfterType ==
  ASSUME job \in Job, NEW n \in Nat, NEW size \in Nat, NEW m \in CountAfter(n, size)
  PROVE  m \in Nat
  BY GzBurstAssumption, JobType DEF CountAfter

\* Every line of the source has a size.
LEMMA LineSizeType ==
  ASSUME NEW k \in 1 .. MaxLines
  PROVE  LineSize[k] \in Nat
  BY LinesAssumption

\* The header has a size once it has been captured, and counts nothing before.
LEMMA HeaderSizeType ==
  ASSUME TypeOK, ReaderInv
  PROVE  HeaderSize \in Nat
  <1>1. headerLine => 1 \in 1 .. MaxLines
    BY LinesAssumption DEF TypeOK, ReaderInv
  <1> QED  BY <1>1, LineSizeType DEF HeaderSize

\* buildManifestEntry gives an entry.
LEMMA EntryTyped ==
  ASSUME NEW i \in Nat, NEW r \in Nat, NEW b \in Nat, NEW f \in FileState \cup {None}
  PROVE  Entry(i, r, b, f) \in EntryType
  BY DEF Entry, EntryType

\* Shards that are left alone by a step stay whole and in source order.
LEMMA ShardsFrame ==
  ASSUME ShardsInSourceOrder, FinalShardsWhole, UNCHANGED <<shardFile, job>>
  PROVE  ShardsInSourceOrder' /\ FinalShardsWhole'
  BY DEF ShardsInSourceOrder, FinalShardsWhole, Published, New, LastOf, FirstRow

\* The parts about a run in progress ask nothing of one on its way out.
LEMMA DeadFrame ==
  ASSUME pc' \in Dead
  PROVE  PublishedInv' /\ CarrierInv' /\ ResultInv'
  BY DEF Live, PublishedInv, CarrierInv, ResultInv

\* The parts about files ask nothing of a dry run.
LEMMA DryFrame ==
  ASSUME job.dryRun, UNCHANGED job
  PROVE  PublishedInv' /\ CarrierInv' /\ ResultInv'
  BY DEF Live, PublishedInv, CarrierInv, ResultInv

\* A file of this run is told apart from none and from an earlier one.
LEMMA NewFile ==
  ASSUME NEW f \in FileState
  PROVE  New(f) /\ f # None
  BY Markers DEF New

\* newShardWriter and WriteHeader give a file without rows, its bytes on disk
\* unless gzip holds them.
LEMMA FreshFileType ==
  ASSUME NEW h \in BOOLEAN, job.gz \in BOOLEAN
  PROVE  /\ FreshFile(h) \in FileState /\ FreshFile(h).hdr = h /\ FreshFile(h).rows = <<>>
         /\ ~job.gz => FreshFile(h).whole
  <1>1. <<>> \in Seq(1 .. MaxLines)
    BY EmptySeq
  <1> QED  BY <1>1 DEF FreshFile, FileState

\* A failed header write still leaves a file.
LEMMA TornFileType == TornFile \in FileState
  <1>1. <<>> \in Seq(1 .. MaxLines)
    BY EmptySeq
  <1> QED  BY <1>1 DEF TornFile, FileState

\* WriteRow appends the row it is given and changes no earlier one.
LEMMA WithRowType ==
  ASSUME NEW f \in FileState, NEW r \in 1 .. MaxLines, NEW n \in Nat, Len(f.rows) = n, job.gz \in BOOLEAN
  PROVE  /\ WithRow(f, r) \in FileState /\ WithRow(f, r).hdr = f.hdr
         /\ ~job.gz /\ f.whole => WithRow(f, r).whole
         /\ Len(WithRow(f, r).rows) = n + 1
         /\ \A k \in 1 .. n : WithRow(f, r).rows[k] = f.rows[k]
         /\ WithRow(f, r).rows[n + 1] = r
  <1>1. f.rows \in Seq(1 .. MaxLines) /\ f.hdr \in BOOLEAN /\ f.whole \in BOOLEAN
    BY DEF FileState
  <1>2. /\ Append(f.rows, r) \in Seq(1 .. MaxLines)
        /\ Len(Append(f.rows, r)) = n + 1
        /\ \A k \in 1 .. n : Append(f.rows, r)[k] = f.rows[k]
        /\ Append(f.rows, r)[n + 1] = r
    BY <1>1, AppendProperties
  <1> QED  BY <1>1, <1>2 DEF WithRow, FileState

\* A shard is only ever closed by a real run that has not failed.
LEMMA Lives ==
  ASSUME WriterInv, pc \in {"flush", "unlink", "rename", "record"}
  PROVE  Live
  BY DEF WriterInv, Live, Dead

\* A dryShard keeps its shape.
LEMMA DryTyped ==
  ASSUME NEW r \in Nat, NEW b \in Nat
  PROVE  /\ [open |-> TRUE, rows |-> r, bytes |-> b] \in [open : BOOLEAN, rows : Nat, bytes : Nat]
         /\ NoDry \in [open : BOOLEAN, rows : Nat, bytes : Nat]
  BY DEF NoDry

\* The flags of the job at hand are flags.
LEMMA GzType ==
  ASSUME TypeOK
  PROVE  job \in Job /\ job.gz \in BOOLEAN /\ job.header \in BOOLEAN
  BY JobType DEF TypeOK

------------------------------------------------------------------------------
(* One lemma per action, with one step per part of the invariant.            *)

\* newManifestWriter keeps the invariant: nothing is published or open yet.
LEMMA StartStep == IInv /\ Start => IInv'
  <1> SUFFICES ASSUME IInv, Start PROVE IInv'
    OBVIOUS
  <1> USE DEF IInv, Start, NewManifestWriter, Writes, disk, readVars
  <1>1. TypeOK'
    <2>1. manPart' \in Seq(EntryType) \cup {None, Old}
      BY EmptySeq DEF TypeOK
    <2> QED  BY <2>1 DEF TypeOK, Terminal
  <1>2. ReaderInv'
    BY DEF ReaderInv
  <1>3. WriterInv'
    BY DEF WriterInv, Published
  <1>4. PublishedInv'
    BY DEF PublishedInv, Published, NextAfter, Placed, FirstRow, LastOf, Live, Dead, N
  <1>5. CarrierInv'
    BY DEF Placed, FirstRow, CarrierInv, Carrier, Live, Dead
  <1>6. ResultInv'
    BY DEF ResultInv, Live, Dead, N
  <1>7. ManifestInv'
    BY DEF ManifestInv, N
  <1>8. TempsInv'
    BY DEF TempsInv, ManifestInv, New, N
  <1>9. ShardsInSourceOrder'
    BY ShardsFrame
  <1>10. FinalShardsWhole'
    BY ShardsFrame
  <1> QED  BY <1>1, <1>2, <1>3, <1>4, <1>5, <1>6, <1>7, <1>8, <1>9, <1>10

\* Giving up at the context check (stream.go:68) keeps the invariant.
LEMMA LoopCancelledStep == IInv /\ LoopCancelled => IInv'
  <1> SUFFICES ASSUME IInv, LoopCancelled PROVE IInv'
    OBVIOUS
  <1> USE DEF IInv, LoopCancelled, disk, readVars
  <1>1. TypeOK'
    BY DEF TypeOK
  <1>2. ReaderInv'
    BY DEF ReaderInv
  <1>3. WriterInv'
    BY DEF WriterInv, Published
  <1>4. PublishedInv'
    BY DeadFrame DEF Dead
  <1>5. CarrierInv'
    BY DeadFrame DEF Dead
  <1>6. ResultInv'
    BY DeadFrame DEF Dead
  <1>7. ManifestInv'
    BY DEF ManifestInv, Dead
  <1>8. TempsInv'
    BY DEF TempsInv, Live, Dead
  <1>9. ShardsInSourceOrder'
    BY ShardsFrame
  <1>10. FinalShardsWhole'
    BY ShardsFrame
  <1> QED  BY <1>1, <1>2, <1>3, <1>4, <1>5, <1>6, <1>7, <1>8, <1>9, <1>10

\* A read error (stream.go:71) keeps the invariant.
LEMMA ReadFailsStep == IInv /\ ReadFails => IInv'
  <1> SUFFICES ASSUME IInv, ReadFails PROVE IInv'
    OBVIOUS
  <1> USE DEF IInv, ReadFails, disk, readVars
  <1>1. TypeOK'
    BY DEF TypeOK
  <1>2. ReaderInv'
    BY DEF ReaderInv
  <1>3. WriterInv'
    BY DEF WriterInv, Published
  <1>4. PublishedInv'
    BY DeadFrame DEF Dead
  <1>5. CarrierInv'
    BY DeadFrame DEF Dead
  <1>6. ResultInv'
    BY DeadFrame DEF Dead
  <1>7. ManifestInv'
    BY DEF ManifestInv, Dead
  <1>8. TempsInv'
    BY DEF TempsInv, Live, Dead
  <1>9. ShardsInSourceOrder'
    BY ShardsFrame
  <1>10. FinalShardsWhole'
    BY ShardsFrame
  <1> QED  BY <1>1, <1>2, <1>3, <1>4, <1>5, <1>6, <1>7, <1>8, <1>9, <1>10

\* Meeting the end of the source keeps the invariant: every line had been placed.
LEMMA ReadEOFStep == IInv /\ ReadEOF => IInv'
  <1> SUFFICES ASSUME IInv, ReadEOF PROVE IInv'
    OBVIOUS
  <1> USE DEF IInv, ReadEOF, disk, readVars
  <1>1. TypeOK'
    BY DEF TypeOK
  <1>2. ReaderInv'
    BY DEF ReaderInv
  <1>3. WriterInv'
    BY DEF WriterInv, Published
  <1>4. PublishedInv'
    BY DEF PublishedInv, Published, NextAfter, Placed, FirstRow, LastOf, Live, Dead, N
  <1>5. CarrierInv'
    BY DEF Placed, FirstRow, CarrierInv, Carrier, Live, Dead
  <1>6. ResultInv'
    BY DEF ResultInv, Live, Dead, N
  <1>7. ManifestInv'
    BY DEF ManifestInv, Dead
  <1>8. TempsInv'
    BY DEF TempsInv, Live, Dead, N
  <1>9. ShardsInSourceOrder'
    BY ShardsFrame
  <1>10. FinalShardsWhole'
    BY ShardsFrame
  <1> QED  BY <1>1, <1>2, <1>3, <1>4, <1>5, <1>6, <1>7, <1>8, <1>9, <1>10

\* Reading a line keeps the invariant: it is the header, or the row to be placed.
LEMMA ReadLineStep == IInv /\ ReadLine => IInv'
  <1> SUFFICES ASSUME IInv, ReadLine PROVE IInv'
    OBVIOUS
  <1> USE DEF IInv, ReadLine, IsHeader, HasLine, MayRead, disk, readVars
  <1>1. TypeOK'
    <2>1. read' \in 0 .. MaxLines /\ eof' \in BOOLEAN
      BY JobType, LinesAssumption DEF TypeOK
    <2> QED  BY <2>1 DEF TypeOK
  <1>2. ReaderInv'
    BY JobType DEF TypeOK, ReaderInv, FirstRow
  <1>3. WriterInv'
    BY DEF WriterInv, Published
  <1>4. PublishedInv'
    BY DEF TypeOK, PublishedInv, Published, ReaderInv, NextAfter, Placed, FirstRow, LastOf, Live, Dead, N
  <1>5. CarrierInv'
    BY DEF TypeOK, ReaderInv, Placed, FirstRow, CarrierInv, Carrier, Live, Dead
  <1>6. ResultInv'
    BY DEF ResultInv, Live, Dead, N
  <1>7. ManifestInv'
    BY DEF ManifestInv, Dead
  <1>8. TempsInv'
    BY DEF TempsInv, Live, Dead, N
  <1>9. ShardsInSourceOrder'
    BY ShardsFrame
  <1>10. FinalShardsWhole'
    BY ShardsFrame
  <1> QED  BY <1>1, <1>2, <1>3, <1>4, <1>5, <1>6, <1>7, <1>8, <1>9, <1>10

\* newShardWriter keeps the invariant: the new .part is the next shard's, empty.
LEMMA OpenShardStep == IInv /\ OpenShard => IInv'
  <1> SUFFICES ASSUME IInv, OpenShard PROVE IInv'
    OBVIOUS
  <1> USE DEF IInv
  <1>a. /\ pc = "row" /\ shard.st = "none" /\ Live /\ ~job.dryRun
        /\ index \in Nat /\ index + 1 \in ShardId /\ index' = index + 1 /\ index = N
        /\ NextAfter = Placed + 1 - shard.rows
        /\ headerLine \in BOOLEAN /\ headerLine = job.header /\ read >= FirstRow
        /\ UNCHANGED <<job, cancelled, shardFile, manFile, manPart, man, dry, result,
                        read, headerLine, eof>>
    BY JobType DEF OpenShard, NewShardWriter, readVars, Live, Dead, TypeOK, PublishedInv, ReaderInv, FirstRow
  <1>b. /\ shardPart \in [ShardId -> FileState \cup {None, Old}]
        /\ \A i \in ShardId : ~New(shardPart[i])
        /\ shard \in [st : {"none", "open", "closed", "aborted"}, rows : Nat, n : Nat]
        /\ shard.rows = 0
    BY <1>a DEF TypeOK, TempsInv, WriterInv
  <1>c. PICK f \in FileState \cup {None, Old} :
          /\ shardPart' = [shardPart EXCEPT ![index + 1] = f]
          /\ \/ /\ pc' = "row" /\ shard'.st = "open"
                /\ f \in FileState /\ f.hdr = job.header /\ f.rows = <<>> /\ (~job.gz => f.whole)
             \/ pc' = "abort" /\ shard'.st = "open"
             \/ pc' = "abort" /\ shard' = shard /\ ~New(f)
          /\ shard'.rows = 0
          /\ shard' \in [st : {"none", "open", "closed", "aborted"}, rows : Nat, n : Nat]
    <2>1. CASE \E n \in (IF headerLine THEN CountAfter(0, HeaderSize) ELSE {0}) :
                 /\ shardPart' = [shardPart EXCEPT ![index + 1] = FreshFile(headerLine)]
                 /\ shard' = [st |-> "open", rows |-> 0, n |-> n]
                 /\ UNCHANGED pc
      <3>1. \A n \in (IF headerLine THEN CountAfter(0, HeaderSize) ELSE {0}) : n \in Nat
        <4>1. job \in Job /\ HeaderSize \in Nat
          BY HeaderSizeType DEF TypeOK
        <4> QED  BY <4>1, CountAfterType
      <3>2. /\ FreshFile(headerLine) \in FileState /\ FreshFile(headerLine).hdr = job.header
            /\ FreshFile(headerLine).rows = <<>> /\ (~job.gz => FreshFile(headerLine).whole)
        BY <1>a, GzType, FreshFileType
      <3>3. /\ pc' = "row" /\ shard'.st = "open" /\ shard'.rows = 0
            /\ shard' \in [st : {"none", "open", "closed", "aborted"}, rows : Nat, n : Nat]
            /\ shardPart' = [shardPart EXCEPT ![index + 1] = FreshFile(headerLine)]
        BY <1>a, <2>1, <3>1
      <3> QED  BY <3>2, <3>3
    <2>2. CASE /\ \E f \in {None, shardPart[index + 1]} :
                    shardPart' = [shardPart EXCEPT ![index + 1] = f]
               /\ pc' = "abort"
               /\ UNCHANGED shard
      BY <1>a, <1>b, <2>2 DEF New
    <2>3. CASE /\ shardPart' = [shardPart EXCEPT ![index + 1] = TornFile]
               /\ shard' = [st |-> "open", rows |-> 0, n |-> 0]
               /\ pc' = "abort"
      BY <2>3, TornFileType
    <2> QED  BY <2>1, <2>2, <2>3 DEF OpenShard, NewShardWriter
  <1>d. /\ shardPart' \in [ShardId -> FileState \cup {None, Old}]
        /\ shardPart'[index + 1] = f
        /\ \A i \in ShardId : i # index + 1 => shardPart'[i] = shardPart[i]
    BY <1>a, <1>b, <1>c
  <1>1. TypeOK'
    BY <1>a, <1>c, <1>d DEF TypeOK
  <1>2. ReaderInv'
    BY <1>a, <1>c DEF ReaderInv, FirstRow
  <1>3. WriterInv'
    BY <1>a, <1>b, <1>c DEF WriterInv, Published
  <1>4. PublishedInv'
    BY <1>a, <1>b, <1>c DEF PublishedInv, Published, NextAfter, Placed, Live, Dead, N, FirstRow, LastOf
  <1>5. CarrierInv'
    <2>1. CASE pc' = "abort"
      BY <2>1, DeadFrame DEF Dead
    <2>2. CASE pc' = "row"
      <3>1. Carrier' = f /\ f \in FileState /\ f.hdr = job.header /\ (~job.gz => f.whole)
        BY <1>a, <1>b, <1>c, <1>d, <2>2 DEF Carrier
      <3>2. Len(f.rows) = 0
        BY <1>c, <2>2, EmptySeq
      <3> QED  BY <1>a, <1>c, <2>2, <3>1, <3>2 DEF CarrierInv
    <2> QED  BY <1>c, <2>1, <2>2
  <1>6. ResultInv'
    BY <1>a, <1>c DEF ResultInv, Live, Dead, N
  <1>7. ManifestInv'
    BY <1>a, <1>c DEF ManifestInv, New, Dead, N
  <1>8. TempsInv'
    <2>1. \A i \in ShardId : New(shardPart'[i]) => i = index' /\ shard'.st = "open"
      BY <1>a, <1>b, <1>c, <1>d
    <2>2. \A i \in 1 .. N : i \in ShardId /\ i # index + 1 /\ shardPart[i] = None
      BY <1>a DEF TempsInv, PublishedInv, Published
    <2>3. \A i \in 1 .. N : shardPart'[i] = None
      BY <1>d, <2>2
    <2> QED  BY <1>a, <1>c, <2>1, <2>3 DEF TempsInv, New, N
  <1>9. ShardsInSourceOrder'
    BY <1>a, ShardsFrame
  <1>10. FinalShardsWhole'
    BY <1>a, ShardsFrame
  <1> QED  BY <1>1, <1>2, <1>3, <1>4, <1>5, <1>6, <1>7, <1>8, <1>9, <1>10

\* WriteRow keeps the invariant: the .part ends with the row just placed, or the
\* run is on its way out.
LEMMA RowStep == IInv /\ Row => IInv'
  <1> SUFFICES ASSUME IInv, Row PROVE IInv'
    OBVIOUS
  <1> USE DEF IInv
  <1> DEFINE f == shardPart[index]
  <1>a. /\ pc = "row" /\ shard.st = "open" /\ Live /\ ~job.dryRun
        /\ index \in ShardId /\ index = N + 1
        /\ read \in 1 .. MaxLines /\ read >= FirstRow /\ read <= job.lines
        /\ UNCHANGED <<job, cancelled, shardFile, manFile, manPart, index, man, dry, result,
                        read, headerLine, eof>>
    BY JobType, LinesAssumption
    DEF Row, WriteRow, readVars, Live, Dead, TypeOK, WriterInv, PublishedInv, ReaderInv, FirstRow
  <1>b. /\ f \in FileState /\ f.hdr = job.header /\ (~job.gz => f.whole)
        /\ Len(f.rows) = shard.rows
        /\ \A k \in 1 .. shard.rows : f.rows[k] = Placed - shard.rows + k
        /\ NextAfter = Placed + 1 - shard.rows
        /\ shardPart \in [ShardId -> FileState \cup {None, Old}]
        /\ shard \in [st : {"none", "open", "closed", "aborted"}, rows : Nat, n : Nat]
    BY <1>a DEF CarrierInv, PublishedInv, Carrier, TypeOK
  <1>c. PICK g \in FileState :
          /\ shardPart' = [shardPart EXCEPT ![index] = g]
          /\ \/ /\ g = WithRow(f, read)
                /\ shard'.rows = shard.rows + 1
                /\ pc' \in {"flush", "finish", "loop"} /\ (pc' = "finish" => eof)
             \/ pc' = "abort"
          /\ shard'.st = "open"
          /\ shard' \in [st : {"none", "open", "closed", "aborted"}, rows : Nat, n : Nat]
    <2>0. /\ shard \in [st : {"none", "open", "closed", "aborted"}, rows : Nat, n : Nat]
          /\ shard.st = "open"
      BY <1>a, <1>b
    <2>1. CASE WriteFails
      <3>1. [f EXCEPT !.whole = FALSE] \in FileState
        BY <1>b DEF FileState
      <3> QED  BY <1>a, <1>b, <2>1, <3>1 DEF WriteFails
    <2>2. CASE WriteOk(read, LineSize[read], 1) /\ pc' \in {"flush", AfterRow}
      <3>1. PICK n \in CountAfter(shard.n, LineSize[read]) :
              /\ shardPart' = [shardPart EXCEPT ![index] = WithRow(@, read)]
              /\ shard' = [shard EXCEPT !.rows = @ + 1, !.n = n]
        BY <2>2 DEF WriteOk
      <3>2. n \in Nat
        BY <1>a, <1>b, <3>1, CountAfterType, LineSizeType DEF TypeOK
      <3>3. WithRow(f, read) \in FileState
        BY <1>a, <1>b, GzType, WithRowType
      <3>4. /\ shard'.rows = shard.rows + 1 /\ shard'.st = "open"
            /\ shard' \in [st : {"none", "open", "closed", "aborted"}, rows : Nat, n : Nat]
        <4>1. shard' = [st |-> "open", rows |-> shard.rows + 1, n |-> n]
          BY <2>0, <3>1
        <4> QED  BY <2>0, <3>2, <4>1
      <3> QED  BY <2>2, <3>1, <3>3, <3>4 DEF AfterRow
    <2> QED  BY <2>1, <2>2 DEF Row, WriteRow
  <1>d. /\ shardPart' \in [ShardId -> FileState \cup {None, Old}]
        /\ shardPart'[index] = g
        /\ \A i \in ShardId : i # index => shardPart'[i] = shardPart[i]
    BY <1>a, <1>b, <1>c
  <1> HIDE DEF f
  <1>1. TypeOK'
    BY <1>a, <1>c, <1>d DEF TypeOK
  <1>2. ReaderInv'
    BY <1>a, <1>c DEF ReaderInv, FirstRow
  <1>3. WriterInv'
    BY <1>a, <1>c DEF WriterInv, Published
  <1>4. PublishedInv'
    <2>1. CASE pc' = "abort"
      BY <2>1, DeadFrame DEF Dead
    <2>2. CASE pc' # "abort"
      <3>1. Placed' = read /\ Placed = read - 1 /\ NextAfter' = NextAfter
        BY <1>a, <1>c, <2>2 DEF NextAfter, Placed, N, FirstRow, LastOf
      <3>2. shard.rows \in Nat /\ read \in Int /\ shard'.rows = shard.rows + 1
        BY <1>a, <1>b, <1>c, <2>2, LinesAssumption
      <3>3. NextAfter' = Placed' + 1 - shard'.rows
        BY <1>b, <3>1, <3>2
      <3> QED  BY <1>a, <1>c, <2>2, <3>3 DEF PublishedInv, Published, N, FirstRow
    <2> QED  BY <2>1, <2>2
  <1>5. CarrierInv'
    <2>1. CASE pc' = "abort"
      BY <2>1, DeadFrame DEF Dead
    <2>2. CASE pc' # "abort"
      <3>1. Carrier' = g /\ g = WithRow(f, read) /\ shard'.rows = shard.rows + 1
        BY <1>a, <1>c, <1>d, <2>2 DEF Carrier
      <3>2. Placed' = read /\ Placed = read - 1
        BY <1>a, <1>c, <2>2 DEF Placed, FirstRow
      <3>3. shard.rows \in Nat /\ read \in Int
        BY <1>a, <1>b, LinesAssumption
      <3>4. /\ g \in FileState /\ g.hdr = f.hdr /\ (~job.gz /\ f.whole => g.whole)
            /\ Len(g.rows) = shard.rows + 1
            /\ \A k \in 1 .. shard.rows : g.rows[k] = f.rows[k]
            /\ g.rows[shard.rows + 1] = read
        <4>1. job.gz \in BOOLEAN /\ f \in FileState /\ read \in 1 .. MaxLines /\ Len(f.rows) = shard.rows
          BY <1>a, <1>b, GzType
        <4> QED  BY <3>1, <3>3, <4>1, WithRowType
      <3>5. ASSUME NEW k \in 1 .. shard'.rows
            PROVE  g.rows[k] = Placed' - shard'.rows + k
        <4>1. CASE k \in 1 .. shard.rows
          <5>1. g.rows[k] = Placed - shard.rows + k
            BY <1>b, <3>4, <4>1
          <5>2. Placed' - shard'.rows + k = Placed - shard.rows + k
            BY <3>1, <3>2, <3>3
          <5> QED  BY <5>1, <5>2
        <4>2. CASE k = shard.rows + 1
          <5>1. Placed' - shard'.rows + k = read
            BY <3>1, <3>2, <3>3, <4>2
          <5> QED  BY <3>4, <4>2, <5>1
        <4> QED  BY <3>1, <3>3, <4>1, <4>2
      <3>6. /\ g.hdr = job'.header /\ (~job'.gz => g.whole) /\ shard'.st # "closed"
            /\ shard'.rows # 0
        BY <1>a, <1>b, <1>c, <3>1, <3>3, <3>4
      <3> QED  BY <3>1, <3>4, <3>5, <3>6 DEF CarrierInv
    <2> QED  BY <2>1, <2>2
  <1>6. ResultInv'
    BY <1>a, <1>c DEF ResultInv, Live, Dead, N
  <1>7. ManifestInv'
    BY <1>a, <1>c DEF ManifestInv, New, Dead, N
  <1>8. TempsInv'
    <2>1. \A i \in ShardId : New(shardPart'[i]) => i = index
      BY <1>d DEF TempsInv
    <2>2. \A i \in 1 .. N : i \in ShardId /\ i # index /\ shardPart[i] = None
      BY <1>a DEF TempsInv, PublishedInv, Published, N, TypeOK
    <2>3. \A i \in 1 .. N : shardPart'[i] = None
      BY <1>d, <2>2
    <2> QED  BY <1>a, <1>c, <2>1, <2>3 DEF TempsInv, New, N
  <1>9. ShardsInSourceOrder'
    BY <1>a, ShardsFrame
  <1>10. FinalShardsWhole'
    BY <1>a, ShardsFrame
  <1> QED  BY <1>1, <1>2, <1>3, <1>4, <1>5, <1>6, <1>7, <1>8, <1>9, <1>10

\* A row of a dry run keeps the invariant: no file is involved.
LEMMA PlanRowStep == IInv /\ PlanRow => IInv'
  <1> SUFFICES ASSUME IInv, PlanRow PROVE IInv'
    OBVIOUS
  <1> USE DEF IInv, PlanRow, DryRow, disk, readVars
  <1>1. TypeOK'
    <2>1. /\ dry \in [open : BOOLEAN, rows : Nat, bytes : Nat] /\ index \in Nat
          /\ read \in 1 .. MaxLines
      BY JobType, LinesAssumption DEF TypeOK, ReaderInv, FirstRow
    <2>2. HeaderSize \in Nat /\ LineSize[read] \in Nat
      BY <2>1, HeaderSizeType, LineSizeType
    <2> DEFINE i == IF dry.open THEN index ELSE index + 1
               b == (IF dry.open THEN dry.bytes ELSE HeaderSize) + LineSize[read]
    <2>3. i \in Nat /\ b \in Nat /\ dry.rows + 1 \in Nat
      BY <2>1, <2>2
    <2>4. \/ dry' = NoDry /\ result' = Append(result, Entry(i, dry.rows + 1, b, None))
          \/ dry' = [open |-> TRUE, rows |-> dry.rows + 1, bytes |-> b] /\ result' = result
      OBVIOUS
    <2> HIDE DEF i, b
    <2>5. dry' \in [open : BOOLEAN, rows : Nat, bytes : Nat]
      BY <2>3, <2>4, DryTyped
    <2>6. result' \in Seq(EntryType)
      <3>1. Entry(i, dry.rows + 1, b, None) \in EntryType /\ result \in Seq(EntryType)
        BY <2>3, EntryTyped DEF TypeOK
      <3> QED  BY <2>4, <3>1, AppendProperties
    <2>7. index' \in Nat
      BY <2>3 DEF i
    <2> QED  BY <2>5, <2>6, <2>7 DEF TypeOK, AfterRow
  <1>2. ReaderInv'
    BY DEF ReaderInv, AfterRow
  <1>3. WriterInv'
    BY DEF WriterInv, Published, AfterRow
  <1>4. PublishedInv'
    BY DryFrame
  <1>5. CarrierInv'
    BY DryFrame
  <1>6. ResultInv'
    BY DryFrame
  <1>7. ManifestInv'
    BY DEF ManifestInv, AfterRow
  <1>8. TempsInv'
    BY DEF TempsInv, WriterInv, Live, AfterRow
  <1>9. ShardsInSourceOrder'
    BY ShardsFrame
  <1>10. FinalShardsWhole'
    BY ShardsFrame
  <1> QED  BY <1>1, <1>2, <1>3, <1>4, <1>5, <1>6, <1>7, <1>8, <1>9, <1>10

\* The end of closeTextShard keeps the invariant: result and manifest gain the
\* shard that was just published, or the run is on its way out.
LEMMA RecordStep == IInv /\ Record => IInv'
  <1> SUFFICES ASSUME IInv, Record PROVE IInv'
    OBVIOUS
  <1> USE DEF IInv
  <1> DEFINE e == Entry(index, shard.rows, shard.n, shardFile[index])
  <1>a. /\ pc = "record" /\ shard.st = "closed" /\ Live /\ ~job.dryRun
        /\ index \in ShardId /\ index \in Nat /\ index = N + 1 /\ N \in Nat
        /\ \/ /\ manPart' = IF man = "open" THEN Append(manPart, e) ELSE manPart
              /\ result' = Append(result, e)
              /\ shard' = NoShard
              /\ pc' \in {"finish", "loop"} /\ (pc' = "finish" => eof)
           \/ /\ man = "open" /\ pc' = "abort"
              /\ UNCHANGED <<manPart, result, shard>>
        /\ UNCHANGED <<job, cancelled, shardFile, shardPart, manFile, index, man, dry,
                        read, headerLine, eof>>
    BY Lives DEF Record, RecordShard, AfterRow, readVars, Live, TypeOK, WriterInv, PublishedInv, N
  <1>b. Published = 1 .. N + 1
    BY <1>a DEF PublishedInv
  <1>c. /\ shardFile[index] \in FileState
        /\ Len(shardFile[index].rows) = shard.rows
        /\ shard.rows \in Nat /\ shard.rows # 0 /\ shard.n \in Nat
        /\ LastOf(index) = Placed /\ Placed \in Int
    <2>1. /\ shardFile[index] \in FileState /\ Len(shardFile[index].rows) = shard.rows
          /\ \A k \in 1 .. shard.rows : shardFile[index].rows[k] = Placed - shard.rows + k
          /\ shard.rows # 0
      BY <1>a DEF CarrierInv, Carrier
    <2>2. shard.rows \in Nat /\ shard.n \in Nat /\ Placed \in Int
      BY JobType, LinesAssumption DEF TypeOK, Placed, FirstRow
    <2>3. shard.rows \in 1 .. shard.rows
      BY <2>1, <2>2
    <2>4. shardFile[index].rows[shard.rows] = Placed
      BY <2>1, <2>2, <2>3
    <2> QED  BY <2>1, <2>2, <2>4 DEF LastOf
  <1>d. e \in EntryType /\ e.index = index /\ e.rows = shard.rows /\ e.md5 = shardFile[index]
    BY <1>a, <1>c, EntryTyped DEF Entry
  <1> HIDE DEF e
  <1>e. result \in Seq(EntryType) /\ N' = Len(result')
    BY DEF TypeOK, N
  <1>f. pc' # "abort" =>
          /\ result' \in Seq(EntryType) /\ N' = N + 1 /\ shard'.st = "none" /\ shard'.rows = 0
          /\ \A i \in 1 .. N : result'[i] = result[i]
          /\ result'[N + 1] = e
    <2>1. /\ Append(result, e) \in Seq(EntryType) /\ Len(Append(result, e)) = N + 1
          /\ \A i \in 1 .. N : Append(result, e)[i] = result[i]
          /\ Append(result, e)[N + 1] = e
      BY <1>d, <1>e, AppendProperties DEF N
    <2>2. NoShard.st = "none" /\ NoShard.rows = 0
      BY DEF NoShard
    <2> QED  BY <1>a, <1>e, <2>1, <2>2
  <1>g. \A i \in 1 .. N + 1 : i \in 1 .. N \/ i = N + 1
    BY <1>a
  <1>1. TypeOK'
    <2>1. result' \in Seq(EntryType)
      BY <1>a, <1>e, <1>f
    <2>2. shard' \in [st : {"none", "open", "closed", "aborted"}, rows : Nat, n : Nat]
      BY <1>a DEF TypeOK, NoShard
    <2>3. manPart' \in Seq(EntryType) \cup {None, Old}
      <3>1. man = "open" => manPart \in Seq(EntryType)
        BY <1>a, <1>e DEF ManifestInv, Live
      <3>2. man = "open" => Append(manPart, e) \in Seq(EntryType)
        BY <1>d, <3>1, AppendProperties
      <3> QED  BY <1>a, <3>2 DEF TypeOK
    <2> QED  BY <1>a, <2>1, <2>2, <2>3 DEF TypeOK
  <1>2. ReaderInv'
    BY <1>a DEF ReaderInv, FirstRow
  <1>3. WriterInv'
    BY <1>a, <1>f DEF WriterInv, Published
  <1>4. PublishedInv'
    <2>1. CASE pc' = "abort"
      BY <2>1, DeadFrame DEF Dead
    <2>2. CASE pc' # "abort"
      <3>1. NextAfter' = LastOf(index) + 1 /\ Placed' = Placed
        BY <1>a, <1>f, <2>2 DEF NextAfter, Placed, FirstRow, LastOf
      <3>2. read >= FirstRow' /\ Published' = 1 .. N'
        BY <1>a, <1>b, <1>f, <2>2 DEF PublishedInv, FirstRow, Published
      <3>3. NextAfter' = Placed' + 1 - shard'.rows
        BY <1>c, <1>f, <2>2, <3>1
      <3> QED  BY <1>a, <1>f, <2>2, <3>2, <3>3 DEF PublishedInv
    <2> QED  BY <2>1, <2>2
  <1>5. CarrierInv'
    <2>1. CASE pc' = "abort"
      BY <2>1, DeadFrame DEF Dead
    <2> QED  BY <1>f, <2>1 DEF CarrierInv
  <1>6. ResultInv'
    <2>1. CASE pc' = "abort"
      BY <2>1, DeadFrame DEF Dead
    <2>2. CASE pc' # "abort"
      <3>1. /\ result'[N + 1].index = N + 1
            /\ result'[N + 1].md5 = shardFile[N + 1]
            /\ result'[N + 1].rows = Len(shardFile[N + 1].rows)
        BY <1>a, <1>c, <1>d, <1>f, <2>2
      <3>2. \A i \in 1 .. N : /\ result'[i].index = i
                               /\ result'[i].md5 = shardFile[i]
                               /\ result'[i].rows = Len(shardFile[i].rows)
        BY <1>a, <1>f, <2>2 DEF ResultInv
      <3>3. shardFile' = shardFile /\ N' = N + 1
        BY <1>a, <1>f, <2>2
      <3> QED  BY <1>g, <3>1, <3>2, <3>3 DEF ResultInv
    <2> QED  BY <2>1, <2>2
  <1>7. ManifestInv'
    <2>1. man = "open" => manPart = result
      BY <1>a DEF ManifestInv, Live
    <2> QED  BY <1>a, <2>1 DEF ManifestInv, New, Dead
  <1>8. TempsInv'
    <2>1. shardPart[index] = None
      BY <1>a DEF TempsInv
    <2>2. \A i \in ShardId : ~New(shardPart'[i])
      BY <1>a DEF TempsInv
    <2>3. New(manPart') => man \in {"open", "closed"}
      BY <1>a DEF TempsInv
    <2>4. Live' => \A i \in 1 .. N' : shardPart'[i] = None
      BY <1>a, <1>f, <1>g, <2>1 DEF TempsInv, Live, Dead
    <2> QED  BY <1>a, <2>2, <2>3, <2>4 DEF TempsInv
  <1>9. ShardsInSourceOrder'
    BY <1>a, ShardsFrame
  <1>10. FinalShardsWhole'
    BY <1>a, ShardsFrame
  <1> QED  BY <1>1, <1>2, <1>3, <1>4, <1>5, <1>6, <1>7, <1>8, <1>9, <1>10

\* The first half of shardWriter.Close keeps the invariant: the .part is whole.
LEMMA FlushShardStep == IInv /\ FlushShard /\ UNCHANGED readVars => IInv'
  <1> SUFFICES ASSUME IInv, FlushShard, UNCHANGED readVars PROVE IInv'
    OBVIOUS
  <1> USE DEF IInv
  <1>a. /\ pc = "flush" /\ shard.st = "open" /\ Live /\ ~job.dryRun
        /\ index \in ShardId /\ index = N + 1
        /\ shard \in [st : {"none", "open", "closed", "aborted"}, rows : Nat, n : Nat]
        /\ shardPart \in [ShardId -> FileState \cup {None, Old}]
        /\ UNCHANGED <<job, cancelled, shardFile, manFile, manPart, index, man, dry, result,
                        read, headerLine, eof>>
    BY Lives DEF FlushShard, readVars, Live, TypeOK, WriterInv, PublishedInv
  <1> DEFINE f == shardPart[index]
             g == [f EXCEPT !.whole = TRUE]
  <1>b. /\ f \in FileState
        /\ g \in FileState /\ g.hdr = f.hdr /\ g.rows = f.rows /\ g.whole = TRUE
    <2>1. f \in FileState
      BY <1>a DEF CarrierInv, Carrier
    <2> QED  BY <2>1 DEF FileState
  <1>c. /\ shard'.st = "closed" /\ shard'.rows = shard.rows
        /\ shard' \in [st : {"none", "open", "closed", "aborted"}, rows : Nat, n : Nat]
        /\ \/ pc' \in {"unlink", "rename"} /\ shardPart' = [shardPart EXCEPT ![index] = g]
           \/ pc' = "abort" /\ shardPart' = shardPart
    <2>1. CASE \E n \in (IF job.gz THEN CountAfter(shard.n, 0) ELSE {shard.n}) :
                 /\ shard' = [shard EXCEPT !.st = "closed", !.n = n]
                 /\ shardPart' = [shardPart EXCEPT ![index].whole = TRUE]
                 /\ pc' = AfterFlush
      <3>1. \A n \in (IF job.gz THEN CountAfter(shard.n, 0) ELSE {shard.n}) : n \in Nat
        <4>1. job \in Job /\ shard.n \in Nat
          BY <1>a DEF TypeOK
        <4> QED  BY <4>1, CountAfterType
      <3>2. PICK n \in Nat : /\ shard' = [shard EXCEPT !.st = "closed", !.n = n]
                             /\ shardPart' = [shardPart EXCEPT ![index].whole = TRUE]
        BY <2>1, <3>1
      <3>3. /\ shard'.st = "closed" /\ shard'.rows = shard.rows
            /\ shard' \in [st : {"none", "open", "closed", "aborted"}, rows : Nat, n : Nat]
        BY <1>a, <3>2
      <3> QED  BY <2>1, <3>2, <3>3 DEF AfterFlush
    <2>2. CASE /\ shard' = [shard EXCEPT !.st = "closed"]
               /\ pc' = "abort"
               /\ UNCHANGED shardPart
      BY <1>a, <2>2
    <2> QED  BY <2>1, <2>2 DEF FlushShard
  <1>d. /\ shardPart' \in [ShardId -> FileState \cup {None, Old}]
        /\ pc' # "abort" => shardPart'[index] = g
        /\ \A i \in ShardId : i # index => shardPart'[i] = shardPart[i]
    BY <1>a, <1>b, <1>c
  <1> HIDE DEF f, g
  <1>1. TypeOK'
    BY <1>a, <1>c, <1>d DEF TypeOK
  <1>2. ReaderInv'
    BY <1>a, <1>c DEF ReaderInv, FirstRow
  <1>3. WriterInv'
    BY <1>a, <1>c DEF WriterInv, Published
  <1>4. PublishedInv'
    BY <1>a, <1>c DEF PublishedInv, Published, NextAfter, Placed, LastOf, Live, Dead, N, FirstRow
  <1>5. CarrierInv'
    <2>1. CASE pc' = "abort"
      BY <2>1, DeadFrame DEF Dead
    <2>2. CASE pc' # "abort"
      <3>1. Carrier' = g /\ Carrier = f
        BY <1>a, <1>c, <1>d, <2>2 DEF Carrier, f
      <3>2. Placed' = Placed
        BY <1>a, <1>c, <2>2 DEF Placed, FirstRow
      <3>3. shard.rows # 0
        BY <1>a DEF CarrierInv
      <3> QED  BY <1>a, <1>b, <1>c, <2>2, <3>1, <3>2, <3>3 DEF CarrierInv
    <2> QED  BY <2>1, <2>2
  <1>6. ResultInv'
    BY <1>a, <1>c DEF ResultInv, Live, Dead, N
  <1>7. ManifestInv'
    BY <1>a, <1>c DEF ManifestInv, New, Dead, N
  <1>8. TempsInv'
    <2>1. \A i \in ShardId : New(shardPart'[i]) => i = index
      BY <1>d DEF TempsInv
    <2>2. \A i \in 1 .. N : i \in ShardId /\ i # index /\ shardPart[i] = None
      BY <1>a DEF TempsInv, PublishedInv, Published, N, TypeOK
    <2>3. \A i \in 1 .. N : shardPart'[i] = None
      BY <1>d, <2>2
    <2> QED  BY <1>a, <1>c, <2>1, <2>3 DEF TempsInv, New, N
  <1>9. ShardsInSourceOrder'
    BY <1>a, ShardsFrame
  <1>10. FinalShardsWhole'
    BY <1>a, ShardsFrame
  <1> QED  BY <1>1, <1>2, <1>3, <1>4, <1>5, <1>6, <1>7, <1>8, <1>9, <1>10

\* Removing the target (AtomicRename on Windows) keeps the invariant: the target
\* is not one of this run's shards.
LEMMA UnlinkShardStep == IInv /\ UnlinkShard /\ UNCHANGED readVars => IInv'
  <1> SUFFICES ASSUME IInv, UnlinkShard, UNCHANGED readVars PROVE IInv'
    OBVIOUS
  <1> USE DEF IInv
  <1>a. /\ pc = "unlink" /\ shard.st = "closed" /\ Live /\ ~job.dryRun
        /\ index \in ShardId /\ index = N + 1 /\ N \in Nat
        /\ shardFile \in [ShardId -> FileState \cup {None, Old}]
        /\ pc' \in {"rename", "abort"}
        /\ UNCHANGED <<job, cancelled, shardPart, manFile, manPart, index, shard, man, dry, result,
                        read, headerLine, eof>>
    BY Lives DEF UnlinkShard, readVars, Live, TypeOK, WriterInv, PublishedInv, N
  <1>b. Published = 1 .. N
    BY <1>a DEF PublishedInv
  <1>c. /\ shardFile' \in [ShardId -> FileState \cup {None, Old}]
        /\ \A i \in ShardId : i # index => shardFile'[i] = shardFile[i]
        /\ ~New(shardFile[index]) /\ ~New(shardFile'[index])
    <2>1. ~New(shardFile[index])
      BY <1>a, <1>b DEF Published
    <2> QED  BY <1>a, <2>1 DEF UnlinkShard, New
  <1>d. /\ Published' = Published
        /\ \A i \in Published : shardFile'[i] = shardFile[i]
    BY <1>a, <1>b, <1>c DEF Published
  <1>1. TypeOK'
    BY <1>a, <1>c DEF TypeOK
  <1>2. ReaderInv'
    BY <1>a DEF ReaderInv, FirstRow
  <1>3. WriterInv'
    BY <1>a DEF WriterInv
  <1>4. PublishedInv'
    <2>1. CASE pc' = "abort"
      BY <2>1, DeadFrame DEF Dead
    <2>2. CASE pc' = "rename"
      <3>1. Placed' = Placed /\ NextAfter' = NextAfter
        BY <1>a, <1>b, <1>d, <2>2 DEF NextAfter, Placed, N, FirstRow, LastOf
      <3> QED  BY <1>a, <1>b, <1>d, <2>2, <3>1 DEF PublishedInv, N, FirstRow
    <2> QED  BY <1>a, <2>1, <2>2
  <1>5. CarrierInv'
    <2>1. CASE pc' = "abort"
      BY <2>1, DeadFrame DEF Dead
    <2>2. CASE pc' = "rename"
      <3>1. Carrier' = Carrier
        BY <1>a, <2>2 DEF Carrier
      <3>2. Placed' = Placed
        BY <1>a, <2>2 DEF Placed, FirstRow
      <3>3. shard.rows # 0
        BY <1>a DEF CarrierInv
      <3> QED  BY <1>a, <2>2, <3>1, <3>2, <3>3 DEF CarrierInv
    <2> QED  BY <1>a, <2>1, <2>2
  <1>6. ResultInv'
    BY <1>a, <1>b, <1>d DEF ResultInv, Live, Dead, N
  <1>7. ManifestInv'
    BY <1>a DEF ManifestInv, New, Dead, N
  <1>8. TempsInv'
    BY <1>a DEF TempsInv, New, N, Live, Dead
  <1>9. ShardsInSourceOrder'
    <2>1. \A i \in Published : LastOf(i)' = LastOf(i)
      BY <1>d DEF LastOf
    <2> QED  BY <1>a, <1>d, <2>1 DEF ShardsInSourceOrder, FirstRow
  <1>10. FinalShardsWhole'
    BY <1>a, <1>d DEF FinalShardsWhole
  <1> QED  BY <1>1, <1>2, <1>3, <1>4, <1>5, <1>6, <1>7, <1>8, <1>9, <1>10

\* Publishing a shard keeps the invariant: it continues where the shard before it
\* stopped, and it is whole.
LEMMA RenameShardStep == IInv /\ RenameShard /\ UNCHANGED readVars => IInv'
  <1> SUFFICES ASSUME IInv, RenameShard, UNCHANGED readVars PROVE IInv'
    OBVIOUS
  <1> USE DEF IInv
  <1> DEFINE f == shardPart[index]
  <1>a. /\ pc = "rename" /\ shard.st = "closed" /\ Live /\ ~job.dryRun
        /\ index \in ShardId /\ index = N + 1 /\ N \in Nat
        /\ shardFile \in [ShardId -> FileState \cup {None, Old}]
        /\ shardPart \in [ShardId -> FileState \cup {None, Old}]
        /\ \/ /\ pc' = "record"
              /\ shardFile' = [shardFile EXCEPT ![index] = f]
              /\ shardPart' = [shardPart EXCEPT ![index] = None]
           \/ pc' = "abort" /\ UNCHANGED <<shardFile, shardPart>>
        /\ UNCHANGED <<job, cancelled, manFile, manPart, index, shard, man, dry, result,
                        read, headerLine, eof>>
    BY Lives DEF RenameShard, readVars, Live, TypeOK, WriterInv, PublishedInv, N
  <1>b. Published = 1 .. N
    BY <1>a DEF PublishedInv
  <1>c. /\ f \in FileState /\ New(f) /\ f.hdr = job.header /\ f.whole
        /\ Len(f.rows) = shard.rows /\ shard.rows # 0 /\ shard.rows \in Nat
        /\ \A k \in 1 .. shard.rows : f.rows[k] = Placed - shard.rows + k
        /\ Placed \in Int /\ NextAfter = Placed + 1 - shard.rows
    BY <1>a, NewFile, JobType, LinesAssumption
    DEF PublishedInv, CarrierInv, Carrier, Placed, FirstRow, TypeOK
  <1>d. /\ shardFile' \in [ShardId -> FileState \cup {None, Old}]
        /\ shardPart' \in [ShardId -> FileState \cup {None, Old}]
        /\ \A i \in ShardId : i # index => /\ shardFile'[i] = shardFile[i]
                                           /\ shardPart'[i] = shardPart[i]
        /\ pc' = "record" => shardFile'[index] = f /\ shardPart'[index] = None
    BY <1>a, <1>c
  <1> HIDE DEF f
  <1>e. pc' = "record" => Published' = 1 .. N + 1
    <2>1. New(f)
      BY <1>c
    <2>2. pc' = "record" => Published' = Published \cup {index}
      <3>1. pc' = "record" => \A i \in ShardId : New(shardFile'[i]) <=> New(shardFile[i]) \/ i = index
        BY <1>d, <2>1
      <3>2. index \in ShardId
        BY <1>a
      <3> QED  BY <3>1, <3>2 DEF Published
    <2>3. 1 .. N + 1 = (1 .. N) \cup {N + 1}
      BY <1>a
    <2> QED  BY <1>a, <1>b, <2>2, <2>3
  <1>f. \A i \in 1 .. N : i \in ShardId /\ i # index /\ shardFile'[i] = shardFile[i]
    BY <1>a, <1>b, <1>d DEF Published
  <1>1. TypeOK'
    BY <1>a, <1>d DEF TypeOK
  <1>2. ReaderInv'
    BY <1>a DEF ReaderInv, FirstRow
  <1>3. WriterInv'
    BY <1>a DEF WriterInv, Published
  <1>4. PublishedInv'
    <2>1. CASE pc' = "abort"
      BY <2>1, DeadFrame DEF Dead
    <2>2. CASE pc' = "record"
      <3>1. Placed' = Placed /\ NextAfter' = NextAfter
        BY <1>a, <1>f, <2>2 DEF NextAfter, Placed, N, FirstRow, LastOf
      <3> QED  BY <1>a, <1>e, <2>2, <3>1 DEF PublishedInv, N, FirstRow
    <2> QED  BY <1>a, <2>1, <2>2
  <1>5. CarrierInv'
    <2>1. CASE pc' = "abort"
      BY <2>1, DeadFrame DEF Dead
    <2>2. CASE pc' = "record"
      <3>1. Carrier' = f
        BY <1>a, <1>d, <2>2 DEF Carrier
      <3>2. Placed' = Placed
        BY <1>a, <2>2 DEF Placed, FirstRow
      <3> QED  BY <1>a, <1>c, <2>2, <3>1, <3>2 DEF CarrierInv
    <2> QED  BY <1>a, <2>1, <2>2
  <1>6. ResultInv'
    <2>1. CASE pc' = "abort"
      BY <2>1, DeadFrame DEF Dead
    <2>2. CASE pc' = "record"
      BY <1>a, <1>f, <2>2 DEF ResultInv, N
    <2> QED  BY <1>a, <2>1, <2>2
  <1>7. ManifestInv'
    BY <1>a DEF ManifestInv, New, Dead, N
  <1>8. TempsInv'
    <2>1. CASE pc' = "abort"
      BY <1>a, <2>1 DEF TempsInv, Live, Dead
    <2>2. CASE pc' = "record"
      <3>1. \A i \in ShardId : ~New(shardPart'[i])
        BY <1>a, <1>d, <2>2 DEF TempsInv, New
      <3>2. \A i \in 1 .. N : shardPart'[i] = None
        BY <1>a, <1>d, <1>f DEF TempsInv
      <3> QED  BY <1>a, <2>2, <3>1, <3>2 DEF TempsInv, New, N
    <2> QED  BY <1>a, <2>1, <2>2
  <1>9. ShardsInSourceOrder'
    <2>1. CASE pc' = "abort"
      BY <1>a, <2>1, ShardsFrame
    <2>2. CASE pc' = "record"
      <3>1. \A i \in 1 .. N : LastOf(i)' = LastOf(i)
        BY <1>f DEF LastOf
      <3>2. ASSUME NEW i \in 1 .. N
            PROVE  LET rows == shardFile'[i].rows
                   IN /\ \A k \in 1 .. Len(rows) - 1 : rows[k + 1] = rows[k] + 1
                      /\ IF i = 1 THEN rows[1] = FirstRow'
                         ELSE i - 1 \in 1 .. N + 1 /\ rows[1] = LastOf(i - 1)' + 1
        <4>1. shardFile'[i] = shardFile[i] /\ (i # 1 => i - 1 \in 1 .. N) /\ FirstRow' = FirstRow
          BY <1>a, <1>f DEF FirstRow
        <4> QED  BY <1>a, <1>b, <3>1, <4>1 DEF ShardsInSourceOrder
      <3>3. f.rows[1] = IF N = 0 THEN FirstRow'
                        ELSE shardFile'[N].rows[Len(shardFile'[N].rows)] + 1
        <4>0. f.rows[1] = NextAfter
          <5>1. PICK p, n \in Int : p = Placed /\ n = shard.rows
            BY <1>c
          <5>2. n >= 1 /\ p - n + 1 = p + 1 - n /\ 1 \in 1 .. n
            BY <1>c, <5>1
          <5> QED  BY <1>c, <5>1, <5>2
        <4>1. FirstRow' = FirstRow /\ (N # 0 => shardFile'[N] = shardFile[N])
          <5>1. job' = job /\ N \in Nat
            BY <1>a
          <5>2. N # 0 => N \in 1 .. N
            BY <5>1
          <5> QED  BY <5>1, <5>2, <1>f DEF FirstRow
        <4> QED  BY <4>0, <4>1, SMTT(20) DEF NextAfter, LastOf
      <3>4. \A i \in Published' : i \in 1 .. N \/ (i = N + 1 /\ shardFile'[i] = f)
        BY <1>a, <1>d, <1>e, <2>2
      <3>5. (N + 1 = 1 <=> N = 0) /\ (N + 1) - 1 = N /\ (N # 0 => N \in 1 .. N + 1)
        BY <1>a
      <3>0. \A k \in 1 .. Len(f.rows) - 1 : f.rows[k + 1] = f.rows[k] + 1
        <4> SUFFICES ASSUME NEW k \in 1 .. shard.rows - 1 PROVE f.rows[k + 1] = f.rows[k] + 1
          BY <1>c
        <4>1. k \in 1 .. shard.rows /\ k + 1 \in 1 .. shard.rows
          BY <1>c
        <4>2. /\ f.rows[k] = Placed - shard.rows + k
              /\ f.rows[k + 1] = Placed - shard.rows + (k + 1)
          BY <1>c, <4>1
        <4>3. Placed \in Int /\ shard.rows \in Nat /\ k \in Int
          BY <1>c
        <4> QED  BY <4>2, <4>3
      <3>6. ASSUME NEW i \in Published'
            PROVE  LET rows == shardFile'[i].rows
                   IN /\ \A k \in 1 .. Len(rows) - 1 : rows[k + 1] = rows[k] + 1
                      /\ IF i = 1 THEN rows[1] = FirstRow'
                         ELSE i - 1 \in 1 .. N + 1 /\ rows[1] = LastOf(i - 1)' + 1
        <4>1. CASE i \in 1 .. N
          BY <3>2, <4>1
        <4>2. CASE i = N + 1 /\ shardFile'[i] = f
          BY <3>0, <3>3, <3>5, <4>2 DEF LastOf
        <4> QED  BY <3>4, <4>1, <4>2
      <3> QED  BY <1>e, <2>2, <3>6 DEF ShardsInSourceOrder
    <2> QED  BY <1>a, <2>1, <2>2
  <1>10. FinalShardsWhole'
    <2>1. CASE pc' = "abort"
      BY <1>a, <2>1, ShardsFrame
    <2>2. CASE pc' = "record"
      <3>1. f.rows # <<>>
        BY <1>c, EmptySeq
      <3>2. \A i \in Published' : i \in 1 .. N \/ shardFile'[i] = f
        BY <1>a, <1>d, <1>e, <2>2
      <3> QED  BY <1>a, <1>b, <1>c, <1>f, <3>1, <3>2 DEF FinalShardsWhole
    <2> QED  BY <1>a, <2>1, <2>2
  <1> QED  BY <1>1, <1>2, <1>3, <1>4, <1>5, <1>6, <1>7, <1>8, <1>9, <1>10

\* The end of the loop keeps the invariant.
LEMMA FinishStep == IInv /\ Finish /\ UNCHANGED readVars => IInv'
  <1> SUFFICES ASSUME IInv, Finish, UNCHANGED readVars PROVE IInv'
    OBVIOUS
  <1> USE DEF IInv, Finish, disk, readVars
  <1>1. TypeOK'
    <2>1. dry \in [open : BOOLEAN, rows : Nat, bytes : Nat] /\ index \in Nat
      BY DEF TypeOK
    <2>2. dry' \in [open : BOOLEAN, rows : Nat, bytes : Nat]
      BY <2>1, DryTyped
    <2>3. Entry(index, dry.rows, dry.bytes, None) \in EntryType
      BY <2>1, EntryTyped
    <2>4. result' \in Seq(EntryType)
      <3>1. result \in Seq(EntryType)
        BY DEF TypeOK
      <3>2. Append(result, Entry(index, dry.rows, dry.bytes, None)) \in Seq(EntryType)
        BY <2>3, <3>1, AppendProperties
      <3> QED  BY <3>1, <3>2
    <2> QED  BY <2>2, <2>4 DEF TypeOK
  <1>2. ReaderInv'
    BY DEF ReaderInv
  <1>3. WriterInv'
    BY DEF WriterInv, Published
  <1>4. PublishedInv'
    BY DEF PublishedInv, Published, NextAfter, Placed, FirstRow, LastOf, Live, Dead, N
  <1>5. CarrierInv'
    BY DEF Placed, FirstRow, CarrierInv, Carrier, Live, Dead
  <1>6. ResultInv'
    BY DEF ResultInv, Live, Dead, N
  <1>7. ManifestInv'
    BY DEF ManifestInv, Dead
  <1>8. TempsInv'
    BY DEF TempsInv, Live, Dead, N
  <1>9. ShardsInSourceOrder'
    BY ShardsFrame
  <1>10. FinalShardsWhole'
    BY ShardsFrame
  <1> QED  BY <1>1, <1>2, <1>3, <1>4, <1>5, <1>6, <1>7, <1>8, <1>9, <1>10

\* The first half of manifestWriter.Close keeps the invariant.
LEMMA CloseManifestStep == IInv /\ CloseManifest /\ UNCHANGED readVars => IInv'
  <1> SUFFICES ASSUME IInv, CloseManifest, UNCHANGED readVars PROVE IInv'
    OBVIOUS
  <1> USE DEF IInv, CloseManifest, disk, readVars
  <1>1. TypeOK'
    BY DEF TypeOK, Terminal
  <1>2. ReaderInv'
    BY DEF ReaderInv
  <1>3. WriterInv'
    BY DEF TypeOK, WriterInv, ManifestInv, Published
  <1>4. PublishedInv'
    BY DEF PublishedInv, Published, NextAfter, Placed, FirstRow, LastOf, Live, Dead, N
  <1>5. CarrierInv'
    BY DEF Placed, FirstRow, CarrierInv, Carrier, Live, Dead
  <1>6. ResultInv'
    BY DEF ResultInv, Live, Dead, N
  <1>7. ManifestInv'
    BY DEF ManifestInv, Dead
  <1>8. TempsInv'
    BY DEF TempsInv, Live, Dead, N
  <1>9. ShardsInSourceOrder'
    BY ShardsFrame
  <1>10. FinalShardsWhole'
    BY ShardsFrame
  <1> QED  BY <1>1, <1>2, <1>3, <1>4, <1>5, <1>6, <1>7, <1>8, <1>9, <1>10

\* Removing the old manifest keeps the invariant.
LEMMA UnlinkManifestStep == IInv /\ UnlinkManifest /\ UNCHANGED readVars => IInv'
  <1> SUFFICES ASSUME IInv, UnlinkManifest, UNCHANGED readVars PROVE IInv'
    OBVIOUS
  <1> USE DEF IInv, UnlinkManifest, disk, readVars
  <1>1. TypeOK'
    BY DEF TypeOK
  <1>2. ReaderInv'
    BY DEF ReaderInv
  <1>3. WriterInv'
    BY DEF WriterInv
  <1>4. PublishedInv'
    BY DEF PublishedInv, Published, NextAfter, Placed, FirstRow, LastOf, Live, Dead, N
  <1>5. CarrierInv'
    BY DEF Placed, FirstRow, CarrierInv, Carrier, Live, Dead
  <1>6. ResultInv'
    BY DEF ResultInv, Live, Dead, N
  <1>7. ManifestInv'
    BY DEF ManifestInv, New
  <1>8. TempsInv'
    BY DEF TempsInv, Live, Dead, N
  <1>9. ShardsInSourceOrder'
    BY ShardsFrame
  <1>10. FinalShardsWhole'
    BY ShardsFrame
  <1> QED  BY <1>1, <1>2, <1>3, <1>4, <1>5, <1>6, <1>7, <1>8, <1>9, <1>10

\* Publishing the manifest keeps the invariant: it is the result of the run.
LEMMA RenameManifestStep == IInv /\ RenameManifest /\ UNCHANGED readVars => IInv'
  <1> SUFFICES ASSUME IInv, RenameManifest, UNCHANGED readVars PROVE IInv'
    OBVIOUS
  <1> USE DEF IInv, RenameManifest, disk, readVars
  <1>1. TypeOK'
    BY DEF TypeOK, Terminal
  <1>2. ReaderInv'
    BY DEF ReaderInv
  <1>3. WriterInv'
    BY DEF WriterInv
  <1>4. PublishedInv'
    BY DEF PublishedInv, Published, NextAfter, Placed, FirstRow, LastOf, Live, Dead, N
  <1>5. CarrierInv'
    BY DEF Placed, FirstRow, CarrierInv, Carrier, Live, Dead
  <1>6. ResultInv'
    BY DEF ResultInv, Live, Dead, N
  <1>7. ManifestInv'
    BY DEF ManifestInv
  <1>8. TempsInv'
    BY DEF TempsInv, New, Live, Dead, N
  <1>9. ShardsInSourceOrder'
    BY ShardsFrame
  <1>10. FinalShardsWhole'
    BY ShardsFrame
  <1> QED  BY <1>1, <1>2, <1>3, <1>4, <1>5, <1>6, <1>7, <1>8, <1>9, <1>10

\* shardWriter.Abort keeps the invariant: the open .part is gone afterwards.
LEMMA AbortShardStep == IInv /\ AbortShard /\ UNCHANGED readVars => IInv'
  <1> SUFFICES ASSUME IInv, AbortShard, UNCHANGED readVars PROVE IInv'
    OBVIOUS
  <1> USE DEF IInv, AbortShard, disk, readVars
  <1>1. TypeOK'
    BY DEF TypeOK
  <1>2. ReaderInv'
    BY DEF ReaderInv
  <1>3. WriterInv'
    BY DEF TypeOK, WriterInv, Published
  <1>4. PublishedInv'
    BY DeadFrame DEF Dead
  <1>5. CarrierInv'
    BY DeadFrame DEF Dead
  <1>6. ResultInv'
    BY DeadFrame DEF Dead
  <1>7. ManifestInv'
    BY DEF ManifestInv, Dead
  <1>8. TempsInv'
    BY DEF TypeOK, TempsInv, New, Live, Dead
  <1>9. ShardsInSourceOrder'
    BY ShardsFrame
  <1>10. FinalShardsWhole'
    BY ShardsFrame
  <1> QED  BY <1>1, <1>2, <1>3, <1>4, <1>5, <1>6, <1>7, <1>8, <1>9, <1>10

\* manifestWriter.Abort keeps the invariant: an open manifest .part is gone.
LEMMA AbortManifestStep == IInv /\ AbortManifest /\ UNCHANGED readVars => IInv'
  <1> SUFFICES ASSUME IInv, AbortManifest, UNCHANGED readVars PROVE IInv'
    OBVIOUS
  <1> USE DEF IInv, AbortManifest, disk, readVars
  <1>1. TypeOK'
    BY DEF TypeOK, Terminal
  <1>2. ReaderInv'
    BY DEF ReaderInv
  <1>3. WriterInv'
    BY DEF WriterInv, Published
  <1>4. PublishedInv'
    BY DeadFrame DEF Dead
  <1>5. CarrierInv'
    BY DeadFrame DEF Dead
  <1>6. ResultInv'
    BY DeadFrame DEF Dead
  <1>7. ManifestInv'
    BY DEF ManifestInv
  <1>8. TempsInv'
    BY DEF TempsInv, New, Live, Dead
  <1>9. ShardsInSourceOrder'
    BY ShardsFrame
  <1>10. FinalShardsWhole'
    BY ShardsFrame
  <1> QED  BY <1>1, <1>2, <1>3, <1>4, <1>5, <1>6, <1>7, <1>8, <1>9, <1>10

\* A signal keeps the invariant: it only sets the flag.
LEMMA CancelStep == IInv /\ Cancel /\ UNCHANGED readVars => IInv'
  <1> SUFFICES ASSUME IInv, Cancel, UNCHANGED readVars PROVE IInv'
    OBVIOUS
  <1> USE DEF IInv, Cancel, disk, readVars
  <1>1. TypeOK'
    BY DEF TypeOK
  <1>2. ReaderInv'
    BY DEF ReaderInv, FirstRow
  <1>3. WriterInv'
    BY DEF WriterInv, Published
  <1>4. PublishedInv'
    BY DEF PublishedInv, Published, NextAfter, Placed, FirstRow, LastOf, Live, N
  <1>5. CarrierInv'
    BY DEF Placed, FirstRow, CarrierInv, Carrier, Live
  <1>6. ResultInv'
    BY DEF ResultInv, Live, N
  <1>7. ManifestInv'
    BY DEF ManifestInv, N
  <1>8. TempsInv'
    BY DEF TempsInv, Live, N
  <1>9. ShardsInSourceOrder'
    BY ShardsFrame
  <1>10. FinalShardsWhole'
    BY ShardsFrame
  <1> QED  BY <1>1, <1>2, <1>3, <1>4, <1>5, <1>6, <1>7, <1>8, <1>9, <1>10

\* A kill keeps the invariant: what is published stays as it is.
LEMMA CrashStep == IInv /\ Crash /\ UNCHANGED readVars => IInv'
  <1> SUFFICES ASSUME IInv, Crash, UNCHANGED readVars PROVE IInv'
    OBVIOUS
  <1> USE DEF IInv, Crash, disk, readVars
  <1>1. TypeOK'
    BY DEF TypeOK, Terminal
  <1>2. ReaderInv'
    BY DEF ReaderInv
  <1>3. WriterInv'
    BY DEF WriterInv, Published
  <1>4. PublishedInv'
    BY DeadFrame DEF Dead
  <1>5. CarrierInv'
    BY DeadFrame DEF Dead
  <1>6. ResultInv'
    BY DeadFrame DEF Dead
  <1>7. ManifestInv'
    BY DEF TypeOK, ManifestInv, Dead
  <1>8. TempsInv'
    BY DEF TempsInv, Live, Dead
  <1>9. ShardsInSourceOrder'
    BY ShardsFrame
  <1>10. FinalShardsWhole'
    BY ShardsFrame
  <1> QED  BY <1>1, <1>2, <1>3, <1>4, <1>5, <1>6, <1>7, <1>8, <1>9, <1>10

------------------------------------------------------------------------------
(* The invariant holds, and what follows from it.                            *)

\* Every run starts in the invariant, whatever an earlier run left behind.
LEMMA InitInv == Init => IInv
  <1> SUFFICES ASSUME Init PROVE IInv
    OBVIOUS
  <1> USE DEF Init, OutInit
  <1>1. /\ \A i \in ShardId : shardFile[i] \in {None, Old} /\ shardPart[i] \in {None, Old}
        /\ shardFile \in [ShardId -> FileState \cup {None, Old}]
        /\ shardPart \in [ShardId -> FileState \cup {None, Old}]
        /\ manFile \in {None, Old} /\ manPart \in {None, Old}
    OBVIOUS
  <1>2. /\ job \in Job /\ job.header \in BOOLEAN /\ job.lines \in Nat
        /\ result = <<>> /\ result \in Seq(EntryType) /\ N = 0
    BY JobType, EmptySeq DEF N
  <1>3. Published = {}
    BY <1>1 DEF Published, New
  <1>4. TypeOK
    <2>1. /\ shard \in [st : {"none", "open", "closed", "aborted"}, rows : Nat, n : Nat]
          /\ dry \in [open : BOOLEAN, rows : Nat, bytes : Nat]
      BY DEF NoShard, NoDry
    <2>2. 0 \in 0 .. MaxLines
      BY LinesAssumption
    <2> QED  BY <1>1, <1>2, <2>1, <2>2 DEF TypeOK, Terminal
  <1>5. ReaderInv
    BY <1>2 DEF ReaderInv
  <1>6. WriterInv
    BY <1>3 DEF WriterInv, NoShard
  <1>7. PublishedInv
    BY <1>2, <1>3 DEF PublishedInv, NoShard, NextAfter, Placed, FirstRow, N
  <1>8. CarrierInv /\ ResultInv
    BY <1>2 DEF CarrierInv, ResultInv, NoShard
  <1>9. ManifestInv /\ TempsInv
    BY <1>1, <1>2 DEF ManifestInv, TempsInv, New
  <1>10. ShardsInSourceOrder /\ FinalShardsWhole
    BY <1>3 DEF ShardsInSourceOrder, FinalShardsWhole
  <1> QED  BY <1>4, <1>5, <1>6, <1>7, <1>8, <1>9, <1>10 DEF IInv

\* A step of somebody else keeps the invariant.
LEMMA StutterStep == IInv /\ UNCHANGED vars => IInv'
  BY DEF vars, IInv, TypeOK, ReaderInv, WriterInv, PublishedInv, CarrierInv, ResultInv, ManifestInv,
         TempsInv, ShardsInSourceOrder, FinalShardsWhole, Published, New, LastOf, FirstRow,
         NextAfter, Placed, Carrier, Live, Dead, N

\* Every step of a run keeps the invariant.
LEMMA NextInv == IInv /\ [Next]_vars => IInv'
  <1> SUFFICES ASSUME IInv, [Next]_vars PROVE IInv'
    OBVIOUS
  <1>1. CASE Process
    <2>1. CASE Start \/ LoopCancelled \/ ReadFails \/ ReadEOF \/ ReadLine
      BY <2>1, StartStep, LoopCancelledStep, ReadFailsStep, ReadEOFStep, ReadLineStep
    <2>2. CASE OpenShard \/ Row \/ PlanRow \/ Record
      BY <2>2, OpenShardStep, RowStep, PlanRowStep, RecordStep
    <2>3. CASE Output
      BY <2>3, FlushShardStep, UnlinkShardStep, RenameShardStep, FinishStep, CloseManifestStep,
         UnlinkManifestStep, RenameManifestStep, AbortShardStep, AbortManifestStep DEF Output
    <2> QED  BY <1>1, <2>1, <2>2, <2>3 DEF Process
  <1>2. CASE Environment
    BY <1>2, CancelStep, CrashStep DEF Environment
  <1>3. CASE UNCHANGED vars
    BY <1>3, StutterStep
  <1> QED  BY <1>1, <1>2, <1>3 DEF Next, Ended

\* The invariant holds throughout every run, for every source, every set of limits
\* and every directory.
THEOREM Invariance == Spec => []IInv
  BY InitInv, NextInv, PTL DEF Spec

\* The variables keep their shapes: in particular no shard index leaves ShardId
\* and no row number leaves the source.
THEOREM TypeCorrect == Spec => []TypeOK
  <1>1. IInv => TypeOK
    BY DEF IInv
  <1> QED  BY <1>1, Invariance, PTL

\* A final shard name only ever shows a complete shard, whichever write, flush,
\* rename, signal or kill interrupts the run (writer.go:89-106, fileutil/atomic.go).
THEOREM WholeShards == Spec => []FinalShardsWhole
  <1>1. IInv => FinalShardsWhole
    BY DEF IInv
  <1> QED  BY <1>1, Invariance, PTL

\* The published shards are the rows of the source from the first on, none lost,
\* repeated or moved, within a shard or across a boundary (stream.go:67-150).
THEOREM SourceOrder == Spec => []ShardsInSourceOrder
  <1>1. IInv => ShardsInSourceOrder
    BY DEF IInv
  <1> QED  BY <1>1, Invariance, PTL

\* A published shard has a last row.
LEMMA PublishedFile ==
  ASSUME IInv, NEW i \in Published
  PROVE  /\ shardFile[i] \in FileState
         /\ shardFile[i].rows \in Seq(1 .. MaxLines)
         /\ LastOf(i) \in Int
  <1>1. shardFile[i] \in FileState /\ shardFile[i].rows # <<>>
    BY DEF IInv, TypeOK, FinalShardsWhole, Published, New
  <1>2. shardFile[i].rows \in Seq(1 .. MaxLines)
    BY <1>1 DEF FileState
  <1>3. Len(shardFile[i].rows) \in 1 .. Len(shardFile[i].rows)
    BY <1>1, <1>2, EmptySeq, LenProperties
  <1>4. LastOf(i) \in Int
    BY <1>2, <1>3, ElementOfSeq, LinesAssumption DEF LastOf
  <1> QED  BY <1>1, <1>2, <1>4

\* A run that reports success has published every row: rotation, the end of the
\* source with or without a newline, and the tail close leave none behind.
THEOREM Completeness == Spec => []SuccessIsComplete
  <1>1. IInv => SuccessIsComplete
    <2> SUFFICES ASSUME IInv, pc = "done", ~job.dryRun
                 PROVE  IF job.lines < FirstRow THEN Published = {}
                        ELSE \E i \in Published : LastOf(i) = job.lines
      BY DEF SuccessIsComplete
    <2>1. /\ read = job.lines /\ read \in Int /\ FirstRow \in Int
          /\ N \in Nat /\ Published = 1 .. N /\ NextAfter = Placed + 1 - shard.rows /\ shard.rows = 0
          /\ N > 0 => read >= FirstRow
      BY JobType DEF IInv, TypeOK, ReaderInv, WriterInv, PublishedInv, Live, Dead, FirstRow, N
    <2>2. CASE job.lines < FirstRow
      BY <2>1, <2>2
    <2>3. CASE ~(job.lines < FirstRow)
      <3>1. Placed = read
        BY <2>1, <2>3 DEF Placed
      <3>2. N # 0
        BY <2>1, <2>3, <3>1 DEF NextAfter
      <3>3. LastOf(N) + 1 = read + 1
        BY <2>1, <3>1, <3>2 DEF NextAfter
      <3>5. LastOf(N) \in Int
        BY <2>1, <3>2, PublishedFile
      <3> QED  BY <2>1, <2>3, <3>2, <3>3, <3>5
    <2> QED  BY <2>2, <2>3
  <1> QED  BY <1>1, Invariance, PTL

\* A manifest under its final name lists exactly the shards on disk, with the rows
\* and the checksum each has (manifest.go, closeTextShard).
THEOREM ManifestTruth == Spec => []ManifestDescribesShards
  <1>1. IInv => ManifestDescribesShards
    <2> SUFFICES ASSUME IInv, New(manFile)
                 PROVE  /\ Published = 1 .. Len(manFile)
                        /\ \A i \in 1 .. Len(manFile) :
                             /\ manFile[i].index = i
                             /\ manFile[i].md5 = shardFile[i]
                             /\ manFile[i].rows = Len(shardFile[i].rows)
      BY DEF ManifestDescribesShards
    <2>1. manFile = result /\ pc = "done" /\ Live
      BY DEF IInv, ManifestInv, Live, Dead
    <2> QED  BY <2>1 DEF IInv, PublishedInv, ResultInv, N
  <1> QED  BY <1>1, Invariance, PTL

\* A run that ends other than by a kill leaves no .part of its own, except the one
\* whose Close failed (writer.go:29-44 and 89-106, manifest.go:43-55 and 90-99).
THEOREM Cleanup == Spec => []TempsCleanedUp
  <1>1. IInv => TempsCleanedUp
    <2> SUFFICES ASSUME IInv PROVE TempsCleanedUp
      OBVIOUS
    <2>1. CASE pc = "failed"
      BY <2>1 DEF IInv, TempsInv, WriterInv, TempsCleanedUp
    <2>2. CASE pc = "done"
      <3>1. shard.st = "none" /\ (~job.dryRun => Live)
        BY <2>2 DEF IInv, WriterInv, Live, Dead
      <3>2. ~job.dryRun => index = N
        BY <2>2, <3>1 DEF IInv, PublishedInv
      <3> QED  BY <2>2, <3>1, <3>2 DEF IInv, TempsInv, TempsCleanedUp
    <2>3. CASE pc \notin {"failed", "done"}
      BY <2>3 DEF TempsCleanedUp
    <2> QED  BY <2>1, <2>2, <2>3
  <1> QED  BY <1>1, Invariance, PTL

------------------------------------------------------------------------------
(* What a step may never do.                                                 *)

\* The removal steps belong to the platforms whose rename cannot replace.
NoUnlink == ~Windows => pc \notin {"unlink", "unlinkManifest"}

\* Where rename replaces its target no run is ever at a removal step.
LEMMA NoUnlinkInvariance == Spec => []NoUnlink
  <1>1. Init => NoUnlink
    BY DEF Init, OutInit, NoUnlink
  <1>2. NoUnlink /\ [Next]_vars => NoUnlink'
    BY DEF NoUnlink, Next, vars, Process, Environment, Ended, Start, NewManifestWriter,
       LoopCancelled, ReadFails, ReadEOF, ReadLine, OpenShard, NewShardWriter, Row, WriteRow,
       WriteFails, PlanRow, DryRow, Record, RecordShard, AfterRow, Output, FlushShard,
       AfterFlush, UnlinkShard, RenameShard, Finish, CloseManifest, UnlinkManifest, RenameManifest,
       AbortShard, AbortManifest, Cancel, Crash
  <1> QED  BY <1>1, <1>2, PTL DEF Spec

\* Which actions touch the two final names.
LEMMA WhoPublishes ==
  ASSUME [Next]_vars
  PROVE  /\ job' = job
         /\ \/ UNCHANGED <<shardFile, manFile>>
            \/ UnlinkShard /\ UNCHANGED <<manFile, readVars>>
            \/ RenameShard /\ UNCHANGED <<manFile, readVars>>
            \/ UnlinkManifest /\ UNCHANGED <<shardFile, readVars>>
            \/ RenameManifest /\ UNCHANGED <<shardFile, readVars>>
  BY DEF Next, vars, disk, Process, Environment, Ended, Start, NewManifestWriter,
       LoopCancelled, ReadFails, ReadEOF, ReadLine, OpenShard, NewShardWriter, Row, WriteRow,
       PlanRow, DryRow, Record, RecordShard, Output, FlushShard,
       UnlinkShard, RenameShard, Finish, CloseManifest, UnlinkManifest, RenameManifest,
       AbortShard, AbortManifest, Cancel, Crash

\* The .part about to be renamed is a whole file of this run.
LEMMA ClosingShard ==
  ASSUME IInv, pc \in {"unlink", "rename"}
  PROVE  /\ shardPart[index] \in FileState /\ New(shardPart[index])
         /\ shardPart[index].whole /\ Live /\ index \in ShardId
  BY Lives, NewFile DEF IInv, WriterInv, CarrierInv, Carrier

\* The manifest .part about to be renamed lists exactly the published shards.
LEMMA ClosingManifest ==
  ASSUME IInv, pc \in {"unlinkManifest", "renameManifest"}
  PROVE  /\ manPart = result /\ New(manPart) /\ Live /\ Published = 1 .. Len(manPart)
  <1>1. Live
    BY DEF IInv, WriterInv, Live, Dead
  <1>2. manPart = result /\ result \in Seq(EntryType)
    BY DEF IInv, TypeOK, ManifestInv
  <1> QED  BY <1>1, <1>2, Markers DEF IInv, PublishedInv, New, N

\* Where rename replaces its target, no step of a run removes an output that is in
\* the directory, its own or an earlier run's (fileutil/atomic.go:15-22).
THEOREM OutputsStay == ASSUME ~Windows PROVE Spec => OutputsNeverVanish
  <1> DEFINE Stays == /\ \A i \in ShardId : shardFile[i] # None => shardFile'[i] # None
                      /\ manFile # None => manFile' # None
  <1>1. IInv /\ NoUnlink /\ [Next]_vars => [Stays]_outVars
    <2> SUFFICES ASSUME IInv, NoUnlink, [Next]_vars PROVE Stays
      OBVIOUS
    <2>1. CASE UNCHANGED <<shardFile, manFile>>
      BY <2>1
    <2>2. CASE UnlinkShard \/ UnlinkManifest
      BY <2>2 DEF NoUnlink, UnlinkShard, UnlinkManifest
    <2>3. CASE RenameShard /\ UNCHANGED manFile
      <3>1. shardPart[index] # None /\ index \in ShardId
        BY <2>3, ClosingShard DEF RenameShard, New
      <3> QED  BY <2>3, <3>1 DEF RenameShard, IInv, TypeOK
    <2>4. CASE RenameManifest /\ UNCHANGED shardFile
      <3>1. manPart # None
        BY <2>4, ClosingManifest DEF RenameManifest, New
      <3> QED  BY <2>4, <3>1 DEF RenameManifest
    <2> QED  BY <2>1, <2>2, <2>3, <2>4, WhoPublishes
  <1> QED  BY <1>1, Invariance, NoUnlinkInvariance, PTL DEF Spec, OutputsNeverVanish

\* Whatever the platform, an output is only ever removed when its complete
\* replacement is on disk under the .part name.
THEOREM ReplacementReady == Spec => VanishesOnlyForReplacement
  <1> DEFINE Ready ==
        /\ \A i \in ShardId : shardFile[i] # None /\ shardFile'[i] = None =>
             New(shardPart[i]) /\ shardPart'[i] = shardPart[i] /\ shardPart[i].whole
        /\ manFile # None /\ manFile' = None =>
             New(manPart) /\ manPart' = manPart /\ Published = 1 .. Len(manPart)
  <1>1. IInv /\ [Next]_vars => [Ready]_outVars
    <2> SUFFICES ASSUME IInv, [Next]_vars PROVE Ready
      OBVIOUS
    <2>1. CASE UNCHANGED <<shardFile, manFile>>
      BY <2>1
    <2>2. CASE UnlinkShard /\ UNCHANGED manFile
      <3>1. pc = "unlink" /\ shardPart' = shardPart
        BY <2>2 DEF UnlinkShard
      <3>2. \A i \in ShardId : i # index => shardFile'[i] = shardFile[i]
        BY <2>2 DEF UnlinkShard, IInv, TypeOK
      <3> QED  BY <2>2, <3>1, <3>2, ClosingShard
    <2>3. CASE RenameShard /\ UNCHANGED manFile
      <3>1. shardPart[index] # None /\ index \in ShardId
        BY <2>3, ClosingShard DEF RenameShard, New
      <3>2. \A i \in ShardId : shardFile'[i] = None => shardFile[i] = None
        BY <2>3, <3>1 DEF RenameShard, IInv, TypeOK
      <3> QED  BY <2>3, <3>2
    <2>4. CASE UnlinkManifest /\ UNCHANGED shardFile
      BY <2>4, ClosingManifest DEF UnlinkManifest
    <2>5. CASE RenameManifest /\ UNCHANGED shardFile
      <3>1. manPart # None
        BY <2>5, ClosingManifest DEF RenameManifest, New
      <3> QED  BY <2>5, <3>1 DEF RenameManifest
    <2> QED  BY <2>1, <2>2, <2>3, <2>4, <2>5, WhoPublishes
  <1> QED  BY <1>1, Invariance, PTL DEF Spec, VanishesOnlyForReplacement

\* A cancelled run takes no further line from the reader (stream.go:68-70).
THEOREM CancelHeeded == Spec => CancelStopsReading
  <1>1. [Next]_vars => [cancelled => read' = read]_vars
    BY DEF Next, vars, Process, Environment, Ended, Start, LoopCancelled, ReadFails, ReadEOF,
       ReadLine, MayRead, OpenShard, Row, PlanRow, Record, Output, readVars
  <1> QED  BY <1>1, PTL DEF Spec, CancelStopsReading

\* A dry run writes, renames and removes nothing, its way out included: no shard
\* writer and no manifest writer ever exists (stream.go:87-95, manifest.go:57-71).
THEOREM DryRunIsDry == Spec => DryRunWritesNothing
  <1>1. IInv /\ [Next]_vars => [job.dryRun => UNCHANGED disk]_outVars
    <2> SUFFICES ASSUME IInv, [Next]_vars, job.dryRun PROVE UNCHANGED disk
      OBVIOUS
    <2>1. /\ shard.st = "none" /\ man = "none"
          /\ pc \notin {"flush", "unlink", "rename", "record", "unlinkManifest", "renameManifest"}
      BY DEF IInv, WriterInv, ManifestInv
    <2>2. CASE UNCHANGED vars
      BY <2>2 DEF vars, disk
    <2>3. CASE Process
      <3>1. CASE Start \/ LoopCancelled \/ ReadFails \/ ReadEOF \/ ReadLine
        BY <3>1 DEF Start, NewManifestWriter, Writes, LoopCancelled, ReadFails, ReadEOF, ReadLine, disk
      <3>2. CASE OpenShard \/ Row \/ PlanRow \/ Record
        BY <2>1, <3>2 DEF OpenShard, NewShardWriter, Row, WriteRow, PlanRow, DryRow, Record, RecordShard, disk
      <3>3. CASE Output
        BY <2>1, <3>3 DEF Output, FlushShard, UnlinkShard, RenameShard, Finish, CloseManifest,
           UnlinkManifest, RenameManifest, AbortShard, AbortManifest, disk
      <3> QED  BY <2>3, <3>1, <3>2, <3>3 DEF Process
    <2>4. CASE Environment
      BY <2>4 DEF Environment, Cancel, Crash, disk
    <2> QED  BY <2>2, <2>3, <2>4 DEF Next, Ended
  <1> QED  BY <1>1, Invariance, PTL DEF Spec, DryRunWritesNothing

------------------------------------------------------------------------------
(* The refinement.                                                           *)

Rows == [i \in Published |-> shardFile[i].rows]

\* The shards of the contract are a sequence: the published indexes are 1 .. N.
LEMMA RowsSeq ==
  ASSUME IInv, Live, pc # "record"
  PROVE  /\ N \in Nat /\ Published = 1 .. N
         /\ Rows \in Seq(Seq(1 .. MaxLines)) /\ Len(Rows) = N
         /\ \A i \in 1 .. N : Rows[i] = shardFile[i].rows
  <1>1. N \in Nat /\ Published = 1 .. N
    BY DEF IInv, TypeOK, PublishedInv, N
  <1>2. \A i \in 1 .. N : shardFile[i].rows \in Seq(1 .. MaxLines)
    BY <1>1, PublishedFile
  <1> QED  BY <1>1, <1>2 DEF Rows

\* What the contract counts as out is the rows placed before the shard in progress.
LEMMA DoneIs ==
  ASSUME IInv, Live, pc # "record"
  PROVE  Contract!Done = Placed - shard.rows /\ Placed \in Int /\ shard.rows \in Nat
  <1>1. Placed \in Int /\ shard.rows \in Nat /\ FirstRow \in Int
    BY JobType, LinesAssumption DEF IInv, TypeOK, Placed, FirstRow
  <1>2. NextAfter = Placed + 1 - shard.rows
    BY DEF IInv, PublishedInv
  <1>3. CASE N = 0
    <2>1. Rows = <<>>
      BY <1>3, RowsSeq DEF Rows
    <2> QED  BY <1>1, <1>2, <1>3, <2>1 DEF NextAfter, Contract!Done, Rows
  <1>4. CASE N # 0
    <2>1. N \in Published /\ Rows # <<>> /\ Len(Rows) = N /\ Rows[N] = shardFile[N].rows
      BY <1>4, RowsSeq, EmptySeq
    <2>2. LastOf(N) \in Int
      BY <2>1, PublishedFile
    <2>3. Contract!Done = LastOf(N)
      BY <2>1 DEF Contract!Done, Rows, LastOf
    <2> QED  BY <1>1, <1>2, <1>4, <2>2, <2>3 DEF NextAfter
  <1> QED  BY <1>3, <1>4

\* RenameShard is the contract's Publish: the rows that appear are the next ones.
LEMMA RenamePublishes ==
  ASSUME IInv, IInv', RenameShard, UNCHANGED <<manFile, readVars>>, pc' = "record"
  PROVE  Contract!Publish
  <1> DEFINE f == shardPart[index]
             n == shard.rows
  <1>1. /\ pc = "rename" /\ Live /\ shard.st = "closed" /\ index = N + 1 /\ index \in ShardId
        /\ read >= FirstRow /\ read <= job.lines /\ read \in Int /\ job.lines \in Int
        /\ UNCHANGED <<job, result, shard, read>>
    BY Lives, JobType, LinesAssumption
    DEF IInv, TypeOK, WriterInv, PublishedInv, ReaderInv, RenameShard, readVars
  <1>2. /\ f \in FileState /\ Len(f.rows) = n /\ n \in Nat /\ n # 0
        /\ \A k \in 1 .. n : f.rows[k] = Placed - n + k
    BY <1>1 DEF IInv, TypeOK, CarrierInv, Carrier
  <1>3. Contract!Done = Placed - n /\ Placed \in Int /\ Placed = read
    <2>1. FirstRow \in Int
      BY DEF FirstRow
    <2>2. Placed = read
      BY <1>1, <2>1 DEF Placed
    <2> QED  BY <1>1, <2>2, DoneIs
  <1>4. n \in 1 .. (job.lines - Contract!Done)
    BY <1>1, <1>2, <1>3
  <1>5. f.rows = [k \in 1 .. n |-> Contract!Done + k]
    <2>1. f.rows \in Seq(1 .. MaxLines)
      BY <1>2 DEF FileState
    <2>2. f.rows = [k \in 1 .. n |-> f.rows[k]]
      BY <1>2, <2>1, LenProperties
    <2> QED  BY <1>2, <1>3, <2>2
  <1>6. Rows' = Append(Rows, f.rows)
    <2>1. /\ N \in Nat /\ Published = 1 .. N
          /\ Rows \in Seq(Seq(1 .. MaxLines)) /\ Len(Rows) = N
          /\ \A i \in 1 .. N : Rows[i] = shardFile[i].rows
      BY <1>1, RowsSeq
    <2>2. /\ Published' = 1 .. N + 1
      BY <1>1 DEF IInv, PublishedInv, Live, Dead, N
    <2>3. shardFile' = [shardFile EXCEPT ![index] = f] /\ shardFile \in [ShardId -> FileState \cup {None, Old}]
      BY <1>1 DEF RenameShard, IInv, TypeOK
    <2>4. /\ \A i \in 1 .. N : shardFile'[i].rows = Rows[i]
          /\ shardFile'[N + 1].rows = f.rows
      <3>1. \A i \in 1 .. N : i \in ShardId /\ i # index
        BY <1>1, <2>1 DEF Published
      <3> QED  BY <1>1, <2>1, <2>3, <3>1
    <2>5. f.rows \in Seq(1 .. MaxLines)
      BY <1>2 DEF FileState
    <2>6. /\ Append(Rows, f.rows) \in Seq(Seq(1 .. MaxLines))
          /\ Len(Append(Rows, f.rows)) = N + 1
          /\ \A i \in 1 .. N : Append(Rows, f.rows)[i] = Rows[i]
          /\ Append(Rows, f.rows)[N + 1] = f.rows
      BY <2>1, <2>5, AppendProperties
    <2>7. Append(Rows, f.rows) = [i \in 1 .. N + 1 |-> Append(Rows, f.rows)[i]]
      BY <2>6, LenProperties
    <2>8. \A i \in 1 .. N + 1 : shardFile'[i].rows = Append(Rows, f.rows)[i]
      BY <2>1, <2>4, <2>6
    <2>9. Rows' = [i \in 1 .. N + 1 |-> shardFile'[i].rows]
      BY <2>2 DEF Rows
    <2> QED  BY <2>7, <2>8, <2>9
  <1>7. ~New(manFile) /\ UNCHANGED New(manFile) /\ UNCHANGED FirstRow
    BY <1>1 DEF IInv, ManifestInv, New, FirstRow
  <1> QED  BY <1>1, <1>4, <1>5, <1>6, <1>7 DEF Contract!Publish, Rows

\* RenameManifest is the contract's List: it happens when every row is out.
LEMMA RenameLists ==
  ASSUME IInv, RenameManifest, UNCHANGED <<shardFile, readVars>>, pc' = "done"
  PROVE  Contract!List
  <1>1. /\ pc = "renameManifest" /\ Live /\ shard.rows = 0 /\ read = job.lines
        /\ manFile' = manPart /\ New(manPart) /\ ~New(manFile) /\ UNCHANGED job
    BY ClosingManifest DEF IInv, WriterInv, ReaderInv, ManifestInv, RenameManifest
  <1>2. Contract!Done >= job.lines
    <2>1. Placed >= read /\ read \in Int
      BY <1>1, JobType, LinesAssumption DEF IInv, TypeOK, Placed, FirstRow
    <2> QED  BY <1>1, <2>1, DoneIs
  <1>3. UNCHANGED Rows /\ UNCHANGED FirstRow /\ New(manFile')
    BY <1>1 DEF Rows, Published, FirstRow
  <1> QED  BY <1>1, <1>2, <1>3 DEF Contract!List, Rows

\* A stream split implements SplitContract: every step of the program publishes the
\* next run of rows, publishes the manifest when all are out, or changes nothing
\* the contract sees.
THEOREM Refinement == Spec => ImplementsContract
  <1>1. Init => Contract!Init
    <2> SUFFICES ASSUME Init PROVE Contract!Init
      OBVIOUS
    <2>1. Published = {} /\ ~New(manFile)
      BY DEF Init, OutInit, Published, New
    <2> QED  BY <2>1 DEF Contract!Init
  <1>2. IInv /\ IInv' /\ [Next]_vars => [Contract!Next]_(Contract!vars)
    <2> SUFFICES ASSUME IInv, IInv', [Next]_vars PROVE [Contract!Next]_(Contract!vars)
      OBVIOUS
    <2>1. UNCHANGED <<job, FirstRow>>
      BY WhoPublishes DEF FirstRow
    <2>2. ASSUME UNCHANGED <<Rows, New(manFile)>> PROVE [Contract!Next]_(Contract!vars)
      BY <2>1, <2>2 DEF Contract!vars, Rows
    <2>3. CASE UNCHANGED <<shardFile, manFile>>
      BY <2>2, <2>3 DEF Rows, Published, New
    <2>4. CASE UnlinkShard /\ UNCHANGED <<manFile, readVars>>
      <3>1. Live /\ pc = "unlink" /\ shard.st = "closed"
        BY <2>4, ClosingShard DEF UnlinkShard, IInv, WriterInv
      <3>2. N \in Nat /\ Published = 1 .. N /\ index = N + 1
        BY <3>1, RowsSeq DEF IInv, PublishedInv
      <3>3. /\ shardFile \in [ShardId -> FileState \cup {None, Old}]
            /\ index \notin Published
        BY <3>2 DEF IInv, TypeOK
      <3>4. /\ \A i \in ShardId : i # index => shardFile'[i] = shardFile[i]
            /\ index \in ShardId => shardFile'[index] \in {None, shardFile[index]}
        BY <2>4, <3>3 DEF UnlinkShard
      <3>5. Published' = Published
        BY <3>3, <3>4 DEF Published, New
      <3>6. \A i \in Published : shardFile'[i] = shardFile[i]
        BY <3>3, <3>4 DEF Published
      <3> QED  BY <2>2, <2>4, <3>5, <3>6 DEF Rows, New
    <2>5. CASE RenameShard /\ UNCHANGED <<manFile, readVars>>
      <3>1. CASE pc' = "record"
        BY <2>1, <2>5, <3>1, RenamePublishes DEF Contract!Next
      <3>2. CASE pc' # "record"
        BY <2>2, <2>5, <3>2 DEF RenameShard, Rows, Published, New
      <3> QED  BY <3>1, <3>2
    <2>6. CASE UnlinkManifest /\ UNCHANGED <<shardFile, readVars>>
      <3>1. ~New(manFile) /\ manFile' \in {None, manFile}
        BY <2>6 DEF IInv, ManifestInv, UnlinkManifest
      <3> QED  BY <2>2, <2>6, <3>1 DEF Rows, Published, New
    <2>7. CASE RenameManifest /\ UNCHANGED <<shardFile, readVars>>
      <3>1. CASE pc' = "done"
        BY <2>7, <3>1, RenameLists DEF Contract!Next
      <3>2. CASE pc' # "done"
        BY <2>2, <2>7, <3>2 DEF RenameManifest, Rows, Published, New
      <3> QED  BY <3>1, <3>2
    <2> QED  BY <2>3, <2>4, <2>5, <2>6, <2>7, WhoPublishes
  <1> QED  BY <1>1, <1>2, Invariance, PTL DEF Spec, ImplementsContract, Contract!Spec

------------------------------------------------------------------------------
(* Layouts: greedy filling is a recursion over the sizes of the rows, so     *)
(* what it computes is shown by induction on how many rows it has placed.    *)

\* The pairs of naturals in order.
Less == {p \in Nat \X Nat : p[1] < p[2]}

\* The order of the naturals is well founded.
LEMMA LessWF == IsWellFoundedOn(Less, Nat)
  BY NatLessThanWellFounded DEF OpToRel, Less

\* A set with 0 and with every successor of its members holds the naturals.
LEMMA Induct ==
  ASSUME NEW S, 0 \in S, \A n \in Nat : n \in S => n + 1 \in S
  PROVE  Nat \subseteq S
  <1> SUFFICES ASSUME Nat \ S # {} PROVE FALSE
    OBVIOUS
  <1>1. PICK x \in Nat \ S : \A y \in Nat \ S : <<y, x>> \notin Less
    BY LessWF, WFMin, (Nat \ S) \subseteq Nat
  <1>2. x # 0 /\ x - 1 \in Nat /\ x \in Nat
    OBVIOUS
  <1>3. <<x - 1, x>> \in Less
    BY <1>2 DEF Less
  <1>4. x - 1 \in S
    BY <1>1, <1>2, <1>3
  <1> QED  BY <1>2, <1>4

Span == [rows : Nat, bytes : Nat]
CutType == [done : Seq(Span), rows : Nat, bytes : Nat]

\* The first n + 1 values of Cuts, as a function.
IsCuts(c, j, sizes, hdr, n) ==
  c = [r \in 0 .. n |-> IF r = 0 THEN Uncut ELSE Placing(j, c[r - 1], sizes[r], hdr)]

\* The recursion that defines Cuts has a solution.
LEMMA CutsExist ==
  ASSUME NEW j, NEW sizes, NEW hdr, NEW m \in Nat
  PROVE  \E c : IsCuts(c, j, sizes, hdr, m)
  <1> DEFINE Good(n) == \E c : IsCuts(c, j, sizes, hdr, n)
             S == {n \in Nat : Good(n)}
  <1>1. Good(0)
    <2> DEFINE z == [r \in 0 .. 0 |-> Uncut]
    <2>1. IsCuts(z, j, sizes, hdr, 0)
      BY DEF IsCuts
    <2> QED  BY <2>1
  <1>2. ASSUME NEW n \in Nat, Good(n) PROVE Good(n + 1)
    <2>1. PICK c : IsCuts(c, j, sizes, hdr, n)
      BY <1>2
    <2> DEFINE g == [r \in 0 .. n + 1 |-> IF r = n + 1 THEN Placing(j, c[n], sizes[n + 1], hdr) ELSE c[r]]
    <2>2. /\ g[0] = Uncut /\ g[n + 1] = Placing(j, g[n], sizes[n + 1], hdr)
          /\ \A r \in 0 .. n : g[r] = c[r]
      BY <2>1 DEF IsCuts
    <2>3. \A r \in 1 .. n : g[r] = Placing(j, g[r - 1], sizes[r], hdr)
      BY <2>1, <2>2 DEF IsCuts
    <2>4. g = [r \in 0 .. n + 1 |-> g[r]]
      OBVIOUS
    <2> HIDE DEF g
    <2>5. \A r \in 0 .. n + 1 : g[r] = IF r = 0 THEN Uncut ELSE Placing(j, g[r - 1], sizes[r], hdr)
      BY <2>2, <2>3
    <2>6. IsCuts(g, j, sizes, hdr, n + 1)
      BY <2>4, <2>5 DEF IsCuts
    <2> QED  BY <2>6
  <1> HIDE DEF Good
  <1>3. Nat \subseteq S
    <2>1. 0 \in S
      BY <1>1
    <2>2. \A n \in Nat : n \in S => n + 1 \in S
      BY <1>2
    <2> HIDE DEF S
    <2> QED  BY <2>1, <2>2, Induct
  <1>4. Good(m)
    BY <1>3
  <1> QED  BY <1>4 DEF Good

\* Greedy filling, one row at a time.
LEMMA CutsDef ==
  ASSUME NEW j, NEW sizes \in Seq(Nat), NEW hdr
  PROVE  /\ Cuts(j, sizes, hdr)[0] = Uncut
         /\ \A r \in 1 .. Len(sizes) :
              Cuts(j, sizes, hdr)[r] = Placing(j, Cuts(j, sizes, hdr)[r - 1], sizes[r], hdr)
  <1>1. Len(sizes) \in Nat
    OBVIOUS
  <1>2. \E c : IsCuts(c, j, sizes, hdr, Len(sizes))
    BY <1>1, CutsExist
  <1>3. IsCuts(Cuts(j, sizes, hdr), j, sizes, hdr, Len(sizes))
    BY <1>2, Zenon DEF IsCuts, Cuts
  <1>4. PICK c : c = Cuts(j, sizes, hdr)
    OBVIOUS
  <1>5. \A r \in 0 .. Len(sizes) : c[r] = IF r = 0 THEN Uncut ELSE Placing(j, c[r - 1], sizes[r], hdr)
    BY <1>3, <1>4 DEF IsCuts
  <1> QED  BY <1>1, <1>4, <1>5

\* A layout in the making is made of spans.
LEMMA UncutType == Uncut \in CutType
  <1>1. <<>> \in Seq(Span)
    BY EmptySeq
  <1> QED  BY <1>1 DEF Uncut, CutType

\* a is the beginning of b.
Begins(a, b) == Len(a) <= Len(b) /\ \A i \in 1 .. Len(a) : b[i] = a[i]

\* The bytes of the shard in progress once it holds one more row.
Heap(c, s, hdr) == s + (IF c.rows > 0 THEN c.bytes ELSE hdr)

\* A shard of that many rows and bytes has reached a limit of j.
Reached(j, rows, bytes) == (j.rows > 0 /\ rows >= j.rows) \/ (j.bytes > 0 /\ bytes >= j.bytes)

\* One more row finishes the shard in progress exactly when it reaches a limit.
LEMMA PlacingIs ==
  ASSUME NEW j, j.rows \in Nat, j.bytes \in Nat, NEW c \in CutType, NEW s \in Nat, NEW hdr \in Nat,
         j.rows > 0 => c.rows < j.rows
  PROVE  Placing(j, c, s, hdr) =
           IF Reached(j, c.rows + 1, Heap(c, s, hdr))
           THEN [done |-> Append(c.done, [rows |-> c.rows + 1, bytes |-> Heap(c, s, hdr)]),
                 rows |-> 0, bytes |-> 0]
           ELSE [done |-> c.done, rows |-> c.rows + 1, bytes |-> Heap(c, s, hdr)]
  <1>1. c.rows \in Nat
    BY DEF CutType
  <1>2. c.rows + 1 = j.rows <=> j.rows > 0 /\ c.rows + 1 >= j.rows
    BY <1>1
  <1> QED  BY <1>2 DEF Placing, Reached, Heap

\* One more row gives a layout in the making, below both limits.
LEMMA PlacingType ==
  ASSUME NEW j, j.rows \in Nat, j.bytes \in Nat, NEW c \in CutType, NEW s \in Nat, NEW hdr \in Nat,
         j.rows > 0 => c.rows < j.rows
  PROVE  /\ Placing(j, c, s, hdr) \in CutType
         /\ j.rows > 0 => Placing(j, c, s, hdr).rows < j.rows
         /\ Begins(c.done, Placing(j, c, s, hdr).done)
  <1>1. c.done \in Seq(Span) /\ c.rows \in Nat /\ c.bytes \in Nat
    BY DEF CutType
  <1>2. PICK b : b = Heap(c, s, hdr)
    OBVIOUS
  <1>3. PICK span : span = [rows |-> c.rows + 1, bytes |-> b]
    OBVIOUS
  <1>4. b \in Nat /\ span \in Span
    BY <1>1, <1>2, <1>3 DEF Span, Heap
  <1>5. /\ Append(c.done, span) \in Seq(Span) /\ Len(Append(c.done, span)) = Len(c.done) + 1
        /\ \A i \in 1 .. Len(c.done) : Append(c.done, span)[i] = c.done[i]
    BY <1>1, <1>4, AppendProperties
  <1>6. PICK p : p = Placing(j, c, s, hdr)
    OBVIOUS
  <1>7. p = IF Reached(j, c.rows + 1, b) THEN [done |-> Append(c.done, span), rows |-> 0, bytes |-> 0]
            ELSE [done |-> c.done, rows |-> c.rows + 1, bytes |-> b]
    BY <1>2, <1>3, <1>6, PlacingIs
  <1>8. p \in CutType /\ (j.rows > 0 => p.rows < j.rows)
    BY <1>1, <1>4, <1>5, <1>7 DEF CutType, Reached
  <1>9. Begins(c.done, p.done)
    BY <1>1, <1>5, <1>7 DEF Begins
  <1> QED  BY <1>6, <1>8, <1>9

\* A layout that continues one that continues another continues that one.
LEMMA BeginsTransitive ==
  ASSUME NEW a \in Seq(Span), NEW b \in Seq(Span), NEW c \in Seq(Span), Begins(a, b), Begins(b, c)
  PROVE  Begins(a, c)
  BY DEF Begins

\* Greedy filling stays a layout in the making, whose shard in progress is below
\* both limits.
LEMMA CutsType ==
  ASSUME NEW j, j.rows \in Nat, j.bytes \in Nat, NEW sizes \in Seq(Nat), NEW hdr \in Nat,
         NEW r \in 0 .. Len(sizes)
  PROVE  /\ Cuts(j, sizes, hdr)[r] \in CutType
         /\ j.rows > 0 => Cuts(j, sizes, hdr)[r].rows < j.rows
  <1> DEFINE c == Cuts(j, sizes, hdr)
             Good(n) == n <= Len(sizes) => c[n] \in CutType /\ (j.rows > 0 => c[n].rows < j.rows)
             S == {n \in Nat : Good(n)}
  <1>1. /\ c[0] = Uncut
        /\ \A n \in 1 .. Len(sizes) : c[n] = Placing(j, c[n - 1], sizes[n], hdr)
    BY CutsDef
  <1> HIDE DEF c
  <1>2. 0 \in S
    BY <1>1, UncutType DEF Uncut
  <1>3. ASSUME NEW n \in Nat, Good(n) PROVE Good(n + 1)
    <2> SUFFICES ASSUME n + 1 <= Len(sizes) 
                 PROVE c[n + 1] \in CutType /\ (j.rows > 0 => c[n + 1].rows < j.rows)
      OBVIOUS
    <2>1. n + 1 \in 1 .. Len(sizes) /\ sizes[n + 1] \in Nat
      OBVIOUS
    <2>2. c[n + 1] = Placing(j, c[n], sizes[n + 1], hdr)
      BY <1>1, <2>1
    <2>3. c[n] \in CutType /\ (j.rows > 0 => c[n].rows < j.rows)
      BY <1>3
    <2> HIDE DEF Good, S
    <2>4. /\ Placing(j, c[n], sizes[n + 1], hdr) \in CutType
          /\ j.rows > 0 => Placing(j, c[n], sizes[n + 1], hdr).rows < j.rows
      BY <2>1, <2>3, PlacingType
    <2> QED  BY <2>2, <2>4
  <1>4. \A n \in Nat : n \in S => n + 1 \in S
    BY <1>3
  <1>5. Nat \subseteq S
    <2> HIDE DEF S
    <2> QED  BY <1>2, <1>4, Induct
  <1> QED  BY <1>5 DEF c

\* What greedy filling has finished it never changes.
LEMMA CutsGrow ==
  ASSUME NEW j, j.rows \in Nat, j.bytes \in Nat, NEW sizes \in Seq(Nat), NEW hdr \in Nat,
         NEW r \in 0 .. Len(sizes)
  PROVE  Begins(Cuts(j, sizes, hdr)[r].done, Cuts(j, sizes, hdr)[Len(sizes)].done)
  <1> DEFINE c == Cuts(j, sizes, hdr)
             Good(d) == r + d <= Len(sizes) => Begins(c[r].done, c[r + d].done)
             S == {d \in Nat : Good(d)}
  <1>1. /\ \A n \in 1 .. Len(sizes) : c[n] = Placing(j, c[n - 1], sizes[n], hdr)
        /\ \A n \in 0 .. Len(sizes) : c[n] \in CutType /\ (j.rows > 0 => c[n].rows < j.rows)
    BY CutsDef, CutsType
  <1> HIDE DEF c
  <1>2. 0 \in S
    BY <1>1 DEF CutType, Begins
  <1>3. ASSUME NEW d \in Nat, Good(d) PROVE Good(d + 1)
    <2> SUFFICES ASSUME r + (d + 1) <= Len(sizes) PROVE Begins(c[r].done, c[r + (d + 1)].done)
      OBVIOUS
    <2>1. PICK n : n = r + d
      OBVIOUS
    <2>2. n + 1 \in 1 .. Len(sizes) /\ n \in 0 .. Len(sizes) /\ sizes[n + 1] \in Nat /\ r + (d + 1) = n + 1
      BY <2>1
    <2>3. c[n + 1] = Placing(j, c[n], sizes[n + 1], hdr)
      BY <1>1, <2>2
    <2>4. c[n] \in CutType /\ (j.rows > 0 => c[n].rows < j.rows) /\ c[r] \in CutType
      BY <1>1, <2>2
    <2>5. Begins(c[r].done, c[n].done)
      BY <1>3, <2>1, <2>2
    <2> HIDE DEF Good, S
    <2>6. Begins(c[n].done, c[n + 1].done)
      BY <2>2, <2>3, <2>4, PlacingType
    <2>7. c[r].done \in Seq(Span) /\ c[n].done \in Seq(Span) /\ c[n + 1].done \in Seq(Span)
      <3>1. c[n + 1] \in CutType
        <4>1. n + 1 \in 0 .. Len(sizes)
          BY <2>2
        <4> QED  BY <1>1, <4>1
      <3> QED  BY <2>4, <3>1 DEF CutType
    <2> QED  BY <2>2, <2>5, <2>6, <2>7, BeginsTransitive
  <1>4. \A n \in Nat : n \in S => n + 1 \in S
    BY <1>3
  <1>5. Nat \subseteq S
    <2> HIDE DEF S
    <2> QED  BY <1>2, <1>4, Induct
  <1>6. PICK d \in Nat : r + d = Len(sizes)
    <2>1. Len(sizes) - r \in Nat /\ r + (Len(sizes) - r) = Len(sizes)
      OBVIOUS
    <2> QED  BY <2>1
  <1>7. Good(d)
    BY <1>5
  <1> QED  BY <1>6, <1>7 DEF c

------------------------------------------------------------------------------
(* How far the layout has come at each point of a run.                       *)

\* The layout in the making after the first r rows of this source.
CutAt(r) == Cuts(job, RowSizes, HeaderBytes)[r]

\* The rows that have been handed to a shard.
Handed == Placed - FirstRow + 1
Now == CutAt(Handed)

\* Bytes are predicted, and then shards, except where gzip decides.
Counted == job.dryRun \/ ~job.gz
Shaped == Counted \/ job.bytes = 0

\* A shard of that many rows and bytes is span s of the layout.
Fits(s, rows, n) == s.rows = rows /\ (Counted => s.bytes = n)

\* The shards listed are the first of the layout.
ToldInv ==
  Shaped => /\ N <= Len(StreamLayout)
            /\ \A i \in 1 .. N : /\ result[i].index = i
                                 /\ Fits(StreamLayout[i], result[i].rows, result[i].bytes)

\* Between rows: what is listed is finished, what is in progress is the rest.
Midway ==
  /\ Len(Now.done) = N
  /\ IF job.dryRun
     THEN /\ dry.open <=> Now.rows > 0
          /\ dry.rows = Now.rows
          /\ dry.open => dry.bytes = Now.bytes
          /\ index = IF dry.open THEN N + 1 ELSE N
     ELSE /\ shard.rows = Now.rows
          /\ Counted /\ shard.st = "open" =>
               shard.n = IF Now.rows = 0 THEN HeaderBytes ELSE Now.bytes

\* A shard that is being closed is the next of the layout: it reached a limit, or
\* it is the last.
Closing ==
  \/ /\ Now.rows = 0
     /\ Len(Now.done) = N + 1
     /\ Fits(Now.done[N + 1], shard.rows, shard.n)
  \/ /\ eof
     /\ Now.rows > 0
     /\ Len(Now.done) = N
     /\ Fits(Now, shard.rows, shard.n)

Complete == N = Len(StreamLayout)

CutInv ==
  Shaped => /\ pc \in {"start", "loop", "row"} => Midway
            /\ pc = "finish" => Midway \/ (Complete /\ shard.st = "none" /\ ~job.dryRun)
            /\ pc \in {"flush", "unlink", "rename", "record"} => Closing
            /\ pc \in {"commit", "unlinkManifest", "renameManifest", "done"} => Complete

LayoutInv == ToldInv /\ CutInv

\* The sizes greedy filling is about are those of the lines from the first row on.
LEMMA RowSizesAre ==
  ASSUME job \in Job
  PROVE  /\ RowSizes \in Seq(Nat) /\ HeaderBytes \in Nat
         /\ Len(RowSizes) = IF job.lines < FirstRow THEN 0 ELSE job.lines - FirstRow + 1
         /\ \A r \in 1 .. Len(RowSizes) : RowSizes[r] = LineSize[FirstRow + r - 1]
  <1>1. FirstRow \in 1 .. 2 /\ job.lines \in Nat /\ job.lines <= MaxLines /\ MaxLines \in Nat
    BY JobType, LinesAssumption DEF FirstRow
  <1>2. \A k \in FirstRow .. job.lines : LineSize[k] \in Nat
    BY <1>1, LineSizeType
  <1>3. /\ SubSeq(LineSize, FirstRow, job.lines) \in Seq(Nat)
        /\ Len(SubSeq(LineSize, FirstRow, job.lines))
             = IF FirstRow <= job.lines THEN job.lines - FirstRow + 1 ELSE 0
        /\ \A r \in 1 .. job.lines - FirstRow + 1 :
             SubSeq(LineSize, FirstRow, job.lines)[r] = LineSize[FirstRow + r - 1]
    BY <1>1, <1>2, SubSeqProperties
  <1>4. HeaderBytes \in Nat
    BY <1>1, LineSizeType DEF HeaderBytes
  <1> QED  BY <1>1, <1>3, <1>4 DEF RowSizes

\* The layout in the making, row by row of this source.
LEMMA CutAtType ==
  ASSUME job \in Job, NEW r \in 0 .. Len(RowSizes)
  PROVE  /\ CutAt(r) \in CutType
         /\ job.rows > 0 => CutAt(r).rows < job.rows
  BY RowSizesAre, CutsType, JobType DEF CutAt

\* Before the first row nothing is cut.
LEMMA CutAtZero ==
  ASSUME job \in Job
  PROVE  CutAt(0) = Uncut
  BY RowSizesAre, CutsDef DEF CutAt

\* The next row is placed by greedy filling.
LEMMA CutAtNext ==
  ASSUME job \in Job, NEW r \in Nat, r < Len(RowSizes)
  PROVE  CutAt(r + 1) = Placing(job, CutAt(r), LineSize[FirstRow + r], HeaderBytes)
  <1>1. r + 1 \in 1 .. Len(RowSizes) /\ (r + 1) - 1 = r
    BY RowSizesAre
  <1>2. CutAt(r + 1) = Placing(job, CutAt((r + 1) - 1), RowSizes[r + 1], HeaderBytes)
    BY <1>1, RowSizesAre, CutsDef DEF CutAt
  <1>3. FirstRow + (r + 1) - 1 = FirstRow + r
    BY DEF FirstRow
  <1>4. RowSizes[r + 1] = LineSize[FirstRow + r]
    BY <1>1, <1>3, RowSizesAre
  <1> QED  BY <1>1, <1>2, <1>4

\* The layout is what is finished after the last row, and the shard in progress
\* if it has a row.
LEMMA LayoutEnd ==
  ASSUME job \in Job, NEW c, c = CutAt(Len(RowSizes))
  PROVE  /\ c.rows = 0 => StreamLayout = c.done
         /\ c.rows # 0 => /\ Len(StreamLayout) = Len(c.done) + 1
                          /\ StreamLayout[Len(c.done) + 1] = [rows |-> c.rows, bytes |-> c.bytes]
         /\ Begins(c.done, StreamLayout)
         /\ StreamLayout \in Seq(Span)
  <1>1. c \in CutType
    BY RowSizesAre, CutAtType
  <1>2. c.done \in Seq(Span) /\ [rows |-> c.rows, bytes |-> c.bytes] \in Span
    BY <1>1 DEF CutType, Span
  <1>3. StreamLayout = IF c.rows = 0 THEN c.done
                       ELSE Append(c.done, [rows |-> c.rows, bytes |-> c.bytes])
    BY DEF StreamLayout, Layout, CutAt
  <1>4. PICK s : s = [rows |-> c.rows, bytes |-> c.bytes]
    OBVIOUS
  <1>5. /\ Append(c.done, s) \in Seq(Span) /\ Len(Append(c.done, s)) = Len(c.done) + 1
        /\ Append(c.done, s)[Len(c.done) + 1] = s
        /\ \A i \in 1 .. Len(c.done) : Append(c.done, s)[i] = c.done[i]
    BY <1>2, <1>4, AppendProperties
  <1> QED  BY <1>2, <1>3, <1>4, <1>5 DEF Begins

\* Whatever is finished is the beginning of the layout.
LEMMA CutAtBegins ==
  ASSUME job \in Job, NEW r \in 0 .. Len(RowSizes)
  PROVE  Begins(CutAt(r).done, StreamLayout)
  <1>1. Len(RowSizes) \in 0 .. Len(RowSizes)
    BY RowSizesAre
  <1>2. Begins(CutAt(r).done, CutAt(Len(RowSizes)).done)
    BY RowSizesAre, CutsGrow, JobType DEF CutAt
  <1>3. /\ Begins(CutAt(Len(RowSizes)).done, StreamLayout) /\ StreamLayout \in Seq(Span)
    BY LayoutEnd
  <1>4. CutAt(r).done \in Seq(Span) /\ CutAt(Len(RowSizes)).done \in Seq(Span)
    BY <1>1, CutAtType DEF CutType
  <1> QED  BY <1>2, <1>3, <1>4, BeginsTransitive

\* Where in the source the run is: in the layout in the making.
LEMMA NowIs ==
  ASSUME IInv
  PROVE  /\ job \in Job /\ Handed \in 0 .. Len(RowSizes)
         /\ Now \in CutType /\ Begins(Now.done, StreamLayout)
         /\ job.rows > 0 => Now.rows < job.rows
         /\ N \in Nat
         /\ eof /\ pc # "row" => Handed = Len(RowSizes)
  <1>1. /\ job \in Job /\ job.lines \in Nat /\ read \in Nat /\ FirstRow \in 1 .. 2 /\ N \in Nat
        /\ read <= job.lines /\ (eof => read = job.lines) /\ (pc = "row" => read >= FirstRow)
    BY JobType, LinesAssumption DEF IInv, TypeOK, ReaderInv, FirstRow, N
  <1>2. Handed \in 0 .. Len(RowSizes) /\ (eof /\ pc # "row" => Handed = Len(RowSizes))
    <2>1. Len(RowSizes) = IF job.lines < FirstRow THEN 0 ELSE job.lines - FirstRow + 1
      BY <1>1, RowSizesAre
    <2>2. CASE read < FirstRow
      BY <1>1, <2>1, <2>2 DEF Handed, Placed
    <2>3. CASE read >= FirstRow
      <3>1. Handed = IF pc = "row" THEN read - FirstRow ELSE read - FirstRow + 1
        BY <1>1, <2>3 DEF Handed, Placed
      <3> QED  BY <1>1, <2>1, <2>3, <3>1
    <2> QED  BY <1>1, <2>2, <2>3
  <1>3. Now \in CutType /\ (job.rows > 0 => Now.rows < job.rows)
    BY <1>1, <1>2, CutAtType DEF Now
  <1>4. Begins(Now.done, StreamLayout)
    BY <1>1, <1>2, CutAtBegins DEF Now
  <1> QED  BY <1>1, <1>2, <1>3, <1>4

\* What is predicted is a matter of the options and the source.
LEMMA JobFrame ==
  ASSUME job' = job
  PROVE  /\ StreamLayout' = StreamLayout /\ FirstRow' = FirstRow /\ HeaderBytes' = HeaderBytes
         /\ (Counted' <=> Counted) /\ (Shaped' <=> Shaped)
         /\ \A s, r, n : Fits(s, r, n)' <=> Fits(s, r, n)
         /\ Handed' = Handed => Now' = Now
  BY DEF StreamLayout, RowSizes, HeaderBytes, FirstRow, Counted, Shaped, Fits, Now, CutAt

\* A step that lists nothing new.
LEMMA ToldFrame ==
  ASSUME ToldInv, UNCHANGED <<job, result>>
  PROVE  ToldInv'
  BY JobFrame DEF ToldInv, N

\* A step that lists the next shard of the layout.
LEMMA ToldAppend ==
  ASSUME ToldInv, job' = job, result \in Seq(EntryType), NEW e \in EntryType,
         result' = Append(result, e), e.index = N + 1,
         Shaped => N + 1 <= Len(StreamLayout) /\ Fits(StreamLayout[N + 1], e.rows, e.bytes)
  PROVE  ToldInv'
  <1>1. /\ N' = N + 1 /\ N \in Nat /\ result'[N + 1] = e
        /\ \A i \in 1 .. N : result'[i] = result[i]
    BY AppendProperties DEF N
  <1>2. /\ StreamLayout' = StreamLayout /\ (Counted' <=> Counted) /\ (Shaped' <=> Shaped)
    BY JobFrame
  <1>3. \A i \in 1 .. N + 1 : i \in 1 .. N \/ i = N + 1
    BY <1>1
  <1>4. PICK r : r = result'
    OBVIOUS
  <1>5. Shaped => \A i \in 1 .. N + 1 : /\ r[i].index = i
                                       /\ StreamLayout[i].rows = r[i].rows
                                       /\ Counted => StreamLayout[i].bytes = r[i].bytes
    BY <1>1, <1>3, <1>4 DEF ToldInv, Fits
  <1> QED  BY <1>1, <1>2, <1>4, <1>5 DEF ToldInv, Fits

\* The parts of a run that the layout does not tell apart.
SameStage ==
  \/ pc \in {"start", "loop", "row"} /\ pc' \in {"start", "loop", "row", "finish"}
  \/ pc = "finish" /\ pc' = "finish"
  \/ {pc, pc'} \subseteq {"flush", "unlink", "rename", "record"}
  \/ {pc, pc'} \subseteq {"commit", "unlinkManifest", "renameManifest", "done"}

\* A step that places no row and closes no shard, or is on the way out.
LEMMA Quiet ==
  ASSUME LayoutInv, UNCHANGED <<job, result>>,
         pc' \in Dead \/ (SameStage /\ UNCHANGED <<dry, index, shard, Handed>> /\ (eof => eof'))
  PROVE  LayoutInv'
  <1>1. ToldInv'
    BY ToldFrame DEF LayoutInv
  <1>2. CASE pc' \in Dead
    BY <1>1, <1>2 DEF LayoutInv, CutInv, Dead
  <1>3. CASE SameStage /\ UNCHANGED <<dry, index, shard, Handed>> /\ (eof => eof')
    <2>1. Now' = Now /\ HeaderBytes' = HeaderBytes /\ N' = N
      BY <1>3, JobFrame DEF N
    <2>2. (Counted' <=> Counted) /\ (Shaped' <=> Shaped) /\ (Complete' <=> Complete)
      BY <2>1, JobFrame DEF Complete
    <2>3. Midway => Midway'
      BY <1>3, <2>1, <2>2 DEF Midway
    <2>4. Closing => Closing'
      BY <1>3, <2>1, <2>2 DEF Closing, Fits
    <2>5. CutInv'
      BY <1>3, <2>2, <2>3, <2>4 DEF LayoutInv, CutInv, SameStage
    <2> QED  BY <1>1, <2>5 DEF LayoutInv
  <1> QED  BY <1>2, <1>3

\* The limits are the same whether a shard or a plan is measured by them; where
\* bytes are not predicted they do not matter.
LEMMA FullIs ==
  ASSUME job \in Job, NEW rows \in Nat, NEW n, NEW b, n = b \/ job.bytes = 0
  PROVE  Full(rows, n) <=> Reached(job, rows, b)
  BY JobType DEF Full, Reached

\* The row in hand moves the layout by one.
LEMMA PlacingNow ==
  ASSUME IInv, pc = "row", pc' \in {"loop", "finish", "flush"}, UNCHANGED <<job, read>>,
         NEW b, b = Heap(Now, LineSize[read], HeaderBytes)
  PROVE  /\ b \in Nat /\ LineSize[read] \in Nat /\ HeaderBytes \in Nat
         /\ Now.rows \in Nat
         /\ IF Reached(job, Now.rows + 1, b)
            THEN /\ Now'.rows = 0 /\ Len(Now'.done) = Len(Now.done) + 1
                 /\ Now'.done[Len(Now.done) + 1] = [rows |-> Now.rows + 1, bytes |-> b]
            ELSE Now' = [done |-> Now.done, rows |-> Now.rows + 1, bytes |-> b]
         /\ Begins(Now'.done, StreamLayout) /\ Len(Now'.done) \in Nat /\ Len(StreamLayout) \in Nat
  <1>1. /\ job \in Job /\ read \in 1 .. MaxLines /\ read <= job.lines /\ read >= FirstRow
        /\ FirstRow \in 1 .. 2 /\ job.lines \in Nat /\ read \in Nat
    BY JobType, LinesAssumption DEF IInv, TypeOK, ReaderInv, FirstRow
  <1>2. Handed = read - FirstRow /\ Handed' = read - FirstRow + 1
    BY <1>1 DEF Handed, Placed, FirstRow
  <1>3. /\ Handed \in Nat /\ Handed < Len(RowSizes) /\ FirstRow + Handed = read /\ Handed' = Handed + 1
    BY <1>1, <1>2, RowSizesAre
  <1>4. Now' = CutAt(Handed + 1)
    BY <1>3, JobFrame DEF Now, CutAt, RowSizes, HeaderBytes, FirstRow
  <1>5. Now' = Placing(job, Now, LineSize[read], HeaderBytes)
    BY <1>1, <1>3, <1>4, CutAtNext DEF Now
  <1>6. /\ Now \in CutType /\ (job.rows > 0 => Now.rows < job.rows)
        /\ job.rows \in Nat /\ job.bytes \in Nat /\ LineSize[read] \in Nat /\ HeaderBytes \in Nat
    BY <1>1, NowIs, JobType, LineSizeType, RowSizesAre
  <1>7. Now' = IF Reached(job, Now.rows + 1, b)
               THEN [done |-> Append(Now.done, [rows |-> Now.rows + 1, bytes |-> b]), rows |-> 0, bytes |-> 0]
               ELSE [done |-> Now.done, rows |-> Now.rows + 1, bytes |-> b]
    BY <1>5, <1>6, PlacingIs
  <1>8. Now.done \in Seq(Span) /\ Now.rows \in Nat /\ Now.bytes \in Nat
    BY <1>6 DEF CutType
  <1>9. b \in Nat
    BY <1>6, <1>8 DEF Heap
  <1>10. PICK s \in Span : s = [rows |-> Now.rows + 1, bytes |-> b]
    <2>1. [rows |-> Now.rows + 1, bytes |-> b] \in Span
      BY <1>8, <1>9 DEF Span
    <2> QED  BY <2>1
  <1>11. /\ Len(Append(Now.done, s)) = Len(Now.done) + 1
         /\ Append(Now.done, s)[Len(Now.done) + 1] = s
    BY <1>8, <1>10, AppendProperties
  <1>12. Begins(Now'.done, StreamLayout) /\ Len(Now'.done) \in Nat
    <2>1. Handed + 1 \in 0 .. Len(RowSizes)
      BY <1>1, <1>3, RowSizesAre
    <2> QED  BY <1>1, <1>4, <2>1, CutAtBegins, CutAtType DEF CutType
  <1>13. Len(StreamLayout) \in Nat
    BY <1>1, LayoutEnd
  <1> QED  BY <1>6, <1>7, <1>8, <1>9, <1>10, <1>11, <1>12, <1>13

\* Opening a shard takes the header's bytes into the count (writer.go:46-58).
LEMMA OpenShardLayout == IInv /\ LayoutInv /\ OpenShard => LayoutInv'
  <1> SUFFICES ASSUME IInv, LayoutInv, OpenShard PROVE LayoutInv'
    OBVIOUS
  <1>1. /\ pc = "row" /\ shard.st = "none" /\ shard.rows = 0 /\ ~job.dryRun
        /\ UNCHANGED <<job, result, dry, read, eof>>
        /\ job \in Job /\ read >= FirstRow /\ read >= 1 /\ read <= job.lines /\ job.lines \in Nat
    BY JobType, LinesAssumption
    DEF OpenShard, NewShardWriter, readVars, IInv, WriterInv, TypeOK, ReaderInv, FirstRow
  <1>2. CASE pc' = "abort"
    BY <1>1, <1>2, Quiet DEF Dead
  <1>3. CASE pc' # "abort"
    <2>1. /\ pc' = "row" /\ shard'.rows = 0
          /\ shard'.n \in (IF headerLine THEN CountAfter(0, HeaderSize) ELSE {0})
      BY <1>1, <1>3 DEF OpenShard, NewShardWriter
    <2>2. HeaderSize = HeaderBytes /\ HeaderSize \in Nat
      <3>1. (headerLine <=> job.header) /\ read \in Nat
        BY <1>1 DEF IInv, ReaderInv, TypeOK
      <3>2. job.lines > 0
        BY <1>1, <3>1
      <3>3. HeaderSize = HeaderBytes
        BY <3>1, <3>2 DEF HeaderSize, HeaderBytes
      <3> QED  BY <1>1, <3>3, RowSizesAre
    <2>3. Counted => shard'.n = HeaderBytes
      <3>1. Counted => ~job.gz
        BY <1>1 DEF Counted
      <3> QED  BY <2>1, <2>2, <3>1 DEF CountAfter, HeaderSize
    <2>4. Handed' = Handed
      BY <1>1, <2>1 DEF Handed, Placed, FirstRow
    <2>5. Now' = Now /\ HeaderBytes' = HeaderBytes /\ N' = N /\ (Counted' <=> Counted) /\ (Shaped' <=> Shaped)
      BY <1>1, <2>4, JobFrame DEF N
    <2>6. ToldInv'
      BY <1>1, ToldFrame DEF LayoutInv
    <2>7. Midway => Midway'
      BY <1>1, <2>1, <2>3, <2>5 DEF Midway
    <2> QED  BY <1>1, <2>1, <2>5, <2>6, <2>7 DEF LayoutInv, CutInv
  <1> QED  BY <1>2, <1>3

\* A row is written, and the shard closes exactly when greedy filling closes it.
LEMMA RowLayout == IInv /\ LayoutInv /\ Row => LayoutInv'
  <1> SUFFICES ASSUME IInv, LayoutInv, Row PROVE LayoutInv'
    OBVIOUS
  <1>1. /\ pc = "row" /\ shard.st = "open" /\ ~job.dryRun /\ shard.rows \in Nat
        /\ shard \in [st : {"none", "open", "closed", "aborted"}, rows : Nat, n : Nat]
        /\ UNCHANGED <<job, result, dry, read, eof, index>>
        /\ job \in Job
    BY DEF Row, WriteRow, readVars, IInv, WriterInv, TypeOK
  <1>2. CASE WriteFails
    BY <1>1, <1>2, Quiet DEF Dead, WriteFails
  <1>3. CASE /\ WriteOk(read, LineSize[read], 1)
             /\ pc' = IF Full(shard'.rows, shard'.n) THEN "flush" ELSE AfterRow
    <2>1. PICK n \in CountAfter(shard.n, LineSize[read]) :
            shard' = [shard EXCEPT !.rows = @ + 1, !.n = n]
      BY <1>3 DEF WriteOk
    <2>2. /\ shard'.rows = shard.rows + 1 /\ shard'.n = n /\ shard'.st = "open"
      BY <1>1, <2>1
    <2>3. ToldInv' /\ (Shaped' <=> Shaped) /\ (Counted' <=> Counted) /\ N' = N /\ (Shaped => Midway)
      BY <1>1, ToldFrame, JobFrame DEF LayoutInv, CutInv, N
    <2> SUFFICES ASSUME Shaped
                 PROVE  /\ pc' = "flush" => Closing'
                        /\ pc' \in {"loop", "finish"} => Midway'
      BY <1>3, <2>3 DEF LayoutInv, CutInv, AfterRow
    <2>4. PICK b : b = Heap(Now, LineSize[read], HeaderBytes)
      OBVIOUS
    <2>5. /\ Len(Now.done) = N /\ shard.rows = Now.rows
          /\ Counted => shard.n = IF Now.rows = 0 THEN HeaderBytes ELSE Now.bytes
      BY <1>1, <2>3 DEF Midway
    <2>6. /\ b \in Nat /\ LineSize[read] \in Nat /\ HeaderBytes \in Nat /\ Now.rows \in Nat
          /\ IF Reached(job, Now.rows + 1, b)
             THEN /\ Now'.rows = 0 /\ Len(Now'.done) = Len(Now.done) + 1
                  /\ Now'.done[Len(Now.done) + 1] = [rows |-> Now.rows + 1, bytes |-> b]
             ELSE Now' = [done |-> Now.done, rows |-> Now.rows + 1, bytes |-> b]
      BY <1>1, <1>3, <2>4, PlacingNow DEF AfterRow
    <2>7. Counted => n = b
      <3>1. Counted => n = shard.n + LineSize[read]
        BY <1>1, <2>1 DEF CountAfter, Counted
      <3>2. b = LineSize[read] + (IF Now.rows > 0 THEN Now.bytes ELSE HeaderBytes)
        BY <2>4 DEF Heap
      <3>3. shard.n \in Nat
        BY <1>1
      <3> QED  BY <2>5, <2>6, <3>1, <3>2, <3>3
    <2>8. n = b \/ job.bytes = 0
      BY <2>7 DEF Shaped
    <2>9. Full(shard'.rows, shard'.n) <=> Reached(job, Now.rows + 1, b)
      <3>1. Full(shard.rows + 1, n) <=> Reached(job, shard.rows + 1, b)
        BY <1>1, <2>8, FullIs
      <3>2. Full(shard'.rows, shard'.n) <=> Full(shard.rows + 1, n)
        BY <2>2
      <3> QED  BY <2>5, <3>1, <3>2
    <2>10. CASE Reached(job, Now.rows + 1, b)
      <3>1. Closing'
        BY <1>1, <2>2, <2>3, <2>5, <2>6, <2>7, <2>10 DEF Closing, Fits
      <3> QED  BY <1>3, <2>9, <2>10, <3>1
    <2>11. CASE ~Reached(job, Now.rows + 1, b)
      <3>1. Midway'
        BY <1>1, <2>2, <2>3, <2>5, <2>6, <2>7, <2>11 DEF Midway
      <3> QED  BY <1>3, <2>9, <2>11, <3>1 DEF AfterRow
    <2> QED  BY <2>10, <2>11
  <1> QED  BY <1>2, <1>3 DEF Row, WriteRow

\* A row is planned: the dry shard closes exactly when greedy filling closes it.
LEMMA PlanRowLayout == IInv /\ LayoutInv /\ PlanRow => LayoutInv'
  <1> SUFFICES ASSUME IInv, LayoutInv, PlanRow PROVE LayoutInv'
    OBVIOUS
  <1>1. /\ pc = "row" /\ job.dryRun /\ pc' \in {"loop", "finish"} /\ UNCHANGED <<job, shard, read, eof>>
        /\ job \in Job /\ read >= FirstRow /\ read >= 1 /\ read <= job.lines /\ job.lines \in Nat
        /\ dry \in [open : BOOLEAN, rows : Nat, bytes : Nat] /\ result \in Seq(EntryType) /\ read \in Nat
        /\ N \in Nat /\ N = Len(result) /\ index \in Nat
    BY JobType, LinesAssumption
    DEF PlanRow, DryRow, AfterRow, readVars, IInv, TypeOK, ReaderInv, FirstRow, N
  <1>2. HeaderSize = HeaderBytes /\ HeaderSize \in Nat
    <2>1. headerLine <=> job.header
      BY <1>1 DEF IInv, ReaderInv
    <2>2. job.lines > 0
      BY <1>1
    <2>3. HeaderSize = HeaderBytes
      BY <2>1, <2>2 DEF HeaderSize, HeaderBytes
    <2> QED  BY <1>1, <2>3, RowSizesAre
  <1>3. Counted /\ Shaped /\ Counted' /\ Shaped'
    BY <1>1 DEF Counted, Shaped
  <1>4. Midway /\ ToldInv
    BY <1>1, <1>3 DEF LayoutInv, CutInv
  <1>5. /\ Len(Now.done) = N /\ dry.rows = Now.rows /\ (dry.open <=> Now.rows > 0)
        /\ dry.open => dry.bytes = Now.bytes
        /\ index = IF dry.open THEN N + 1 ELSE N
    BY <1>1, <1>4 DEF Midway
  <1>6. PICK b : b = Heap(Now, LineSize[read], HeaderBytes)
    OBVIOUS
  <1>7. /\ b \in Nat /\ LineSize[read] \in Nat /\ HeaderBytes \in Nat /\ Now.rows \in Nat
        /\ IF Reached(job, Now.rows + 1, b)
           THEN /\ Now'.rows = 0 /\ Len(Now'.done) = Len(Now.done) + 1
                /\ Now'.done[Len(Now.done) + 1] = [rows |-> Now.rows + 1, bytes |-> b]
           ELSE Now' = [done |-> Now.done, rows |-> Now.rows + 1, bytes |-> b]
        /\ Begins(Now'.done, StreamLayout) /\ Len(Now'.done) \in Nat /\ Len(StreamLayout) \in Nat
    BY <1>1, <1>6, PlacingNow
  <1>8. (IF dry.open THEN dry.bytes ELSE HeaderSize) + LineSize[read] = b
    <2>1. b = LineSize[read] + (IF Now.rows > 0 THEN Now.bytes ELSE HeaderBytes)
      BY <1>6 DEF Heap
    <2>2. dry.bytes \in Nat
      BY <1>1
    <2> QED  BY <1>2, <1>5, <1>7, <2>1, <2>2
  <1>9. (IF dry.open THEN index ELSE index + 1) = N + 1
    BY <1>1, <1>5
  <1>10. /\ index' = N + 1
         /\ IF Full(dry.rows + 1, b)
            THEN dry' = NoDry /\ result' = Append(result, Entry(N + 1, dry.rows + 1, b, None))
            ELSE dry' = [open |-> TRUE, rows |-> dry.rows + 1, bytes |-> b] /\ result' = result
    BY <1>8, <1>9 DEF PlanRow, DryRow
  <1>11. Full(dry.rows + 1, b) <=> Reached(job, Now.rows + 1, b)
    <2>1. dry.rows + 1 \in Nat
      BY <1>1
    <2>2. Full(dry.rows + 1, b) <=> Reached(job, dry.rows + 1, b)
      BY <1>1, <2>1, FullIs
    <2> QED  BY <1>5, <2>2
  <1>12. CASE Reached(job, Now.rows + 1, b)
    <2>1. PICK e : e = Entry(N + 1, dry.rows + 1, b, None)
      OBVIOUS
    <2>2. e \in EntryType /\ e.index = N + 1 /\ e.rows = Now.rows + 1 /\ e.bytes = b
      <3>1. N + 1 \in Nat /\ dry.rows + 1 \in Nat
        BY <1>1
      <3>2. e \in EntryType
        BY <1>7, <2>1, <3>1, EntryTyped
      <3> QED  BY <1>5, <2>1, <3>2 DEF Entry
    <2>3. result' = Append(result, e) /\ dry' = NoDry
      BY <1>10, <1>11, <1>12, <2>1
    <2>4. N' = N + 1 /\ result'[N + 1] = e /\ \A i \in 1 .. N : result'[i] = result[i]
      BY <1>1, <2>2, <2>3, AppendProperties DEF N
    <2>5. /\ Now'.rows = 0 /\ Len(Now'.done) = N + 1
          /\ Now'.done[N + 1] = [rows |-> Now.rows + 1, bytes |-> b]
      BY <1>5, <1>7, <1>12
    <2>6. N + 1 <= Len(StreamLayout) /\ StreamLayout[N + 1] = [rows |-> Now.rows + 1, bytes |-> b]
      BY <1>1, <1>7, <2>5 DEF Begins
    <2>7. StreamLayout' = StreamLayout
      BY <1>1, JobFrame
    <2>8. ToldInv'
      <3>1. Fits(StreamLayout[N + 1], e.rows, e.bytes)
        BY <2>2, <2>6 DEF Fits
      <3> QED  BY <1>1, <1>4, <2>2, <2>3, <2>6, <3>1, ToldAppend
    <2>9. Midway'
      <3>1. /\ dry'.open = FALSE /\ dry'.rows = 0
        BY <2>3 DEF NoDry
      <3> QED  BY <1>1, <1>10, <2>4, <2>5, <3>1 DEF Midway
    <2> QED  BY <1>1, <2>8, <2>9 DEF LayoutInv, CutInv
  <1>13. CASE ~Reached(job, Now.rows + 1, b)
    <2>1. dry' = [open |-> TRUE, rows |-> dry.rows + 1, bytes |-> b] /\ result' = result
      BY <1>10, <1>11, <1>13
    <2>2. Now' = [done |-> Now.done, rows |-> Now.rows + 1, bytes |-> b]
      BY <1>7, <1>13
    <2>3. ToldInv'
      BY <1>1, <1>4, <2>1, ToldFrame
    <2>4. Midway'
      BY <1>1, <1>5, <1>7, <1>10, <2>1, <2>2 DEF Midway, N
    <2> QED  BY <1>1, <2>3, <2>4 DEF LayoutInv, CutInv
  <1> QED  BY <1>12, <1>13

\* The end of closeTextShard lists the next shard of the layout.
LEMMA RecordLayout == IInv /\ LayoutInv /\ Record => LayoutInv'
  <1> SUFFICES ASSUME IInv, LayoutInv, Record PROVE LayoutInv'
    OBVIOUS
  <1>1. /\ pc = "record" /\ Live /\ ~job.dryRun /\ index = N + 1 /\ index \in Nat /\ N \in Nat
        /\ shardFile[index] \in FileState /\ shard.rows \in Nat /\ shard.n \in Nat
        /\ result \in Seq(EntryType)
        /\ UNCHANGED <<job, read, eof, dry, index>>
    BY Lives
    DEF Record, RecordShard, readVars, IInv, TypeOK, WriterInv, PublishedInv, CarrierInv, Carrier, N
  <1>2. CASE pc' = "abort"
    <2>1. UNCHANGED <<job, result>>
      BY <1>1, <1>2 DEF Record, RecordShard, AfterRow
    <2> QED  BY <1>2, <2>1, Quiet DEF Dead
  <1>3. CASE pc' # "abort"
    <2>1. PICK e : e = Entry(index, shard.rows, shard.n, shardFile[index])
      OBVIOUS
    <2>2. e \in EntryType /\ e.index = N + 1 /\ e.rows = shard.rows /\ e.bytes = shard.n
      <3>1. e \in EntryType
        BY <1>1, <2>1, EntryTyped
      <3> QED  BY <1>1, <2>1, <3>1 DEF Entry
    <2>3. /\ result' = Append(result, e) /\ shard'.st = "none" /\ shard'.rows = 0
          /\ pc' = IF eof THEN "finish" ELSE "loop"
      BY <1>3, <2>1 DEF Record, RecordShard, AfterRow, NoShard
    <2>4. Handed' = Handed
      BY <1>1, <2>3 DEF Handed, Placed, FirstRow
    <2>5. /\ Now' = Now /\ StreamLayout' = StreamLayout
          /\ (Counted' <=> Counted) /\ (Shaped' <=> Shaped)
      BY <1>1, <2>4, JobFrame
    <2>6. N' = N + 1
      BY <1>1, <2>2, <2>3, AppendProperties DEF N
    <2>7. /\ Now \in CutType /\ Begins(Now.done, StreamLayout) /\ (eof => Handed = Len(RowSizes))
          /\ job \in Job
      BY <1>1, NowIs
    <2>8. CASE ~Shaped
      <3>1. ToldInv'
        BY <2>5, <2>8 DEF ToldInv
      <3> QED  BY <2>5, <2>8, <3>1 DEF LayoutInv, CutInv
    <2>9. CASE Shaped
      <3>1. Closing /\ ToldInv
        BY <1>1, <2>9 DEF LayoutInv, CutInv
      <3>2. CASE Now.rows = 0 /\ Len(Now.done) = N + 1 /\ Fits(Now.done[N + 1], shard.rows, shard.n)
        <4>1. N + 1 <= Len(StreamLayout) /\ StreamLayout[N + 1] = Now.done[N + 1]
          BY <1>1, <2>7, <3>2 DEF Begins
        <4>2. Fits(StreamLayout[N + 1], e.rows, e.bytes)
          BY <2>2, <3>2, <4>1
        <4>3. ToldInv'
          BY <1>1, <2>2, <2>3, <3>1, <4>1, <4>2, ToldAppend
        <4>4. Midway'
          BY <1>1, <2>3, <2>5, <2>6, <3>2 DEF Midway
        <4> QED  BY <2>3, <4>3, <4>4 DEF LayoutInv, CutInv
      <3>3. CASE eof /\ Now.rows > 0 /\ Len(Now.done) = N /\ Fits(Now, shard.rows, shard.n)
        <4>1. /\ Len(StreamLayout) = N + 1
              /\ StreamLayout[N + 1] = [rows |-> Now.rows, bytes |-> Now.bytes]
          <5>1. Now = CutAt(Len(RowSizes))
            BY <2>7, <3>3 DEF Now
          <5>2. Now.rows # 0
            BY <2>7, <3>3 DEF CutType
          <5> QED  BY <2>7, <3>3, <5>1, <5>2, LayoutEnd
        <4>2. Fits(StreamLayout[N + 1], e.rows, e.bytes)
          BY <2>2, <3>3, <4>1 DEF Fits
        <4>3. ToldInv'
          BY <1>1, <2>2, <2>3, <3>1, <4>1, <4>2, ToldAppend
        <4>4. Complete'
          BY <2>5, <2>6, <4>1 DEF Complete
        <4> QED  BY <1>1, <2>3, <3>3, <4>3, <4>4 DEF LayoutInv, CutInv
      <3> QED  BY <3>1, <3>2, <3>3 DEF Closing
    <2> QED  BY <2>8, <2>9
  <1> QED  BY <1>2, <1>3

\* Closing a shard leaves its counts, as far as they are predicted.
LEMMA FlushShardLayout == IInv /\ LayoutInv /\ FlushShard /\ UNCHANGED readVars => LayoutInv'
  <1> SUFFICES ASSUME IInv, LayoutInv, FlushShard, UNCHANGED readVars PROVE LayoutInv'
    OBVIOUS
  <1>1. /\ pc = "flush" /\ UNCHANGED <<job, result, dry, read, eof, index>> /\ Live /\ ~job.dryRun
        /\ shard \in [st : {"none", "open", "closed", "aborted"}, rows : Nat, n : Nat]
        /\ pc' \in {"unlink", "rename", "abort"}
    BY Lives DEF FlushShard, AfterFlush, readVars, IInv, TypeOK, Live
  <1>2. CASE pc' = "abort"
    BY <1>1, <1>2, Quiet DEF Dead
  <1>3. CASE pc' # "abort"
    <2>1. PICK n \in (IF job.gz THEN CountAfter(shard.n, 0) ELSE {shard.n}) :
            shard' = [shard EXCEPT !.st = "closed", !.n = n]
      BY <1>3 DEF FlushShard
    <2>2. shard'.rows = shard.rows /\ (Counted => shard'.n = shard.n)
      BY <1>1, <2>1 DEF Counted
    <2>3. Handed' = Handed
      BY <1>1 DEF Handed, Placed, FirstRow
    <2>4. /\ Now' = Now /\ N' = N /\ (Counted' <=> Counted) /\ (Shaped' <=> Shaped)
      BY <1>1, <2>3, JobFrame DEF N
    <2>5. ToldInv'
      BY <1>1, ToldFrame DEF LayoutInv
    <2>6. Closing => Closing'
      BY <1>1, <2>2, <2>4 DEF Closing, Fits
    <2> QED  BY <1>1, <1>3, <2>4, <2>5, <2>6 DEF LayoutInv, CutInv
  <1> QED  BY <1>2, <1>3

\* The end of the source closes what is in progress, which is the last of the layout.
LEMMA FinishLayout == IInv /\ LayoutInv /\ Finish /\ UNCHANGED readVars => LayoutInv'
  <1> SUFFICES ASSUME IInv, LayoutInv, Finish, UNCHANGED readVars PROVE LayoutInv'
    OBVIOUS
  <1>1. /\ pc = "finish" /\ UNCHANGED <<job, read, eof, index, shard>> /\ eof
        /\ shard.st \in {"none", "open"} /\ (shard.st = "none" => shard.rows = 0)
        /\ job.dryRun => shard.st = "none"
        /\ dry \in [open : BOOLEAN, rows : Nat, bytes : Nat] /\ index \in Nat
        /\ result \in Seq(EntryType) /\ N \in Nat
        /\ pc' = IF shard.st = "open" THEN "flush" ELSE "commit"
    BY DEF Finish, disk, readVars, IInv, TypeOK, ReaderInv, WriterInv, N
  <1>2. /\ Now \in CutType /\ Handed = Len(RowSizes) /\ job \in Job
        /\ Now.rows \in Nat /\ Now.bytes \in Nat
    BY <1>1, NowIs DEF CutType
  <1>3. Handed' = Handed
    BY <1>1 DEF Handed, Placed, FirstRow
  <1>4. /\ Now' = Now /\ StreamLayout' = StreamLayout
        /\ (Counted' <=> Counted) /\ (Shaped' <=> Shaped)
    BY <1>1, <1>3, JobFrame
  <1>5. /\ Now.rows = 0 => Len(StreamLayout) = Len(Now.done)
        /\ Now.rows # 0 => /\ Len(StreamLayout) = Len(Now.done) + 1
                           /\ StreamLayout[Len(Now.done) + 1] = [rows |-> Now.rows, bytes |-> Now.bytes]
    <2>1. Now = CutAt(Len(RowSizes))
      BY <1>2 DEF Now
    <2> QED  BY <1>2, <2>1, LayoutEnd
  <1>6. CASE ~Shaped
    <2>1. ToldInv'
      BY <1>4, <1>6 DEF ToldInv
    <2> QED  BY <1>4, <1>6, <2>1 DEF LayoutInv, CutInv
  <1>7. CASE Shaped /\ job.dryRun
    <2>1. Midway /\ ToldInv /\ Counted /\ pc' = "commit"
      BY <1>1, <1>7 DEF LayoutInv, CutInv, Counted
    <2>2. CASE ~dry.open
      <3>1. result' = result
        BY <2>2 DEF Finish
      <3>2. Complete'
        BY <1>2, <1>4, <1>5, <1>7, <2>1, <2>2, <3>1 DEF Complete, Midway, N
      <3>3. ToldInv'
        BY <1>1, <2>1, <3>1, ToldFrame
      <3> QED  BY <2>1, <3>2, <3>3 DEF LayoutInv, CutInv
    <2>3. CASE dry.open
      <3>1. PICK e : e = Entry(index, dry.rows, dry.bytes, None)
        OBVIOUS
      <3>2. result' = Append(result, e)
        BY <1>7, <2>3, <3>1 DEF Finish
      <3>3. /\ Now.rows # 0 /\ Len(Now.done) = N /\ index = N + 1
            /\ dry.rows = Now.rows /\ dry.bytes = Now.bytes
        BY <1>2, <1>7, <2>1, <2>3 DEF Midway
      <3>4. e \in EntryType /\ e.index = N + 1 /\ e.rows = Now.rows /\ e.bytes = Now.bytes
        <4>1. e \in EntryType
          BY <1>1, <3>1, EntryTyped
        <4> QED  BY <3>1, <3>3, <4>1 DEF Entry
      <3>5. /\ Len(StreamLayout) = N + 1
            /\ Fits(StreamLayout[N + 1], e.rows, e.bytes)
        BY <1>5, <3>3, <3>4 DEF Fits
      <3>6. ToldInv'
        BY <1>1, <2>1, <3>2, <3>4, <3>5, ToldAppend
      <3>7. Complete'
        <4>1. N' = N + 1
          BY <1>1, <3>2, <3>4, AppendProperties DEF N
        <4> QED  BY <1>4, <3>5, <4>1 DEF Complete
      <3> QED  BY <2>1, <3>6, <3>7 DEF LayoutInv, CutInv
    <2> QED  BY <2>2, <2>3
  <1>8. CASE Shaped /\ ~job.dryRun
    <2>1. /\ ToldInv /\ (Midway \/ (Complete /\ shard.st = "none"))
          /\ result' = result /\ dry' = dry /\ N' = N
      BY <1>1, <1>8 DEF LayoutInv, CutInv, Finish, N
    <2>2. ToldInv'
      BY <1>1, <2>1, ToldFrame
    <2>3. CASE shard.st = "none"
      <3>1. Complete'
        BY <1>1, <1>4, <1>5, <1>8, <2>1, <2>3 DEF Complete, Midway
      <3> QED  BY <1>1, <2>2, <2>3, <3>1 DEF LayoutInv, CutInv
    <2>4. CASE shard.st = "open"
      <3>1. shard.rows # 0
        BY <1>1, <1>8, <2>4 DEF IInv, CarrierInv, Live, Dead
      <3>2. Closing'
        BY <1>1, <1>2, <1>4, <1>8, <2>1, <2>4, <3>1 DEF Closing, Midway, Fits
      <3> QED  BY <1>1, <2>2, <2>4, <3>2 DEF LayoutInv, CutInv
    <2> QED  BY <1>1, <2>3, <2>4
  <1> QED  BY <1>6, <1>7, <1>8

\* Every run starts before the layout.
LEMMA InitLayout == Init => LayoutInv
  <1> SUFFICES ASSUME Init PROVE LayoutInv
    OBVIOUS
  <1>1. /\ job \in Job /\ N = 0 /\ shard.rows = 0 /\ shard.st = "none" /\ index = 0
        /\ dry.open = FALSE /\ dry.rows = 0 /\ pc = "start" /\ read = 0
    BY EmptySeq DEF Init, OutInit, NoShard, NoDry, N
  <1>2. Handed = 0
    BY <1>1 DEF Handed, Placed, FirstRow
  <1>3. Now.rows = 0 /\ Len(Now.done) = 0
    <2>1. Now = Uncut
      BY <1>1, <1>2, CutAtZero DEF Now
    <2> QED  BY <2>1, EmptySeq DEF Uncut
  <1>4. Midway
    BY <1>1, <1>3 DEF Midway
  <1>5. Len(StreamLayout) \in Nat
    BY <1>1, LayoutEnd
  <1> QED  BY <1>1, <1>4, <1>5 DEF LayoutInv, ToldInv, CutInv

\* Reading places no row.
LEMMA ReaderLayout ==
  IInv /\ LayoutInv /\ (Start \/ LoopCancelled \/ ReadFails \/ ReadEOF \/ ReadLine) => LayoutInv'
  <1> SUFFICES ASSUME IInv, LayoutInv, Start \/ LoopCancelled \/ ReadFails \/ ReadEOF \/ ReadLine
               PROVE  LayoutInv'
    OBVIOUS
  <1>1. UNCHANGED <<job, result, dry, index, shard>>
    BY DEF Start, NewManifestWriter, LoopCancelled, ReadFails, ReadEOF, ReadLine
  <1>2. CASE pc' \in Dead
    BY <1>1, <1>2, Quiet
  <1>3. CASE pc' \notin Dead
    <2>1. SameStage /\ (eof => eof')
      <3>1. SameStage
        BY <1>3 DEF Start, NewManifestWriter, LoopCancelled, ReadFails, ReadEOF, ReadLine,
           SameStage, Dead
      <3>2. eof => ~HasLine
        BY DEF HasLine, IInv, TypeOK, ReaderInv
      <3>3. eof => eof'
        BY <3>2 DEF Start, LoopCancelled, ReadFails, ReadEOF, ReadLine, readVars
      <3> QED  BY <3>1, <3>3
    <2>2. /\ read \in Nat /\ FirstRow' = FirstRow /\ FirstRow = (IF job.header THEN 2 ELSE 1)
          /\ headerLine <=> (job.header /\ read >= 1)
          /\ pc = "start" => read = 0
      BY <1>1 DEF IInv, TypeOK, ReaderInv, FirstRow
    <2>3. \/ /\ pc = "loop" /\ pc' = "row" /\ read' = read + 1 /\ ~IsHeader
          \/ /\ pc = "loop" /\ pc' \in {"loop", "finish"} /\ read' = read + 1 /\ IsHeader
          \/ /\ pc = "start" \/ pc = "loop" 
             /\ pc' \in {"loop", "finish"} /\ read' = read
      BY <1>3 DEF Start, NewManifestWriter, LoopCancelled, ReadFails, ReadEOF, ReadLine, readVars, Dead
    <2>4. Placed' = Placed
      BY <1>1, <2>2, <2>3 DEF Placed, IsHeader
    <2>5. Handed' = Handed
      BY <2>2, <2>4 DEF Handed
    <2> QED  BY <1>1, <2>1, <2>5, Quiet
  <1> QED  BY <1>2, <1>3

\* Renames, the manifest and the ways out place no row either.
LEMMA OutputLayout ==
  /\ IInv /\ LayoutInv
  /\ \/ /\ UnlinkShard \/ RenameShard \/ CloseManifest \/ UnlinkManifest \/ RenameManifest
        /\ UNCHANGED readVars
     \/ /\ AbortShard \/ AbortManifest
        /\ UNCHANGED readVars
     \/ Environment
     \/ UNCHANGED vars
  => LayoutInv'
  <1> SUFFICES ASSUME IInv, LayoutInv,
                      \/ /\ UnlinkShard \/ RenameShard \/ CloseManifest \/ UnlinkManifest \/ RenameManifest
                         /\ UNCHANGED readVars
                      \/ /\ AbortShard \/ AbortManifest
                         /\ UNCHANGED readVars
                      \/ Environment
                      \/ UNCHANGED vars
               PROVE  LayoutInv'
    OBVIOUS
  <1>1. UNCHANGED <<job, result>>
    BY DEF UnlinkShard, RenameShard, CloseManifest, UnlinkManifest, RenameManifest, AbortShard,
       AbortManifest, Environment, Cancel, Crash, vars
  <1>2. CASE pc' \in Dead
    BY <1>1, <1>2, Quiet
  <1>3. CASE pc' \notin Dead
    <2>1. UNCHANGED <<dry, index, shard, read, eof>>
      BY <1>3 DEF UnlinkShard, RenameShard, CloseManifest, UnlinkManifest, RenameManifest, AbortShard,
         AbortManifest, Environment, Cancel, Crash, vars, readVars, Dead
    <2>2. SameStage /\ (pc' = pc \/ (pc # "row" /\ pc' # "row"))
      BY <1>3 DEF UnlinkShard, RenameShard, CloseManifest, UnlinkManifest, RenameManifest, AbortShard,
         AbortManifest, Environment, Cancel, Crash, vars, Dead, SameStage, Terminal, IInv, TypeOK
    <2>3. Handed' = Handed
      BY <1>1, <2>1, <2>2 DEF Handed, Placed, FirstRow
    <2> QED  BY <1>1, <2>1, <2>2, <2>3, Quiet
  <1> QED  BY <1>2, <1>3

\* Every step of a run follows the layout.
LEMMA NextLayout == IInv /\ LayoutInv /\ [Next]_vars => LayoutInv'
  <1> SUFFICES ASSUME IInv, LayoutInv, [Next]_vars PROVE LayoutInv'
    OBVIOUS
  <1>1. CASE Process
    <2>1. CASE Start \/ LoopCancelled \/ ReadFails \/ ReadEOF \/ ReadLine
      BY <2>1, ReaderLayout
    <2>2. CASE OpenShard \/ Row \/ PlanRow \/ Record
      BY <2>2, OpenShardLayout, RowLayout, PlanRowLayout, RecordLayout
    <2>3. CASE Output
      BY <2>3, FlushShardLayout, FinishLayout, OutputLayout DEF Output
    <2> QED  BY <1>1, <2>1, <2>2, <2>3 DEF Process
  <1>2. CASE Environment \/ UNCHANGED vars
    BY <1>2, OutputLayout
  <1> QED  BY <1>1, <1>2 DEF Next, Ended

\* The shards a run produces, and those a dry run plans, are the ones greedy filling
\* cuts the source into, for every source and every pair of limits: a shard closes
\* with the row that reaches a limit and with no other (stream.go:112-129), so a dry
\* run predicts the real one.
THEOREM GreedyLayout == Spec => []LayoutIsGreedy
  <1>1. LayoutInv => LayoutIsGreedy
    BY DEF LayoutInv, ToldInv, CutInv, Complete, Fits, Shaped, Counted, LayoutIsGreedy, Greedy,
       AgreesWith, N
  <1>2. IInv /\ LayoutInv /\ [Next]_vars => LayoutInv'
    BY NextLayout
  <1>3. Spec => []LayoutInv
    BY <1>2, InitLayout, Invariance, PTL DEF Spec
  <1> QED  BY <1>1, <1>3, PTL
==============================================================================
