------------------------------- MODULE Download -------------------------------
(***************************************************************************)
(* One download (internal/transfer/download.go) of an object to a local    *)
(* path: the metadata are read, the content goes to <dest>.part, is        *)
(* verified when asked for, and the .part takes the final name.  A cloud   *)
(* object is fetched by range requests of several workers                  *)
(* (provider/gcs/client.go), a local or a compressed one by one stream.    *)
(*                                                                         *)
(* The object may be replaced by another client at any time.  A byte of    *)
(* its v-th version is the pair <<v, k>>; a block is as many bytes as one  *)
(* range request asks for.                                                 *)
(***************************************************************************)
EXTENDS Integers, Sequences, FiniteSets

CONSTANTS
  None,     \* no file under that name
  Old,      \* a file that was there before the run
  Foreign,  \* a file somebody else put there during the run
  Hole,     \* a byte no request has filled
  Opt,      \* the option records a run may be started with
  Block,    \* bytes of a range request
  Others    \* TRUE: somebody else may create the destination

ASSUME BlockAssumption == Block \in Nat \ {0}
ASSUME OthersAssumption == Others \in BOOLEAN

\* A byte of a file, and what a file of this run holds.
Byte == (Nat \X Nat) \cup {Hole}
FileState == [bytes : Seq(Byte), whole : BOOLEAN]

ASSUME NamesAssumption ==
  /\ None # Old /\ None # Foreign /\ Old # Foreign
  /\ {None, Old, Foreign} \cap FileState = {}

\* versions: the sizes the object has, one after the other; remote: the
\* provider takes range requests and heeds the context (GCS, Azure), the local
\* one does neither; summed: the metadata carry a checksum.
ASSUME OptAssumption ==
  \A o \in Opt :
    /\ {o.overwrite, o.verify, o.compress, o.remote, o.summed} \subseteq BOOLEAN
    /\ o.workers \in Nat \ {0}
    /\ o.versions \in Seq(Nat) /\ o.versions # <<>>

VARIABLES
  pc,         \* where the run is
  opt,        \* its options
  cancelled,  \* the root context is cancelled
  version,    \* the version a request served now would see
  meta,       \* the version Stat has seen, 0 before
  size,       \* attrs.Size, what the range requests cover
  worker,     \* per block asked for, its goroutine
  failed,     \* the errgroup has seen an error
  dest,       \* the file under the final name
  part        \* the file under the .part name

vars == <<pc, opt, cancelled, version, meta, size, worker, failed, dest, part>>

Terminal == {"done", "failed", "crashed"}
New(f) == f \notin {None, Old, Foreign}

Content(v) == [k \in 1 .. opt.versions[v] |-> <<v, k>>]
Holes(n) == [k \in 1 .. n |-> Hole]

\* A file of this run; a gzip stream is whole once its trailer is written.
Fresh == [bytes |-> <<>>, whole |-> ~opt.compress]

Ranged == opt.remote /\ ~opt.compress
Blocks == (size + Block - 1) \div Block
Running(b) == worker[b].st \in {"starting", "reading"}
RunningSet == {b \in DOMAIN worker : Running(b)}

Lesser(a, b) == IF a < b THEN a ELSE b
Offset(b) == IF Ranged THEN (b - 1) * Block ELSE 0

\* (fault) the last range is as long as the others.
Length_NoMin(b) ==
  LET there == opt.versions[worker[b].from] - Offset(b)
  IN IF Ranged THEN Lesser(Block, there) ELSE there

\* The bytes the b-th reader will deliver: its range, cut to the object it is
\* bound to.
Length(b) ==
  LET there == opt.versions[worker[b].from] - Offset(b)
  IN IF Ranged THEN Lesser(Lesser(Block, size - Offset(b)), there) ELSE there

\* A call that heeds the context and comes after its cancellation fails.
Refused == opt.remote /\ cancelled

------------------------------------------------------------------------------
Init ==
  /\ pc = "stat"
  /\ opt \in Opt
  /\ cancelled = FALSE
  /\ version = 1
  /\ meta = 0
  /\ size = 0
  /\ worker = <<>>
  /\ failed = FALSE
  /\ dest \in {None, Old}
  /\ part \in {None, Old}

\* Stat and the choice of the path; there is nothing to clean up yet.
Stat ==
  /\ pc = "stat"
  /\ \/ ~Refused /\ meta' = version /\ pc' = "check"
     \/ pc' = "failed" /\ UNCHANGED meta
  /\ UNCHANGED <<opt, cancelled, version, size, worker, failed, dest, part>>

\* (fault) an existing destination does not stop the run.
Taken_Never == FALSE

Taken == ~opt.overwrite /\ dest # None

\* prepareOutputFile: without --overwrite the destination must not exist.
Check ==
  /\ pc = "check"
  /\ \/ ~Taken /\ pc' = "open"
     \/ pc' = "failed"
  /\ UNCHANGED <<opt, cancelled, version, meta, size, worker, failed, dest, part>>

\* prepareOutputFile: the .part is removed (with --overwrite) or truncated.
OpenPart ==
  /\ pc = "open"
  /\ \/ part' = Fresh /\ pc' = "fetch"
     \/ part' \in {part} \cup (IF opt.overwrite THEN {None} ELSE {}) /\ pc' = "failed"
  /\ UNCHANGED <<opt, cancelled, version, meta, size, worker, failed, dest>>

------------------------------------------------------------------------------
(* Range requests.                                                           *)

\* Attrs, and ResetFile to the size it tells.
Attrs ==
  /\ pc = "fetch" /\ Ranged
  /\ \/ /\ ~Refused
        /\ size' = opt.versions[version]
        /\ part' = [part EXCEPT !.bytes = Holes(size')]
        /\ pc' = "ranges"
     \/ pc' = "cleanup" /\ UNCHANGED <<size, part>>
  /\ UNCHANGED <<opt, cancelled, version, meta, worker, failed, dest>>

Slot == Cardinality(RunningSet) < opt.workers

\* g.Go, which waits for a slot; the loop goes on after an error.
Launch ==
  /\ pc = "ranges"
  /\ Len(worker) < Blocks
  /\ Slot
  /\ worker' = Append(worker, [st |-> "starting", from |-> 0, pos |-> 0])
  /\ UNCHANGED <<pc, opt, cancelled, version, meta, size, failed, dest, part>>

Heeded == ~cancelled /\ ~failed

\* NewRangeReader: a range of the object as it is now.  A range that begins
\* at or beyond its end is refused.
Request(b) ==
  /\ worker[b].st = "starting"
  /\ Heeded
  /\ Offset(b) < opt.versions[version]
  /\ worker' = [worker EXCEPT ![b].st = "reading", ![b].from = version]
  /\ UNCHANGED <<pc, opt, cancelled, version, meta, size, failed, dest, part>>

At(b) == Offset(b) + worker[b].pos + 1

\* io.Copy: the next byte goes to its place.
Piece(b) ==
  /\ worker[b].st = "reading"
  /\ worker[b].pos < Length(b)
  /\ LET read == Offset(b) + worker[b].pos + 1
         byte == <<worker[b].from, read>>
     IN IF New(part)
        THEN part' = [part EXCEPT !.bytes =
                        IF At(b) <= Len(@) THEN [@ EXCEPT ![At(b)] = byte] ELSE Append(@, byte)]
        ELSE UNCHANGED part
  /\ worker' = [worker EXCEPT ![b].pos = @ + 1]
  /\ UNCHANGED <<pc, opt, cancelled, version, meta, size, failed, dest>>

Read(b) ==
  /\ worker[b].st = "reading"
  /\ worker[b].pos = Length(b)
  /\ worker' = [worker EXCEPT ![b].st = "ok"]
  /\ UNCHANGED <<pc, opt, cancelled, version, meta, size, failed, dest, part>>

\* The request, a read or a write fails; the first error cancels the group.
WorkerFails(b) ==
  /\ Running(b)
  /\ worker' = [worker EXCEPT ![b].st = "error"]
  /\ failed' = TRUE
  /\ UNCHANGED <<pc, opt, cancelled, version, meta, size, dest, part>>

\* (fault) the first error ends the wait.
AllBack_FirstError == failed \/ (Len(worker) = Blocks /\ RunningSet = {})

AllBack == Len(worker) = Blocks /\ RunningSet = {}

\* g.Wait
Wait ==
  /\ pc = "ranges"
  /\ AllBack
  /\ pc' = IF failed THEN "cleanup" ELSE "close"
  /\ UNCHANGED <<opt, cancelled, version, meta, size, worker, failed, dest, part>>

------------------------------------------------------------------------------
(* One stream: a local source, or --compress.                                *)

\* The source is opened and the file emptied.
OpenStream ==
  /\ pc = "fetch" /\ ~Ranged
  /\ \/ /\ ~Refused
        /\ worker' = <<[st |-> "reading", from |-> version, pos |-> 0]>>
        /\ pc' = "stream"
     \/ pc' = "cleanup" /\ UNCHANGED worker
  /\ UNCHANGED <<opt, cancelled, version, meta, size, failed, dest, part>>

\* The checksum of version v against the one in the metadata, if it is wanted
\* and there is one.
SumOf(v) == opt.verify /\ opt.summed => v = meta

\* The stream is over: the gzip trailer is written and, with --compress, the
\* checksum of what was read compared here.
StreamEnds ==
  /\ pc = "stream"
  /\ ~Running(1)
  /\ \/ /\ ~failed
        /\ opt.compress => SumOf(worker[1].from)
        /\ part' = [part EXCEPT !.whole = TRUE]
        /\ pc' = "close"
     \/ pc' = "cleanup" /\ UNCHANGED part
  /\ UNCHANGED <<opt, cancelled, version, meta, size, worker, failed, dest>>

------------------------------------------------------------------------------
(* Verification and publication.                                             *)

Close ==
  /\ pc = "close"
  /\ pc' \in {"verify", "cleanup"}
  /\ UNCHANGED <<opt, cancelled, version, meta, size, worker, failed, dest, part>>

\* (fault) the checksum is taken of the metadata.
Sound_Trusting == TRUE

\* verifyFile: the file is read again.
Sound == opt.verify /\ opt.summed /\ ~opt.compress => part.bytes = Content(meta)

Verify ==
  /\ pc = "verify"
  /\ \/ Sound /\ pc' = IF opt.overwrite THEN "remove" ELSE "rename"
     \/ pc' = "cleanup"
  /\ UNCHANGED <<opt, cancelled, version, meta, size, worker, failed, dest, part>>

\* finalizeOutput: with --overwrite the destination is removed, on every
\* platform, and a failure to remove it ignored.
RemoveDest ==
  /\ pc = "remove"
  /\ dest' \in {None, dest}
  /\ pc' = "rename"
  /\ UNCHANGED <<opt, cancelled, version, meta, size, worker, failed, part>>

\* AtomicRename; it fails also when its own removal of the target does.
Rename ==
  /\ pc = "rename"
  /\ \/ dest' = part /\ part' = None /\ pc' = "done"
     \/ pc' = "cleanup" /\ UNCHANGED <<dest, part>>
  /\ UNCHANGED <<opt, cancelled, version, meta, size, worker, failed>>

\* (fault) a run that fails leaves its .part.
Cleanup_Leaves ==
  /\ pc = "cleanup"
  /\ pc' = "failed"
  /\ UNCHANGED <<opt, cancelled, version, meta, size, worker, failed, dest, part>>

\* The deferred function.
Cleanup ==
  /\ pc = "cleanup"
  /\ part' = None
  /\ pc' = "failed"
  /\ UNCHANGED <<opt, cancelled, version, meta, size, worker, failed, dest>>

------------------------------------------------------------------------------
(* The world.                                                                *)

\* A signal.
Cancel ==
  /\ pc \notin Terminal
  /\ ~cancelled
  /\ cancelled' = TRUE
  /\ UNCHANGED <<pc, opt, version, meta, size, worker, failed, dest, part>>

Crash ==
  /\ pc \notin Terminal
  /\ pc' = "crashed"
  /\ UNCHANGED <<opt, cancelled, version, meta, size, worker, failed, dest, part>>

\* Another client replaces the object.
Replace ==
  /\ pc \notin Terminal
  /\ version < Len(opt.versions)
  /\ version' = version + 1
  /\ UNCHANGED <<pc, opt, cancelled, meta, size, worker, failed, dest, part>>

\* Somebody else creates the destination.
Appear ==
  /\ Others
  /\ pc \notin Terminal
  /\ dest = None
  /\ dest' = Foreign
  /\ UNCHANGED <<pc, opt, cancelled, version, meta, size, worker, failed, part>>

Main ==
  \/ Stat \/ Check \/ OpenPart
  \/ Attrs \/ Launch \/ Wait
  \/ OpenStream \/ StreamEnds
  \/ Close \/ Verify \/ RemoveDest \/ Rename \/ Cleanup

Work(b) == Request(b) \/ Piece(b) \/ Read(b) \/ WorkerFails(b)

\* The workers live until the process ends.
Workers == pc \notin Terminal /\ \E b \in DOMAIN worker : Work(b)

Environment == Cancel \/ Crash \/ Replace \/ Appear

Ended == pc \in Terminal /\ UNCHANGED vars

Next == Main \/ Workers \/ Environment \/ Ended

Spec == Init /\ [][Next]_vars

------------------------------------------------------------------------------
(* Properties.                                                               *)

\* The shapes of the variables; the file never outgrows the object.
TypeOK ==
  /\ pc \in Terminal \cup {"stat", "check", "open", "fetch", "ranges", "stream", "close",
                           "verify", "remove", "rename", "cleanup"}
  /\ opt \in Opt
  /\ version \in 1 .. Len(opt.versions)
  /\ meta \in 0 .. version
  /\ size \in {0} \cup {opt.versions[v] : v \in 1 .. version}
  /\ Len(worker) <= IF Ranged THEN Blocks ELSE 1
  /\ \A b \in DOMAIN worker :
       /\ worker[b].st \in {"starting", "reading", "ok", "error"}
       /\ worker[b].from \in 0 .. version
       /\ worker[b].from > 0 => worker[b].pos \in 0 .. Length(b)
  /\ {cancelled, failed} \subseteq BOOLEAN
  /\ \A f \in {dest, part} : New(f) =>
       /\ f \in FileState
       /\ Ranged => Len(f.bytes) <= size

\* When the object stays as it is, the file under the final name is all of it,
\* whatever the order in which the ranges arrived and whichever failed on the
\* way.  When it is replaced meanwhile, so it is under --verify; and one
\* stream at least never mixes two versions.
Faithful(f) ==
  /\ f.whole
  /\ version = 1 => f.bytes = Content(1)
  /\ opt.verify /\ opt.summed => f.bytes = Content(meta)
  /\ ~Ranged => \E v \in 1 .. version : f.bytes = Content(v)

\* The workers stay within bounds: never more requests in flight than
\* --concurrency, and none outlives the fetch, so that what is verified is what
\* is published, and nobody writes to a file that was closed, renamed or removed.
WorkersContained ==
  /\ Cardinality(RunningSet) <= opt.workers
  /\ pc \notin {"ranges", "stream", "crashed"} => RunningSet = {}

\* A run that fails leaves no .part of its own, and one that succeeds none.
TempsCleanedUp ==
  /\ pc = "failed" => ~New(part)
  /\ pc = "done" => part = None

\* A file that was at the destination goes only when it may be replaced and
\* its verified replacement lies ready under .part.
OldGoesForReplacement ==
  [][dest = Old /\ dest' # Old => opt.overwrite /\ New(part) /\ Faithful(part)]_vars

\* A file that another process puts at the destination while the run goes on
\* is not seen by it, and so not by the contract.
Contract == INSTANCE GetContract WITH
  target <- IF dest \in {None, Foreign} THEN "absent"
            ELSE IF dest = Old THEN "old"
            ELSE IF Faithful(dest) THEN "new" ELSE "torn",
  replace <- opt.overwrite

\* A download implements the contract of the destination path: in particular
\* what it publishes is faithful, and without --overwrite the old file stays.
ImplementsContract == Contract!Spec
==============================================================================
