-------------------------------- MODULE Upload --------------------------------
(***************************************************************************)
(* One upload (internal/transfer/upload.go) of a local file to an object:  *)
(* with --compress the file is gzipped to a temporary in the landing       *)
(* directory first; the provider then writes the destination.  The local   *)
(* provider writes it in place, GCS publishes what was sent when the       *)
(* writer is closed, Azure commits the staged blocks at the end.           *)
(*                                                                         *)
(* Content is counted in pieces, the gzip trailer being one: a file or an  *)
(* object of n pieces is the first n of what is to be uploaded.            *)
(***************************************************************************)
EXTENDS Integers, FiniteSets

CONSTANTS
  None,  \* no file or object of that name
  Old,   \* the object that was there before
  Opt    \* the option records a run may be started with

ASSUME MarkersAssumption == None # Old /\ {None, Old} \cap Nat = {}

\* pieces: of the source; kind: the destination's provider; lateErrors: the
\* file system of a local destination reports write errors at close only.
ASSUME OptAssumption ==
  \A o \in Opt : /\ o.pieces \in Nat
                 /\ o.kind \in {"local", "gcs", "azblob"}
                 /\ {o.compress, o.lateErrors} \subseteq BOOLEAN

VARIABLES
  pc,         \* where the run is
  opt,        \* its options
  cancelled,  \* the root context is cancelled
  temp,       \* the gzip temporary
  sent,       \* pieces read from the source and handed to the destination
  readError,  \* the source could not be read to its end
  dest        \* what the destination shows

vars == <<pc, opt, cancelled, temp, sent, readError, dest>>

Terminal == {"done", "failed", "crashed"}

Total == opt.pieces + IF opt.compress THEN 1 ELSE 0
Remote == opt.kind # "local"
Refused == Remote /\ cancelled

Init ==
  /\ pc = "open"
  /\ opt \in Opt
  /\ cancelled = FALSE
  /\ temp = None
  /\ sent = 0
  /\ readError = FALSE
  /\ dest \in {None, Old}

------------------------------------------------------------------------------
(* prepareUploadSource.                                                      *)

Open ==
  /\ pc = "open"
  /\ pc' \in {IF opt.compress THEN "temp" ELSE "resolve", "failed"}
  /\ UNCHANGED <<opt, cancelled, temp, sent, readError, dest>>

CreateTemp ==
  /\ pc = "temp"
  /\ \/ temp' = 0 /\ pc' = "gzip"
     \/ pc' = "failed" /\ UNCHANGED temp
  /\ UNCHANGED <<opt, cancelled, sent, readError, dest>>

\* Copying the source through gzip; the context is not looked at.
Gzip ==
  /\ pc = "gzip"
  /\ temp < opt.pieces
  /\ temp' = temp + 1
  /\ UNCHANGED <<pc, opt, cancelled, sent, readError, dest>>

CloseGzip ==
  /\ pc = "gzip"
  /\ temp = opt.pieces
  /\ temp' = temp + 1
  /\ pc' = "seek"
  /\ UNCHANGED <<opt, cancelled, sent, readError, dest>>

Seek ==
  /\ pc = "seek"
  /\ pc' = "resolve"
  /\ UNCHANGED <<opt, cancelled, temp, sent, readError, dest>>

\* (fault) the temporary is closed and left.
PrepareFails_Leaves ==
  /\ pc \in {"gzip", "seek"}
  /\ pc' = "failed"
  /\ UNCHANGED <<opt, cancelled, temp, sent, readError, dest>>

\* Any of the three fails: the temporary is removed on the spot.
PrepareFails ==
  /\ pc \in {"gzip", "seek"}
  /\ temp' = None
  /\ pc' = "failed"
  /\ UNCHANGED <<opt, cancelled, sent, readError, dest>>

------------------------------------------------------------------------------
(* The transfer.                                                             *)

\* (fault) the end of the source is noticed one read late.
Available_OneMore == 1 + IF opt.compress THEN temp ELSE opt.pieces

\* What a read of the source can give: the gzip stream up to its trailer, or
\* the file.
Available == IF opt.compress THEN temp ELSE opt.pieces

\* The provider, and Stat of the source.
Resolve ==
  /\ pc = "resolve"
  /\ pc' \in {"begin", "cleanup"}
  /\ UNCHANGED <<opt, cancelled, temp, sent, readError, dest>>

\* (fault) a cloud object is created empty and then filled.
Begun_InPlace == 0

\* os.Create empties a local destination; a remote one is not touched yet.
Begun == IF Remote THEN dest ELSE 0

Begin ==
  /\ pc = "begin"
  /\ \/ ~Refused /\ dest' = Begun /\ pc' = "send"
     \/ pc' = "cleanup" /\ UNCHANGED dest
  /\ UNCHANGED <<opt, cancelled, temp, sent, readError>>

Send ==
  /\ pc = "send"
  /\ sent < Available
  /\ sent' = sent + 1
  /\ dest' = IF Remote THEN dest ELSE dest + 1
  /\ UNCHANGED <<pc, opt, cancelled, temp, readError>>

\* A write or a request fails; nothing has been committed.
SendFails ==
  /\ pc = "send"
  /\ pc' = "cleanup"
  /\ UNCHANGED <<opt, cancelled, temp, sent, readError, dest>>

\* The GCS writer is closed also when the source could not be read on, and
\* closing it publishes what was sent, unless that fails or was cancelled.
AfterReadError == IF opt.kind = "gcs" /\ ~cancelled THEN {dest, sent} ELSE {dest}

ReadFails ==
  /\ pc = "send"
  /\ readError' = TRUE
  /\ dest' \in AfterReadError
  /\ pc' = "cleanup"
  /\ UNCHANGED <<opt, cancelled, temp, sent>>

\* (fault) a commit may come before the last piece.
AllSent_Early == sent + 1 >= Available

AllSent == sent = Available

\* Close or the block list: one request, whose answer may be lost.  The result
\* of closing a local file is not looked at.
Commit ==
  /\ pc = "send"
  /\ AllSent
  /\ IF Remote
     THEN \/ ~cancelled /\ dest' = sent /\ pc' = "finish"
          \/ dest' \in {dest, sent} /\ pc' = "cleanup"
     ELSE dest' \in {dest} \cup (IF opt.lateErrors THEN 0 .. dest ELSE {}) /\ pc' = "finish"
  /\ UNCHANGED <<opt, cancelled, temp, sent, readError>>

\* The deferred cleanup of the temporary, after success and after failure.
Cleanup ==
  /\ pc \in {"finish", "cleanup"}
  /\ temp' = None
  /\ pc' = IF pc = "finish" THEN "done" ELSE "failed"
  /\ UNCHANGED <<opt, cancelled, sent, readError, dest>>

------------------------------------------------------------------------------
Cancel ==
  /\ pc \notin Terminal
  /\ ~cancelled
  /\ cancelled' = TRUE
  /\ UNCHANGED <<pc, opt, temp, sent, readError, dest>>

Crash ==
  /\ pc \notin Terminal
  /\ pc' = "crashed"
  /\ UNCHANGED <<opt, cancelled, temp, sent, readError, dest>>

Process ==
  \/ Open \/ CreateTemp \/ Gzip \/ CloseGzip \/ Seek \/ PrepareFails
  \/ Resolve \/ Begin \/ Send \/ SendFails \/ ReadFails \/ Commit \/ Cleanup

Ended == pc \in Terminal /\ UNCHANGED vars

Next == Process \/ Cancel \/ Crash \/ Ended

Spec == Init /\ [][Next]_vars

------------------------------------------------------------------------------
(* Properties.                                                               *)

\* The shapes of the variables; nothing grows beyond the content.
TypeOK ==
  /\ pc \in Terminal \cup {"open", "temp", "gzip", "seek", "resolve", "begin", "send",
                           "finish", "cleanup"}
  /\ opt \in Opt
  /\ {cancelled, readError} \subseteq BOOLEAN
  /\ temp \in {None} \cup (0 .. Total)
  /\ sent \in 0 .. Total
  /\ dest \in {None, Old} \cup (0 .. Total)

\* A run that reports success has delivered everything, gzip trailer included,
\* provided the file system of a local destination reports errors in time.
SuccessIsWhole == pc \in {"finish", "done"} /\ ~opt.lateErrors => dest = Total

\* A cloud object is replaced in one step: at no time, and after no failure,
\* signal or kill, does it show part of the content.  The exception is GCS
\* after a failed read of the source.
RemoteAllOrNothing ==
  Remote => dest \in {None, Old, Total} \/ (opt.kind = "gcs" /\ readError)

\* What an upload leaves at its destination: all of it after a success
\* (SuccessIsWhole) and, in a cloud, at no time a part of it
\* (RemoteAllOrNothing).
WholeOrNothing == SuccessIsWhole /\ RemoteAllOrNothing

\* "Uploads remove compressed temp files", after every run that ends other than
\* by a kill; and the temporary is there, whole, as long as it is being sent.
TempManaged ==
  /\ pc \in {"done", "failed"} => temp = None
  /\ pc \in {"resolve", "begin", "send"} => temp = IF opt.compress THEN Total ELSE None

==============================================================================
