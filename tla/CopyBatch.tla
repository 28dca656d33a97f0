------------------------------- MODULE CopyBatch -------------------------------
(***************************************************************************)
(* cp: a plan of transfers executed one after the other                    *)
(* (internal/transfer/plan.go), each a download into the landing directory *)
(* and an upload from there (copy.go), and the exit code of the batch      *)
(* (cmd/dimlox/cp.go, exit.go).                                            *)
(*                                                                         *)
(* The two legs are the modules Download and Upload; here a leg is the     *)
(* outcomes those allow.  What a location holds is named by the location   *)
(* that held it first.                                                     *)
(***************************************************************************)
EXTENDS Integers, Sequences, FiniteSets

CONSTANTS
  None,     \* no file or object
  Torn,     \* part of some content
  Cloud,    \* the cloud objects
  Gcs,      \* those of them on GCS
  Local,    \* the paths outside of the landing directory
  Landing,  \* the paths in it
  Land,     \* the landing path of each location: that of its basename
  Job       \* the plans and option records a run may be started with

Loc == Cloud \cup Local \cup Landing

ASSUME LandAssumption == Land \in [Loc -> Landing]
ASSUME LocAssumption ==
  /\ Gcs \subseteq Cloud
  /\ Cloud \cap (Local \cup Landing) = {} /\ Local \cap Landing = {}
  /\ {None, Torn} \cap Loc = {} /\ None # Torn

ASSUME JobAssumption ==
  \A j \in Job :
    /\ j.plan \in Seq([src : Loc, dst : Loc])
    /\ {j.keepLanding, j.continueOnError} \subseteq BOOLEAN
    /\ j.there \subseteq Loc

VARIABLES
  pc,           \* where the run is
  job,          \* its plan and options
  cancelled,    \* the root context is cancelled
  item,         \* the transfer in progress
  file,         \* what each location holds
  carried,      \* what the download of this transfer delivered
  transferred,  \* result.Transferred
  errors,       \* the classes of result.Errors
  skipped,      \* result.Skipped
  exit          \* the exit code

vars == <<pc, job, cancelled, item, file, carried, transferred, errors, skipped, exit>>

Terminal == {"done", "rejected", "crashed"}
Plan == job.plan
Src == Plan[item].src
Dst == Plan[item].dst
LandingPath == Land[Src]

\* The classes of failure the exit code tells apart, and their codes.
Class == {"disk", "corrupt", "auth", "input", "generic"}
Code == [disk |-> 33, corrupt |-> 63, auth |-> 70, input |-> 40, generic |-> 1]

------------------------------------------------------------------------------
(* Exit codes.                                                               *)

\* batchExitRank, and the class worstBatchExitCode settles on.
Rank == [auth |-> 4, corrupt |-> 3, disk |-> 2, generic |-> 1, input |-> 0]
Worst(classes) ==
  CHOOSE c \in classes \cup {"generic"} : \A d \in classes \cup {"generic"} : Rank[c] >= Rank[d]

\* exitCodeFor: the first class in its own order that the error chain contains;
\* a batch error wraps all its failures.
Priority == <<"disk", "corrupt", "auth", "input">>
ExitCodeFor(classes, wrapper) ==
  IF classes \cap {"disk", "corrupt", "auth", "input"} = {} THEN Code[wrapper]
  ELSE LET k == CHOOSE k \in 1 .. 4 :
                  Priority[k] \in classes /\ \A h \in 1 .. k - 1 : Priority[h] \notin classes
       IN Code[Priority[k]]

\* The code of the run: cp wraps the error in a code, main chooses again.
BatchExit ==
  LET classes == {errors[k] : k \in DOMAIN errors}
  IN IF errors = <<>> THEN 0
     ELSE IF job.continueOnError THEN ExitCodeFor(classes, Worst(classes))
     ELSE ExitCodeFor({errors[1]}, errors[1])

------------------------------------------------------------------------------
\* What the locations hold before a run with options j.
Before(j) == [l \in Loc |-> IF l \in j.there THEN l ELSE None]

Init ==
  /\ pc = "validate"
  /\ job \in Job
  /\ cancelled = FALSE
  /\ item = 0
  /\ file = Before(job)
  /\ carried = None
  /\ transferred = 0
  /\ errors = <<>>
  /\ skipped = 0
  /\ exit = 0

\* (fault) destinations may coincide.
Valid_NoCollision == Plan # <<>>

\* validateCopyPlan: something to do, and no two transfers to one destination.
Valid ==
  /\ Plan # <<>>
  /\ \A j, k \in DOMAIN Plan : Plan[j].dst = Plan[k].dst => j = k

Validate ==
  /\ pc = "validate"
  /\ IF Valid THEN pc' = "next" /\ UNCHANGED exit ELSE pc' = "rejected" /\ exit' = Code["input"]
  /\ UNCHANGED <<job, cancelled, item, file, carried, transferred, errors, skipped>>

\* (fault) the loop runs once too often.
MoreItems_OneMore == item <= Len(Plan)

MoreItems == item < Len(Plan)

\* The loop of ExecuteCopyPlan, which does not look at the context.
NextItem ==
  /\ pc = "next"
  /\ MoreItems
  /\ item' = item + 1
  /\ carried' = None
  /\ pc' = "get"
  /\ UNCHANGED <<job, cancelled, file, transferred, errors, skipped, exit>>

\* A call on a cloud object fails once the context is cancelled; the local
\* provider does not look at it.
Refused(loc) == loc \in Cloud /\ cancelled

\* Download with Overwrite: the landing path shows the whole source.
Get ==
  /\ pc = "get"
  /\ ~Refused(Src)
  /\ file[Src] # None
  /\ file' = [file EXCEPT ![LandingPath] = file[Src]]
  /\ carried' = file[Src]
  /\ pc' = "put"
  /\ UNCHANGED <<job, cancelled, item, transferred, errors, skipped, exit>>

\* It fails, before anything was published or after the old file was removed.
GetFails ==
  /\ pc = "get"
  /\ \E c \in Class : errors' = Append(errors, c)
  /\ file' \in {file} \cup (IF Refused(Src) \/ file[Src] = None THEN {}
                            ELSE {[file EXCEPT ![LandingPath] = None]})
  /\ pc' = "failed"
  /\ UNCHANGED <<job, cancelled, item, carried, transferred, skipped, exit>>

\* Upload: the landing file is opened; a local destination is emptied.
Put ==
  /\ pc = "put"
  /\ ~Refused(Dst)
  /\ file' = IF Dst \in Cloud THEN file ELSE [file EXCEPT ![Dst] = Torn]
  /\ pc' = "send"
  /\ UNCHANGED <<job, cancelled, item, carried, transferred, errors, skipped, exit>>

\* The landing file is copied to the destination, as far as it is still there.
Send ==
  /\ pc = "send"
  /\ ~Refused(Dst)
  /\ file' = [file EXCEPT ![Dst] = file[LandingPath]]
  /\ pc' = "putDone"
  /\ UNCHANGED <<job, cancelled, item, carried, transferred, errors, skipped, exit>>

\* A cloud object is left as it was, or is complete with the answer lost, or,
\* on GCS, is cut short by a failed read of the landing file.
PutFails ==
  /\ pc \in {"put", "send"}
  /\ \E c \in Class \ {"corrupt"} : errors' = Append(errors, c)
  /\ file' \in
       {file} \cup
       (IF pc = "send" /\ ~Refused(Dst) /\ Dst \in Cloud
        THEN {[file EXCEPT ![Dst] = f] :
                f \in {file[LandingPath]} \cup (IF Dst \in Gcs THEN {Torn} ELSE {})}
        ELSE {})
  /\ pc' = "putFailed"
  /\ UNCHANGED <<job, cancelled, item, carried, transferred, skipped, exit>>

\* (fault) the landing file is removed after success only.
AfterPut_SuccessOnly ==
  IF job.keepLanding \/ pc = "putFailed" THEN file ELSE [file EXCEPT ![LandingPath] = None]

\* (fault) the source is removed instead.
AfterPut_Source == IF job.keepLanding THEN file ELSE [file EXCEPT ![Src] = None]

\* The deferred removal of the landing file, after success and failure alike.
AfterPut == IF job.keepLanding THEN file ELSE [file EXCEPT ![LandingPath] = None]

CopyReturns ==
  /\ pc \in {"putDone", "putFailed"}
  /\ file' = AfterPut
  /\ transferred' = IF pc = "putDone" THEN transferred + 1 ELSE transferred
  /\ pc' = IF pc = "putDone" THEN "next" ELSE "failed"
  /\ UNCHANGED <<job, cancelled, item, carried, errors, skipped, exit>>

\* A failed transfer ends the batch unless --continue-on-error.
Failed ==
  /\ pc = "failed"
  /\ pc' = IF job.continueOnError THEN "next" ELSE "summary"
  /\ UNCHANGED <<job, cancelled, item, file, carried, transferred, errors, skipped, exit>>

Skipped == Len(Plan) - transferred - Len(errors)

Summary ==
  /\ \/ pc = "next" /\ item = Len(Plan)
     \/ pc = "summary"
  /\ skipped' = Skipped
  /\ exit' = BatchExit
  /\ pc' = "done"
  /\ UNCHANGED <<job, cancelled, item, file, carried, transferred, errors>>

Cancel ==
  /\ pc \notin Terminal
  /\ ~cancelled
  /\ cancelled' = TRUE
  /\ UNCHANGED <<pc, job, item, file, carried, transferred, errors, skipped, exit>>

Crash ==
  /\ pc \notin Terminal
  /\ pc' = "crashed"
  /\ UNCHANGED <<job, cancelled, item, file, carried, transferred, errors, skipped, exit>>

Process ==
  \/ Validate \/ NextItem \/ Get \/ GetFails \/ Put \/ Send \/ PutFails
  \/ CopyReturns \/ Failed \/ Summary

Ended == pc \in Terminal /\ UNCHANGED vars

Next == Process \/ Cancel \/ Crash \/ Ended

Spec == Init /\ [][Next]_vars

------------------------------------------------------------------------------
(* Properties.                                                               *)

\* The shapes of the variables.
TypeOK ==
  /\ pc \in Terminal \cup {"validate", "next", "get", "put", "send", "putDone", "putFailed",
                           "failed", "summary"}
  /\ job \in Job
  /\ cancelled \in BOOLEAN
  /\ item \in 0 .. Len(Plan)
  /\ file \in [Loc -> Loc \cup {None, Torn}]
  /\ carried \in Loc \cup {None, Torn}
  /\ transferred \in 0 .. Len(Plan)
  /\ errors \in Seq(Class)
  /\ skipped \in 0 .. Len(Plan)
  /\ exit \in {0} \cup {Code[c] : c \in Class}

Sources == {Plan[k].src : k \in DOMAIN Plan}
Targets == {Plan[k].dst : k \in DOMAIN Plan}
Landings == {Land[s] : s \in Sources}

\* No transfer reads from or writes to a path the landing files use.
Apart == Landings \cap (Sources \cup Targets) = {}

Start == Before(job)

\* The locations after the first k transfers of a batch of plain copies.
Copies(j) ==
  LET After[k \in 0 .. Len(j.plan)] ==
        IF k = 0 THEN Before(j)
        ELSE [After[k - 1] EXCEPT ![j.plan[k].dst] = After[k - 1][j.plan[k].src]]
  IN After

\* When cp exits with 0, and the landing files are apart from sources and
\* destinations, every location shows what plain copies, done one after the
\* other without a landing area, would have left there; and every destination
\* what its source held at its turn.
BatchCopies ==
  pc = "done" /\ exit = 0 /\ Apart =>
    /\ \A l \in Loc \ Landings : file[l] = Copies(job)[Len(Plan)][l]
    /\ \A k \in DOMAIN Plan : file[Plan[k].dst] = Copies(job)[k - 1][Plan[k].src]

\* Whatever happens, a location that is no destination and no landing file
\* keeps its content; and a destination is only ever cut short by its own
\* transfer: one that was transferred stays whole.
OnlyPlannedChanges ==
  Apart =>
    /\ \A l \in Loc \ (Targets \cup Landings) : file[l] = Start[l]
    /\ \A k \in DOMAIN Plan : k > item => file[Plan[k].dst] = Start[Plan[k].dst]
    /\ ~job.continueOnError =>
         \A k \in DOMAIN Plan : k < item => file[Plan[k].dst] \notin {None, Torn}

\* A batch does what its plan says: after a success all of it (BatchCopies), and
\* at no time anything else (OnlyPlannedChanges).
BatchFollowsPlan == BatchCopies /\ OnlyPlannedChanges

\* Without --keep-landing no transfer that came to its upload leaves a landing
\* file, unless another transfer has that path as its destination; and with it
\* every copied source is still there, if their basenames differ.
LandingManaged ==
  pc = "done" =>
    /\ ~job.keepLanding => \A l \in Landings \ Targets : file[l] \in {None, Start[l]}
    /\ job.keepLanding /\ exit = 0 /\ Apart /\ Cardinality(Landings) = Len(Plan) =>
         \A k \in DOMAIN Plan : file[Land[Plan[k].src]] = file[Plan[k].dst]

\* "The batch returns the worst failure class seen during the run."
ExitIsWorst ==
  pc = "done" /\ job.continueOnError /\ errors # <<>> =>
    exit = Code[Worst({errors[k] : k \in DOMAIN errors})]

\* "`cp` copies data": after a copy the sources are still there.
SourcesSurvive ==
  pc = "done" /\ exit = 0 => \A s \in Sources \ Targets : file[s] = Start[s]

==============================================================================
