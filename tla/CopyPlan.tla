------------------------------- MODULE CopyPlan -------------------------------
(***************************************************************************)
(* cp before anything is copied: the plan is built from the arguments, or  *)
(* from a file of transfers, and validated (internal/transfer/plan.go,     *)
(* glob.go, filelist.go), and the credentials of its GCS legs are looked   *)
(* for (cmd/dimlox/cp.go).  A glob is listed on its provider, entry by     *)
(* entry, and what is listed is matched here.                              *)
(*                                                                         *)
(* Whether a listed key matches the pattern is part of the listing; so is  *)
(* whether it is a prefix.  CopyBatch executes the plan.                   *)
(***************************************************************************)
EXTENDS Credentials

CONSTANTS
  Job  \* the command lines, each with its flags and the world it runs in

\* An argument is a source or a glob with its listing, whose entries have the
\* URI and the name the provider tells; a line of a file is a transfer or none.
ListedEntry == [src : Written, base : Segment, prefix : BOOLEAN, match : BOOLEAN]
Argument == [glob : {FALSE}, src : Written]
              \cup [glob : {TRUE}, src : Written, list : Seq(ListedEntry)]
Line == [kind : {"blank", "broken"}] \cup [kind : {"entry"}, src : Written, dst : Written]

ASSUME JobAssumption ==
  \A j \in Job :
    /\ IsWorld(j.world)
    /\ IsOptions(BaseOptions(j.flags))
    /\ \A side \in {"src", "dst"} : IsOptions(LegOptions(j.flags, side))
    /\ \/ /\ j.form = "args" /\ j.args \in Seq(Argument) /\ j.args # <<>>
          /\ IsUri(j.dst) /\ j.max \in Nat \ {0}
          /\ \A k \in DOMAIN j.args :
               /\ IsUri(j.args[k].src)
               /\ j.args[k].glob =>
                    \A i \in DOMAIN j.args[k].list :
                      IsUri(j.args[k].list[i].src) /\ WellFormed(j.args[k].list[i].src)
       \/ /\ j.form = "file" /\ j.lines \in Seq(Line)
          /\ \A k \in DOMAIN j.lines :
               j.lines[k].kind = "entry" => IsUri(j.lines[k].src) /\ IsUri(j.lines[k].dst)

VARIABLES
  pc,        \* where the preflight is
  job,       \* the command line
  at,        \* the argument, line or item that is next
  entry,     \* the listed entry that is next
  matches,   \* what the glob in progress has matched
  resolved,  \* the sources so far, with the names of their copies
  items,     \* the items of the plan
  seen       \* the normal forms of the destinations checked

vars == <<pc, job, at, entry, matches, resolved, items, seen>>

Terminal == {"done", "refused", "unread"}
Arg == job.args[at]
Listed == Arg.list[entry]

Init ==
  /\ job \in Job
  /\ pc = job.form
  /\ at = 1
  /\ entry = 1
  /\ matches = <<>>
  /\ resolved = <<>>
  /\ items = <<>>
  /\ seen = {}

\* An error return; there is no plan.
Give(up) ==
  /\ pc' = up
  /\ items' = <<>>
  /\ UNCHANGED <<job, at, entry, matches, resolved, seen>>

Refuse == Give("refused")

------------------------------------------------------------------------------
(* Sources from the arguments.                                               *)

\* A source without glob characters.
Explicit ==
  /\ pc = "args" /\ at <= Len(job.args) /\ ~Arg.glob
  /\ IF Basename(Arg.src) = None THEN Refuse
     ELSE /\ resolved' = Append(resolved, [src |-> Arg.src, base |-> Basename(Arg.src)])
          /\ at' = at + 1
          /\ UNCHANGED <<pc, job, entry, matches, items, seen>>

\* (fault) every glob has the whole limit to itself.
Remaining_PerGlob == job.max

\* (fault) the limit itself is too much.
Remaining_Strict == job.max - Len(resolved) - 1

Remaining == job.max - Len(resolved)

\* globListURI: the form of the URI each provider is asked to list; the normal
\* form of a GCS URI is not one that Parse knows.
ListForm == [azblob |-> "azblob", gcs |-> "gcs", local |-> "abs", unknown |-> "other"]

GlobStarts ==
  /\ pc = "args" /\ at <= Len(job.args) /\ Arg.glob
  /\ IF Remaining <= 0 \/ ~WellFormed(Arg.src) \/ ListForm[Provider(Arg.src)] \in RefusedForms
     THEN Refuse
     ELSE /\ pc' = "list"
          /\ entry' = 1
          /\ matches' = <<>>
          /\ UNCHANGED <<job, at, resolved, items, seen>>

\* (fault) the expansion stops where the limit is reached.
AtLimit_Truncates ==
  /\ entry' = Len(Arg.list) + 1
  /\ UNCHANGED <<pc, job, at, matches, resolved, items, seen>>

\* A match too many.
AtLimit == Refuse

Matches(e) == ~e.prefix /\ e.match /\ e.base \notin {"", "."}

ListEntry ==
  /\ pc = "list" /\ entry <= Len(Arg.list)
  /\ IF Matches(Listed) /\ Len(matches) >= Remaining THEN AtLimit
     ELSE /\ matches' = IF Matches(Listed) THEN Append(matches, [src |-> Listed.src, base |-> Listed.base])
                       ELSE matches
          /\ entry' = entry + 1
          /\ UNCHANGED <<pc, job, at, resolved, items, seen>>

\* A page of the listing cannot be fetched.
ListFails == pc = "list" /\ Give("unread")

GlobEnds ==
  /\ pc = "list" /\ entry > Len(Arg.list)
  /\ IF matches = <<>> THEN Refuse
     ELSE /\ resolved' = resolved \o matches
          /\ at' = at + 1
          /\ pc' = "args"
          /\ UNCHANGED <<job, entry, matches, items, seen>>

\* mapResolvedSourcesToDestinations
Destination(source) ==
  IF EndsInSlash(job.dst) THEN JoinDestinationPrefix(job.dst, source.base) ELSE job.dst

MapSources ==
  /\ pc = "args" /\ at > Len(job.args)
  /\ IF Len(resolved) > 1 /\ ~EndsInSlash(job.dst) THEN Refuse
     ELSE /\ items' = [k \in DOMAIN resolved |->
                         [src |-> resolved[k].src, dst |-> Destination(resolved[k])]]
          /\ pc' = "check"
          /\ at' = 1
          /\ UNCHANGED <<job, entry, matches, resolved, seen>>

------------------------------------------------------------------------------
(* Transfers from a file, and the validation of both.                        *)

ReadLine ==
  /\ pc = "file" /\ at <= Len(job.lines)
  /\ LET line == job.lines[at]
     IN IF line.kind = "broken" \/ (line.kind = "entry" /\ ~(WellFormed(line.src) /\ WellFormed(line.dst)))
        THEN Refuse
        ELSE /\ items' = IF line.kind = "blank" THEN items
                         ELSE Append(items, [src |-> line.src, dst |-> line.dst])
             /\ at' = at + 1
             /\ UNCHANGED <<pc, job, entry, matches, resolved, seen>>

\* The file cannot be read, or holds a line beyond the scanner's buffer.
ReadFails == pc = "file" /\ Give("unread")

LinesEnd ==
  /\ pc = "file" /\ at > Len(job.lines)
  /\ IF items = <<>> THEN Refuse
     ELSE /\ pc' = "check"
          /\ at' = 1
          /\ UNCHANGED <<job, entry, matches, resolved, items, seen>>

\* validateCopyPlan, one item.
CheckItem ==
  /\ pc = "check" /\ at <= Len(items)
  /\ IF \/ ~WellFormed(items[at].src) \/ ~WellFormed(items[at].dst)
        \/ Normalized(items[at].dst) \in seen
     THEN Refuse
     ELSE /\ seen' = seen \cup {Normalized(items[at].dst)}
          /\ at' = at + 1
          /\ UNCHANGED <<pc, job, entry, matches, resolved, items>>

CheckEnds ==
  /\ pc = "check" /\ at > Len(items)
  /\ pc' = "legs"
  /\ UNCHANGED <<job, at, entry, matches, resolved, items, seen>>

Leg(item, side) == IF side = "src" THEN item.src ELSE item.dst
HasGcs(side) == \E k \in DOMAIN items : Provider(Leg(items[k], side)) = "gcs"

\* (fault) the destinations' options are looked at for both sides.
LegResolves_DstOnly(side) == ResolveError(job.world, LegOptions(job.flags, "dst")) = "none"

LegResolves(side) == ResolveError(job.world, LegOptions(job.flags, side)) = "none"

\* validateGCSLegSelections; a dry run prints the plan after it.
CheckLegs ==
  /\ pc = "legs"
  /\ IF \E side \in {"src", "dst"} : HasGcs(side) /\ ~LegResolves(side) THEN Refuse
     ELSE pc' = "done" /\ UNCHANGED <<job, at, entry, matches, resolved, items, seen>>

Ended == pc \in Terminal /\ UNCHANGED vars

Next ==
  \/ Explicit \/ GlobStarts \/ ListEntry \/ ListFails \/ GlobEnds \/ MapSources
  \/ ReadLine \/ ReadFails \/ LinesEnd \/ CheckItem \/ CheckEnds \/ CheckLegs
  \/ Ended

Spec == Init /\ [][Next]_vars

------------------------------------------------------------------------------
(* Properties.                                                               *)

\* The shapes of the variables; a glob never holds more than it may.
TypeOK ==
  /\ pc \in {"idle", "args", "list", "file", "check", "legs"} \cup Terminal
  /\ at \in Nat /\ entry \in Nat
  /\ \A k \in DOMAIN resolved : IsUri(resolved[k].src) /\ resolved[k].base \in Segment
  /\ \A k \in DOMAIN matches : IsUri(matches[k].src) /\ matches[k].base \in Segment
  /\ \A k \in DOMAIN items : IsUri(items[k].src) /\ IsUri(items[k].dst)
  /\ pc = "list" => Len(resolved) + Len(matches) <= job.max

HasName(base) == base \notin {None, "", "."}

\* The keys that a listing's first entries bring in: all that match and have a
\* name.
Hits(list) ==
  LET hit[i \in 0 .. Len(list)] ==
        IF i = 0 THEN <<>>
        ELSE IF list[i].match /\ ~list[i].prefix /\ HasName(list[i].base)
             THEN Append(hit[i - 1], [src |-> list[i].src, base |-> list[i].base])
             ELSE hit[i - 1]
  IN hit

\* What an argument stands for.
Selected(arg) ==
  IF arg.glob THEN Hits(arg.list)[Len(arg.list)]
  ELSE <<[src |-> arg.src, base |-> Basename(arg.src)]>>

\* What the first arguments stand for, and how much of it is from globs.
WantedBy(args) ==
  LET wanted[k \in 0 .. Len(args)] ==
        IF k = 0 THEN <<>> ELSE wanted[k - 1] \o Selected(args[k])
  IN wanted

GlobbedBy(args) ==
  LET count[k \in 0 .. Len(args)] ==
        IF k = 0 THEN 0
        ELSE count[k - 1] + (IF args[k].glob THEN Len(Selected(args[k])) ELSE 0)
  IN count

Wanted(args) == WantedBy(args)[Len(args)]
FromGlobs == GlobbedBy(job.args)[Len(job.args)]

\* The sources that the first lines of a file name.
NamedBy(lines) ==
  LET named[k \in 0 .. Len(lines)] ==
        IF k = 0 THEN <<>>
        ELSE IF lines[k].kind = "entry" THEN Append(named[k - 1], lines[k].src)
             ELSE named[k - 1]
  IN named

Sources(list) == [k \in DOMAIN list |-> list[k].src]

\* A plan holds what its arguments stand for, in their order, all of it and
\* nothing else: no match is dropped at the limit, no key beside the pattern
\* gets in, no argument is lost between two listings.  Its globs bring in no
\* more than --max-sources in all.
PlanIsComplete ==
  pc = "done" =>
    IF job.form = "args"
    THEN /\ Sources(items) = Sources(Wanted(job.args))
         /\ FromGlobs <= job.max
    ELSE Sources(items) = NamedBy(job.lines)[Len(job.lines)]

\* A sensible command line is one whose plan makes sense: every source has a
\* name, every glob matches, more than one source needs a prefix, no place is
\* used twice, and every GCS leg has the credentials and the profile it names, a
\* global profile too where the leg has a file of its own.  (docs/usage/cp.md:181
\* has such a leg do without; of that nothing is said here.)
LegsResolvable ==
  LET names == Wanted(job.args)
      Bad(side) == ResolveError(job.world, CopyLegOptions(job.flags, side)) # "none"
  IN /\ Bad("src") => \A k \in DOMAIN names : Provider(names[k].src) # "gcs"
     /\ Bad("dst") => Provider(job.dst) # "gcs"

Sensible ==
  /\ job.form = "args"
  /\ \A k \in DOMAIN job.args :
       /\ WellFormed(job.args[k].src)
       /\ Selected(job.args[k]) # <<>>
       /\ \A i \in DOMAIN Selected(job.args[k]) : HasName(Selected(job.args[k])[i].base)
  /\ LET names == Wanted(job.args)
     IN /\ Len(names) > 1 => EndsInSlash(job.dst)
        /\ \A k \in DOMAIN names : WellFormed(Destination(names[k]))
        /\ \A j, k \in DOMAIN names :
             Place(Destination(names[j])) = Place(Destination(names[k])) => j = k
  /\ LegsResolvable

NoGcsGlob == \A k \in DOMAIN job.args : job.args[k].glob => Provider(job.args[k].src) # "gcs"

PlainBeforeGlob ==
  \E j, k \in DOMAIN job.args : j < k /\ ~job.args[j].glob /\ job.args[k].glob

\* A sensible command line without GCS globs is refused only for its limit: one
\* whose globs all come first only if they match more than --max-sources, which
\* may just be met.  (What counts when a plain source precedes a glob is disputed,
\* see LimitIsForGlobs; then only a line of more sources in all may be refused.)
RefusesOnlyExcess ==
  pc = "refused" /\ Sensible /\ NoGcsGlob =>
    job.max < IF PlainBeforeGlob THEN Len(Wanted(job.args)) ELSE FromGlobs

\* The plan is exactly what was asked for, and there is one whenever it makes
\* sense: nothing is lost, added or cut at the limit (PlanIsComplete), nothing
\* sensible is turned away (RefusesOnlyExcess).
PlanIsExact == PlanIsComplete /\ RefusesOnlyExcess

\* No two transfers of a plan end at one object or file, however it is
\* spelled.
OneTransferPerPlace ==
  pc = "done" =>
    \A j, k \in DOMAIN items :
      /\ Place(items[j].dst) = Place(items[k].dst)
      /\ Key(items[j].dst) # <<>>
      => j = k

\* The options of a leg (docs/setup/gcloud-storage.md:282): its own flags, then
\* the global ones, which a credential file of its own overrides
\* (docs/usage/cp.md:181).
Global(side, value) == IF job.flags.credsOf[side] # None THEN None ELSE value

DocumentedOptions(side) ==
  [project |-> FirstOf(<<job.flags.projectOf[side], Global(side, job.flags.project)>>),
   profile |-> FirstOf(<<job.flags.profileOf[side], Global(side, job.flags.profile)>>),
   creds |-> job.flags.credsOf[side]]

\* The leg has a file of its own beside a global flag that it does not replace.
FileBesideGlobal(side) ==
  /\ job.flags.credsOf[side] # None
  /\ \/ job.flags.project # None /\ job.flags.projectOf[side] = None
     \/ job.flags.profile # None /\ job.flags.profileOf[side] = None

\* When the transfers of a plan start, no GCS leg can miss a profile or a
\* credential file any more ("missing credential files fail before transfers
\* start"): what Copy will make of the flags, by another way than the preflight,
\* resolves; to the documented identity, or to none where that file holds no
\* credentials, and to the documented project.  Of the project nothing is said
\* for a leg with a file beside a global flag: the code keeps the global project,
\* as docs/setup/gcloud-storage.md:290 has it, and docs/usage/cp.md:181 does not.
LegsAsDocumented ==
  pc = "done" =>
    \A side \in {"src", "dst"} :
      HasGcs(side) =>
        LET used == CopyLegOptions(job.flags, side)
            told == DocumentedOptions(side)
        IN /\ ResolveError(job.world, used) = "none"
           /\ ClientIdentity(job.world, used) = Sound(job.world, DocumentedIdentity(job.world, told))
           /\ ~FileBesideGlobal(side) =>
                ResolvedProject(job.world, used) = DocumentedProject(job.world, told)

\* docs/usage/cp.md:16 and 123 show globs on GCS: a sensible command line is
\* refused only for its limit, whatever provider a glob is on.
GlobsArePlanned == pc = "refused" /\ Sensible => Len(Wanted(job.args)) > job.max

\* docs/usage/cp.md:41 and the help of the flag (cmd/dimlox/cp.go:130): a sensible
\* command line whose globs match no more than --max-sources files is not refused,
\* however many sources are named beside them.
LimitIsForGlobs == pc = "refused" /\ Sensible /\ NoGcsGlob => FromGlobs > job.max
==============================================================================
