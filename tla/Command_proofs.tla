---------------------------- MODULE Command_proofs ----------------------------
(***************************************************************************)
(* Theorems about the plan of cp, the preflight of split, doctor, and a    *)
(* process that runs one of the three, for every command line, listing and *)
(* file of transfers, every spelling of the destinations, every limit, and *)
(* every world the credentials are in.                                     *)
(*                                                                         *)
(* Credentials: the orders in which dimlox and the SDK search are, taken   *)
(* together, the documented one.                                           *)
(*                                                                         *)
(* CopyPlan: DistinctInv says what the validation has established so far;  *)
(* the last step from normal forms to places is OnePlace.  That the legs   *)
(* of a plan are what the documentation says rests on the facts about      *)
(* Credentials, and on SameOptions: the preflight and Copy make theirs in  *)
(* two ways.  ShapesInv types the lists.  ExactInv says how much of what   *)
(* was asked for is in them at each step; it rests on what the functions   *)
(* that choose from a listing (HasName, Hits, WantedBy) are, each of which *)
(* is shown to exist by induction over its argument.                       *)
(*                                                                         *)
(* SplitPlan: SplitInv says that the longest path seen is the longest of   *)
(* the plan; that no output is longer rests on Digits growing with its     *)
(* number.                                                                 *)
(*                                                                         *)
(* Doctor: it searches for credentials by itself; SameSearch compares that *)
(* search with the client's.  ProbesInv says, for each stage, what has     *)
(* been found out when it is reached.                                      *)
(*                                                                         *)
(* Command: what is idle stays as it is, and every step is one of the      *)
(* command that runs.                                                      *)
(***************************************************************************)
EXTENDS Command, SequenceTheorems, WellFoundedInduction, TLAPS

------------------------------------------------------------------------------
------------------------------------------------------------------------------
(* Credentials.                                                             *)

\* FirstOf is the first.
LEMMA FirstThere ==
  ASSUME NEW c, NEW k \in DOMAIN c, c[k] # None, DOMAIN c \subseteq Nat,
         \A j \in DOMAIN c : j < k => c[j] = None
  PROVE  FirstOf(c) = c[k]
<1>. DEFINE there == {i \in DOMAIN c : c[i] # None}
<1>1. k \in there /\ \A j \in there : k <= j
  OBVIOUS
<1>2. \A i \in there : (\A j \in there : i <= j) => i = k
  BY <1>1
<1>3. (CHOOSE i \in there : \A j \in there : i <= j) = k
  BY <1>1, <1>2
<1>. QED
  BY <1>1, <1>3 DEF FirstOf

\* Where every candidate is missing, there is no first one.
LEMMA NoneThere ==
  ASSUME NEW c, \A j \in DOMAIN c : c[j] = None
  PROVE  FirstOf(c) = None
  BY DEF FirstOf

\* The first of two candidates is the one, or else the other.
LEMMA FirstOfTwo ==
  ASSUME NEW c, DOMAIN c = 1 .. 2
  PROVE  FirstOf(c) = Else(c[1], c[2])
<1>1. CASE c[1] # None
  <2>1. DOMAIN c \subseteq Nat /\ 1 \in DOMAIN c /\ \A j \in DOMAIN c : j < 1 => c[j] = None
    BY <1>1
  <2>2. FirstOf(c) = c[1]
    BY <1>1, <2>1, FirstThere
  <2>. QED
    BY <1>1, <2>2 DEF Else
<1>2. CASE c[1] = None /\ c[2] # None
  <2>1. DOMAIN c \subseteq Nat /\ 2 \in DOMAIN c /\ \A j \in DOMAIN c : j < 2 => c[j] = None
    BY <1>2
  <2>2. FirstOf(c) = c[2]
    BY <1>2, <2>1, FirstThere
  <2>. QED
    BY <1>2, <2>2 DEF Else
<1>3. CASE c[1] = None /\ c[2] = None
  <2>1. \A j \in DOMAIN c : c[j] = None
    BY <1>3
  <2>. QED
    BY <1>3, <2>1, NoneThere DEF Else
<1>. QED
  BY <1>1, <1>2, <1>3

\* ... of four,
LEMMA FirstOfFour ==
  ASSUME NEW c, DOMAIN c = 1 .. 4
  PROVE  FirstOf(c) = Else(c[1], Else(c[2], Else(c[3], c[4])))
<1>1. CASE c[1] # None
  <2>1. DOMAIN c \subseteq Nat /\ 1 \in DOMAIN c /\ \A j \in DOMAIN c : j < 1 => c[j] = None
    BY <1>1
  <2>2. FirstOf(c) = c[1]
    BY <1>1, <2>1, FirstThere
  <2>. QED
    BY <1>1, <2>2 DEF Else
<1>2. CASE c[1] = None /\ c[2] # None
  <2>1. DOMAIN c \subseteq Nat /\ 2 \in DOMAIN c /\ \A j \in DOMAIN c : j < 2 => c[j] = None
    BY <1>2
  <2>2. FirstOf(c) = c[2]
    BY <1>2, <2>1, FirstThere
  <2>. QED
    BY <1>2, <2>2 DEF Else
<1>3. CASE c[1] = None /\ c[2] = None /\ c[3] # None
  <2>1. DOMAIN c \subseteq Nat /\ 3 \in DOMAIN c /\ \A j \in DOMAIN c : j < 3 => c[j] = None
    BY <1>3
  <2>2. FirstOf(c) = c[3]
    BY <1>3, <2>1, FirstThere
  <2>. QED
    BY <1>3, <2>2 DEF Else
<1>4. CASE c[1] = None /\ c[2] = None /\ c[3] = None /\ c[4] # None
  <2>1. DOMAIN c \subseteq Nat /\ 4 \in DOMAIN c /\ \A j \in DOMAIN c : j < 4 => c[j] = None
    BY <1>4
  <2>2. FirstOf(c) = c[4]
    BY <1>4, <2>1, FirstThere
  <2>. QED
    BY <1>4, <2>2 DEF Else
<1>5. CASE c[1] = None /\ c[2] = None /\ c[3] = None /\ c[4] = None
  <2>1. \A j \in DOMAIN c : c[j] = None
    BY <1>5
  <2>. QED
    BY <1>5, <2>1, NoneThere DEF Else
<1>. QED
  BY <1>1, <1>2, <1>3, <1>4, <1>5

\* ... and of five.
LEMMA FirstOfFive ==
  ASSUME NEW c, DOMAIN c = 1 .. 5
  PROVE  FirstOf(c) = Else(c[1], Else(c[2], Else(c[3], Else(c[4], c[5]))))
<1>1. CASE c[1] # None
  <2>1. DOMAIN c \subseteq Nat /\ 1 \in DOMAIN c /\ \A j \in DOMAIN c : j < 1 => c[j] = None
    BY <1>1
  <2>2. FirstOf(c) = c[1]
    BY <1>1, <2>1, FirstThere
  <2>. QED
    BY <1>1, <2>2 DEF Else
<1>2. CASE c[1] = None /\ c[2] # None
  <2>1. DOMAIN c \subseteq Nat /\ 2 \in DOMAIN c /\ \A j \in DOMAIN c : j < 2 => c[j] = None
    BY <1>2
  <2>2. FirstOf(c) = c[2]
    BY <1>2, <2>1, FirstThere
  <2>. QED
    BY <1>2, <2>2 DEF Else
<1>3. CASE c[1] = None /\ c[2] = None /\ c[3] # None
  <2>1. DOMAIN c \subseteq Nat /\ 3 \in DOMAIN c /\ \A j \in DOMAIN c : j < 3 => c[j] = None
    BY <1>3
  <2>2. FirstOf(c) = c[3]
    BY <1>3, <2>1, FirstThere
  <2>. QED
    BY <1>3, <2>2 DEF Else
<1>4. CASE c[1] = None /\ c[2] = None /\ c[3] = None /\ c[4] # None
  <2>1. DOMAIN c \subseteq Nat /\ 4 \in DOMAIN c /\ \A j \in DOMAIN c : j < 4 => c[j] = None
    BY <1>4
  <2>2. FirstOf(c) = c[4]
    BY <1>4, <2>1, FirstThere
  <2>. QED
    BY <1>4, <2>2 DEF Else
<1>5. CASE c[1] = None /\ c[2] = None /\ c[3] = None /\ c[4] = None /\ c[5] # None
  <2>1. DOMAIN c \subseteq Nat /\ 5 \in DOMAIN c /\ \A j \in DOMAIN c : j < 5 => c[j] = None
    BY <1>5
  <2>2. FirstOf(c) = c[5]
    BY <1>5, <2>1, FirstThere
  <2>. QED
    BY <1>5, <2>2 DEF Else
<1>6. CASE c[1] = None /\ c[2] = None /\ c[3] = None /\ c[4] = None /\ c[5] = None
  <2>1. \A j \in DOMAIN c : c[j] = None
    BY <1>6
  <2>. QED
    BY <1>6, <2>1, NoneThere DEF Else
<1>. QED
  BY <1>1, <1>2, <1>3, <1>4, <1>5, <1>6

\* Options that resolve: the profile, if there is one, is in the world, and so
\* is the file.
LEMMA Resolves ==
  ASSUME NEW w, IsWorld(w), NEW o, IsOptions(o), ResolveError(w, o) = "none"
  PROVE  /\ o.profile # None <=> o.profile \in DOMAIN w.profiles
         /\ ProfileOverride(w, o) \in File \cup {None}
         /\ CredsFile(w, o) \in File \cup {None}
         /\ ProfileOverride(w, o) =
              IF o.profile \in DOMAIN w.profiles THEN w.profiles[o.profile].override ELSE None
         /\ ProfileProject(w, o) =
              IF o.profile \in DOMAIN w.profiles THEN w.profiles[o.profile].project ELSE None
<1>1. o.profile # None <=> o.profile \in DOMAIN w.profiles
  BY CredentialsAssumption DEF IsWorld, IsOptions, ResolveError, Missing
<1>. QED
  BY <1>1 DEF IsWorld, IsOptions, ProfileOverride, ProfileProject, CredsFile, Else

\* resolveProjectID's choice is the first documented candidate.
LEMMA ProjectAsDocumented ==
  ASSUME NEW w, IsWorld(w), NEW o, IsOptions(o), ResolveError(w, o) = "none"
  PROVE  ResolvedProject(w, o) = DocumentedProject(w, o)
  BY Resolves, FirstOfFour DEF ResolvedProject, DocumentedProject, EnvProject

\* The SDK's own order is the rest of the documented one.
LEMMA IdentityAsDocumented ==
  ASSUME NEW w, IsWorld(w), NEW o, IsOptions(o), ResolveError(w, o) = "none"
  PROVE  ClientIdentity(w, o) = Sound(w, DocumentedIdentity(w, o))
<1>. DEFINE found == IF Exists(w, w.sdkAdc) THEN w.sdkAdc ELSE None
            server == IF w.metadata # "down" THEN "metadata" ELSE None
<1>1. DocumentedIdentity(w, o) =
        Else(o.creds, Else(ProfileOverride(w, o), Else(w.env, Else(found, server))))
  BY Resolves, FirstOfFive DEF DocumentedIdentity
<1>2. DocumentedIdentity(w, o) = Else(CredsFile(w, o), Else(w.env, Else(found, server)))
  BY <1>1 DEF CredsFile, Else
<1>3. /\ CredsFile(w, o) \in File \cup {None} /\ w.env \in File \cup {None}
      /\ w.sdkAdc \in File /\ None \notin File /\ "metadata" \notin File
  BY Resolves, CredentialsAssumption DEF IsWorld
<1>4. ClientIdentity(w, o) = IF CredsFile(w, o) # None THEN Holds(w, CredsFile(w, o))
                             ELSE SdkIdentity(w)
  BY DEF ClientIdentity
<1>. QED
  BY <1>2, <1>3, <1>4 DEF SdkIdentity, Sound, Else

------------------------------------------------------------------------------
------------------------------------------------------------------------------
(* The plan of cp.                                                          *)

IsSequence(s) == \E S : s \in Seq(S)

\* What CheckItem has established for the first n items.
Checked(n) ==
  /\ \A k \in 1 .. n : WellFormed(items[k].dst) /\ Normalized(items[k].dst) \in seen
  /\ \A j, k \in 1 .. n : Normalized(items[j].dst) = Normalized(items[k].dst) => j = k

Gathering == {"args", "list", "file"}

SequencesInv == IsSequence(resolved) /\ IsSequence(matches) /\ IsSequence(items)

DistinctInv ==
  /\ pc \in Gathering => seen = {}
  /\ pc = "check" => at \in 1 .. Len(items) + 1 /\ Checked(at - 1)
                     /\ \A n \in seen : \E k \in 1 .. at - 1 : n = Normalized(items[k].dst)
  /\ pc \in {"legs", "done"} => Checked(Len(items))

\* The legs are looked at last.
LegsInv == pc = "done" => \A side \in {"src", "dst"} : HasGcs(side) => LegResolves(side)

PlanInv ==
  /\ pc \in Gathering \cup {"idle", "check", "legs"} \cup Terminal
  /\ SequencesInv /\ DistinctInv /\ LegsInv

USE DEF Gathering

------------------------------------------------------------------------------
(* Sequences.                                                                *)

\* A sequence that grows by one element is one.
LEMMA GrowsByOne ==
  ASSUME NEW s, NEW e, IsSequence(s)
  PROVE  IsSequence(Append(s, e))
<1>1. PICK S : s \in Seq(S)
  BY DEF IsSequence
<1>2. s \in Seq(S \cup {e})
  BY <1>1
<1>3. Append(s, e) \in Seq(S \cup {e})
  BY <1>2
<1>. QED
  BY <1>3 DEF IsSequence

\* Two sequences in a row are one.
LEMMA Joined ==
  ASSUME NEW s, NEW t, IsSequence(s), IsSequence(t)
  PROVE  IsSequence(s \o t)
<1>1. PICK S : s \in Seq(S)
  BY DEF IsSequence
<1>2. PICK T : t \in Seq(T)
  BY DEF IsSequence
<1>3. s \in Seq(S \cup T) /\ t \in Seq(S \cup T)
  BY <1>1, <1>2
<1>4. s \o t \in Seq(S \cup T)
  BY <1>3
<1>. QED
  BY <1>4 DEF IsSequence

\* Element by element, a sequence makes another.
LEMMA Mapped ==
  ASSUME NEW s, NEW t, IsSequence(s), t = [k \in DOMAIN s |-> t[k]]
  PROVE  IsSequence(t)
<1>1. PICK S : s \in Seq(S)
  BY DEF IsSequence
<1>2. DOMAIN s = 1 .. Len(s) /\ Len(s) \in Nat
  BY <1>1
<1>. DEFINE T == {t[k] : k \in DOMAIN s}
<1>3. t \in [1 .. Len(s) -> T]
  BY <1>2
<1>4. t \in Seq(T)
  BY <1>2, <1>3
<1>. QED
  BY <1>4 DEF IsSequence

\* An empty list is a list.
LEMMA EmptySequence == IsSequence(<<>>)
<1>1. <<>> \in Seq({})
  OBVIOUS
<1>. QED
  BY <1>1 DEF IsSequence

------------------------------------------------------------------------------
(* The plan.                                                                 *)

\* PlanInv holds at first,
LEMMA InitInv == Init => PlanInv
<1>. SUFFICES ASSUME Init PROVE PlanInv
  OBVIOUS
<1>1. pc \in {"args", "file"}
  BY JobAssumption DEF Init
<1>2. SequencesInv
  BY EmptySequence DEF Init, SequencesInv
<1>3. DistinctInv /\ LegsInv
  BY <1>1 DEF Init, DistinctInv, LegsInv
<1>. QED
  BY <1>1, <1>2, <1>3 DEF PlanInv

\* A refusal leaves nothing to be right about.
LEMMA GiveStep ==
  ASSUME PlanInv, NEW up \in {"refused", "unread"}, Give(up)
  PROVE  PlanInv'
<1>1. SequencesInv'
  BY EmptySequence DEF PlanInv, SequencesInv, Give
<1>. QED
  BY <1>1 DEF PlanInv, DistinctInv, LegsInv, Give, Terminal

\* Before the validation only the sequences grow.
LEMMA GatherStep ==
  ASSUME PlanInv, pc \in Gathering, pc' \in Gathering, seen' = seen, SequencesInv'
  PROVE  PlanInv'
  BY DEF PlanInv, DistinctInv, LegsInv

\* ... while arguments are gathered and globs listed,
LEMMA ArgumentStep ==
  ASSUME PlanInv, Explicit \/ GlobStarts \/ ListEntry \/ ListFails \/ GlobEnds
  PROVE  PlanInv'
<1>. USE DEF PlanInv, SequencesInv
<1>1. CASE Explicit
  BY <1>1, GiveStep, GatherStep, GrowsByOne DEF Explicit, Refuse
<1>2. CASE GlobStarts
  BY <1>2, GiveStep, GatherStep, EmptySequence DEF GlobStarts, Refuse
<1>3. CASE ListEntry
  BY <1>3, GiveStep, GatherStep, GrowsByOne DEF ListEntry, AtLimit, Refuse
<1>4. CASE ListFails
  BY <1>4, GiveStep DEF ListFails
<1>5. CASE GlobEnds
  BY <1>5, GiveStep, GatherStep, Joined DEF GlobEnds, Refuse
<1>. QED
  BY <1>1, <1>2, <1>3, <1>4, <1>5

\* The validation begins with nothing checked.
LEMMA CheckBegins ==
  ASSUME PlanInv, pc \in Gathering, pc' = "check", at' = 1, seen' = seen,
         UNCHANGED <<resolved, matches>>, IsSequence(items')
  PROVE  PlanInv'
<1>1. Len(items') \in Nat
  <2>1. PICK S : items' \in Seq(S)
    BY DEF IsSequence
  <2>. QED
    BY <2>1
<1>2. DistinctInv'
  BY <1>1 DEF PlanInv, DistinctInv, Checked
<1>. QED
  BY <1>2 DEF PlanInv, SequencesInv, LegsInv

\* ... while sources are mapped and lines read,
LEMMA ItemsStep ==
  ASSUME PlanInv, MapSources \/ ReadLine \/ ReadFails \/ LinesEnd
  PROVE  PlanInv'
<1>. USE DEF PlanInv, SequencesInv
<1>1. CASE MapSources
  <2>1. ASSUME UNCHANGED <<resolved>>,
               items' = [k \in DOMAIN resolved |->
                           [src |-> resolved[k].src, dst |-> Destination(resolved[k])]]
        PROVE  IsSequence(items')
    BY <2>1, Mapped
  <2>. QED
    BY <1>1, <2>1, GiveStep, CheckBegins DEF MapSources, Refuse
<1>2. CASE ReadLine
  BY <1>2, GiveStep, GatherStep, GrowsByOne DEF ReadLine, Refuse
<1>3. CASE ReadFails
  BY <1>3, GiveStep DEF ReadFails
<1>4. CASE LinesEnd
  BY <1>4, GiveStep, CheckBegins DEF LinesEnd, Refuse
<1>. QED
  BY <1>1, <1>2, <1>3, <1>4

\* An item that passes is told apart from all before it.
LEMMA CheckStep ==
  ASSUME PlanInv, CheckItem \/ CheckEnds
  PROVE  PlanInv'
<1>0. PICK S : items \in Seq(S)
  BY DEF PlanInv, SequencesInv, IsSequence
<1>1. CASE CheckItem
  <2>1. CASE Refuse
    BY <2>1, GiveStep DEF Refuse
  <2>2. CASE ~Refuse
    <3>1. /\ pc = "check" /\ pc' = "check" /\ at <= Len(items)
          /\ WellFormed(items[at].dst) /\ Normalized(items[at].dst) \notin seen
          /\ seen' = seen \cup {Normalized(items[at].dst)} /\ at' = at + 1
          /\ UNCHANGED <<resolved, matches, items>>
      BY <1>1, <2>2 DEF CheckItem
    <3>2. at \in 1 .. Len(items) /\ Len(items) \in Nat /\ at' - 1 = at
      BY <1>0, <3>1 DEF PlanInv, DistinctInv
    <3>3. /\ Checked(at - 1)
          /\ \A n \in seen : \E k \in 1 .. at - 1 : n = Normalized(items[k].dst)
      BY <3>1 DEF PlanInv, DistinctInv
    <3>4. \A k \in 1 .. at : k \in 1 .. at - 1 \/ k = at
      BY <3>2
    <3>5. \A k \in 1 .. at : WellFormed(items[k].dst) /\ Normalized(items[k].dst) \in seen'
      BY <3>1, <3>3, <3>4 DEF Checked
    <3>6. \A j, k \in 1 .. at : Normalized(items[j].dst) = Normalized(items[k].dst) => j = k
      BY <3>1, <3>3, <3>4 DEF Checked
    <3>7. \A n \in seen' : \E k \in 1 .. at : n = Normalized(items[k].dst)
      BY <3>1, <3>2, <3>3
    <3>. QED
      BY <3>1, <3>2, <3>5, <3>6, <3>7 DEF PlanInv, SequencesInv, DistinctInv, LegsInv, Checked
  <2>. QED
    BY <2>1, <2>2
<1>2. CASE CheckEnds
  <2>1. at - 1 = Len(items)
    BY <1>0, <1>2 DEF CheckEnds, PlanInv, DistinctInv
  <2>. QED
    BY <1>2, <2>1 DEF CheckEnds, PlanInv, SequencesInv, DistinctInv, LegsInv, Checked
<1>. QED
  BY <1>1, <1>2

\* ... when the legs are checked,
LEMMA LegsStep == ASSUME PlanInv, CheckLegs PROVE PlanInv'
<1>1. CASE Refuse
  BY <1>1, GiveStep DEF Refuse
<1>2. CASE ~Refuse
  <2>1. /\ pc = "legs" /\ pc' = "done"
        /\ UNCHANGED <<job, at, entry, matches, resolved, items, seen>>
        /\ \A side \in {"src", "dst"} : HasGcs(side) => LegResolves(side)
    BY <1>2 DEF CheckLegs
  <2>2. LegsInv'
    BY <2>1 DEF LegsInv, HasGcs, LegResolves, Leg
  <2>. QED
    BY <2>1, <2>2 DEF PlanInv, SequencesInv, DistinctInv, Checked, Terminal
<1>. QED
  BY <1>1, <1>2

\* A step that changes nothing.
LEMMA StutterStep == ASSUME PlanInv, UNCHANGED vars PROVE PlanInv'
  BY DEF PlanInv, SequencesInv, DistinctInv, LegsInv, Checked, HasGcs, Leg, LegResolves, vars

\* ... so whatever the step.
LEMMA NextInv == PlanInv /\ [Next]_vars => PlanInv'
  BY ArgumentStep, ItemsStep, CheckStep, LegsStep, StutterStep DEF Next, Ended

\* Every state of the preflight is as PlanInv says.
THEOREM PlanInvariance == Spec => []PlanInv
  BY InitInv, NextInv, PTL DEF Spec

------------------------------------------------------------------------------
(* Places.                                                                   *)

\* Of a slash alone nothing is left.
LEMMA SlashTrimmed == TrimRight(<<"">>) = <<>>
<1>1. ASSUME NEW e
      PROVE  {k \in DOMAIN <<e>> : <<e>>[k] # e} = {}
  <2>1. DOMAIN <<e>> = 1 .. 1 /\ <<e>>[1] = e
    OBVIOUS
  <2>. QED
    BY <2>1
<1>2. {k \in DOMAIN <<"">> : <<"">>[k] # ""} = {}
  BY <1>1, Zenon
<1>. QED
  BY <1>2, Zenon DEF TrimRight

\* Of the spellings of one object that is no container, there is one normal
\* form: a container is the only thing a trailing slash tells apart.
LEMMA OnePlace ==
  ASSUME NEW u, NEW v, Place(u) = Place(v), Key(u) # <<>>
  PROVE  Normalized(u) = Normalized(v)
<1>1. ASSUME NEW x, Key(x) # <<>>
      PROVE  ~ContainerSlash(x)
  <2>. SUFFICES ASSUME x.form \notin LocalForms, ObjectPath(x) = <<"">>
                PROVE  FALSE
    BY DEF ContainerSlash
  <2>. QED
    BY <1>1, SlashTrimmed DEF Key
<1>2. /\ Provider(u) = Provider(v) /\ Account(u) = Account(v)
      /\ Container(u) = Container(v) /\ Key(u) = Key(v)
  BY DEF Place
<1>3. ~ContainerSlash(u) /\ ~ContainerSlash(v)
  BY <1>1, <1>2
<1>4. ContainerSlash(u) = ContainerSlash(v)
  BY <1>3 DEF ContainerSlash
<1>. QED
  BY <1>2, <1>4 DEF Normalized

\* Distinct normal forms are distinct places.
LEMMA PlacesDiffer == PlanInv => OneTransferPerPlace
<1>. SUFFICES ASSUME PlanInv, pc = "done", NEW j \in DOMAIN items, NEW k \in DOMAIN items,
                     Place(items[j].dst) = Place(items[k].dst), Key(items[j].dst) # <<>>
              PROVE  j = k
  BY DEF OneTransferPerPlace
<1>1. DOMAIN items = 1 .. Len(items)
  BY DEF PlanInv, SequencesInv, IsSequence
<1>2. Normalized(items[j].dst) = Normalized(items[k].dst)
  BY OnePlace
<1>. QED
  BY <1>1, <1>2 DEF PlanInv, DistinctInv, Checked

\* No two transfers of a plan end at one place, however it is spelled and
\* whatever the listings of the globs were.
THEOREM NoCollisions == Spec => []OneTransferPerPlace
  BY PlanInvariance, PlacesDiffer, PTL

------------------------------------------------------------------------------
(* Legs.                                                                     *)

\* What the preflight resolves and what Copy will make of the same flags are the
\* same options, and those of the documentation but for a global flag beside a file;
\* the file is the same in any case.
LEMMA SameOptions ==
  ASSUME NEW side \in {"src", "dst"}
  PROVE  /\ CopyLegOptions(job.flags, side) = LegOptions(job.flags, side)
         /\ ~FileBesideGlobal(side) => DocumentedOptions(side) = LegOptions(job.flags, side)
         /\ DocumentedOptions(side).creds = LegOptions(job.flags, side).creds
         /\ FileBesideGlobal(side) => LegOptions(job.flags, side).creds # None
<1>1. CopyLegOptions(job.flags, side) = LegOptions(job.flags, side)
  BY DEF CopyLegOptions, LegOptions, MergeProviderOptions, BaseOptions, Else
<1>2. /\ DocumentedOptions(side).project = Else(job.flags.projectOf[side], Global(side, job.flags.project))
      /\ DocumentedOptions(side).profile = Else(job.flags.profileOf[side], Global(side, job.flags.profile))
  BY FirstOfTwo DEF DocumentedOptions, Else
<1>3. ASSUME ~FileBesideGlobal(side)
      PROVE  DocumentedOptions(side) = LegOptions(job.flags, side)
  <2>1. Else(job.flags.projectOf[side], Global(side, job.flags.project))
          = Else(job.flags.projectOf[side], job.flags.project)
    BY <1>3 DEF FileBesideGlobal, Global, Else
  <2>2. Else(job.flags.profileOf[side], Global(side, job.flags.profile))
          = Else(job.flags.profileOf[side], job.flags.profile)
    BY <1>3 DEF FileBesideGlobal, Global, Else
  <2>. QED
    BY <1>2, <2>1, <2>2 DEF DocumentedOptions, LegOptions
<1>. QED
  BY <1>1, <1>3 DEF DocumentedOptions, LegOptions, FileBesideGlobal

\* The file that a leg names is its documented identity, whatever else it names.
LEMMA FileIsIdentity ==
  ASSUME NEW w, NEW o, o.creds # None
  PROVE  DocumentedIdentity(w, o) = o.creds
<1>. DEFINE c == <<o.creds,
                   IF o.profile \in DOMAIN w.profiles THEN w.profiles[o.profile].override ELSE None,
                   w.env,
                   IF Exists(w, w.sdkAdc) THEN w.sdkAdc ELSE None,
                   IF w.metadata # "down" THEN "metadata" ELSE None>>
<1>1. PICK d : d = c
  OBVIOUS
<1>2. d[1] = o.creds /\ DOMAIN d = 1 .. 5
  BY <1>1
<1>3. DocumentedIdentity(w, o) = FirstOf(d)
  BY <1>1 DEF DocumentedIdentity
<1>4. FirstOf(d) = d[1]
  <2>1. 1 \in DOMAIN d /\ d[1] # None /\ DOMAIN d \subseteq Nat
    BY <1>2
  <2>2. \A j \in DOMAIN d : ~(j < 1)
    BY <1>2
  <2>. QED
    BY <2>1, <2>2, FirstThere
<1>. QED
  BY <1>2, <1>3, <1>4

\* The legs of a plan that is done are the documented ones.
LEMMA LegsTold == PlanInv /\ (pc = "done" => job \in Job) => LegsAsDocumented
<1>. SUFFICES ASSUME PlanInv, job \in Job, pc = "done",
                     NEW side \in {"src", "dst"}, HasGcs(side)
              PROVE  LET used == CopyLegOptions(job.flags, side)
                         told == DocumentedOptions(side)
                     IN /\ ResolveError(job.world, used) = "none"
                        /\ ClientIdentity(job.world, used)
                             = Sound(job.world, DocumentedIdentity(job.world, told))
                        /\ ~FileBesideGlobal(side) =>
                             ResolvedProject(job.world, used) = DocumentedProject(job.world, told)
  BY DEF LegsAsDocumented
<1>. DEFINE o == LegOptions(job.flags, side)
            t == DocumentedOptions(side)
<1>1. ResolveError(job.world, o) = "none"
  BY DEF PlanInv, LegsInv, LegResolves
<1>2. IsWorld(job.world) /\ IsOptions(o)
  BY JobAssumption
<1>3. ResolvedProject(job.world, o) = DocumentedProject(job.world, o)
  BY <1>1, <1>2, ProjectAsDocumented
<1>4. ClientIdentity(job.world, o) = Sound(job.world, DocumentedIdentity(job.world, o))
  BY <1>1, <1>2, IdentityAsDocumented
<1>5. /\ CopyLegOptions(job.flags, side) = o
      /\ ~FileBesideGlobal(side) => t = o
      /\ t.creds = o.creds
      /\ FileBesideGlobal(side) => o.creds # None
  BY SameOptions
<1>. HIDE DEF o, t
<1>6. DocumentedIdentity(job.world, t) = DocumentedIdentity(job.world, o)
  <2>1. CASE FileBesideGlobal(side)
    BY <1>5, <2>1, FileIsIdentity
  <2>2. CASE ~FileBesideGlobal(side)
    BY <1>5, <2>2
  <2>. QED
    BY <2>1, <2>2
<1>. QED
  BY <1>1, <1>3, <1>4, <1>5, <1>6 DEF t

\* What was asked does not change, and an idle part stays idle.
LEMMA JobStays == [Next]_vars => job' = job /\ (pc = "idle" => pc' = "idle")
  BY DEF Next, vars, Terminal, Explicit, GlobStarts, ListEntry, ListFails, GlobEnds, MapSources,
         ReadLine, ReadFails, LinesEnd, CheckItem, CheckEnds, CheckLegs, Ended, Refuse, Give, AtLimit

\* A plan starts only with GCS legs that resolve, to the documented project and
\* identity, whatever flags, profiles, files and environment there are.
THEOREM LegsDocumented == Spec => []LegsAsDocumented
<1>. DEFINE Asked == job \in Job
<1>1. Init => Asked
  BY DEF Init
<1>2. Asked /\ [Next]_vars => Asked'
  BY JobStays
<1>3. PlanInv /\ Asked => LegsAsDocumented
  BY LegsTold
<1>. HIDE DEF Asked
<1>. QED
  BY <1>1, <1>2, <1>3, PlanInvariance, PTL DEF Spec

------------------------------------------------------------------------------
------------------------------------------------------------------------------
(* doctor.                                                                  *)

\* The status of GCS comes from some answers of the metadata server.
GcsProbed ==
  "gcs" \in DOMAIN status =>
    \E answers, again \in Answers(World) : status["gcs"] = GcsStatus(answers, again)

Parsed == Targeted /\ WellFormed(visit.target)

\* A target in Azure is asked for only after the login was found to work.
LoggedIn == Provider(visit.target) = "azblob" => AzureStatus.ok

ProbesInv ==
  /\ stage \in {"begin", "azure", "gcs", "report", "open", "probe", "end"}
  /\ stage = "begin" => DOMAIN status = {}
  /\ stage = "azure" => \/ Parsed /\ Provider(visit.target) = "azblob"
                        \/ ~Targeted /\ DOMAIN status = {"local"} /\ status["local"].ok
  /\ stage \in {"gcs", "report"} =>
       /\ ~Targeted
       /\ "local" \in DOMAIN status /\ status["local"].ok
       /\ "azblob" \in DOMAIN status <=> ShouldProbeAzure
       /\ "azblob" \in DOMAIN status => status["azblob"] = AzureStatus
       /\ DOMAIN status \subseteq {"local", "azblob", "gcs"}
  /\ stage = "gcs" => "gcs" \notin DOMAIN status
  /\ stage = "report" => ("gcs" \in DOMAIN status <=> ShouldProbeGCS)
  /\ stage \in {"open", "probe"} => Parsed /\ LoggedIn

\* What an exit code has to tell, where the two searches cannot differ.
Usable ==
  \A p \in Scope : (p = "azblob" => AzureWorks) /\ (p = "gcs" => GcsWorks)
Found == Targeted => WellFormed(visit.target) /\ (visit.there \/ ListProbe)
Right(code) ==
  World.adc = World.sdkAdc /\ World.metadata # "slow" =>
    /\ code = 0 <=> Usable /\ Found
    /\ code = 70 => ~Usable
    /\ ~Targeted /\ (\E p \in Scope : Unauthenticated(p)) => code = 70

DoctorInv ==
  visit \in DoctorJob /\ GcsProbed /\ ProbesInv /\ (stage = "end" => Right(exit))

------------------------------------------------------------------------------
(* The two searches.                                                         *)

\* Where both look in the same place for the default credentials, doctor finds
\* the client's identity, or nothing that would work.
LEMMA SameSearch ==
  ASSUME NEW w, IsWorld(w), w.adc = w.sdkAdc, NEW o, IsOptions(o), NEW answers \in Answers(w)
  PROVE  /\ ClientIdentity(w, o) # None => Detected(w, o, answers) \in {None, ClientIdentity(w, o)}
         /\ ClientIdentity(w, o) # None /\ w.metadata # "slow" => Detected(w, o, answers) # None
<1>. SUFFICES ASSUME ClientIdentity(w, o) # None
              PROVE  /\ Detected(w, o, answers) \in {None, ClientIdentity(w, o)}
                     /\ w.metadata # "slow" => Detected(w, o, answers) # None
  OBVIOUS
<1>1. ResolveError(w, o) = "none"
  BY DEF ClientIdentity
<1>2. /\ CredsFile(w, o) \in File \cup {None} /\ w.env \in File \cup {None}
      /\ w.adc \in File /\ None \notin File
  BY <1>1, Resolves, CredentialsAssumption DEF IsWorld
<1>3. \A f \in File : Holds(w, f) # None => Holds(w, f) = f /\ Readable(w, f) /\ Exists(w, f)
  BY DEF Holds, Readable, Exists
<1>4. CASE CredsFile(w, o) # None
  <2>1. ClientIdentity(w, o) = Holds(w, CredsFile(w, o))
    BY <1>1, <1>4 DEF ClientIdentity
  <2>2. Detected(w, o, answers) =
          IF Readable(w, CredsFile(w, o)) THEN CredsFile(w, o) ELSE None
    BY <1>1, <1>2, <1>4 DEF Detected
  <2>. QED
    BY <1>2, <1>3, <1>4, <2>1, <2>2
<1>5. CASE CredsFile(w, o) = None /\ w.env # None
  <2>1. ClientIdentity(w, o) = Holds(w, w.env)
    BY <1>1, <1>5 DEF ClientIdentity, SdkIdentity
  <2>2. Detected(w, o, answers) = IF Readable(w, w.env) THEN w.env ELSE None
    BY <1>1, <1>2, <1>5 DEF Detected
  <2>. QED
    BY <1>2, <1>3, <1>5, <2>1, <2>2
<1>6. CASE CredsFile(w, o) = None /\ w.env = None /\ Exists(w, w.adc)
  <2>1. ClientIdentity(w, o) = Holds(w, w.adc)
    BY <1>1, <1>6 DEF ClientIdentity, SdkIdentity
  <2>2. Detected(w, o, answers) = IF Readable(w, w.adc) THEN w.adc ELSE None
    BY <1>1, <1>2, <1>6 DEF Detected
  <2>. QED
    BY <1>2, <1>3, <1>6, <2>1, <2>2
<1>7. CASE CredsFile(w, o) = None /\ w.env = None /\ ~Exists(w, w.adc)
  <2>1. ClientIdentity(w, o) = "metadata" /\ w.metadata # "down"
    BY <1>1, <1>7 DEF ClientIdentity, SdkIdentity
  <2>2. Detected(w, o, answers) = IF answers THEN "metadata" ELSE None
    BY <1>1, <1>7 DEF Detected
  <2>3. w.metadata # "slow" => answers
    BY <2>1 DEF Answers, IsWorld
  <2>. QED
    BY <2>1, <2>2, <2>3
<1>. QED
  BY <1>4, <1>5, <1>6, <1>7

\* An identity that a client has is the documented one.
LEMMA DocumentedOne ==
  ASSUME NEW w, IsWorld(w), NEW o, IsOptions(o), ClientIdentity(w, o) # None
  PROVE  DocumentedIdentity(w, o) = ClientIdentity(w, o)
<1>1. ResolveError(w, o) = "none"
  BY DEF ClientIdentity
<1>2. ClientIdentity(w, o) = Sound(w, DocumentedIdentity(w, o))
  BY <1>1, IdentityAsDocumented
<1>. QED
  BY <1>2 DEF Sound, Holds

\* The fields of the two kinds of status.
LEMMA Statuses == /\ \A said : Ok(said).ok = TRUE /\ Ok(said).said = said
                  /\ \A kind : Bad(kind).ok = FALSE /\ Bad(kind).said = None /\ Bad(kind).kind = kind
<1>1. \A said : Ok(said).ok = TRUE
  BY Zenon DEF Ok
<1>2. \A said : Ok(said).said = said
  BY DEF Ok
<1>3. \A kind : Bad(kind).ok = FALSE
  BY Zenon DEF Bad
<1>4. \A kind : Bad(kind).said = None /\ Bad(kind).kind = kind
  BY DEF Bad
<1>. QED
  BY <1>1, <1>2, <1>3, <1>4

\* What the status of GCS means.
LEMMA StatusTells ==
  ASSUME visit \in DoctorJob, World.adc = World.sdkAdc,
         NEW answers \in Answers(World), NEW again \in Answers(World),
         NEW s, s = GcsStatus(answers, again)
  PROVE  /\ s.ok => GcsWorks
         /\ GcsWorks /\ World.metadata # "slow" => s.ok
         /\ s.said # None => /\ s.said = ClientIdentity(World, visit.gcp)
                             /\ s.said = DocumentedIdentity(World, visit.gcp)
<1>. DEFINE who == ClientIdentity(World, visit.gcp)
            found == Detected(World, visit.gcp, answers)
<1>1. IsWorld(World) /\ IsOptions(visit.gcp)
  BY DoctorAssumption DEF World
<1>2. GcsWorks <=> Token(who) = "ok"
  BY DEF GcsWorks
<1>3. Token(who) = "ok" => who # None
  BY DEF Token
<1>4. GcsWorks /\ World.metadata # "slow" => found # None
  BY <1>1, <1>2, <1>3, SameSearch
<1>5. CASE found # None /\ Token(who) = "ok"
  <2>1. s = Ok(Described(World, visit.gcp, again))
    BY <1>5 DEF GcsStatus
  <2>2. Detected(World, visit.gcp, again) \in {None, who}
    BY <1>1, <1>3, <1>5, SameSearch
  <2>3. s.said = Described(World, visit.gcp, again) /\ s.ok = TRUE
    BY <2>1, Statuses
  <2>4. s.said \in {None, who}
    BY <2>2, <2>3 DEF Described
  <2>. QED
    BY <1>1, <1>2, <1>3, <1>5, <2>3, <2>4, DocumentedOne
<1>6. CASE ~(found # None /\ Token(who) = "ok")
  <2>1. ~s.ok /\ s.said = None
    BY <1>6, Statuses DEF GcsStatus
  <2>. QED
    BY <1>2, <1>4, <1>6, <2>1
<1>. QED
  BY <1>5, <1>6

------------------------------------------------------------------------------
(* The probes.                                                               *)

\* A step leaves the command line alone, so what was found out stays true.
LEMMA VisitStays == [DoctorNext]_doctorVars => visit' = visit
  BY DEF DoctorNext, doctorVars, Begin, ProbeAzure, ProbeGCS, Report, Open, Probe, DoctorEnded

\* DoctorInv holds at first,
LEMMA DoctorInitInv == DoctorInit => DoctorInv
  BY DEF DoctorInit, DoctorInv, GcsProbed, ProbesInv

\* docs and code agree on where a profile of Azure may be.
LEMMA AzureTells ==
  ASSUME visit \in DoctorJob
  PROVE  /\ AzureStatus.ok <=> AzureWorks
         /\ AzureStatus.ok \in BOOLEAN
         /\ AzureStatus.ok => World.network /\ World.azure = "ok"
         /\ Unauthenticated("azblob") => ~AzureStatus.ok /\ AzureStatus.kind = "auth"
<1>1. /\ IsWorld(World) /\ {World.network, visit.az} \subseteq BOOLEAN
      /\ World.azure \in {"ok", "login", "refused"}
  BY DoctorAssumption DEF World
<1>2. AzureProfileThere <=> ~(visit.az /\ ~AzureExists(World))
  BY <1>1 DEF IsWorld, AzureExists, AzureDir, AzureProfileThere
<1>3. \A kind : Bad(kind).ok = FALSE /\ Bad(kind).kind = kind
  BY Statuses
<1>4. Ok(None).ok = TRUE
  BY Statuses
<1>5. CASE visit.az /\ ~AzureExists(World)
  <2>1. AzureStatus = Bad("setup")
    BY <1>5 DEF AzureStatus
  <2>. QED
    BY <1>2, <1>3, <1>5, <2>1 DEF AzureWorks, Unauthenticated
<1>6. CASE ~(visit.az /\ ~AzureExists(World)) /\ ~World.network
  <2>1. AzureStatus = Bad("network")
    BY <1>6 DEF AzureStatus
  <2>. QED
    BY <1>3, <1>6, <2>1 DEF AzureWorks, Unauthenticated
<1>7. CASE ~(visit.az /\ ~AzureExists(World)) /\ World.network /\ World.azure # "ok"
  <2>1. AzureStatus = IF World.azure = "login" THEN Bad("setup") ELSE Bad("auth")
    BY <1>1, <1>7 DEF AzureStatus
  <2>. QED
    BY <1>3, <1>7, <2>1 DEF AzureWorks, Unauthenticated
<1>8. CASE ~(visit.az /\ ~AzureExists(World)) /\ World.network /\ World.azure = "ok"
  <2>1. AzureStatus = Ok(None)
    BY <1>8 DEF AzureStatus
  <2>. QED
    BY <1>2, <1>4, <1>8, <2>1 DEF AzureWorks, Unauthenticated
<1>. QED
  BY <1>5, <1>6, <1>7, <1>8

\* The documented scope of a run without a target is what is probed.
LEMMA ScopeIsProbed ==
  ASSUME visit \in DoctorJob, ~Targeted
  PROVE  /\ "azblob" \in Scope <=> ShouldProbeAzure
         /\ "gcs" \in Scope <=> ShouldProbeGCS
         /\ Scope \subseteq {"azblob", "gcs"}
  BY DEF Scope, ShouldProbeAzure, ShouldProbeGCS

\* A target that parses is on one of three providers.
LEMMA TargetParsed ==
  ASSUME visit \in DoctorJob, Targeted, WellFormed(visit.target)
  PROVE  Provider(visit.target) \in {"azblob", "gcs", "local"}
<1>1. IsUri(visit.target)
  BY DoctorAssumption DEF Targeted
<1>. QED
  BY <1>1 DEF IsUri, Written, WellFormed, Provider

\* What depends on the command line alone does not change.
LEMMA SameVisit ==
  ASSUME visit' = visit
  PROVE  /\ World' = World /\ (Targeted' <=> Targeted) /\ (Parsed' <=> Parsed)
         /\ (LoggedIn' <=> LoggedIn) /\ AzureStatus' = AzureStatus
         /\ (ShouldProbeAzure' <=> ShouldProbeAzure) /\ (ShouldProbeGCS' <=> ShouldProbeGCS)
         /\ \A a, b : GcsStatus(a, b)' = GcsStatus(a, b)
         /\ \A code : Right(code)' <=> Right(code)
  BY DEF World, Targeted, Parsed, LoggedIn, AzureStatus, ShouldProbeAzure, ShouldProbeGCS,
         GcsStatus, Right, Usable, Found, AzureWorks, AzureProfileThere, GcsWorks, Scope,
         ListProbe, Token, Unauthenticated

\* The exit code in the words of ExitTells.
LEMMA ExitForm == ASSUME stage = "end" => Right(exit) PROVE ExitTells
<1>. DEFINE works == [p \in Scope |-> CASE p = "azblob" -> AzureWorks
                                       [] p = "gcs" -> GcsWorks
                                       [] OTHER -> TRUE]
<1>1. ASSUME NEW p \in Scope
      PROVE  works[p] <=> (p = "azblob" => AzureWorks) /\ (p = "gcs" => GcsWorks)
  BY <1>1
<1>2. (\A p \in Scope : works[p]) <=> Usable
  BY <1>1 DEF Usable
<1>. HIDE DEF works
<1>. QED
  BY <1>2 DEF ExitTells, Right, Found, works

\* Recording a status leaves the others.
LEMMA Recorded ==
  ASSUME NEW provider, NEW s, Record(provider, s)
  PROVE  /\ DOMAIN status' = DOMAIN status \cup {provider}
         /\ status'[provider] = s
         /\ \A p \in DOMAIN status \ {provider} : status'[p] = status[p]
  BY DEF Record

\* ... when doctor begins,
LEMMA BeginStep == ASSUME DoctorInv, Begin PROVE DoctorInv'
<1>. USE DEF DoctorInv
<1>0. visit' = visit /\ DOMAIN status = {} /\ visit \in DoctorJob
  BY DEF Begin, ProbesInv
<1>1. CASE ~Targeted
  <2>1. stage' = "azure" /\ Record("local", Ok(None))
    BY <1>1 DEF Begin, Go
  <2>2. DOMAIN status' = {"local"} /\ status'["local"] = Ok(None)
    BY <1>0, <2>1, Recorded
  <2>3. status'["local"].ok
    BY <2>2, Statuses
  <2>. QED
    BY <1>0, <1>1, <2>1, <2>2, <2>3, SameVisit DEF GcsProbed, ProbesInv
<1>2. CASE Targeted /\ ~WellFormed(visit.target)
  <2>1. stage' = "end" /\ exit' \in {40, 1} /\ status' = status
    BY <1>2 DEF Begin, Quit
  <2>2. Right(exit')
    BY <1>2, <2>1 DEF Right, Found
  <2>. QED
    BY <1>0, <2>1, <2>2, SameVisit DEF GcsProbed, ProbesInv
<1>3. CASE Parsed
  <2>1. /\ stage' = IF Provider(visit.target) = "azblob" THEN "azure" ELSE "open"
        /\ status' = status
    BY <1>3 DEF Begin, Parsed, Go
  <2>. QED
    BY <1>0, <1>3, <2>1, SameVisit DEF GcsProbed, ProbesInv, LoggedIn
<1>. QED
  BY <1>1, <1>2, <1>3 DEF Parsed

\* ... when it looks for Azure's credentials,
LEMMA AzureStep == ASSUME DoctorInv, ProbeAzure PROVE DoctorInv'
<1>. USE DEF DoctorInv
<1>0. visit' = visit /\ visit \in DoctorJob /\ stage = "azure"
  BY DEF ProbeAzure
<1>1. CASE Targeted
  <2>1. Parsed /\ Provider(visit.target) = "azblob" /\ Record("azblob", AzureStatus)
    BY <1>0, <1>1 DEF ProbesInv, ProbeAzure
  <2>2. GcsProbed'
    <3>1. /\ DOMAIN status' = DOMAIN status \cup {"azblob"}
          /\ \A p \in DOMAIN status \ {"azblob"} : status'[p] = status[p]
      BY <2>1, Recorded
    <3>2. "gcs" \in DOMAIN status' => "gcs" \in DOMAIN status /\ status'["gcs"] = status["gcs"]
      BY <3>1
    <3>. QED
      BY <1>0, <3>2, SameVisit DEF GcsProbed
  <2>3. CASE AzureStatus.ok
    <3>1. stage' = "open"
      BY <1>1, <2>3 DEF ProbeAzure, Go
    <3>. QED
      BY <1>0, <2>1, <2>2, <2>3, <3>1, SameVisit DEF ProbesInv, LoggedIn
  <2>4. CASE ~AzureStatus.ok
    <3>1. stage' = "end" /\ exit' \in {70, 1}
      BY <1>1, <2>4 DEF ProbeAzure, Quit
    <3>2. ~Usable
      BY <1>0, <1>1, <2>1, <2>4, AzureTells DEF Usable, Scope
    <3>3. Right(exit')
      BY <1>1, <3>1, <3>2 DEF Right
    <3>. QED
      BY <1>0, <2>2, <3>1, <3>3, SameVisit DEF ProbesInv
  <2>. QED
    BY <2>3, <2>4
<1>2. CASE ~Targeted
  <2>1. stage' = "gcs" /\ DOMAIN status = {"local"} /\ status["local"].ok
    BY <1>0, <1>2 DEF ProbesInv, ProbeAzure, Go, Parsed
  <2>2. CASE ShouldProbeAzure
    <3>1. Record("azblob", AzureStatus)
      BY <1>2, <2>2 DEF ProbeAzure
    <3>2. /\ DOMAIN status' = {"local", "azblob"} /\ status'["azblob"] = AzureStatus
          /\ status'["local"] = status["local"]
      BY <2>1, <3>1, Recorded
    <3>. QED
      BY <1>0, <1>2, <2>1, <2>2, <3>2, SameVisit DEF GcsProbed, ProbesInv
  <2>3. CASE ~ShouldProbeAzure
    <3>1. status' = status
      BY <1>2, <2>3 DEF ProbeAzure
    <3>. QED
      BY <1>0, <1>2, <2>1, <2>3, <3>1, SameVisit DEF GcsProbed, ProbesInv
  <2>. QED
    BY <2>2, <2>3
<1>. QED
  BY <1>1, <1>2

\* ... and for Google's,
LEMMA GcsStep == ASSUME DoctorInv, ProbeGCS PROVE DoctorInv'
<1>. USE DEF DoctorInv
<1>0. visit' = visit /\ visit \in DoctorJob /\ stage = "gcs" /\ stage' = "report"
  BY DEF ProbeGCS, Go
<1>1. CASE ShouldProbeGCS
  <2>1. PICK answers \in Answers(World), again \in Answers(World) :
          Record("gcs", GcsStatus(answers, again))
    BY <1>1 DEF ProbeGCS
  <2>2. /\ DOMAIN status' = DOMAIN status \cup {"gcs"}
        /\ status'["gcs"] = GcsStatus(answers, again)
        /\ \A p \in DOMAIN status \ {"gcs"} : status'[p] = status[p]
    BY <2>1, Recorded
  <2>3. GcsProbed'
    BY <1>0, <2>2, SameVisit DEF GcsProbed
  <2>. QED
    BY <1>0, <1>1, <2>2, <2>3, SameVisit DEF ProbesInv
<1>2. CASE ~ShouldProbeGCS
  <2>1. status' = status
    BY <1>2 DEF ProbeGCS
  <2>. QED
    BY <1>0, <1>2, <2>1, SameVisit DEF GcsProbed, ProbesInv
<1>. QED
  BY <1>1, <1>2

\* All statuses are fine exactly if all in scope can be used.
LEMMA ReportStep == ASSUME DoctorInv, Report PROVE DoctorInv'
<1>. USE DEF DoctorInv
<1>0. /\ visit' = visit /\ visit \in DoctorJob /\ stage = "report" /\ stage' = "end"
      /\ status' = status /\ exit' = ReportCode /\ ~Targeted
  BY DEF Report, Quit, ProbesInv
<1>1. /\ "azblob" \in DOMAIN status <=> "azblob" \in Scope
      /\ "gcs" \in DOMAIN status <=> "gcs" \in Scope
      /\ Scope \subseteq {"azblob", "gcs"} /\ DOMAIN status \subseteq {"local", "azblob", "gcs"}
  BY <1>0, ScopeIsProbed DEF ProbesInv
<1>2. ASSUME World.adc = World.sdkAdc, World.metadata # "slow"
      PROVE  (\A p \in DOMAIN status : status[p].ok) <=> Usable
  <2>1. "azblob" \in DOMAIN status => (status["azblob"].ok <=> AzureWorks)
    BY <1>0, AzureTells DEF ProbesInv
  <2>2. "gcs" \in DOMAIN status => (status["gcs"].ok <=> GcsWorks)
    BY <1>0, <1>2, StatusTells DEF GcsProbed
  <2>3. status["local"].ok
    BY <1>0 DEF ProbesInv
  <2>. QED
    BY <1>1, <2>1, <2>2, <2>3 DEF Usable
<1>3. ReportCode = 0 <=> \A p \in DOMAIN status : status[p].ok
  BY DEF ReportCode
<1>4. ASSUME NEW p \in Scope, Unauthenticated(p) PROVE ReportCode = 70
  <2>1. CASE p = "azblob"
    <3>1. "azblob" \in DOMAIN status /\ status["azblob"] = AzureStatus
      BY <1>0, <1>1, <1>4, <2>1 DEF ProbesInv
    <3>2. ~status["azblob"].ok /\ status["azblob"].kind = "auth"
      BY <1>0, <1>4, <2>1, <3>1, AzureTells
    <3>. QED
      BY <3>1, <3>2 DEF ReportCode
  <2>2. CASE p = "gcs"
    <3>1. PICK answers, again : "gcs" \in DOMAIN status /\ status["gcs"] = GcsStatus(answers, again)
      BY <1>0, <1>1, <1>4, <2>2 DEF GcsProbed
    <3>2. GcsStatus(answers, again) = Bad("auth")
      BY <1>4, <2>2 DEF GcsStatus, Unauthenticated
    <3>3. ~status["gcs"].ok /\ status["gcs"].kind = "auth"
      BY <3>1, <3>2, Statuses
    <3>. QED
      BY <3>1, <3>3 DEF ReportCode
  <2>. QED
    BY <1>1, <1>4, <2>1, <2>2
<1>5. Right(ReportCode)
  <2>1. ReportCode = 70 => ReportCode # 0
    OBVIOUS
  <2>. QED
    BY <1>0, <1>2, <1>3, <1>4, <2>1 DEF Right, Found
<1>. QED
  BY <1>0, <1>5, SameVisit DEF GcsProbed, ProbesInv

\* ... when a client is opened,
LEMMA OpenStep == ASSUME DoctorInv, Open PROVE DoctorInv'
<1>. USE DEF DoctorInv
<1>0. /\ visit' = visit /\ visit \in DoctorJob /\ stage = "open" /\ status' = status
      /\ Parsed /\ LoggedIn
  BY DEF Open, ProbesInv
<1>1. CASE stage' = "probe"
  BY <1>0, <1>1, SameVisit DEF GcsProbed, ProbesInv
<1>2. CASE stage' # "probe"
  <2>1. /\ Provider(visit.target) = "gcs" /\ stage' = "end" /\ exit' \in {40, 1, 70}
        /\ ClientIdentity(World, visit.gcp) = None
    BY <1>2 DEF Open, Quit, QuitBySdk, Go, ClientIdentity
  <2>2. ~Usable
    BY <1>0, <2>1 DEF Usable, Scope, Parsed, GcsWorks, Token
  <2>3. Right(exit')
    BY <1>0, <2>1, <2>2 DEF Right, Parsed
  <2>. QED
    BY <1>0, <2>1, <2>3, SameVisit DEF GcsProbed, ProbesInv
<1>. QED
  BY <1>1, <1>2

\* ... when a URI is probed,
LEMMA ProbeStep == ASSUME DoctorInv, Probe PROVE DoctorInv'
<1>. USE DEF DoctorInv
<1>0. /\ visit' = visit /\ visit \in DoctorJob /\ stage' = "end" /\ status' = status
      /\ Parsed /\ LoggedIn /\ Scope = {Provider(visit.target)}
  BY DEF Probe, ProbesInv, Quit, QuitBySdk, Scope, Parsed
<1>1. Provider(visit.target) \in {"azblob", "gcs", "local"}
  BY <1>0, TargetParsed DEF Parsed
<1>2. Reaches <=> Usable
  <2>1. CASE Provider(visit.target) = "local"
    BY <1>0, <2>1 DEF Reaches, Usable
  <2>2. CASE Provider(visit.target) = "azblob"
    BY <1>0, <2>2, AzureTells DEF Reaches, Usable, LoggedIn
  <2>3. CASE Provider(visit.target) = "gcs"
    BY <1>0, <2>3 DEF Reaches, Usable, GcsWorks
  <2>. QED
    BY <1>1, <2>1, <2>2, <2>3
<1>3. CASE Reaches
  <2>1. exit' = IF visit.there \/ ListProbe THEN 0 ELSE 1
    BY <1>3 DEF Probe, Quit
  <2>2. Right(exit')
    BY <1>0, <1>2, <1>3, <2>1 DEF Right, Found, Parsed
  <2>. QED
    BY <1>0, <2>2, SameVisit DEF GcsProbed, ProbesInv
<1>4. CASE ~Reaches
  <2>1. exit' \in {1, 70}
    BY <1>4 DEF Probe, Quit, QuitBySdk
  <2>2. Right(exit')
    BY <1>0, <1>2, <1>4, <2>1 DEF Right, Parsed
  <2>. QED
    BY <1>0, <2>2, SameVisit DEF GcsProbed, ProbesInv
<1>. QED
  BY <1>3, <1>4

\* ... and while nothing happens,
LEMMA RestStep == ASSUME DoctorInv, UNCHANGED doctorVars PROVE DoctorInv'
  BY SameVisit DEF DoctorInv, GcsProbed, ProbesInv, doctorVars

\* ... so whatever the step.
LEMMA DoctorNextInv == DoctorInv /\ [DoctorNext]_doctorVars => DoctorInv'
  BY BeginStep, AzureStep, GcsStep, ReportStep, OpenStep, ProbeStep, RestStep
     DEF DoctorNext, DoctorEnded

\* What doctor says follows from where it is.
LEMMA DoctorTells == DoctorInv => DoctorForetells /\ ExitTells
  BY ExitForm, StatusTells DEF DoctorInv, GcsProbed, DoctorForetells

\* A GCS status that is fine means that a client will work, one that is not that
\* it will not, and the identity named is the one used and documented.
THEOREM Foretold == DoctorSpec => []DoctorForetells
  BY DoctorInitInv, DoctorNextInv, DoctorTells, PTL DEF DoctorSpec

\* Exit code 0 means that what is in scope can be used; 70 is given only if it
\* cannot, and without a target always when credentials fail.
THEOREM ExitTold == DoctorSpec => []ExitTells
  BY DoctorInitInv, DoctorNextInv, DoctorTells, PTL DEF DoctorSpec

------------------------------------------------------------------------------
------------------------------------------------------------------------------
(* The preflight of split.                                                  *)

Less == {p \in Nat \X Nat : p[1] < p[2]}

\* Less is the order of the numbers, as the library has it.
LEMMA LessWF == IsWellFoundedOn(Less, Nat)
  BY NatLessThanWellFounded DEF OpToRel, Less

\* Induction, over a set of numbers.
LEMMA Induct ==
  ASSUME NEW S, 0 \in S, \A n \in Nat : n \in S => n + 1 \in S
  PROVE  Nat \subseteq S
<1>. SUFFICES ASSUME Nat \ S # {} PROVE FALSE
  OBVIOUS
<1>1. PICK x \in Nat \ S : \A y \in Nat \ S : <<y, x>> \notin Less
  BY LessWF, WFMin, (Nat \ S) \subseteq Nat
<1>2. x # 0 /\ x - 1 \in Nat /\ x \in Nat
  OBVIOUS
<1>3. <<x - 1, x>> \in Less
  BY <1>2 DEF Less
<1>4. x - 1 \in S
  BY <1>1, <1>2, <1>3
<1>. QED
  BY <1>2, <1>4

\* f holds the powers of the radix.
IsPower(f) == f = [d \in Nat |-> IF d = 0 THEN 1 ELSE Radix * f[d - 1]]

\* f holds those up to the m-th.
UpTo(f, m) == f = [d \in 0 .. m |-> IF d = 0 THEN 1 ELSE Radix * f[d - 1]]

\* There are powers up to any exponent, and all agree on what they are.
LEMMA PowersUpTo == \A m \in Nat : \E f : UpTo(f, m)
<1>. DEFINE S == {n \in Nat : \E f : UpTo(f, n)}
<1>1. 0 \in S
  <2>. DEFINE z == [d \in 0 .. 0 |-> 1]
  <2>1. UpTo(z, 0)
    BY DEF UpTo
  <2>. QED
    BY <2>1
<1>2. ASSUME NEW n \in Nat, \E f : UpTo(f, n) PROVE \E f : UpTo(f, n + 1)
  <2>1. PICK f : UpTo(f, n)
    BY <1>2
  <2>. DEFINE g == [d \in 0 .. n + 1 |-> IF d = n + 1 THEN Radix * f[n] ELSE f[d]]
  <2>2. /\ g[n + 1] = Radix * f[n] /\ \A d \in 0 .. n : g[d] = f[d]
        /\ g = [d \in 0 .. n + 1 |-> g[d]]
    OBVIOUS
  <2>. HIDE DEF g
  <2>3. \A d \in 0 .. n + 1 : g[d] = IF d = 0 THEN 1 ELSE Radix * g[d - 1]
    <3>1. \A d \in 0 .. n : f[d] = IF d = 0 THEN 1 ELSE Radix * f[d - 1]
      BY <2>1 DEF UpTo
    <3>2. \A d \in 1 .. n : g[d] = Radix * g[d - 1]
      <4>. SUFFICES ASSUME NEW d \in 1 .. n PROVE g[d] = Radix * g[d - 1]
        OBVIOUS
      <4>1. d - 1 \in 0 .. n /\ d \in 0 .. n /\ d # 0
        OBVIOUS
      <4>2. f[d] = Radix * f[d - 1]
        BY <3>1, <4>1
      <4>. QED
        BY <2>2, <4>1, <4>2
    <3>3. g[0] = 1 /\ 0 \in 0 .. n
      BY <2>2, <3>1
    <3>4. g[n + 1] = Radix * g[(n + 1) - 1]
      <4>1. (n + 1) - 1 = n /\ n \in 0 .. n
        OBVIOUS
      <4>2. g[n] = f[n]
        BY <2>2, <4>1
      <4>. QED
        BY <2>2, <4>1, <4>2
    <3>5. TAKE d \in 0 .. n + 1
    <3>6. CASE d = 0
      BY <3>3, <3>6
    <3>7. CASE d \in 1 .. n
      BY <3>2, <3>7
    <3>8. CASE d = n + 1
      <4>1. n + 1 # 0
        OBVIOUS
      <4>. QED
        BY <3>4, <3>8, <4>1
    <3>. QED
      BY <3>6, <3>7, <3>8
  <2>4. UpTo(g, n + 1)
    BY <2>2, <2>3 DEF UpTo
  <2>. QED
    BY <2>4
<1>3. \A n \in Nat : n \in S => n + 1 \in S
  BY <1>2
<1>. HIDE DEF S
<1>4. Nat \subseteq S
  BY <1>1, <1>3, Induct
<1>. QED
  BY <1>4 DEF S

\* Two tables of powers agree as far as the shorter one goes.
LEMMA SamePowers ==
  ASSUME NEW m \in Nat, NEW n \in Nat, m <= n, NEW f, NEW g, UpTo(f, m), UpTo(g, n)
  PROVE  \A d \in 0 .. m : f[d] = g[d]
<1>. DEFINE S == {d \in Nat : d <= m => f[d] = g[d]}
<1>1. /\ \A d \in 0 .. m : f[d] = IF d = 0 THEN 1 ELSE Radix * f[d - 1]
      /\ \A d \in 0 .. n : g[d] = IF d = 0 THEN 1 ELSE Radix * g[d - 1]
  BY DEF UpTo
<1>2. 0 \in S
  BY <1>1
<1>3. \A d \in Nat : d \in S => d + 1 \in S
  <2>. SUFFICES ASSUME NEW d \in Nat, d + 1 <= m, f[d] = g[d] PROVE f[d + 1] = g[d + 1]
    OBVIOUS
  <2>1. d + 1 \in 0 .. m /\ d + 1 \in 0 .. n /\ d + 1 # 0 /\ (d + 1) - 1 = d
    OBVIOUS
  <2>2. f[d + 1] = Radix * f[d] /\ g[d + 1] = Radix * g[d]
    BY <1>1, <2>1
  <2>. QED
    BY <2>2
<1>. HIDE DEF S
<1>4. Nat \subseteq S
  BY <1>2, <1>3, Induct
<1>. QED
  BY <1>4 DEF S

\* The recursion that defines Power has a solution.
LEMMA PowerExists == \E f : IsPower(f)
<1>. DEFINE up(m) == CHOOSE f : UpTo(f, m)
            p == [d \in Nat |-> up(d)[d]]
<1>1. \A m \in Nat : UpTo(up(m), m)
  BY PowersUpTo
<1>. HIDE DEF up
<1>2. ASSUME NEW d \in Nat PROVE p[d] = IF d = 0 THEN 1 ELSE Radix * p[d - 1]
  <2>1. p[d] = up(d)[d] /\ up(d)[d] = IF d = 0 THEN 1 ELSE Radix * up(d)[d - 1]
    <3>1. \A e \in 0 .. d : up(d)[e] = IF e = 0 THEN 1 ELSE Radix * up(d)[e - 1]
      BY <1>1 DEF UpTo
    <3>. QED
      BY <3>1
  <2>2. CASE d = 0
    BY <2>1, <2>2
  <2>3. CASE d > 0
    <3>1. PICK c : c = d - 1
      OBVIOUS
    <3>2. c \in Nat /\ c <= d /\ c \in 0 .. c
      BY <2>3, <3>1
    <3>3. \A e \in 0 .. c : up(c)[e] = up(d)[e]
      BY <1>1, <3>2, SamePowers
    <3>4. p[c] = up(c)[c]
      BY <3>2
    <3>. QED
      BY <2>1, <2>3, <3>1, <3>2, <3>3, <3>4
  <2>. QED
    BY <2>2, <2>3
<1>3. p = [d \in Nat |-> p[d]]
  OBVIOUS
<1>. HIDE DEF p
<1>4. IsPower(p)
  BY <1>2, <1>3 DEF IsPower
<1>. QED
  BY <1>4

\* Power is the table of all powers of the radix.
LEMMA PowerIs == /\ Power[0] = 1
                 /\ \A d \in Nat : Power[d + 1] = Radix * Power[d]
<1>1. IsPower(Power)
  BY PowerExists, Zenon DEF IsPower, Power
<1>2. PICK p : p = Power
  OBVIOUS
<1>3. \A d \in Nat : p[d] = IF d = 0 THEN 1 ELSE Radix * p[d - 1]
  BY <1>1, <1>2 DEF IsPower
<1>4. p[0] = 1
  BY <1>3
<1>5. ASSUME NEW d \in Nat PROVE p[d + 1] = Radix * p[d]
  <2>1. d + 1 \in Nat /\ d + 1 # 0 /\ (d + 1) - 1 = d
    OBVIOUS
  <2>. QED
    BY <1>3, <2>1
<1>. QED
  BY <1>2, <1>4, <1>5

\* A product with a factor of two or more is at least a step larger.
LEMMA Grows == ASSUME NEW r \in Nat \ {0, 1}, NEW x \in Nat \ {0} PROVE r * x \in Nat /\ r * x > x
<1>1. PICK q \in Nat : r = q + 2
  <2>1. r - 2 \in Nat /\ r = (r - 2) + 2
    OBVIOUS
  <2>. QED
    BY <2>1
<1>2. r * x = q * x + 2 * x
  BY <1>1
<1>3. q * x \in Nat
  OBVIOUS
<1>. QED
  BY <1>2, <1>3

\* Powers of the radix exceed their exponents, and grow with them.
LEMMA PowerGrows == /\ \A d \in Nat : Power[d] \in Nat /\ Power[d] > d
                    /\ \A d, e \in Nat : d <= e => Power[d] <= Power[e]
<1>. DEFINE S == {d \in Nat : Power[d] \in Nat /\ Power[d] > d}
<1>1. Radix \in Nat \ {0, 1}
  BY NumbersAssumption
<1>2. 0 \in S
  BY PowerIs
<1>3. \A d \in Nat : d \in S => d + 1 \in S
  <2>. SUFFICES ASSUME NEW d \in Nat, Power[d] \in Nat, Power[d] > d
                PROVE  Power[d + 1] \in Nat /\ Power[d + 1] > d + 1
    OBVIOUS
  <2>1. PICK x \in Nat \ {0} : x = Power[d]
    OBVIOUS
  <2>2. Radix * x \in Nat /\ Radix * x > x
    BY <1>1, Grows
  <2>3. Power[d + 1] = Radix * x
    BY <2>1, PowerIs
  <2>. QED
    BY <2>1, <2>2, <2>3
<1>4. Nat \subseteq S
  <2>. HIDE DEF S
  <2>. QED
    BY <1>2, <1>3, Induct
<1>5. \A d \in Nat : Power[d] \in Nat /\ Power[d] > d
  BY <1>4
<1>. HIDE DEF S
<1>6. ASSUME NEW d \in Nat PROVE \A e \in Nat : d <= e => Power[d] <= Power[e]
  <2>. DEFINE T == {k \in Nat : Power[d] <= Power[d + k]}
  <2>1. 0 \in T
    BY <1>5
  <2>2. \A k \in Nat : k \in T => k + 1 \in T
    <3>. SUFFICES ASSUME NEW k \in Nat, Power[d] <= Power[d + k]
                  PROVE  Power[d] <= Power[d + (k + 1)]
      OBVIOUS
    <3>1. PICK n \in Nat : n = d + k
      OBVIOUS
    <3>2. d + (k + 1) = n + 1
      BY <3>1
    <3>3. PICK x \in Nat \ {0} : x = Power[n]
      BY <1>5
    <3>4. Power[n + 1] = Radix * x
      BY <3>3, PowerIs
    <3>5. Radix * x \in Nat /\ Radix * x > x
      BY <1>1, Grows
    <3>. QED
      BY <1>5, <3>1, <3>2, <3>3, <3>4, <3>5
  <2>3. Nat \subseteq T
    <3>. HIDE DEF T
    <3>. QED
      BY <2>1, <2>2, Induct
  <2>. SUFFICES ASSUME NEW e \in Nat, d <= e PROVE Power[d] <= Power[e]
    OBVIOUS
  <2>4. e - d \in Nat /\ d + (e - d) = e
    OBVIOUS
  <2>. QED
    BY <2>3, <2>4
<1>. QED
  BY <1>5, <1>6

\* d is the width of index n.
Wide(d, n) == Power[d] > n /\ (d = Width \/ Power[d - 1] <= n)

\* Every index has a width, at least the least one.
LEMMA DigitsAre ==
  ASSUME NEW n \in Nat
  PROVE  Digits(n) \in Nat /\ Digits(n) >= Width /\ Wide(Digits(n), n)
<1>. DEFINE T == {k \in Nat : Power[Width + k] <= n}
<1>1. Width \in Nat \ {0}
  BY NumbersAssumption
<1>2. \E d \in Width .. Width + n : Wide(d, n)
  <2>. SUFFICES ASSUME \A d \in Width .. Width + n : ~Wide(d, n) PROVE FALSE
    OBVIOUS
  <2>. DEFINE S == {k \in Nat : k <= n => Power[Width + k] <= n}
  <2>1. 0 \in S
    <3>1. Width \in Width .. Width + n /\ Width + 0 = Width
      BY <1>1
    <3>2. ~(Power[Width] > n)
      BY <3>1 DEF Wide
    <3>. QED
      BY <1>1, <3>1, <3>2, PowerGrows
  <2>2. \A k \in Nat : k \in S => k + 1 \in S
    <3>. SUFFICES ASSUME NEW k \in Nat, k + 1 <= n, Power[Width + k] <= n
                  PROVE  Power[Width + (k + 1)] <= n
      OBVIOUS
    <3>1. PICK d \in Nat : d = Width + (k + 1)
      BY <1>1
    <3>2. d \in Width .. Width + n /\ d - 1 = Width + k
      BY <1>1, <3>1
    <3>3. ~(Power[d] > n)
      BY <3>2 DEF Wide
    <3>. QED
      BY <3>1, <3>3, PowerGrows
  <2>3. Nat \subseteq S
    <3>. HIDE DEF S
    <3>. QED
      BY <2>1, <2>2, Induct
  <2>4. Power[Width + n] <= n /\ Width + n \in Nat
    BY <1>1, <2>3
  <2>5. Power[Width + n] > Width + n /\ Power[Width + n] \in Nat
    BY <2>4, PowerGrows
  <2>. QED
    BY <1>1, <2>4, <2>5
<1>3. Digits(n) \in Width .. Width + n /\ Wide(Digits(n), n)
  BY <1>2, Zenon DEF Digits, Wide
<1>. QED
  BY <1>1, <1>3

\* A larger index is no shorter.
LEMMA DigitsGrow ==
  ASSUME NEW m \in Nat, NEW n \in Nat, m <= n
  PROVE  Digits(m) <= Digits(n)
<1>1. PICK d, e \in Nat : d = Digits(m) /\ e = Digits(n)
  BY DigitsAre
<1>2. e >= Width /\ Wide(d, m) /\ Wide(e, n) /\ Width \in Nat \ {0}
  BY <1>1, DigitsAre, NumbersAssumption
<1>. SUFFICES ASSUME d > e PROVE FALSE
  BY <1>1
<1>3. d # Width /\ d - 1 \in Nat /\ e <= d - 1
  BY <1>2
<1>4. Power[d - 1] <= m /\ Power[e] > n
  BY <1>2, <1>3 DEF Wide
<1>5. Power[e] <= Power[d - 1] /\ Power[e] \in Nat /\ Power[d - 1] \in Nat
  BY <1>3, PowerGrows
<1>. QED
  BY <1>4, <1>5

\* The next index is wider by one digit at most.
LEMMA DigitsByOne ==
  ASSUME NEW n \in Nat
  PROVE  Digits(n + 1) <= Digits(n) + 1
<1>1. PICK d, e \in Nat : d = Digits(n) /\ e = Digits(n + 1)
  BY DigitsAre
<1>2. d >= Width /\ Wide(d, n) /\ Wide(e, n + 1) /\ Width \in Nat \ {0}
  BY <1>1, DigitsAre, NumbersAssumption
<1>. SUFFICES ASSUME e > d + 1 PROVE FALSE
  BY <1>1
<1>3. e # Width /\ e - 1 \in Nat /\ d + 1 \in Nat /\ d + 1 <= e - 1
  BY <1>2
<1>4. Power[e - 1] <= n + 1 /\ Power[d] > n
  BY <1>2, <1>3 DEF Wide
<1>5. PICK x \in Nat \ {0} : x = Power[d]
  BY PowerGrows, <1>4
<1>6. Power[d + 1] = Radix * x
  BY <1>5, PowerIs
<1>7. Radix * x \in Nat /\ Radix * x > x
  BY NumbersAssumption, Grows
<1>8. Power[d + 1] <= Power[e - 1] /\ Power[e - 1] \in Nat
  BY <1>3, PowerGrows
<1>. QED
  BY <1>4, <1>5, <1>6, <1>7, <1>8

------------------------------------------------------------------------------
(* The invariant of the preflight.                                           *)

\* Before the run nothing is opened.  In it, the preflight has seen a path that
\* is long enough for every shard the source can fill, and for the manifest; a
\* run on Windows is one whose path fits.  Only what is opened last may be longer.
SplitInv ==
  \/ SplitIdle
  \/ /\ ask \in SplitJob
     /\ phase \in {"check", "preflight", "run", "rest"} \cup SplitOver
     /\ shards \in Nat /\ longest \in Nat /\ opened \in Nat
     /\ phase \in {"check", "preflight"} => opened = 0
     /\ opened = 0 => longest = 0
     /\ phase \in {"run", "rest"} \/ opened > 0 => planned = LongestPlanned /\ (ask.windows => Fits)
     /\ opened > 0 /\ Sized => longest <= planned /\ (opened <= planned \/ OneWider)
     /\ opened > 0 /\ Sized /\ phase = "run" => opened <= planned

\* What Max of two numbers is.
LEMMA MaxOfTwo ==
  ASSUME NEW a \in Nat, NEW b \in Nat
  PROVE  Max({a, b}) = Larger(a, b)
<1>1. Larger(a, b) \in {a, b} /\ \A y \in {a, b} : Larger(a, b) >= y
  BY DEF Larger
<1>2. \A x \in {a, b} : (\A y \in {a, b} : x >= y) => x = Larger(a, b)
  BY DEF Larger
<1>. QED
  BY <1>1, <1>2 DEF Max

\* The last shard of a source that is cut into pieces has an index of one or more.
LEMMA Pieces ==
  ASSUME NEW size \in Nat, NEW bytes \in Nat \ {0}
  PROVE  /\ (size + bytes - 1) \div bytes \in Nat
         /\ size = 0 => (size + bytes - 1) \div bytes = 0
<1>1. PICK n \in Nat : n = size + bytes - 1
  <2>1. size + bytes - 1 \in Nat
    OBVIOUS
  <2>. QED
    BY <2>1
<1>2. n \div bytes \in Nat
  OBVIOUS
<1>3. n < bytes => n \div bytes = 0
  OBVIOUS
<1>. QED
  BY <1>1, <1>2, <1>3

\* What a split is asked, and that an uncompressed source is no longer than it says.
LEMMA SplitTypes ==
  ASSUME ask \in SplitJob
  PROVE  /\ ask.bytes \in Nat /\ ask.size \in Nat /\ ask.content \in Nat /\ ask.stem \in Nat
         /\ ~ask.compressed => ask.content <= ask.size
<1>1. {ask.rows, ask.bytes, ask.size, ask.content, ask.stem} \subseteq Nat
  BY SplitJobAssumption
<1>. QED
  BY <1>1, SplitJobAssumption

\* No source can fill more shards than the preflight expects.
LEMMA EnoughShards ==
  ASSUME ask \in SplitJob
  PROVE  /\ EstimatedMaxShardIndex \in Nat
         /\ Sized => MaxShards <= EstimatedMaxShardIndex /\ MaxShards \in Nat
<1>1. PICK q : q = (ask.size + ask.bytes - 1) \div ask.bytes
  OBVIOUS
<1>2. ask.bytes > 0 => q \in Nat /\ (ask.size = 0 => q = 0)
  BY <1>1, SplitTypes, Pieces
<1>3. Power[Width] \in Nat \ {0}
  BY NumbersAssumption, PowerGrows
<1>4. EstimatedMaxShardIndex =
        IF ask.size = 0 THEN Power[Width] - 1
        ELSE IF mode = "binary" /\ ask.bytes > 0 THEN Larger(1, q) ELSE Larger(1, ask.size)
  BY <1>1 DEF EstimatedMaxShardIndex
<1>5. MaxShards = IF mode # "binary" THEN ask.content ELSE IF ask.bytes = 0 THEN 0 ELSE q
  BY <1>1 DEF MaxShards
<1>6. EstimatedMaxShardIndex \in Nat
  BY <1>2, <1>3, <1>4, SplitTypes DEF Larger
<1>7. Sized => MaxShards <= EstimatedMaxShardIndex /\ MaxShards \in Nat
  BY <1>2, <1>3, <1>4, <1>5, SplitTypes DEF Larger, Sized
<1>. QED
  BY <1>6, <1>7

\* A shard with a smaller index has no longer a name; and no name is empty.
LEMMA PathsGrow ==
  ASSUME ask \in SplitJob, NEW m \in Nat, NEW n \in Nat, m <= n
  PROVE  /\ Part(ShardPath(m)) \in Nat \ {0} /\ Part(ShardPath(n)) \in Nat
         /\ Part(ShardPath(m)) <= Part(ShardPath(n))
         /\ Part(ManifestPath) \in Nat \ {0}
<1>1. PICK d, e \in Nat : d = Digits(m) /\ e = Digits(n)
  BY DigitsAre
<1>2. d <= e
  BY <1>1, DigitsGrow
<1>. QED
  BY <1>1, <1>2, SplitTypes DEF Part, ShardPath, TextShardPath, BinaryShardPath, ManifestPath

\* The preflight has the longer of the two.
LEMMA PlannedIs ==
  ASSUME ask \in SplitJob
  PROVE  /\ LongestPlanned \in Nat
         /\ Part(ManifestPath) <= LongestPlanned
         /\ Part(ShardPath(EstimatedMaxShardIndex)) <= LongestPlanned
<1>1. EstimatedMaxShardIndex \in Nat /\ EstimatedMaxShardIndex <= EstimatedMaxShardIndex
  BY EnoughShards
<1>2. PICK a, b \in Nat : a = Part(ManifestPath) /\ b = Part(ShardPath(EstimatedMaxShardIndex))
  BY <1>1, PathsGrow
<1>3. LongestPlanned = Larger(a, b)
  BY <1>2, MaxOfTwo DEF LongestPlanned
<1>. QED
  BY <1>2, <1>3 DEF Larger

\* The shard that is dropped has a path at most one longer than what the
\* preflight has seen, and longer only where its index is wider than the last.
LEMMA SpareIs ==
  ASSUME ask \in SplitJob, Spare, shards \in Nat, shards = MaxShards
  PROVE  /\ Part(ShardPath(shards + 1)) \in Nat \ {0}
         /\ \/ Part(ShardPath(shards + 1)) <= LongestPlanned
            \/ /\ Part(ShardPath(shards + 1)) = LongestPlanned + 1
               /\ Digits(shards + 1) > Digits(shards)
<1>1. PICK n \in Nat : n = shards
  OBVIOUS
<1>2. PICK d, e \in Nat : d = Digits(n) /\ e = Digits(n + 1)
  BY DigitsAre
<1>3. d <= e /\ e <= d + 1
  BY <1>2, DigitsGrow, DigitsByOne
<1>4. mode = "binary" /\ ask.bytes > 0 /\ Sized
  BY DEF Spare, Sized
<1>5. EstimatedMaxShardIndex \in Nat /\ n <= EstimatedMaxShardIndex
  BY <1>1, <1>4, EnoughShards
<1>6. PICK x \in Nat : x = Part(ShardPath(n))
  BY <1>5, PathsGrow
<1>7. x = ask.stem + 6 + d + 4 + 5 /\ Part(ShardPath(n + 1)) = ask.stem + 6 + e + 4 + 5
  BY <1>2, <1>4, <1>6 DEF Part, ShardPath, BinaryShardPath
<1>8. Part(ShardPath(EstimatedMaxShardIndex)) \in Nat /\ x <= Part(ShardPath(EstimatedMaxShardIndex))
  BY <1>5, <1>6, PathsGrow
<1>9. LongestPlanned \in Nat /\ x <= LongestPlanned
  BY <1>8, PlannedIs
<1>. QED
  BY <1>1, <1>2, <1>3, <1>7, <1>9, SplitTypes

\* What the run asks of the job does not change while it runs.
LEMMA SamePlan ==
  ASSUME ask' = ask, mode' = mode
  PROVE  /\ LongestPlanned' = LongestPlanned /\ Fits' = Fits
         /\ Sized' = Sized /\ Spare' = Spare /\ MaxShards' = MaxShards
  BY DEF LongestPlanned, Fits, EstimatedMaxShardIndex, ManifestPath, ShardPath, BinaryShardPath,
         TextShardPath, CompressOut, Part, Sized, Spare, MaxShards

\* A .part that stays the longest one stays as much longer.
LEMMA StaysWider ==
  ASSUME OneWider, UNCHANGED <<ask, mode, shards, planned, opened>>
  PROVE  OneWider'
  BY SamePlan DEF OneWider

\* One more output, of a path the preflight has seen where the shards are known.
LEMMA OutputStep ==
  ASSUME ask \in SplitJob, SplitInv, phase \in {"run", "rest"}, NEW path \in Nat \ {0},
         Sized => path <= LongestPlanned, Publish(path),
         phase = "run" \/ shards' = shards, phase' = phase \/ phase' = "done", shards' \in Nat,
         ask' = ask, mode' = mode, planned' = planned
  PROVE  SplitInv'
<1>1. /\ longest \in Nat /\ opened \in Nat /\ planned = LongestPlanned /\ (ask.windows => Fits)
      /\ opened = 0 => longest = 0
      /\ opened > 0 /\ Sized => longest <= planned /\ (opened <= planned \/ OneWider)
      /\ opened > 0 /\ Sized /\ phase = "run" => opened <= planned
  BY DEF SplitInv, SplitIdle
<1>2. LongestPlanned' = LongestPlanned /\ Fits' = Fits /\ Sized' = Sized
  BY SamePlan
<1>3. LongestPlanned \in Nat
  BY PlannedIs
<1>4. opened' \in Nat \ {0} /\ longest' \in Nat /\ (Sized => longest' <= planned)
  BY <1>1, <1>3 DEF Publish, OpenPart, Larger
<1>5. Sized /\ ~(opened' <= planned) => phase = "rest" /\ OneWider'
  <2>. SUFFICES ASSUME Sized, ~(opened' <= planned) PROVE phase = "rest" /\ OneWider'
    OBVIOUS
  <2>1. opened' = opened /\ opened > 0 /\ ~(opened <= planned)
    BY <1>1, <1>3 DEF Publish, OpenPart, Larger
  <2>2. OneWider /\ phase = "rest"
    BY <1>1, <2>1
  <2>. QED
    BY <2>1, <2>2, StaysWider
<1>. QED
  BY <1>1, <1>2, <1>4, <1>5 DEF SplitInv, SplitOver

\* SplitInv holds at first,
LEMMA SplitInitInv == SplitPlanInit => SplitInv
  BY DEF SplitPlanInit, SplitInv

\* ... and after every step,
LEMMA SplitNextInv == SplitInv /\ [SplitPlanNext]_splitPlanVars => SplitInv'
<1>. SUFFICES ASSUME SplitInv, [SplitPlanNext]_splitPlanVars PROVE SplitInv'
  OBVIOUS
<1>1. CASE SplitIdle
  BY <1>1 DEF SplitInv, SplitIdle, SplitPlanNext, splitPlanVars, Check, SplitPreflight, SplitFails,
              NextShard, DropShard, Finish, SplitEnded, SplitOver
<1>2. CASE ~SplitIdle
  <2>0. ask \in SplitJob /\ shards \in Nat
    BY <1>2 DEF SplitInv
  <2>1. CASE Check
    <3>1. opened = 0 /\ longest = 0
      BY <1>2, <2>1 DEF SplitInv, Check
    <3>. QED
      BY <2>0, <2>1, <3>1 DEF SplitInv, Check, SplitOver
  <2>2. CASE SplitPreflight
    <3>1. LongestPlanned' = LongestPlanned /\ Fits' = Fits
      BY <2>2, SamePlan DEF SplitPreflight
    <3>2. opened = 0 /\ longest = 0
      BY <1>2, <2>2 DEF SplitPreflight, SplitInv
    <3>. QED
      BY <2>0, <2>2, <3>1, <3>2 DEF SplitPreflight, SplitInv, SplitOver
  <2>3. CASE SplitFails
    <3>1. LongestPlanned' = LongestPlanned /\ Fits' = Fits /\ Sized' = Sized
      BY <2>3, SamePlan DEF SplitFails
    <3>2. OneWider => OneWider'
      BY <2>3, StaysWider DEF SplitFails
    <3>. QED
      BY <1>2, <2>3, <3>1, <3>2 DEF SplitInv, SplitFails, SplitOver
  <2>4. CASE NextShard
    <3>1. PICK n \in Nat : n = shards + 1
      BY <2>0
    <3>2. Part(ShardPath(n)) \in Nat \ {0}
      BY <2>0, PathsGrow
    <3>3. Sized => Part(ShardPath(n)) <= LongestPlanned
      <4>. SUFFICES ASSUME Sized PROVE Part(ShardPath(n)) <= LongestPlanned
        OBVIOUS
      <4>1. shards < MaxShards
        BY <2>4 DEF NextShard
      <4>2. EstimatedMaxShardIndex \in Nat /\ n <= EstimatedMaxShardIndex
        BY <2>0, <3>1, <4>1, EnoughShards
      <4>3. Part(ShardPath(n)) <= Part(ShardPath(EstimatedMaxShardIndex))
            /\ Part(ShardPath(EstimatedMaxShardIndex)) \in Nat
        BY <2>0, <4>2, PathsGrow
      <4>. QED
        BY <2>0, <3>2, <4>3, PlannedIs
    <3>4. /\ phase = "run" /\ phase' = "run" /\ shards' = n /\ ask' = ask /\ mode' = mode
          /\ planned' = planned /\ Publish(Part(ShardPath(n)))
      BY <2>4, <3>1 DEF NextShard
    <3>. QED
      BY <2>0, <3>2, <3>3, <3>4, OutputStep
  <2>5. CASE DropShard
    <3>1. PICK path \in Nat \ {0} : path = Part(ShardPath(shards + 1))
      BY <2>0, <2>5, SpareIs DEF DropShard
    <3>2. path <= LongestPlanned \/ (path = LongestPlanned + 1 /\ Digits(shards + 1) > Digits(shards))
      BY <2>0, <2>5, <3>1, SpareIs DEF DropShard
    <3>3. /\ LongestPlanned' = LongestPlanned /\ Fits' = Fits /\ Sized' = Sized
          /\ Spare' = Spare /\ MaxShards' = MaxShards
      BY <2>5, SamePlan DEF DropShard
    <3>4. /\ longest \in Nat /\ opened \in Nat /\ planned = LongestPlanned /\ (ask.windows => Fits)
          /\ opened = 0 => longest = 0
          /\ opened > 0 /\ Sized => longest <= planned /\ opened <= planned
      BY <1>2, <2>5 DEF SplitInv, DropShard
    <3>5. LongestPlanned \in Nat /\ opened' = Larger(opened, path)
      BY <2>0, <2>5, <3>1, PlannedIs DEF DropShard, OpenPart
    <3>6. opened' \in Nat \ {0} /\ (Sized => longest <= planned)
      BY <3>4, <3>5 DEF Larger
    <3>7. Sized /\ ~(opened' <= planned) => OneWider'
      <4>. SUFFICES ASSUME Sized, ~(opened' <= planned) PROVE OneWider'
        OBVIOUS
      <4>1. opened' = planned + 1 /\ Digits(shards + 1) > Digits(shards)
        BY <3>2, <3>4, <3>5 DEF Larger
      <4>2. Spare /\ shards = MaxShards /\ shards' = shards /\ planned' = planned
        BY <2>5 DEF DropShard
      <4>. QED
        BY <3>3, <4>1, <4>2 DEF OneWider
    <3>. QED
      BY <2>0, <2>5, <3>3, <3>4, <3>6, <3>7 DEF SplitInv, DropShard, SplitOver
  <2>6. CASE Finish
    <3>1. Part(ManifestPath) \in Nat \ {0} /\ Part(ManifestPath) <= LongestPlanned
      BY <2>0, PathsGrow, PlannedIs
    <3>2. /\ phase \in {"run", "rest"} /\ phase' = "done" /\ shards' = shards /\ ask' = ask
          /\ mode' = mode /\ planned' = planned /\ Publish(Part(ManifestPath))
      BY <2>6 DEF Finish
    <3>. QED
      BY <2>0, <3>1, <3>2, OutputStep
  <2>7. CASE UNCHANGED splitPlanVars
    <3>1. LongestPlanned' = LongestPlanned /\ Fits' = Fits /\ Sized' = Sized
      BY <2>7, SamePlan DEF splitPlanVars
    <3>2. OneWider => OneWider'
      BY <2>7, StaysWider DEF splitPlanVars
    <3>. QED
      BY <1>2, <2>7, <3>1, <3>2 DEF SplitInv, splitPlanVars, SplitOver
  <2>. QED
    BY <2>1, <2>2, <2>3, <2>4, <2>5, <2>6, <2>7 DEF SplitPlanNext, SplitEnded
<1>. QED
  BY <1>1, <1>2

\* ... and gives that the preflight looked at the longest path.
LEMMA CoversOutputs == SplitInv => PlanCoversOutputs
<1>. SUFFICES ASSUME SplitInv, opened > 0, Sized
              PROVE  /\ longest <= planned
                     /\ ask.windows /\ longest > 0 => longest < MaxPath
                     /\ opened <= planned \/ OneWider
  BY DEF PlanCoversOutputs
<1>1. /\ ask \in SplitJob /\ longest \in Nat /\ planned = LongestPlanned /\ longest <= planned
      /\ ask.windows => Fits
      /\ opened <= planned \/ OneWider
  BY DEF SplitInv, SplitIdle
<1>2. MaxPath \in Nat /\ LongestPlanned \in Nat
  BY <1>1, NumbersAssumption, PlannedIs
<1>. QED
  BY <1>1, <1>2 DEF Fits

\* The preflight has seen a path as long as any output of a split whose shards can
\* be told from the size, and all but one character of what a dropped shard opens,
\* whatever the radix, the least width and the limit are.
THEOREM PreflightCovers == SplitPlanSpec => []PlanCoversOutputs
  BY SplitInitInv, SplitNextInv, CoversOutputs, PTL DEF SplitPlanSpec

------------------------------------------------------------------------------
------------------------------------------------------------------------------
(* The shapes of a plan.                                                    *)

Uris == {u \in Written : IsUri(u)}
Source == [src : Uris, base : Segment]
Item == [src : Uris, dst : Uris]

\* What is known of the lists while they are made.
ShapesInv ==
  \/ CopyIdle
  \/ /\ job \in Job
     /\ pc \in {"args", "list", "file", "check", "legs"} \cup Terminal
     /\ pc \in {"args", "list"} => job.form = "args"
     /\ pc = "file" => job.form = "file"
     /\ at \in Nat \ {0} /\ entry \in Nat \ {0}
     /\ resolved \in Seq(Source) /\ matches \in Seq(Source) /\ items \in Seq(Item)
     /\ pc = "list" => at <= Len(job.args) /\ Arg.glob /\ Len(resolved) + Len(matches) <= job.max

------------------------------------------------------------------------------
(* Names and paths.                                                          *)

\* The front and the last of a sequence are of what it is of.
LEMMA FrontType ==
  ASSUME NEW S, NEW s \in Seq(S), s # <<>>
  PROVE  Front(s) \in Seq(S) /\ Last(s) \in S
<1>1. Len(s) \in Nat \ {0}
  OBVIOUS
<1>2. Front(s) \in Seq(S)
  BY <1>1 DEF Front
<1>. QED
  BY <1>1, <1>2 DEF Last

\* The directory after each of the first m segments.
IsDirs(f, path, m) ==
  f = [k \in 0 .. m |-> IF k = 0 THEN <<>> ELSE Enter(f[k - 1], path[k])]

\* Entering a segment makes a directory.
LEMMA EnterType ==
  ASSUME NEW dir \in Seq(Segment), NEW s \in Segment
  PROVE  Enter(dir, s) \in Seq(Segment)
<1>1. Append(dir, s) \in Seq(Segment)
  BY AppendProperties
<1>2. dir # <<>> => Front(dir) \in Seq(Segment)
  BY FrontType
<1>. QED
  BY <1>1, <1>2, Zenon DEF Enter

\* The directories on the way of a path can be told, one by one.
LEMMA DirsExist ==
  ASSUME NEW path, NEW m \in Nat
  PROVE  \E f : IsDirs(f, path, m)
<1>. DEFINE S == {n \in Nat : \E f : IsDirs(f, path, n)}
<1>1. 0 \in S
  <2>. DEFINE z == [k \in 0 .. 0 |-> <<>>]
  <2>1. IsDirs(z, path, 0)
    BY DEF IsDirs
  <2>. QED
    BY <2>1
<1>2. ASSUME NEW n \in Nat, \E f : IsDirs(f, path, n) PROVE \E f : IsDirs(f, path, n + 1)
  <2>1. PICK f : IsDirs(f, path, n)
    BY <1>2
  <2>. DEFINE g == [k \in 0 .. n + 1 |-> IF k = n + 1 THEN Enter(f[n], path[n + 1]) ELSE f[k]]
  <2>2. /\ g[n + 1] = Enter(f[n], path[n + 1]) /\ \A k \in 0 .. n : g[k] = f[k]
        /\ g = [k \in 0 .. n + 1 |-> g[k]]
    OBVIOUS
  <2>. HIDE DEF g
  <2>3. f[0] = <<>> /\ \A k \in 1 .. n : f[k] = Enter(f[k - 1], path[k])
    BY <2>1 DEF IsDirs
  <2>4. g[0] = <<>>
    <3>1. 0 \in 0 .. n
      OBVIOUS
    <3>. QED
      BY <2>2, <2>3, <3>1
  <2>5. ASSUME NEW k \in 1 .. n + 1 PROVE g[k] = Enter(g[k - 1], path[k])
    <3>1. CASE k = n + 1
      <4>1. (n + 1) - 1 = n /\ n \in 0 .. n
        OBVIOUS
      <4>. QED
        BY <2>2, <3>1, <4>1
    <3>2. CASE k # n + 1
      <4>1. k \in 1 .. n /\ k - 1 \in 0 .. n /\ k \in 0 .. n
        BY <3>2
      <4>. QED
        BY <2>2, <2>3, <4>1
    <3>. QED
      BY <3>1, <3>2
  <2>6. ASSUME NEW k \in 0 .. n + 1
        PROVE  g[k] = IF k = 0 THEN <<>> ELSE Enter(g[k - 1], path[k])
    <3>1. k # 0 => k \in 1 .. n + 1
      OBVIOUS
    <3>. QED
      BY <2>4, <2>5, <3>1
  <2>7. IsDirs(g, path, n + 1)
    BY <2>2, <2>6 DEF IsDirs
  <2>. QED
    BY <2>7
<1>3. \A n \in Nat : n \in S => n + 1 \in S
  BY <1>2
<1>. HIDE DEF S
<1>4. Nat \subseteq S
  BY <1>1, <1>3, Induct
<1>. QED
  BY <1>4 DEF S

\* A clean path is made of the segments of the path.
LEMMA CleanType ==
  ASSUME NEW path \in Seq(Segment)
  PROVE  Clean(path) \in Seq(Segment)
<1>1. PICK m \in Nat : m = Len(path)
  OBVIOUS
<1>. DEFINE dirs == CHOOSE f : IsDirs(f, path, m)
<1>2. IsDirs(dirs, path, m)
  BY <1>1, DirsExist
<1>3. Clean(path) = dirs[m]
  BY <1>1, Zenon DEF Clean, IsDirs
<1>. HIDE DEF dirs
<1>. DEFINE S == {k \in Nat : k <= m => dirs[k] \in Seq(Segment)}
<1>4. 0 \in S
  <2>1. <<>> \in Seq(Segment)
    BY EmptySeq
  <2>2. dirs[0] = <<>>
    BY <1>2 DEF IsDirs
  <2>. QED
    BY <2>1, <2>2
<1>5. \A k \in Nat : k \in S => k + 1 \in S
  <2>. SUFFICES ASSUME NEW k \in Nat, k + 1 <= m, dirs[k] \in Seq(Segment)
                PROVE  dirs[k + 1] \in Seq(Segment)
    OBVIOUS
  <2>1. k + 1 \in 0 .. m /\ k + 1 # 0 /\ (k + 1) - 1 = k /\ k + 1 \in 1 .. Len(path)
    BY <1>1
  <2>2. dirs[k + 1] = Enter(dirs[k], path[k + 1])
    BY <1>2, <2>1 DEF IsDirs
  <2>3. path[k + 1] \in Segment
    BY <2>1
  <2>. QED
    BY <2>2, <2>3, EnterType
<1>. HIDE DEF S
<1>6. Nat \subseteq S
  BY <1>4, <1>5, Induct
<1>. QED
  BY <1>3, <1>6 DEF S

\* What is assumed of escaping and of the working directory.
LEMMA Constants == /\ Escaped \in [Segment -> Segment] /\ Decoded \in [Segment -> Segment]
                   /\ Cwd \in Seq(Segment)
<1>1. /\ Escaped \in [Segment -> Segment] /\ Decoded \in [Segment -> Segment]
      /\ \E S : S \subseteq Segment /\ Cwd \in Seq(S)
  BY UriAssumption, Zenon
<1>. QED
  BY <1>1

\* An escaped path is of segments, as many as the path has.
LEMMA EscapedType ==
  ASSUME NEW u \in Written
  PROVE  /\ EscapedPath(u) \in Seq(Segment) /\ Len(EscapedPath(u)) = Len(u.path)
         /\ u.path \in Seq(Segment) /\ u.host \in Segment
<1>1. u.path \in Seq(Segment) /\ u.host \in Segment
  BY DEF Written
<1>2. DOMAIN u.path = 1 .. Len(u.path) /\ Len(u.path) \in Nat
  BY <1>1
<1>3. \A k \in 1 .. Len(u.path) : Escaped[u.path[k]] \in Segment
  BY <1>1, Constants
<1>4. EscapedPath(u) \in [1 .. Len(u.path) -> Segment]
  BY <1>2, <1>3 DEF EscapedPath
<1>. QED
  BY <1>1, <1>2, <1>4

\* Numbers that are not all absent have a largest one.
LEMMA LargestIn ==
  ASSUME NEW n \in Nat, NEW T \in SUBSET (1 .. n), T # {}
  PROVE  \E k \in T : \A j \in T : j <= k
<1>. DEFINE S == {d \in Nat : (\E k \in T : k >= n - d) => \E k \in T : \A j \in T : j <= k}
<1>1. 0 \in S
  OBVIOUS
<1>2. \A d \in Nat : d \in S => d + 1 \in S
  <2>. SUFFICES ASSUME NEW d \in Nat, d \in S, NEW k \in T, k >= n - (d + 1)
                PROVE  \E i \in T : \A j \in T : j <= i
    OBVIOUS
  <2>1. CASE \E i \in T : i >= n - d
    BY <2>1
  <2>2. CASE ~ \E i \in T : i >= n - d
    <3>1. \A j \in T : j <= k
      BY <2>2
    <3>. QED
      BY <3>1
  <2>. QED
    BY <2>1, <2>2
<1>3. Nat \subseteq S
  <2>. HIDE DEF S
  <2>. QED
    BY <1>1, <1>2, Induct
<1>4. n \in S
  BY <1>3
<1>5. \A k \in T : k >= n - n
  OBVIOUS
<1>. QED
  BY <1>4, <1>5

\* A key is a sequence of segments.
LEMMA KeyType ==
  ASSUME NEW u \in Written
  PROVE  Key(u) \in Seq(Segment)
<1>1. u.path \in Seq(Segment) /\ <<>> \in Seq(Segment) /\ Cwd \in Seq(Segment)
  BY EscapedType, EmptySeq, Constants
<1>2. CASE u.form \in LocalForms
  <2>1. Cwd \o u.path \in Seq(Segment)
    BY <1>1
  <2>2. [k \in DOMAIN u.path |-> Decoded[u.path[k]]] \in Seq(Segment)
    <3>1. DOMAIN u.path = 1 .. Len(u.path) /\ Len(u.path) \in Nat
      BY <1>1
    <3>2. \A k \in 1 .. Len(u.path) : Decoded[u.path[k]] \in Segment
      BY <1>1, Constants
    <3>3. [k \in DOMAIN u.path |-> Decoded[u.path[k]]] \in [1 .. Len(u.path) -> Segment]
      BY <3>1, <3>2
    <3>. QED
      BY <3>1, <3>3
  <2>3. LocalPath(u) \in Seq(Segment)
    BY <1>1, <1>2, <2>1, <2>2, CleanType DEF LocalPath, LocalForms
  <2>. QED
    BY <1>2, <2>3 DEF Key
<1>3. CASE u.form \notin LocalForms
  <2>1. ObjectPath(u) \in Seq(Segment)
    <3>1. u.path # <<>> => EscapedPath(u) # <<>> /\ Tail(EscapedPath(u)) \in Seq(Segment)
      <4>1. u.path # <<>> => Len(u.path) > 0
        BY <1>1
      <4>. QED
        BY <4>1, EscapedType
    <3>. QED
      BY <3>1, EscapedType DEF ObjectPath
  <2>2. ASSUME NEW p \in Seq(Segment) PROVE TrimRight(p) \in Seq(Segment)
    <3>. DEFINE named == {k \in DOMAIN p : p[k] # ""}
                top == CHOOSE k \in named : \A j \in named : j <= k
    <3>1. ASSUME named # {} PROVE SubSeq(p, 1, top) \in Seq(Segment)
      <4>1. Len(p) \in Nat /\ DOMAIN p = 1 .. Len(p)
        OBVIOUS
      <4>2. named \subseteq 1 .. Len(p)
        BY <4>1, Zenon
      <4>. HIDE DEF named
      <4>3. \E k \in named : \A j \in named : j <= k
        BY <3>1, <4>1, <4>2, LargestIn
      <4>4. top \in named
        BY <4>3
      <4>5. top \in 1 .. Len(p)
        BY <4>2, <4>4
      <4>. HIDE DEF top
      <4>. QED
        BY <4>1, <4>5
    <3>. QED
      BY <1>1, <3>1, Zenon DEF TrimRight
  <2>. QED
    BY <1>3, <2>1, <2>2 DEF Key
<1>. QED
  BY <1>2, <1>3

\* The name of a source, if it has one.
LEMMA BasenameType ==
  ASSUME NEW u \in Written, Basename(u) # None
  PROVE  Basename(u) \in Segment
<1>1. WellFormed(u)
  BY DEF Basename
<1>2. u.form \in AzureForms \cup GcsForms \cup LocalForms /\ Container(u) # ""
  BY <1>1 DEF WellFormed, Written
<1>3. u.form \notin LocalForms => Container(u) \in Segment
  <2>. SUFFICES ASSUME u.form \notin LocalForms PROVE Container(u) \in Segment
    OBVIOUS
  <2>1. CASE u.form = "gs"
    BY <2>1, EscapedType DEF Container
  <2>2. CASE u.form \in {"azblob", "azhttps", "gcshttps"}
    <3>1. Container(u) = IF u.path = <<>> THEN "" ELSE EscapedPath(u)[1]
      BY <2>2 DEF Container
    <3>2. u.path # <<>>
      BY <1>2, <3>1
    <3>3. 1 \in 1 .. Len(EscapedPath(u)) /\ EscapedPath(u) \in Seq(Segment)
      BY <3>2, EscapedType
    <3>. QED
      BY <3>1, <3>2, <3>3
  <2>. QED
    BY <1>2, <2>1, <2>2 DEF AzureForms, GcsForms
<1>4. Key(u) # <<>> => Last(Key(u)) \in Segment
  BY KeyType, FrontType
<1>. QED
  BY <1>1, <1>3, <1>4 DEF Basename

\* A destination is a URI.
LEMMA DestinationType ==
  ASSUME job \in Job, job.form = "args", NEW s \in Source
  PROVE  Destination(s) \in Uris
<1>1. job.dst \in Uris /\ s.base \in Segment
  BY JobAssumption DEF IsUri, Uris, Source
<1>2. CASE EndsInSlash(job.dst)
  <2>1. PICK d \in Written : d = job.dst
    BY <1>1 DEF Uris
  <2>2. d.path \in Seq(Segment) /\ d.path # <<>>
    BY <1>2, <2>1 DEF EndsInSlash, Written
  <2>3. Append(Front(d.path), s.base) \in Seq(Segment) /\ Append(Front(d.path), s.base) # <<>>
    <3>1. Front(d.path) \in Seq(Segment)
      BY <2>2, FrontType
    <3>2. /\ Append(Front(d.path), s.base) \in Seq(Segment)
          /\ Len(Append(Front(d.path), s.base)) = Len(Front(d.path)) + 1
      BY <1>1, <3>1, AppendProperties
    <3>. QED
      BY <3>1, <3>2
  <2>4. PICK p \in Seq(Segment) : p = Append(Front(d.path), s.base) /\ p # <<>>
    BY <2>3
  <2>5. Destination(s) = [d EXCEPT !.path = p]
    BY <1>2, <2>1, <2>4 DEF Destination, JoinDestinationPrefix
  <2>6. [d EXCEPT !.path = p] \in Written /\ [d EXCEPT !.path = p].path = p
        /\ [d EXCEPT !.path = p].form = d.form /\ [d EXCEPT !.path = p].host = d.host
    BY DEF Written
  <2>. QED
    BY <1>1, <2>1, <2>4, <2>5, <2>6 DEF Uris, IsUri
<1>3. CASE ~EndsInSlash(job.dst)
  BY <1>1, <1>3 DEF Destination
<1>. QED
  BY <1>2, <1>3

------------------------------------------------------------------------------
(* The lists.                                                                *)

\* ShapesInv holds at first,
LEMMA ShapesInit == Init => ShapesInv
<1>. SUFFICES ASSUME Init PROVE ShapesInv
  OBVIOUS
<1>1. <<>> \in Seq(Source) /\ <<>> \in Seq(Item)
  BY EmptySeq
<1>2. pc = job.form /\ job.form \in {"args", "file"} /\ job \in Job
  BY JobAssumption DEF Init
<1>. QED
  BY <1>1, <1>2 DEF Init, ShapesInv

\* ... when the plan is given up,
LEMMA ShapesGive ==
  ASSUME ShapesInv, ~CopyIdle, NEW up \in {"refused", "unread"}, Give(up)
  PROVE  ShapesInv'
<1>1. <<>> \in Seq(Item)
  BY EmptySeq
<1>. QED
  BY <1>1 DEF ShapesInv, Give, Terminal

\* The argument that is next.
LEMMA ArgType ==
  ASSUME job \in Job, job.form = "args", at \in Nat \ {0}, at <= Len(job.args)
  PROVE  /\ Arg.src \in Uris /\ Arg.glob \in BOOLEAN /\ job.max \in Nat \ {0}
         /\ Arg.glob => /\ Arg.list \in Seq(ListedEntry)
                        /\ \A i \in DOMAIN Arg.list : Arg.list[i].src \in Uris
<1>1. /\ job.args \in Seq(Argument) /\ job.max \in Nat \ {0}
      /\ \A k \in DOMAIN job.args :
           /\ IsUri(job.args[k].src)
           /\ job.args[k].glob => \A i \in DOMAIN job.args[k].list : IsUri(job.args[k].list[i].src)
  BY JobAssumption
<1>2. at \in DOMAIN job.args /\ Arg \in Argument
  BY <1>1 DEF Arg
<1>3. IsUri(Arg.src) /\ (Arg.glob => \A i \in DOMAIN Arg.list : IsUri(Arg.list[i].src))
  BY <1>1, <1>2 DEF Arg
<1>4. Arg.glob \in BOOLEAN
  BY <1>2, Zenon DEF Argument
<1>5. ASSUME Arg.glob PROVE Arg.list \in Seq(ListedEntry)
  <2>1. Arg \in [glob : {TRUE}, src : Written, list : Seq(ListedEntry)]
    BY <1>2, <1>5, Zenon DEF Argument
  <2>. QED
    BY <2>1
<1>. QED
  BY <1>1, <1>3, <1>4, <1>5 DEF IsUri, Uris

\* ... when an argument without a glob is taken,
LEMMA ShapesExplicit == ASSUME ShapesInv, Explicit PROVE ShapesInv'
<1>0. ~CopyIdle /\ job \in Job /\ job.form = "args" /\ at \in Nat \ {0} /\ resolved \in Seq(Source)
  BY DEF Explicit, ShapesInv, CopyIdle
<1>1. CASE Basename(Arg.src) = None
  BY <1>0, <1>1, ShapesGive DEF Explicit, Refuse
<1>2. CASE Basename(Arg.src) # None
  <2>1. Arg.src \in Uris /\ Arg.src \in Written
    BY <1>0, ArgType DEF Explicit, Uris
  <2>2. Basename(Arg.src) \in Segment
    BY <1>2, <2>1, BasenameType
  <2>3. PICK s \in Source : s = [src |-> Arg.src, base |-> Basename(Arg.src)]
    BY <2>1, <2>2 DEF Source
  <2>4. Append(resolved, s) \in Seq(Source)
    BY <1>0, AppendProperties
  <2>5. resolved' \in Seq(Source) /\ at' = at + 1 /\ UNCHANGED <<pc, job, entry, matches, items>>
    BY <1>2, <2>3, <2>4 DEF Explicit
  <2>. QED
    BY <1>0, <2>5 DEF ShapesInv, Explicit
<1>. QED
  BY <1>1, <1>2

\* ... when a listing starts or fails,
LEMMA ShapesGlob == ASSUME ShapesInv, GlobStarts \/ ListFails PROVE ShapesInv'
<1>0. ~CopyIdle /\ job \in Job
  BY DEF GlobStarts, ListFails, ShapesInv, CopyIdle
<1>1. CASE Refuse
  BY <1>0, <1>1, ShapesGive DEF Refuse
<1>2. CASE ListFails
  BY <1>0, <1>2, ShapesGive DEF ListFails
<1>3. CASE GlobStarts /\ ~Refuse
  <2>1. /\ pc = "args" /\ pc' = "list" /\ Arg.glob /\ at <= Len(job.args) /\ ~(Remaining <= 0)
        /\ entry' = 1 /\ matches' = <<>> /\ UNCHANGED <<job, at, resolved, items>>
    BY <1>3 DEF GlobStarts
  <2>2. /\ job.form = "args" /\ at \in Nat \ {0} /\ resolved \in Seq(Source) /\ items \in Seq(Item)
    BY <1>0, <2>1 DEF ShapesInv
  <2>3. <<>> \in Seq(Source) /\ Len(<<>>) = 0
    BY EmptySeq
  <2>4. job.max \in Nat
    BY <1>0, <2>1, <2>2, ArgType
  <2>5. Len(resolved) <= job.max
    BY <2>1, <2>2, <2>4 DEF Remaining
  <2>6. Arg' = Arg
    BY <2>1 DEF Arg
  <2>. QED
    BY <1>0, <2>1, <2>2, <2>3, <2>5, <2>6 DEF ShapesInv
<1>. QED
  BY <1>1, <1>2, <1>3

\* ... when an entry of it is looked at,
LEMMA ShapesEntry == ASSUME ShapesInv, ListEntry PROVE ShapesInv'
<1>0. /\ ~CopyIdle /\ job \in Job /\ job.form = "args" /\ at \in Nat \ {0} /\ entry \in Nat \ {0}
      /\ at <= Len(job.args) /\ Arg.glob /\ matches \in Seq(Source) /\ resolved \in Seq(Source)
      /\ Len(resolved) + Len(matches) <= job.max
  BY DEF ListEntry, ShapesInv, CopyIdle
<1>1. CASE AtLimit
  BY <1>0, <1>1, ShapesGive DEF AtLimit, Refuse
<1>2. CASE ~AtLimit
  <2>1. /\ entry <= Len(Arg.list) /\ ~(Matches(Listed) /\ Len(matches) >= Remaining)
        /\ matches' = IF Matches(Listed)
                      THEN Append(matches, [src |-> Listed.src, base |-> Listed.base])
                      ELSE matches
        /\ entry' = entry + 1 /\ UNCHANGED <<pc, job, at, resolved, items>>
    BY <1>2 DEF ListEntry
  <2>2. /\ Arg.list \in Seq(ListedEntry) /\ job.max \in Nat
        /\ \A i \in DOMAIN Arg.list : Arg.list[i].src \in Uris
    BY <1>0, ArgType
  <2>3. entry \in DOMAIN Arg.list /\ Listed \in ListedEntry
    BY <1>0, <2>1, <2>2 DEF Listed
  <2>4. Listed.src \in Uris /\ Listed.base \in Segment
    BY <2>2, <2>3 DEF Listed, ListedEntry
  <2>5. PICK s \in Source : s = [src |-> Listed.src, base |-> Listed.base]
    BY <2>4 DEF Source
  <2>6. Append(matches, s) \in Seq(Source) /\ Len(Append(matches, s)) = Len(matches) + 1
    BY <1>0, AppendProperties
  <2>7. /\ matches' \in Seq(Source)
        /\ Matches(Listed) => Len(matches') = Len(matches) + 1
        /\ ~Matches(Listed) => matches' = matches
    BY <1>0, <2>1, <2>5, <2>6
  <2>8. Len(resolved) + Len(matches') <= job.max
    <3>1. PICK a, b \in Nat : a = Len(resolved) /\ b = Len(matches)
      BY <1>0
    <3>2. Matches(Listed) => b < job.max - a
      BY <2>1, <2>2, <3>1 DEF Remaining
    <3>. QED
      BY <1>0, <2>2, <2>7, <3>1, <3>2
  <2>9. Arg' = Arg
    BY <2>1 DEF Arg
  <2>. QED
    BY <1>0, <2>1, <2>7, <2>8, <2>9 DEF ShapesInv, ListEntry
<1>. QED
  BY <1>1, <1>2

\* ... when it ends,
LEMMA ShapesGlobEnds == ASSUME ShapesInv, GlobEnds PROVE ShapesInv'
<1>0. /\ ~CopyIdle /\ job \in Job /\ job.form = "args" /\ at \in Nat \ {0} /\ entry \in Nat \ {0}
      /\ matches \in Seq(Source) /\ resolved \in Seq(Source) /\ items \in Seq(Item)
  BY DEF GlobEnds, ShapesInv, CopyIdle
<1>1. CASE Refuse
  BY <1>0, <1>1, ShapesGive DEF Refuse
<1>2. CASE ~Refuse
  <2>1. /\ resolved' = resolved \o matches /\ at' = at + 1 /\ pc' = "args"
        /\ UNCHANGED <<job, entry, matches, items>>
    BY <1>2 DEF GlobEnds
  <2>2. resolved \o matches \in Seq(Source)
    BY <1>0
  <2>3. resolved' \in Seq(Source)
    BY <2>1, <2>2
  <2>. QED
    BY <1>0, <2>1, <2>3 DEF ShapesInv
<1>. QED
  BY <1>1, <1>2

\* ... when sources are mapped to destinations,
LEMMA ShapesMap == ASSUME ShapesInv, MapSources PROVE ShapesInv'
<1>0. /\ ~CopyIdle /\ job \in Job /\ job.form = "args" /\ at \in Nat \ {0} /\ entry \in Nat \ {0}
      /\ matches \in Seq(Source) /\ resolved \in Seq(Source)
  BY DEF MapSources, ShapesInv, CopyIdle
<1>1. CASE Refuse
  BY <1>0, <1>1, ShapesGive DEF Refuse
<1>2. CASE ~Refuse
  <2>1. /\ items' = [k \in DOMAIN resolved |->
                       [src |-> resolved[k].src, dst |-> Destination(resolved[k])]]
        /\ pc' = "check" /\ at' = 1 /\ UNCHANGED <<job, entry, matches, resolved>>
    BY <1>2 DEF MapSources
  <2>2. \A s \in Source : [src |-> s.src, dst |-> Destination(s)] \in Item
    <3>. SUFFICES ASSUME NEW s \in Source PROVE [src |-> s.src, dst |-> Destination(s)] \in Item
      OBVIOUS
    <3>1. s.src \in Uris
      BY DEF Source
    <3>2. Destination(s) \in Uris
      BY <1>0, DestinationType
    <3>. QED
      BY <3>1, <3>2 DEF Item
  <2>3. DOMAIN resolved = 1 .. Len(resolved) /\ Len(resolved) \in Nat
    BY <1>0
  <2>4. \A k \in 1 .. Len(resolved) : resolved[k] \in Source
    BY <1>0
  <2>5. items' \in [1 .. Len(resolved) -> Item]
    BY <2>1, <2>2, <2>3, <2>4
  <2>6. items' \in Seq(Item)
    BY <2>3, <2>5
  <2>. QED
    BY <1>0, <2>1, <2>6 DEF ShapesInv
<1>. QED
  BY <1>1, <1>2

\* ... when a line is read,
LEMMA ShapesLine == ASSUME ShapesInv, ReadLine PROVE ShapesInv'
<1>0. /\ ~CopyIdle /\ job \in Job /\ job.form = "file" /\ pc = "file" /\ at \in Nat \ {0}
      /\ entry \in Nat \ {0}
      /\ matches \in Seq(Source) /\ resolved \in Seq(Source) /\ items \in Seq(Item)
  BY DEF ReadLine, ShapesInv, CopyIdle
<1>1. CASE Refuse
  BY <1>0, <1>1, ShapesGive DEF Refuse
<1>2. CASE ~Refuse
  <2>1. PICK line : line = job.lines[at]
    OBVIOUS
  <2>2. /\ line.kind # "broken"
        /\ items' = IF line.kind = "blank" THEN items
                    ELSE Append(items, [src |-> line.src, dst |-> line.dst])
        /\ at' = at + 1 /\ UNCHANGED <<pc, job, entry, matches, resolved>>
    BY <1>2, <2>1 DEF ReadLine
  <2>3. /\ job.lines \in Seq(Line)
        /\ \A k \in DOMAIN job.lines :
             job.lines[k].kind = "entry" => IsUri(job.lines[k].src) /\ IsUri(job.lines[k].dst)
    BY <1>0, JobAssumption
  <2>4. at \in DOMAIN job.lines /\ line \in Line
    BY <1>0, <2>1, <2>3 DEF ReadLine
  <2>5. line.kind = "entry" => line.src \in Uris /\ line.dst \in Uris
    BY <2>1, <2>3, <2>4 DEF IsUri, Uris
  <2>6. line.kind \in {"blank", "entry"}
    BY <2>2, <2>4 DEF Line
  <2>7. CASE line.kind = "blank"
    BY <1>0, <2>2, <2>7 DEF ShapesInv
  <2>8. CASE line.kind = "entry"
    <3>1. PICK e \in Item : e = [src |-> line.src, dst |-> line.dst]
      BY <2>5, <2>8 DEF Item
    <3>2. Append(items, e) \in Seq(Item)
      BY <1>0, AppendProperties
    <3>3. items' \in Seq(Item)
      BY <2>2, <2>8, <3>1, <3>2
    <3>. QED
      BY <1>0, <2>2, <3>3 DEF ShapesInv
  <2>. QED
    BY <2>6, <2>7, <2>8
<1>. QED
  BY <1>1, <1>2

\* ... when nothing is added,
LEMMA ShapesRest ==
  ASSUME ShapesInv, ReadFails \/ LinesEnd \/ CheckItem \/ CheckEnds \/ CheckLegs
  PROVE  ShapesInv'
<1>0. /\ ~CopyIdle /\ job \in Job
  BY DEF ReadFails, LinesEnd, CheckItem, CheckEnds, CheckLegs, ShapesInv, CopyIdle
<1>1. CASE Refuse \/ ReadFails
  BY <1>0, <1>1, ShapesGive DEF Refuse, ReadFails
<1>2. CASE ~(Refuse \/ ReadFails)
  BY <1>0, <1>2 DEF LinesEnd, CheckItem, CheckEnds, CheckLegs, ShapesInv, Terminal
<1>. QED
  BY <1>1, <1>2

\* ... and when nothing happens,
LEMMA ShapesStutter == ASSUME ShapesInv, UNCHANGED vars PROVE ShapesInv'
  BY DEF ShapesInv, CopyIdle, vars, Arg

\* ... so whatever the step.
LEMMA ShapesNext == ShapesInv /\ [Next]_vars => ShapesInv'
  BY ShapesExplicit, ShapesGlob, ShapesEntry, ShapesGlobEnds, ShapesMap, ShapesLine, ShapesRest,
     ShapesStutter DEF Next, Ended

\* What the lists hold are URIs and names.
LEMMA ShapesTell == ShapesInv => TypeOK
<1>1. CopyIdle => TypeOK
  BY DEF CopyIdle, TypeOK
<1>2. ASSUME ShapesInv, ~CopyIdle PROVE TypeOK
  <2>1. resolved \in Seq(Source) /\ matches \in Seq(Source) /\ items \in Seq(Item)
    BY <1>2 DEF ShapesInv
  <2>2. \A s \in Source : IsUri(s.src) /\ s.base \in Segment
    BY DEF Source, Uris
  <2>3. \A e \in Item : IsUri(e.src) /\ IsUri(e.dst)
    BY DEF Item, Uris
  <2>4. /\ \A k \in DOMAIN resolved : resolved[k] \in Source
        /\ \A k \in DOMAIN matches : matches[k] \in Source
        /\ \A k \in DOMAIN items : items[k] \in Item
    BY <2>1
  <2>. QED
    BY <1>2, <2>2, <2>3, <2>4 DEF ShapesInv, TypeOK
<1>. QED
  BY <1>1, <1>2

\* A plan in the making holds URIs and names, and a glob never holds more than
\* its share of the limit, for any arguments, listings and spellings.
THEOREM PlanTypeCorrect == Spec => []TypeOK
  BY ShapesInit, ShapesNext, ShapesTell, PTL DEF Spec

------------------------------------------------------------------------------
(* What the arguments stand for.                                             *)

\* m steps of G from z can be made within V.
Steps(V, z, m, G) ==
  \E f \in [0 .. m -> V] : f[0] = z /\ \A k \in 1 .. m : f[k] = G[k][f[k - 1]]

\* A recursion over the numbers whose steps stay in a set has a solution there.
LEMMA Recursion ==
  ASSUME NEW V, NEW z \in V, NEW m \in Nat, NEW G \in [Nat -> [V -> V]]
  PROVE  Steps(V, z, m, G)
<1>. DEFINE Good(n) == Steps(V, z, n, G)
            S == {n \in Nat : Good(n)}
<1>1. 0 \in S
  <2>. DEFINE f == [k \in 0 .. 0 |-> z]
  <2>1. f \in [0 .. 0 -> V] /\ f[0] = z /\ \A k \in 1 .. 0 : f[k] = G[k][f[k - 1]]
    OBVIOUS
  <2>. HIDE DEF f
  <2>. QED
    BY <2>1 DEF Steps
<1>2. ASSUME NEW n \in Nat, Good(n) PROVE Good(n + 1)
  <2>1. PICK f \in [0 .. n -> V] : f[0] = z /\ \A k \in 1 .. n : f[k] = G[k][f[k - 1]]
    BY <1>2 DEF Steps
  <2>. DEFINE g == [k \in 0 .. n + 1 |-> IF k = n + 1 THEN G[n + 1][f[n]] ELSE f[k]]
  <2>2. /\ g[n + 1] = G[n + 1][f[n]] /\ \A k \in 0 .. n : g[k] = f[k]
        /\ g = [k \in 0 .. n + 1 |-> g[k]]
    OBVIOUS
  <2>. HIDE DEF g
  <2>3. \A k \in 0 .. n + 1 : g[k] \in V
    <3>1. n \in 0 .. n /\ f[n] \in V /\ n + 1 \in Nat
      OBVIOUS
    <3>2. G[n + 1][f[n]] \in V
      BY <3>1
    <3>3. \A k \in 0 .. n + 1 : k \in 0 .. n \/ k = n + 1
      OBVIOUS
    <3>. QED
      BY <2>2, <3>2, <3>3
  <2>4. g[0] = z
    <3>1. 0 \in 0 .. n
      OBVIOUS
    <3>. QED
      BY <2>1, <2>2, <3>1
  <2>5. ASSUME NEW k \in 1 .. n + 1 PROVE g[k] = G[k][g[k - 1]]
    <3>1. CASE k = n + 1
      <4>1. (n + 1) - 1 = n /\ n \in 0 .. n
        OBVIOUS
      <4>. QED
        BY <2>2, <3>1, <4>1
    <3>2. CASE k # n + 1
      <4>1. k \in 1 .. n /\ k - 1 \in 0 .. n /\ k \in 0 .. n
        BY <3>2
      <4>. QED
        BY <2>1, <2>2, <4>1
    <3>. QED
      BY <3>1, <3>2
  <2>6. g \in [0 .. n + 1 -> V]
    BY <2>2, <2>3
  <2>. QED
    BY <2>4, <2>5, <2>6 DEF Steps
<1>. HIDE DEF Good
<1>3. \A n \in Nat : n \in S => n + 1 \in S
  BY <1>2
<1>4. Nat \subseteq S
  <2>. HIDE DEF S
  <2>. QED
    BY <1>1, <1>3, Induct
<1>5. Good(m)
  BY <1>4
<1>. QED
  BY <1>5 DEF Good

\* What is made by such steps stays in that set.
LEMMA StaysIn ==
  ASSUME NEW V, NEW z \in V, NEW m \in Nat, NEW G \in [Nat -> [V -> V]], NEW h, h[0] = z,
         \A k \in 1 .. m : h[k - 1] \in V => h[k] = G[k][h[k - 1]]
  PROVE  \A k \in 0 .. m : h[k] \in V
<1>. DEFINE T == {n \in Nat : n <= m => h[n] \in V}
<1>1. 0 \in T
  OBVIOUS
<1>2. \A n \in Nat : n \in T => n + 1 \in T
  <2>. SUFFICES ASSUME NEW n \in Nat, n + 1 <= m, h[n] \in V PROVE h[n + 1] \in V
    OBVIOUS
  <2>1. n + 1 \in 1 .. m /\ (n + 1) - 1 = n /\ n + 1 \in Nat
    OBVIOUS
  <2>2. h[n + 1] = G[n + 1][h[n]]
    BY <2>1
  <2>. QED
    BY <2>1, <2>2
<1>3. Nat \subseteq T
  <2>. HIDE DEF T
  <2>. QED
    BY <1>1, <1>2, Induct
<1>. TAKE k \in 0 .. m
<1>4. k \in Nat /\ k <= m
  OBVIOUS
<1>. QED
  BY <1>3, <1>4

\* A listed key that is brought in, and what of it.
Hit(e) == e.match /\ ~e.prefix /\ HasName(e.base)
NameOf(e) == [src |-> e.src, base |-> e.base]

IsHits(f, list) ==
  f = [i \in 0 .. Len(list) |->
         IF i = 0 THEN <<>>
         ELSE IF list[i].match /\ ~list[i].prefix /\ HasName(list[i].base)
              THEN Append(f[i - 1], [src |-> list[i].src, base |-> list[i].base])
              ELSE f[i - 1]]

\* The sources that Parse knows.
Known == {s \in Source : WellFormed(s.src)}

\* What a listing brings in, entry by entry.
LEMMA HitsDef ==
  ASSUME NEW list \in Seq(ListedEntry),
         \A i \in DOMAIN list : IsUri(list[i].src) /\ WellFormed(list[i].src)
  PROVE  /\ Hits(list)[0] = <<>>
         /\ \A i \in 1 .. Len(list) :
              Hits(list)[i] = IF Hit(list[i]) THEN Append(Hits(list)[i - 1], NameOf(list[i]))
                              ELSE Hits(list)[i - 1]
         /\ \A i \in 0 .. Len(list) : Hits(list)[i] \in Seq(Known)
<1>1. PICK m \in Nat : m = Len(list)
  OBVIOUS
<1>2. PICK V : V = Seq(Known)
  OBVIOUS
<1>. DEFINE Step(i, s) == IF i \in 1 .. m /\ Hit(list[i]) THEN Append(s, NameOf(list[i])) ELSE s
            G == [i \in Nat |-> [s \in V |-> Step(i, s)]]
<1>3. <<>> \in V
  BY <1>2, EmptySeq
<1>4. ASSUME NEW i \in Nat, NEW s \in V PROVE Step(i, s) \in V
  <2>1. CASE i \in 1 .. m /\ Hit(list[i])
    <3>1. list[i] \in ListedEntry /\ IsUri(list[i].src) /\ WellFormed(list[i].src)
      BY <1>1, <2>1
    <3>2. list[i].src \in Uris /\ list[i].base \in Segment
      BY <3>1 DEF ListedEntry, Uris
    <3>3. NameOf(list[i]) \in Known
      BY <3>1, <3>2 DEF NameOf, Source, Known
    <3>. HIDE DEF Known
    <3>4. Append(s, NameOf(list[i])) \in Seq(Known)
      BY <1>2, <3>3, AppendProperties
    <3>. QED
      BY <1>2, <2>1, <3>4
  <2>2. CASE ~(i \in 1 .. m /\ Hit(list[i]))
    BY <2>2
  <2>. QED
    BY <2>1, <2>2
<1>5. PICK g \in [Nat -> [V -> V]] : \A i \in Nat : \A s \in V : g[i][s] = Step(i, s)
  <2>1. G \in [Nat -> [V -> V]]
    BY <1>4
  <2>2. \A i \in Nat : \A s \in V : G[i][s] = Step(i, s)
    OBVIOUS
  <2>. HIDE DEF G, Step
  <2>. QED
    BY <2>1, <2>2
<1>. HIDE DEF G
<1>6. PICK z \in V : z = <<>>
  BY <1>3
<1>7. PICK f \in [0 .. m -> V] : f[0] = z /\ \A k \in 1 .. m : f[k] = g[k][f[k - 1]]
  <2>1. Steps(V, z, m, g)
    BY Recursion
  <2>. QED
    BY <2>1 DEF Steps
<1>8. \A k \in 1 .. m : f[k] = IF Hit(list[k]) THEN Append(f[k - 1], NameOf(list[k])) ELSE f[k - 1]
  <2>. TAKE k \in 1 .. m
  <2>1. k - 1 \in 0 .. m /\ k \in Nat
    OBVIOUS
  <2>2. f[k - 1] \in V
    BY <2>1
  <2>3. f[k] = Step(k, f[k - 1])
    BY <1>5, <1>7, <2>1, <2>2
  <2>. QED
    BY <2>3
<1>. HIDE DEF Step
<1>9. IsHits(f, list)
  <2>1. f = [k \in 0 .. m |-> f[k]]
    OBVIOUS
  <2>2. ASSUME NEW k \in 0 .. m, k # 0
        PROVE  f[k] = IF list[k].match /\ ~list[k].prefix /\ HasName(list[k].base)
                      THEN Append(f[k - 1], [src |-> list[k].src, base |-> list[k].base])
                      ELSE f[k - 1]
    <3>1. k \in 1 .. m
      BY <2>2
    <3>. QED
      BY <1>8, <3>1 DEF Hit, NameOf
  <2>3. ASSUME NEW k \in 0 .. m
        PROVE  f[k] = IF k = 0 THEN <<>>
                      ELSE IF list[k].match /\ ~list[k].prefix /\ HasName(list[k].base)
                           THEN Append(f[k - 1], [src |-> list[k].src, base |-> list[k].base])
                           ELSE f[k - 1]
    <3>1. CASE k = 0
      BY <1>6, <1>7, <3>1
    <3>2. CASE k # 0
      BY <2>2, <3>2
    <3>. QED
      BY <3>1, <3>2
  <2>. QED
    BY <1>1, <2>1, <2>3, Zenon DEF IsHits
<1>10. IsHits(Hits(list), list)
  BY <1>9, Zenon DEF IsHits, Hits
<1>11. PICK h : h = Hits(list)
  OBVIOUS
<1>12. /\ h[0] = <<>>
       /\ \A i \in 1 .. m : h[i] = IF Hit(list[i]) THEN Append(h[i - 1], NameOf(list[i])) ELSE h[i - 1]
  <2>1. \A i \in 0 .. m :
          h[i] = IF i = 0 THEN <<>>
                 ELSE IF list[i].match /\ ~list[i].prefix /\ HasName(list[i].base)
                      THEN Append(h[i - 1], [src |-> list[i].src, base |-> list[i].base])
                      ELSE h[i - 1]
    BY <1>1, <1>10, <1>11 DEF IsHits
  <2>2. ASSUME NEW i \in 1 .. m
        PROVE  h[i] = IF Hit(list[i]) THEN Append(h[i - 1], NameOf(list[i])) ELSE h[i - 1]
    <3>1. i \in 0 .. m /\ i # 0
      OBVIOUS
    <3>. QED
      BY <2>1, <3>1 DEF Hit, NameOf
  <2>3. 0 \in 0 .. m
    OBVIOUS
  <2>. QED
    BY <2>1, <2>2, <2>3
<1>13. \A i \in 0 .. m : h[i] \in V
  <2>1. \A k \in 1 .. m : h[k - 1] \in V => h[k] = g[k][h[k - 1]]
    <3>1. \A k \in 1 .. m : k \in Nat
      OBVIOUS
    <3>. QED
      BY <1>5, <1>12, <3>1 DEF Step
  <2>. QED
    BY <1>6, <1>12, <2>1, StaysIn
<1>. QED
  BY <1>1, <1>2, <1>11, <1>12, <1>13

\* The arguments of a command line, as the assumption on Job has them.
AreArguments(args) ==
  /\ args \in Seq(Argument)
  /\ \A k \in DOMAIN args :
       /\ IsUri(args[k].src)
       /\ args[k].glob => \A i \in DOMAIN args[k].list :
                            IsUri(args[k].list[i].src) /\ WellFormed(args[k].list[i].src)

\* A source, or what stands for one that has no name.
Chosen == [src : Uris, base : Segment \cup {None}]

\* Sources with a size are sources.
LEMMA KnownAreChosen == ASSUME NEW s \in Seq(Known) PROVE s \in Seq(Chosen)
<1>1. Known \subseteq Chosen
  BY DEF Known, Source, Chosen
<1>. QED
  BY <1>1

\* What an argument selects are sources, of a glob all with a size.
LEMMA SelectedType ==
  ASSUME NEW args, AreArguments(args), NEW k \in DOMAIN args
  PROVE  /\ Selected(args[k]) \in Seq(Chosen)
         /\ args[k].glob \in BOOLEAN
         /\ args[k].src \in Uris
         /\ args[k].glob => args[k].list \in Seq(ListedEntry) /\ Selected(args[k]) \in Seq(Known)
         /\ ~args[k].glob => /\ Len(Selected(args[k])) = 1
                             /\ Selected(args[k])[1] = [src |-> args[k].src, base |-> Basename(args[k].src)]
<1>1. args[k] \in Argument
  BY DEF AreArguments
<1>2. args[k].glob \in BOOLEAN
  BY <1>1, Zenon DEF Argument
<1>3. args[k].src \in Uris /\ args[k].src \in Written
  BY DEF AreArguments, IsUri, Uris
<1>4. ASSUME args[k].glob
      PROVE  args[k].list \in Seq(ListedEntry) /\ Selected(args[k]) \in Seq(Known)
  <2>1. args[k] \in [glob : {TRUE}, src : Written, list : Seq(ListedEntry)]
    BY <1>1, <1>4, Zenon DEF Argument
  <2>2. PICK list \in Seq(ListedEntry) : list = args[k].list
    BY <2>1
  <2>3. \A i \in DOMAIN list : IsUri(list[i].src) /\ WellFormed(list[i].src)
    BY <1>4, <2>2 DEF AreArguments
  <2>4. Len(list) \in 0 .. Len(list)
    OBVIOUS
  <2>5. Hits(list)[Len(list)] \in Seq(Known)
    BY <2>3, <2>4, HitsDef
  <2>. QED
    BY <1>4, <2>2, <2>5 DEF Selected
<1>5. ASSUME ~args[k].glob
      PROVE  /\ Selected(args[k]) \in Seq(Chosen) /\ Len(Selected(args[k])) = 1
             /\ Selected(args[k])[1] = [src |-> args[k].src, base |-> Basename(args[k].src)]
  <2>1. Basename(args[k].src) \in Segment \cup {None}
    BY <1>3, BasenameType
  <2>2. PICK s \in Chosen : s = [src |-> args[k].src, base |-> Basename(args[k].src)]
    BY <1>3, <2>1 DEF Chosen
  <2>3. Selected(args[k]) = <<s>>
    BY <1>5, <2>2 DEF Selected
  <2>. QED
    BY <2>2, <2>3
<1>. QED
  BY <1>2, <1>3, <1>4, <1>5, KnownAreChosen

IsWanted(f, args) ==
  f = [k \in 0 .. Len(args) |-> IF k = 0 THEN <<>> ELSE f[k - 1] \o Selected(args[k])]

\* What the first arguments stand for.
LEMMA WantedDef ==
  ASSUME NEW args, AreArguments(args)
  PROVE  /\ WantedBy(args)[0] = <<>>
         /\ \A k \in 1 .. Len(args) : WantedBy(args)[k] = WantedBy(args)[k - 1] \o Selected(args[k])
         /\ \A k \in 0 .. Len(args) : WantedBy(args)[k] \in Seq(Chosen)
<1>1. PICK m \in Nat : m = Len(args) /\ DOMAIN args = 1 .. m
  BY DEF AreArguments
<1>2. PICK V : V = Seq(Chosen)
  OBVIOUS
<1>. DEFINE Step(i, s) == IF i \in 1 .. m THEN s \o Selected(args[i]) ELSE s
            G == [i \in Nat |-> [s \in V |-> Step(i, s)]]
<1>3. PICK z \in V : z = <<>>
  BY <1>2, EmptySeq
<1>4. ASSUME NEW i \in Nat, NEW s \in V PROVE Step(i, s) \in V
  <2>1. CASE i \in 1 .. m
    <3>1. Selected(args[i]) \in Seq(Chosen)
      BY <1>1, <2>1, SelectedType
    <3>. HIDE DEF Chosen
    <3>2. s \o Selected(args[i]) \in Seq(Chosen)
      BY <1>2, <3>1
    <3>. QED
      BY <1>2, <2>1, <3>2
  <2>2. CASE i \notin 1 .. m
    BY <2>2
  <2>. QED
    BY <2>1, <2>2
<1>5. PICK g \in [Nat -> [V -> V]] : \A i \in Nat : \A s \in V : g[i][s] = Step(i, s)
  <2>1. G \in [Nat -> [V -> V]]
    BY <1>4
  <2>2. \A i \in Nat : \A s \in V : G[i][s] = Step(i, s)
    OBVIOUS
  <2>. HIDE DEF G, Step
  <2>. QED
    BY <2>1, <2>2
<1>. HIDE DEF G
<1>6. PICK f \in [0 .. m -> V] : f[0] = z /\ \A k \in 1 .. m : f[k] = g[k][f[k - 1]]
  <2>1. Steps(V, z, m, g)
    BY Recursion
  <2>. QED
    BY <2>1 DEF Steps
<1>7. IsWanted(f, args)
  <2>1. f = [k \in 0 .. m |-> f[k]]
    OBVIOUS
  <2>2. ASSUME NEW k \in 0 .. m
        PROVE  f[k] = IF k = 0 THEN <<>> ELSE f[k - 1] \o Selected(args[k])
    <3>1. CASE k = 0
      BY <1>3, <1>6, <3>1
    <3>2. CASE k # 0
      <4>1. k \in 1 .. m /\ k - 1 \in 0 .. m /\ k \in Nat
        BY <3>2
      <4>2. f[k] = Step(k, f[k - 1])
        BY <1>5, <1>6, <4>1
      <4>. QED
        BY <3>2, <4>1, <4>2
    <3>. QED
      BY <3>1, <3>2
  <2>. QED
    BY <1>1, <2>1, <2>2, Zenon DEF IsWanted
<1>8. IsWanted(WantedBy(args), args)
  BY <1>7, Zenon DEF IsWanted, WantedBy
<1>9. PICK h : h = WantedBy(args)
  OBVIOUS
<1>10. h[0] = <<>> /\ \A k \in 1 .. m : h[k] = h[k - 1] \o Selected(args[k])
  <2>1. \A k \in 0 .. m : h[k] = IF k = 0 THEN <<>> ELSE h[k - 1] \o Selected(args[k])
    BY <1>1, <1>8, <1>9 DEF IsWanted
  <2>2. 0 \in 0 .. m /\ \A k \in 1 .. m : k \in 0 .. m /\ k # 0
    OBVIOUS
  <2>. QED
    BY <2>1, <2>2
<1>11. \A k \in 1 .. m : h[k - 1] \in V => h[k] = g[k][h[k - 1]]
  <2>1. \A k \in 1 .. m : k \in Nat
    OBVIOUS
  <2>. QED
    BY <1>5, <1>10, <2>1
<1>12. \A k \in 0 .. m : h[k] \in V
  <2>. HIDE DEF Step
  <2>. QED
    BY <1>3, <1>10, <1>11, StaysIn
<1>. QED
  BY <1>1, <1>2, <1>9, <1>10, <1>12

IsGlobbed(f, args) ==
  f = [k \in 0 .. Len(args) |->
         IF k = 0 THEN 0 ELSE f[k - 1] + (IF args[k].glob THEN Len(Selected(args[k])) ELSE 0)]

\* How much of it is from globs.
LEMMA GlobbedDef ==
  ASSUME NEW args, AreArguments(args)
  PROVE  /\ GlobbedBy(args)[0] = 0
         /\ \A k \in 1 .. Len(args) :
              GlobbedBy(args)[k] =
                GlobbedBy(args)[k - 1] + (IF args[k].glob THEN Len(Selected(args[k])) ELSE 0)
         /\ \A k \in 0 .. Len(args) : GlobbedBy(args)[k] \in Nat
<1>1. PICK m \in Nat : m = Len(args) /\ DOMAIN args = 1 .. m
  BY DEF AreArguments
<1>. DEFINE Portion(i) == IF args[i].glob THEN Len(Selected(args[i])) ELSE 0
            Step(i, s) == IF i \in 1 .. m THEN s + Portion(i) ELSE s
            G == [i \in Nat |-> [s \in Nat |-> Step(i, s)]]
<1>2. \A i \in 1 .. m : Portion(i) \in Nat
  BY <1>1, SelectedType
<1>. HIDE DEF Portion
<1>4. ASSUME NEW i \in Nat, NEW s \in Nat PROVE Step(i, s) \in Nat
  BY <1>2
<1>5. PICK g \in [Nat -> [Nat -> Nat]] : \A i \in Nat : \A s \in Nat : g[i][s] = Step(i, s)
  <2>1. G \in [Nat -> [Nat -> Nat]]
    BY <1>4
  <2>2. \A i \in Nat : \A s \in Nat : G[i][s] = Step(i, s)
    OBVIOUS
  <2>. HIDE DEF G, Step
  <2>. QED
    BY <2>1, <2>2
<1>. HIDE DEF G
<1>6. PICK f \in [0 .. m -> Nat] : f[0] = 0 /\ \A k \in 1 .. m : f[k] = g[k][f[k - 1]]
  <2>1. Steps(Nat, 0, m, g)
    BY Recursion
  <2>. QED
    BY <2>1 DEF Steps
<1>7. IsGlobbed(f, args)
  <2>1. f = [k \in 0 .. m |-> f[k]]
    OBVIOUS
  <2>2. ASSUME NEW k \in 0 .. m PROVE f[k] = IF k = 0 THEN 0 ELSE f[k - 1] + Portion(k)
    <3>1. CASE k = 0
      BY <1>6, <3>1
    <3>2. CASE k # 0
      <4>1. k \in 1 .. m /\ k - 1 \in 0 .. m /\ k \in Nat
        BY <3>2
      <4>2. f[k] = Step(k, f[k - 1])
        BY <1>5, <1>6, <4>1
      <4>. QED
        BY <3>2, <4>1, <4>2
    <3>. QED
      BY <3>1, <3>2
  <2>. QED
    BY <1>1, <2>1, <2>2, Zenon DEF IsGlobbed, Portion
<1>8. IsGlobbed(GlobbedBy(args), args)
  BY <1>7, Zenon DEF IsGlobbed, GlobbedBy
<1>9. PICK h : h = GlobbedBy(args)
  OBVIOUS
<1>10. h[0] = 0 /\ \A k \in 1 .. m : h[k] = h[k - 1] + Portion(k)
  <2>1. \A k \in 0 .. m : h[k] = IF k = 0 THEN 0 ELSE h[k - 1] + Portion(k)
    BY <1>1, <1>8, <1>9 DEF IsGlobbed, Portion
  <2>2. 0 \in 0 .. m /\ \A k \in 1 .. m : k \in 0 .. m /\ k # 0
    OBVIOUS
  <2>. QED
    BY <2>1, <2>2
<1>11. \A k \in 1 .. m : h[k - 1] \in Nat => h[k] = g[k][h[k - 1]]
  <2>1. \A k \in 1 .. m : k \in Nat
    OBVIOUS
  <2>. QED
    BY <1>5, <1>10, <2>1
<1>12. \A k \in 0 .. m : h[k] \in Nat
  <2>. HIDE DEF Step
  <2>1. PICK V : V = Nat
    OBVIOUS
  <2>2. PICK z \in V : h[0] = z
    BY <1>10, <2>1
  <2>3. g \in [Nat -> [V -> V]] /\ \A k \in 1 .. m : h[k - 1] \in V => h[k] = g[k][h[k - 1]]
    BY <1>11, <2>1
  <2>4. \A k \in 0 .. m : h[k] \in V
    BY <2>2, <2>3, StaysIn
  <2>. QED
    BY <2>1, <2>4
<1>. QED
  BY <1>1, <1>9, <1>10, <1>12 DEF Portion

\* The lines of a file, as the assumption on Job has them.
AreLines(lines) ==
  /\ lines \in Seq(Line)
  /\ \A k \in DOMAIN lines : lines[k].kind = "entry" => IsUri(lines[k].src) /\ IsUri(lines[k].dst)

IsNamed(f, lines) ==
  f = [k \in 0 .. Len(lines) |->
         IF k = 0 THEN <<>>
         ELSE IF lines[k].kind = "entry" THEN Append(f[k - 1], lines[k].src) ELSE f[k - 1]]

\* The sources that the first lines name.
LEMMA NamedDef ==
  ASSUME NEW lines, AreLines(lines)
  PROVE  /\ NamedBy(lines)[0] = <<>>
         /\ \A k \in 1 .. Len(lines) :
              NamedBy(lines)[k] = IF lines[k].kind = "entry"
                                  THEN Append(NamedBy(lines)[k - 1], lines[k].src)
                                  ELSE NamedBy(lines)[k - 1]
<1>1. PICK m \in Nat : m = Len(lines) /\ DOMAIN lines = 1 .. m
  BY DEF AreLines
<1>2. PICK V : V = Seq(Uris)
  OBVIOUS
<1>. DEFINE Step(i, s) ==
              IF i \in 1 .. m /\ lines[i].kind = "entry" THEN Append(s, lines[i].src) ELSE s
            G == [i \in Nat |-> [s \in V |-> Step(i, s)]]
<1>3. PICK z \in V : z = <<>>
  BY <1>2, EmptySeq
<1>4. ASSUME NEW i \in Nat, NEW s \in V PROVE Step(i, s) \in V
  <2>1. CASE i \in 1 .. m /\ lines[i].kind = "entry"
    <3>1. lines[i].src \in Uris
      BY <1>1, <2>1 DEF AreLines, IsUri, Uris
    <3>. HIDE DEF Uris
    <3>2. Append(s, lines[i].src) \in Seq(Uris)
      BY <1>2, <3>1, AppendProperties
    <3>. QED
      BY <1>2, <2>1, <3>2
  <2>2. CASE ~(i \in 1 .. m /\ lines[i].kind = "entry")
    BY <2>2
  <2>. QED
    BY <2>1, <2>2
<1>5. PICK g \in [Nat -> [V -> V]] : \A i \in Nat : \A s \in V : g[i][s] = Step(i, s)
  <2>1. G \in [Nat -> [V -> V]]
    BY <1>4
  <2>2. \A i \in Nat : \A s \in V : G[i][s] = Step(i, s)
    OBVIOUS
  <2>. HIDE DEF G, Step
  <2>. QED
    BY <2>1, <2>2
<1>. HIDE DEF G
<1>6. PICK f \in [0 .. m -> V] : f[0] = z /\ \A k \in 1 .. m : f[k] = g[k][f[k - 1]]
  <2>1. Steps(V, z, m, g)
    BY Recursion
  <2>. QED
    BY <2>1 DEF Steps
<1>7. IsNamed(f, lines)
  <2>1. f = [k \in 0 .. m |-> f[k]]
    OBVIOUS
  <2>2. ASSUME NEW k \in 0 .. m
        PROVE  f[k] = IF k = 0 THEN <<>>
                      ELSE IF lines[k].kind = "entry" THEN Append(f[k - 1], lines[k].src) ELSE f[k - 1]
    <3>1. CASE k = 0
      BY <1>3, <1>6, <3>1
    <3>2. CASE k # 0
      <4>1. k \in 1 .. m /\ k - 1 \in 0 .. m /\ k \in Nat
        BY <3>2
      <4>2. f[k] = Step(k, f[k - 1])
        BY <1>5, <1>6, <4>1
      <4>. QED
        BY <3>2, <4>1, <4>2
    <3>. QED
      BY <3>1, <3>2
  <2>. QED
    BY <1>1, <2>1, <2>2, Zenon DEF IsNamed
<1>8. IsNamed(NamedBy(lines), lines)
  BY <1>7, Zenon DEF IsNamed, NamedBy
<1>9. PICK h : h = NamedBy(lines)
  OBVIOUS
<1>10. /\ h[0] = <<>>
       /\ \A k \in 1 .. m :
            h[k] = IF lines[k].kind = "entry" THEN Append(h[k - 1], lines[k].src) ELSE h[k - 1]
  <2>1. \A k \in 0 .. m :
          h[k] = IF k = 0 THEN <<>>
                 ELSE IF lines[k].kind = "entry" THEN Append(h[k - 1], lines[k].src) ELSE h[k - 1]
    BY <1>1, <1>8, <1>9 DEF IsNamed
  <2>2. 0 \in 0 .. m /\ \A k \in 1 .. m : k \in 0 .. m /\ k # 0
    OBVIOUS
  <2>. QED
    BY <2>1, <2>2
<1>. QED
  BY <1>1, <1>9, <1>10

\* A listing's first entries bring in no more than all do.
LEMMA HitsGrow ==
  ASSUME NEW list \in Seq(ListedEntry),
         \A i \in DOMAIN list : IsUri(list[i].src) /\ WellFormed(list[i].src),
         NEW i \in 0 .. Len(list)
  PROVE  Len(Hits(list)[i]) <= Len(Hits(list)[Len(list)])
<1>1. PICK m \in Nat : m = Len(list)
  OBVIOUS
<1>2. PICK h : h = Hits(list)
  OBVIOUS
<1>3. /\ \A k \in 1 .. m : h[k] = IF Hit(list[k]) THEN Append(h[k - 1], NameOf(list[k])) ELSE h[k - 1]
      /\ \A k \in 0 .. m : h[k] \in Seq(Known)
  BY <1>1, <1>2, HitsDef
<1>. DEFINE T == {d \in Nat : i + d <= m => Len(h[i]) <= Len(h[i + d])}
<1>4. 0 \in T
  <2>1. i + 0 = i /\ i \in 0 .. m
    BY <1>1
  <2>2. Len(h[i]) \in Nat
    BY <1>3, <2>1
  <2>. QED
    BY <2>1, <2>2
<1>5. \A d \in Nat : d \in T => d + 1 \in T
  <2>. SUFFICES ASSUME NEW d \in Nat, d \in T, i + (d + 1) <= m
                PROVE  Len(h[i]) <= Len(h[i + (d + 1)])
    OBVIOUS
  <2>1. PICK n \in Nat : n = i + d
    OBVIOUS
  <2>2. n + 1 \in 1 .. m /\ n \in 0 .. m /\ (n + 1) - 1 = n /\ i + (d + 1) = n + 1 /\ i \in 0 .. m
    BY <1>1, <2>1
  <2>3. Len(h[i]) <= Len(h[n])
    BY <2>1, <2>2
  <2>4. h[n + 1] = IF Hit(list[n + 1]) THEN Append(h[n], NameOf(list[n + 1])) ELSE h[n]
    BY <1>3, <2>2
  <2>5. h[n] \in Seq(Known) /\ h[n + 1] \in Seq(Known) /\ h[i] \in Seq(Known)
    <3>1. n + 1 \in 0 .. m
      BY <2>2
    <3>. QED
      BY <1>3, <2>2, <3>1
  <2>6. PICK S : h[n] \in Seq(S) /\ NameOf(list[n + 1]) \in S
    <3>1. h[n] \in Seq(Known \cup {NameOf(list[n + 1])})
      BY <2>5
    <3>. QED
      BY <3>1
  <2>7. Len(Append(h[n], NameOf(list[n + 1]))) = Len(h[n]) + 1
    BY <2>6, AppendProperties
  <2>8. Len(h[i]) \in Nat /\ Len(h[n]) \in Nat
    BY <2>5
  <2>9. Len(h[n]) <= Len(h[n + 1])
    <3>1. CASE Hit(list[n + 1])
      BY <2>4, <2>7, <2>8, <3>1
    <3>2. CASE ~Hit(list[n + 1])
      BY <2>4, <2>8, <3>2
    <3>. QED
      BY <3>1, <3>2
  <2>10. Len(h[n + 1]) \in Nat
    BY <2>5
  <2>11. Len(h[i]) <= Len(h[n + 1])
    BY <2>3, <2>8, <2>9, <2>10
  <2>. QED
    BY <2>2, <2>11
<1>6. Nat \subseteq T
  <2>. HIDE DEF T
  <2>. QED
    BY <1>4, <1>5, Induct
<1>7. m - i \in T /\ i + (m - i) = m
  BY <1>1, <1>6
<1>. QED
  BY <1>1, <1>2, <1>7

\* If all arguments are sound and named, so is what they stand for.
LEMMA WantedKnown ==
  ASSUME NEW args, AreArguments(args),
         \A k \in DOMAIN args :
           /\ WellFormed(args[k].src)
           /\ \A i \in DOMAIN Selected(args[k]) : HasName(Selected(args[k])[i].base)
  PROVE  \A k \in 0 .. Len(args) : WantedBy(args)[k] \in Seq(Known)
<1>1. PICK m \in Nat : m = Len(args) /\ DOMAIN args = 1 .. m
  BY DEF AreArguments
<1>2. PICK h : h = WantedBy(args)
  OBVIOUS
<1>3. h[0] = <<>> /\ \A k \in 1 .. m : h[k] = h[k - 1] \o Selected(args[k])
  BY <1>1, <1>2, WantedDef
<1>4. ASSUME NEW k \in 1 .. m PROVE Selected(args[k]) \in Seq(Known)
  <2>1. CASE args[k].glob
    BY <1>1, <2>1, SelectedType
  <2>2. CASE ~args[k].glob
    <3>1. PICK s : s = [src |-> args[k].src, base |-> Basename(args[k].src)]
      OBVIOUS
    <3>2. /\ Selected(args[k]) \in Seq(Chosen) /\ Len(Selected(args[k])) = 1
          /\ Selected(args[k])[1] = s /\ args[k].src \in Uris
      BY <1>1, <2>2, <3>1, SelectedType
    <3>3. s \in Chosen
      BY <3>2
    <3>4. HasName(s.base) /\ WellFormed(s.src)
      <4>1. k \in DOMAIN args /\ 1 \in DOMAIN Selected(args[k])
        BY <1>1, <3>2
      <4>2. WellFormed(args[k].src) /\ HasName(Selected(args[k])[1].base)
        BY <4>1
      <4>. QED
        BY <3>1, <3>2, <4>2
    <3>5. s.base # None
      BY <3>4 DEF HasName
    <3>6. s \in Known
      BY <3>3, <3>4, <3>5 DEF Chosen, Known, Source
    <3>7. Selected(args[k]) = <<s>>
      BY <3>2
    <3>. QED
      BY <3>6, <3>7
  <2>. QED
    BY <2>1, <2>2
<1>. DEFINE T == {n \in Nat : n <= m => h[n] \in Seq(Known)}
<1>5. 0 \in T
  BY <1>3, EmptySeq
<1>6. \A n \in Nat : n \in T => n + 1 \in T
  <2>. SUFFICES ASSUME NEW n \in Nat, n + 1 <= m, h[n] \in Seq(Known) PROVE h[n + 1] \in Seq(Known)
    OBVIOUS
  <2>1. n + 1 \in 1 .. m /\ (n + 1) - 1 = n
    OBVIOUS
  <2>2. h[n + 1] = h[n] \o Selected(args[n + 1]) /\ Selected(args[n + 1]) \in Seq(Known)
    BY <1>3, <1>4, <2>1
  <2>. HIDE DEF Known
  <2>. QED
    BY <2>2
<1>7. Nat \subseteq T
  <2>. HIDE DEF T
  <2>. QED
    BY <1>5, <1>6, Induct
<1>8. \A k \in 0 .. m : k \in Nat /\ k <= m
  OBVIOUS
<1>. QED
  BY <1>1, <1>2, <1>7, <1>8

\* What the first arguments stand for is part of what one more stands for.
LEMMA WantedGrows ==
  ASSUME NEW args, AreArguments(args), NEW k \in 1 .. Len(args)
  PROVE  Len(WantedBy(args)[k]) = Len(WantedBy(args)[k - 1]) + Len(Selected(args[k]))
<1>1. k - 1 \in 0 .. Len(args) /\ k \in DOMAIN args
  BY DEF AreArguments
<1>2. /\ WantedBy(args)[k] = WantedBy(args)[k - 1] \o Selected(args[k])
      /\ WantedBy(args)[k - 1] \in Seq(Chosen) /\ Selected(args[k]) \in Seq(Chosen)
  BY <1>1, WantedDef, SelectedType
<1>. QED
  BY <1>2

------------------------------------------------------------------------------
(* The plan in the making is what was asked for so far.                      *)

\* The sources so far are those of the first k arguments; the globs among them
\* have kept the limit.
Gathered(k) ==
  /\ resolved = WantedBy(job.args)[k]
  /\ GlobbedBy(job.args)[k] <= Len(resolved)
  /\ GlobbedBy(job.args)[k] <= job.max

Items(names) == [k \in DOMAIN names |-> [src |-> names[k].src, dst |-> Destination(names[k])]]

Planned ==
  IF job.form = "args"
  THEN items = Items(Wanted(job.args)) /\ GlobbedBy(job.args)[Len(job.args)] <= job.max
  ELSE Sources(items) = NamedBy(job.lines)[Len(job.lines)]

\* At some glob the sources up to and with it are more than the limit.
TooMany ==
  \E k \in DOMAIN job.args :
    job.args[k].glob /\ Len(WantedBy(job.args)[k]) > job.max

\* A refusal is right.
Excess == Sensible /\ NoGcsGlob => TooMany

Validating == {"check", "legs", "done"}

ExactInv ==
  \/ CopyIdle
  \/ /\ job \in Job
     /\ pc \in {"args", "list"} => /\ job.form = "args" /\ at \in 1 .. Len(job.args) + 1
                                   /\ Gathered(at - 1)
     /\ pc = "list" => /\ at <= Len(job.args) /\ Arg.glob /\ entry \in 1 .. Len(Arg.list) + 1
                       /\ matches = Hits(Arg.list)[entry - 1]
     /\ pc = "file" => /\ job.form = "file" /\ at \in 1 .. Len(job.lines) + 1
                       /\ Sources(items) = NamedBy(job.lines)[at - 1]
     /\ pc \in Validating => Planned
     /\ pc = "refused" => Excess

\* What a copy is asked.
LEMMA JobTypes ==
  ASSUME job \in Job
  PROVE  /\ job.form \in {"args", "file"}
         /\ job.form = "args" => /\ AreArguments(job.args) /\ IsUri(job.dst) /\ job.max \in Nat \ {0}
                                 /\ DOMAIN job.args = 1 .. Len(job.args) /\ Len(job.args) \in Nat
         /\ job.form = "file" => /\ AreLines(job.lines)
                                 /\ DOMAIN job.lines = 1 .. Len(job.lines) /\ Len(job.lines) \in Nat
<1>1. /\ job.form \in {"args", "file"}
      /\ job.form = "args" => /\ job.args \in Seq(Argument) /\ AreArguments(job.args)
                              /\ IsUri(job.dst) /\ job.max \in Nat \ {0}
      /\ job.form = "file" => job.lines \in Seq(Line) /\ AreLines(job.lines)
  BY JobAssumption DEF AreArguments, AreLines
<1>. QED
  BY <1>1

\* Whether too much is asked for depends on the job alone.
LEMMA SameExcess == ASSUME job' = job PROVE Excess' = Excess
  BY DEF Excess, Sensible, NoGcsGlob, TooMany, LegsResolvable, Destination

\* A refusal for too many sources keeps ExactInv,
LEMMA ExactRefuse ==
  ASSUME ExactInv, ~CopyIdle, Refuse, Excess
  PROVE  ExactInv'
<1>1. job \in Job /\ job' = job /\ pc' = "refused"
  BY DEF ExactInv, Refuse, Give
<1>2. Excess'
  BY <1>1, SameExcess
<1>. QED
  BY <1>1, <1>2 DEF ExactInv, Validating

\* ... so does one because something could not be read.
LEMMA ExactUnread ==
  ASSUME ExactInv, ~CopyIdle, Give("unread")
  PROVE  ExactInv'
<1>1. job \in Job /\ job' = job /\ pc' = "unread"
  BY DEF ExactInv, Give
<1>. QED
  BY <1>1 DEF ExactInv, Validating

\* ExactInv holds at first,
LEMMA ExactInit == Init => ExactInv
<1>. SUFFICES ASSUME Init PROVE ExactInv
  OBVIOUS
<1>0. job \in Job /\ pc = job.form /\ at = 1 /\ at - 1 = 0 /\ resolved = <<>> /\ items = <<>>
  BY DEF Init
<1>1. CASE job.form = "args"
  <2>1. /\ AreArguments(job.args) /\ Len(job.args) \in Nat /\ job.max \in Nat
    BY <1>0, <1>1, JobTypes
  <2>2. WantedBy(job.args)[0] = <<>> /\ GlobbedBy(job.args)[0] = 0
    BY <2>1, WantedDef, GlobbedDef
  <2>3. Len(resolved) = 0
    BY <1>0
  <2>4. Gathered(0)
    BY <1>0, <2>1, <2>2, <2>3 DEF Gathered
  <2>. QED
    BY <1>0, <1>1, <2>1, <2>4 DEF ExactInv, Validating
<1>2. CASE job.form = "file"
  <2>1. /\ AreLines(job.lines) /\ Len(job.lines) \in Nat
    BY <1>0, <1>2, JobTypes
  <2>2. NamedBy(job.lines)[0] = <<>>
    BY <2>1, NamedDef
  <2>3. Sources(items) = <<>>
    <3>1. DOMAIN items = {} /\ DOMAIN Sources(items) = {}
      BY <1>0 DEF Sources
    <3>2. PICK s : s = Sources(items)
      OBVIOUS
    <3>3. s = [k \in DOMAIN items |-> items[k].src]
      BY <3>2 DEF Sources
    <3>4. s \in Seq({})
      BY <1>0, <3>3
    <3>. QED
      BY <3>1, <3>2, <3>4
  <2>. QED
    BY <1>0, <1>2, <2>1, <2>2, <2>3 DEF ExactInv, Validating
<1>. QED
  BY <1>0, <1>1, <1>2, JobTypes

\* The argument that is next, in a state of the plan.
LEMMA AtArgument ==
  ASSUME ExactInv, ~CopyIdle, pc \in {"args", "list"}, at <= Len(job.args)
  PROVE  /\ job \in Job /\ job.form = "args" /\ AreArguments(job.args) /\ job.max \in Nat \ {0}
         /\ at \in 1 .. Len(job.args) /\ at \in DOMAIN job.args /\ Len(job.args) \in Nat
         /\ at + 1 \in 1 .. Len(job.args) + 1 /\ (at + 1) - 1 = at /\ at - 1 \in 0 .. Len(job.args)
         /\ Gathered(at - 1) /\ Arg = job.args[at]
         /\ resolved \in Seq(Chosen) /\ Selected(Arg) \in Seq(Chosen)
         /\ Len(WantedBy(job.args)[at]) = Len(resolved) + Len(Selected(Arg))
<1>1. job \in Job /\ job.form = "args" /\ at \in 1 .. Len(job.args) + 1 /\ Gathered(at - 1)
  BY DEF ExactInv
<1>2. /\ AreArguments(job.args) /\ job.max \in Nat \ {0}
      /\ DOMAIN job.args = 1 .. Len(job.args) /\ Len(job.args) \in Nat
  BY <1>1, JobTypes
<1>3. /\ at \in 1 .. Len(job.args) /\ at - 1 \in 0 .. Len(job.args)
      /\ at + 1 \in 1 .. Len(job.args) + 1 /\ (at + 1) - 1 = at
  BY <1>1, <1>2
<1>4. resolved \in Seq(Chosen) /\ Selected(Arg) \in Seq(Chosen)
  BY <1>1, <1>2, <1>3, WantedDef, SelectedType DEF Gathered, Arg
<1>5. Len(WantedBy(job.args)[at]) = Len(resolved) + Len(Selected(Arg))
  BY <1>1, <1>2, <1>3, WantedGrows DEF Gathered, Arg
<1>. QED
  BY <1>1, <1>2, <1>3, <1>4, <1>5 DEF Arg

\* The sources of the next argument are added.
LEMMA OneMore ==
  ASSUME ExactInv, ~CopyIdle, pc \in {"args", "list"}, at <= Len(job.args), job' = job, at' = at + 1,
         resolved' = resolved \o Selected(Arg), pc' = "args",
         Arg.glob => Len(resolved) + Len(Selected(Arg)) <= job.max
  PROVE  ExactInv'
<1>. DEFINE args == job.args
<1>0. /\ job \in Job /\ job.form = "args" /\ AreArguments(args) /\ job.max \in Nat \ {0}
      /\ at \in 1 .. Len(args) /\ at \in DOMAIN args /\ at - 1 \in 0 .. Len(args)
      /\ at + 1 \in 1 .. Len(args) + 1 /\ (at + 1) - 1 = at /\ Gathered(at - 1) /\ Arg = args[at]
      /\ resolved \in Seq(Chosen) /\ Selected(Arg) \in Seq(Chosen)
      /\ Len(WantedBy(args)[at]) = Len(resolved) + Len(Selected(Arg))
  BY AtArgument
<1>1. WantedBy(args)[at] = resolved'
  BY <1>0, WantedDef DEF Gathered
<1>2. /\ GlobbedBy(args)[at] = GlobbedBy(args)[at - 1] + (IF Arg.glob THEN Len(Selected(Arg)) ELSE 0)
      /\ GlobbedBy(args)[at - 1] \in Nat
  BY <1>0, GlobbedDef
<1>3. PICK a, b, g \in Nat : a = Len(resolved) /\ b = Len(Selected(Arg)) /\ g = GlobbedBy(args)[at - 1]
  <2>1. Len(resolved) \in Nat /\ Len(Selected(Arg)) \in Nat
    BY <1>0
  <2>. QED
    BY <1>2, <2>1
<1>4. g <= a /\ g <= job.max
  BY <1>0, <1>3 DEF Gathered
<1>5. Len(resolved') = a + b
  BY <1>0, <1>1, <1>3
<1>6. GlobbedBy(args)[at] <= a + b /\ GlobbedBy(args)[at] <= job.max
  BY <1>0, <1>2, <1>3, <1>4, SMTT(20)
<1>7. PICK n : n = at
  OBVIOUS
<1>8. Gathered(n)'
  <2>1. GlobbedBy(args)[at] <= Len(resolved')
    BY <1>5, <1>6
  <2>2. job'.args = args /\ job'.max = job.max
    OBVIOUS
  <2>. QED
    BY <1>1, <1>6, <1>7, <2>1, <2>2 DEF Gathered
<1>9. at' - 1 = n /\ at' \in 1 .. Len(args) + 1
  BY <1>0, <1>7
<1>10. Gathered(at - 1)'
  BY <1>8, <1>9
<1>. QED
  BY <1>0, <1>9, <1>10 DEF ExactInv, Validating

\* ... when an argument without a glob is taken,
LEMMA ExactExplicit == ASSUME ExactInv, Explicit PROVE ExactInv'
<1>. DEFINE s == [src |-> Arg.src, base |-> Basename(Arg.src)]
<1>0. /\ ~CopyIdle /\ pc = "args" /\ at <= Len(job.args) /\ ~Arg.glob
  BY DEF Explicit, ExactInv, CopyIdle
<1>1. /\ AreArguments(job.args) /\ at \in DOMAIN job.args /\ Arg = job.args[at]
      /\ resolved \in Seq(Chosen) /\ Selected(Arg) \in Seq(Chosen)
  BY <1>0, AtArgument
<1>2. Len(Selected(Arg)) = 1 /\ Selected(Arg)[1] = s
  BY <1>0, <1>1, SelectedType
<1>3. CASE Basename(Arg.src) = None
  <2>1. ~Sensible
    <3>1. 1 \in DOMAIN Selected(Arg)
      BY <1>1, <1>2
    <3>2. ~HasName(Selected(Arg)[1].base)
      BY <1>2, <1>3 DEF HasName
    <3>. QED
      BY <1>1, <3>1, <3>2 DEF Sensible
  <2>2. Excess
    BY <2>1 DEF Excess
  <2>3. Refuse
    BY <1>3 DEF Explicit
  <2>. QED
    BY <1>0, <2>2, <2>3, ExactRefuse
<1>4. CASE Basename(Arg.src) # None
  <2>1. resolved' = Append(resolved, s) /\ at' = at + 1 /\ pc' = pc /\ job' = job
    BY <1>4 DEF Explicit
  <2>2. Selected(Arg) = <<s>> /\ s \in Chosen
    BY <1>1, <1>2
  <2>. HIDE DEF s
  <2>3. Append(resolved, s) = resolved \o <<s>>
    BY <1>1, <2>2
  <2>. QED
    BY <1>0, <2>1, <2>2, <2>3, OneMore
<1>. QED
  BY <1>3, <1>4

\* A glob is not even listed: its share of the limit is nothing, or it is one
\* that cannot be.
LEMMA ExactGlobStarts == ASSUME ExactInv, GlobStarts PROVE ExactInv'
<1>0. /\ ~CopyIdle /\ pc = "args" /\ at <= Len(job.args) /\ Arg.glob
  BY DEF GlobStarts, ExactInv, CopyIdle
<1>1. /\ job \in Job /\ job.form = "args" /\ AreArguments(job.args) /\ at \in DOMAIN job.args
      /\ Arg = job.args[at] /\ job.max \in Nat \ {0} /\ at \in 1 .. Len(job.args) + 1
      /\ resolved \in Seq(Chosen) /\ Selected(Arg) \in Seq(Chosen) /\ Gathered(at - 1)
      /\ Len(WantedBy(job.args)[at]) = Len(resolved) + Len(Selected(Arg))
  BY <1>0, AtArgument
<1>2. CASE Refuse
  <2>1. ASSUME Sensible, NoGcsGlob, ~TooMany PROVE FALSE
    <3>1. Selected(Arg) # <<>> /\ WellFormed(Arg.src) /\ Provider(Arg.src) # "gcs"
      BY <1>0, <1>1, <2>1 DEF Sensible, NoGcsGlob
    <3>2. Len(Selected(Arg)) >= 1 /\ Len(Selected(Arg)) \in Nat
      BY <1>1, <3>1
    <3>3. ~(Len(WantedBy(job.args)[at]) > job.max)
      BY <1>0, <1>1, <2>1 DEF TooMany
    <3>4. ~(Remaining <= 0)
      <4>1. PICK a, b, c \in Nat : a = Len(resolved) /\ b = Len(Selected(Arg)) /\ c = job.max
        BY <1>1, <3>2
      <4>2. ~(a + b > c)
        BY <1>1, <3>3, <4>1
      <4>. QED
        BY <3>2, <4>1, <4>2 DEF Remaining
    <3>5. ListForm[Provider(Arg.src)] \notin RefusedForms
      <4>1. Arg.src.form \in AzureForms \cup GcsForms \cup LocalForms
        <5>1. Arg.src \in Written
          BY <1>1, SelectedType DEF Uris
        <5>. QED
          BY <3>1, <5>1 DEF WellFormed, Written
      <4>2. Provider(Arg.src) \in {"azblob", "local"}
        BY <3>1, <4>1 DEF Provider
      <4>. QED
        BY <4>2 DEF ListForm, RefusedForms
    <3>6. pc' = "list"
      BY <3>1, <3>4, <3>5 DEF GlobStarts
    <3>. QED
      BY <1>2, <3>6 DEF Refuse, Give
  <2>2. Excess
    BY <2>1 DEF Excess
  <2>. QED
    BY <1>0, <1>2, <2>2, ExactRefuse
<1>3. CASE ~Refuse
  <2>1. pc' = "list" /\ entry' = 1 /\ matches' = <<>> /\ UNCHANGED <<job, at, resolved, items, seen>>
    BY <1>3 DEF GlobStarts
  <2>2. Arg.list \in Seq(ListedEntry) /\ Hits(Arg.list)[0] = <<>>
    <3>1. PICK list \in Seq(ListedEntry) : list = Arg.list
      BY <1>0, <1>1, SelectedType
    <3>2. \A i \in DOMAIN list : IsUri(list[i].src) /\ WellFormed(list[i].src)
      BY <1>0, <1>1, <3>1 DEF AreArguments
    <3>. QED
      BY <3>1, <3>2, HitsDef
  <2>3. Arg' = Arg
    BY <2>1 DEF Arg
  <2>4. Gathered(at - 1)'
    BY <1>1, <2>1 DEF Gathered
  <2>5. entry' \in 1 .. Len(Arg.list) + 1 /\ entry' - 1 = 0
    BY <2>1, <2>2
  <2>. QED
    BY <1>0, <1>1, <2>1, <2>2, <2>3, <2>4, <2>5 DEF ExactInv, Validating
<1>. QED
  BY <1>2, <1>3

\* The listing of the glob in progress.
LEMMA AtEntry ==
  ASSUME ExactInv, ~CopyIdle, pc = "list"
  PROVE  /\ at <= Len(job.args) /\ Arg.glob /\ Arg.list \in Seq(ListedEntry)
         /\ \A i \in DOMAIN Arg.list : IsUri(Arg.list[i].src) /\ WellFormed(Arg.list[i].src)
         /\ entry \in 1 .. Len(Arg.list) + 1 /\ matches = Hits(Arg.list)[entry - 1]
         /\ matches \in Seq(Known) /\ Selected(Arg) = Hits(Arg.list)[Len(Arg.list)]
         /\ Len(matches) \in Nat /\ Len(resolved) \in Nat
<1>1. at <= Len(job.args) /\ Arg.glob /\ entry \in 1 .. Len(Arg.list) + 1
      /\ matches = Hits(Arg.list)[entry - 1]
  BY DEF ExactInv
<1>2. /\ AreArguments(job.args) /\ at \in DOMAIN job.args /\ Arg = job.args[at]
      /\ resolved \in Seq(Chosen)
  BY <1>1, AtArgument
<1>3. Arg.list \in Seq(ListedEntry)
  BY <1>1, <1>2, SelectedType
<1>4. \A i \in DOMAIN Arg.list : IsUri(Arg.list[i].src) /\ WellFormed(Arg.list[i].src)
  BY <1>1, <1>2 DEF AreArguments
<1>5. entry - 1 \in 0 .. Len(Arg.list)
  BY <1>1, <1>3
<1>6. matches \in Seq(Known)
  BY <1>1, <1>3, <1>4, <1>5, HitsDef
<1>7. Selected(Arg) = Hits(Arg.list)[Len(Arg.list)]
  BY <1>1 DEF Selected
<1>8. Len(matches) \in Nat /\ Len(resolved) \in Nat
  BY <1>2, <1>6
<1>. QED
  BY <1>1, <1>2, <1>3, <1>4, <1>6, <1>7, <1>8

\* An entry that matches is brought in, or is one too many.
LEMMA ExactEntry == ASSUME ExactInv, ListEntry PROVE ExactInv'
<1>0. ~CopyIdle /\ pc = "list" /\ entry <= Len(Arg.list)
  BY DEF ListEntry, ExactInv, CopyIdle
<1>1. /\ at <= Len(job.args) /\ Arg.glob /\ Arg.list \in Seq(ListedEntry)
      /\ \A i \in DOMAIN Arg.list : IsUri(Arg.list[i].src) /\ WellFormed(Arg.list[i].src)
      /\ entry \in 1 .. Len(Arg.list) + 1 /\ matches = Hits(Arg.list)[entry - 1]
      /\ matches \in Seq(Known) /\ Selected(Arg) = Hits(Arg.list)[Len(Arg.list)]
      /\ Len(matches) \in Nat /\ Len(resolved) \in Nat
  BY <1>0, AtEntry
<1>2. /\ job \in Job /\ job.form = "args" /\ at \in DOMAIN job.args /\ Arg = job.args[at]
      /\ at \in 1 .. Len(job.args) + 1
      /\ job.max \in Nat \ {0} /\ Gathered(at - 1) /\ Selected(Arg) \in Seq(Chosen)
      /\ Len(WantedBy(job.args)[at]) = Len(resolved) + Len(Selected(Arg))
  BY <1>0, <1>1, AtArgument
<1>3. entry \in 1 .. Len(Arg.list) /\ Listed = Arg.list[entry] /\ Listed \in ListedEntry
  BY <1>0, <1>1 DEF Listed
<1>4. Matches(Listed) <=> Hit(Listed)
  <2>1. Listed.base # None
    <3>1. Listed.base \in Segment
      BY <1>3 DEF ListedEntry
    <3>. QED
      BY <3>1, UriAssumption, Zenon
  <2>. QED
    BY <2>1 DEF Matches, Hit, HasName
<1>5. Hits(Arg.list)[entry] = IF Hit(Listed) THEN Append(matches, NameOf(Listed)) ELSE matches
  BY <1>1, <1>3, HitsDef
<1>6. CASE Matches(Listed) /\ Len(matches) >= Remaining
  <2>1. PICK h : h = Hits(Arg.list)[entry]
    OBVIOUS
  <2>2. Len(h) = Len(matches) + 1
    <3>1. h = Append(matches, NameOf(Listed))
      BY <1>4, <1>5, <1>6, <2>1
    <3>2. matches \in Seq(Known \cup {NameOf(Listed)})
      BY <1>1
    <3>3. PICK S : matches \in Seq(S) /\ NameOf(Listed) \in S
      BY <3>2
    <3>. QED
      BY <3>1, <3>3, AppendProperties
  <2>3. Len(h) <= Len(Selected(Arg))
    <3>1. entry \in 0 .. Len(Arg.list)
      BY <1>3
    <3>. QED
      BY <1>1, <2>1, <3>1, HitsGrow
  <2>4. PICK a, b, c, d \in Nat : a = Len(resolved) /\ b = Len(matches) /\ c = job.max
                                  /\ d = Len(Selected(Arg))
    <3>1. Len(Selected(Arg)) \in Nat
      BY <1>2
    <3>. QED
      BY <1>1, <1>2, <3>1
  <2>5. b >= c - a /\ b + 1 <= d
    BY <1>6, <2>2, <2>3, <2>4 DEF Remaining
  <2>6. Len(WantedBy(job.args)[at]) > job.max
    BY <1>2, <2>4, <2>5
  <2>7. TooMany
    BY <1>1, <1>2, <2>6 DEF TooMany
  <2>8. Refuse /\ Excess
    BY <1>6, <2>7 DEF ListEntry, AtLimit, Excess
  <2>. QED
    BY <1>0, <2>8, ExactRefuse
<1>7. CASE ~(Matches(Listed) /\ Len(matches) >= Remaining)
  <2>1. /\ matches' = IF Matches(Listed) THEN Append(matches, NameOf(Listed)) ELSE matches
        /\ entry' = entry + 1 /\ UNCHANGED <<pc, job, at, resolved, items, seen>>
    BY <1>7 DEF ListEntry, NameOf
  <2>2. matches' = Hits(Arg.list)[entry]
    BY <1>4, <1>5, <2>1
  <2>3. entry' - 1 = entry /\ entry' \in 1 .. Len(Arg.list) + 1
    BY <1>1, <1>3, <2>1
  <2>4. Arg' = Arg
    BY <2>1 DEF Arg
  <2>5. Gathered(at - 1)'
    BY <1>2, <2>1 DEF Gathered
  <2>. QED
    BY <1>0, <1>1, <1>2, <2>1, <2>2, <2>3, <2>4, <2>5 DEF ExactInv, Validating
<1>. QED
  BY <1>6, <1>7

\* The listing is over: all that it had to bring in is there.
LEMMA ExactGlobEnds == ASSUME ExactInv, ShapesInv, GlobEnds PROVE ExactInv'
<1>0. ~CopyIdle /\ pc = "list" /\ entry > Len(Arg.list)
  BY DEF GlobEnds, ExactInv, CopyIdle
<1>1. /\ at <= Len(job.args) /\ Arg.glob /\ Arg.list \in Seq(ListedEntry)
      /\ entry \in 1 .. Len(Arg.list) + 1 /\ matches = Hits(Arg.list)[entry - 1]
      /\ Selected(Arg) = Hits(Arg.list)[Len(Arg.list)]
  BY <1>0, AtEntry
<1>2. matches = Selected(Arg)
  <2>1. entry - 1 = Len(Arg.list)
    BY <1>0, <1>1
  <2>. QED
    BY <1>1, <2>1
<1>3. CASE matches = <<>>
  <2>1. ~Sensible
    <3>1. at \in DOMAIN job.args /\ Arg = job.args[at]
      BY <1>0, <1>1, AtArgument
    <3>. QED
      BY <1>2, <1>3, <3>1 DEF Sensible
  <2>2. Refuse /\ Excess
    BY <1>3, <2>1 DEF GlobEnds, Excess
  <2>. QED
    BY <1>0, <2>2, ExactRefuse
<1>4. CASE matches # <<>>
  <2>1. resolved' = resolved \o Selected(Arg) /\ at' = at + 1 /\ pc' = "args" /\ job' = job
    BY <1>2, <1>4 DEF GlobEnds
  <2>2. Len(resolved) + Len(Selected(Arg)) <= job.max
    BY <1>0, <1>2 DEF ShapesInv
  <2>. QED
    BY <1>0, <1>1, <2>1, <2>2, OneMore
<1>. QED
  BY <1>3, <1>4

\* The arguments are through.
LEMMA ExactMap == ASSUME ExactInv, MapSources PROVE ExactInv'
<1>. DEFINE names == Wanted(job.args)
<1>0. ~CopyIdle /\ pc = "args" /\ at > Len(job.args)
  BY DEF MapSources, ExactInv, CopyIdle
<1>1. /\ job \in Job /\ job.form = "args" /\ at \in 1 .. Len(job.args) + 1 /\ Gathered(at - 1)
  BY <1>0 DEF ExactInv
<1>2. Len(job.args) \in Nat
  BY <1>1, JobTypes
<1>3. at - 1 = Len(job.args)
  BY <1>0, <1>1, <1>2
<1>4. resolved = names /\ GlobbedBy(job.args)[Len(job.args)] <= job.max
  BY <1>1, <1>3 DEF Gathered, Wanted
<1>5. CASE Len(resolved) > 1 /\ ~EndsInSlash(job.dst)
  <2>1. ~Sensible
    BY <1>4, <1>5 DEF Sensible
  <2>2. Refuse /\ Excess
    BY <1>5, <2>1 DEF MapSources, Excess
  <2>. QED
    BY <1>0, <2>2, ExactRefuse
<1>6. CASE ~(Len(resolved) > 1 /\ ~EndsInSlash(job.dst))
  <2>1. /\ items' = [k \in DOMAIN resolved |->
                       [src |-> resolved[k].src, dst |-> Destination(resolved[k])]]
        /\ pc' = "check" /\ job' = job
    BY <1>6 DEF MapSources
  <2>2. items' = Items(names)
    BY <1>4, <2>1 DEF Items
  <2>3. Planned'
    BY <1>1, <1>4, <2>1, <2>2 DEF Planned, Items, Destination
  <2>. QED
    BY <1>1, <2>1, <2>3 DEF ExactInv, Validating
<1>. QED
  BY <1>5, <1>6

\* A file is no sensible command line: nothing is said of its refusals.
LEMMA FileRefuse ==
  ASSUME ExactInv, ~CopyIdle, Refuse, job.form = "file"
  PROVE  ExactInv'
<1>1. Excess
  BY DEF Excess, Sensible
<1>. QED
  BY <1>1, ExactRefuse

\* One item more is one source more.
LEMMA SourcesGrow ==
  ASSUME NEW list \in Seq(Item), NEW e \in Item
  PROVE  /\ Sources(Append(list, e)) = Append(Sources(list), e.src)
         /\ Sources(list) \in Seq(Uris)
<1>1. PICK n \in Nat : n = Len(list)
  OBVIOUS
<1>2. PICK a : a = Append(list, e)
  OBVIOUS
<1>3. a \in Seq(Item) /\ Len(a) = n + 1 /\ a[n + 1] = e /\ \A k \in 1 .. n : a[k] = list[k]
  BY <1>1, <1>2, AppendProperties
<1>4. DOMAIN a = 1 .. n + 1 /\ DOMAIN list = 1 .. n
  BY <1>1, <1>3
<1>5. \A u \in Item : u.src \in Uris
  BY DEF Item
<1>6. PICK s, t : s = Sources(list) /\ t = Sources(a)
  OBVIOUS
<1>7. s = [k \in 1 .. n |-> list[k].src] /\ t = [k \in 1 .. n + 1 |-> a[k].src]
  BY <1>4, <1>6 DEF Sources
<1>8. \A k \in 1 .. n : list[k].src \in Uris
  BY <1>1, <1>5
<1>. HIDE DEF Uris, Item
<1>9. s \in Seq(Uris) /\ Len(s) = n
  BY <1>1, <1>7, <1>8
<1>10. e.src \in Uris
  BY <1>5
<1>11. PICK b : b = Append(s, e.src)
  OBVIOUS
<1>12. b \in Seq(Uris) /\ Len(b) = n + 1 /\ b[n + 1] = e.src /\ \A k \in 1 .. n : b[k] = s[k]
  BY <1>9, <1>10, <1>11, AppendProperties
<1>13. b = [k \in 1 .. n + 1 |-> b[k]]
  BY <1>12
<1>14. \A k \in 1 .. n + 1 : b[k] = t[k]
  <2>. TAKE k \in 1 .. n + 1
  <2>1. CASE k = n + 1
    BY <1>3, <1>7, <1>12, <2>1
  <2>2. CASE k # n + 1
    <3>1. k \in 1 .. n
      BY <2>2
    <3>. QED
      BY <1>3, <1>7, <1>12, <3>1
  <2>. QED
    BY <2>1, <2>2
<1>15. t = [k \in 1 .. n + 1 |-> t[k]]
  BY <1>7
<1>16. b = t
  BY <1>13, <1>14, <1>15
<1>. QED
  BY <1>2, <1>6, <1>9, <1>11, <1>16

\* ExactInv holds when a line is read,
LEMMA ExactLine == ASSUME ExactInv, ShapesInv, ReadLine PROVE ExactInv'
<1>0. ~CopyIdle /\ pc = "file" /\ at <= Len(job.lines)
  BY DEF ReadLine, ExactInv, CopyIdle
<1>1. /\ job \in Job /\ job.form = "file" /\ at \in 1 .. Len(job.lines) + 1
      /\ Sources(items) = NamedBy(job.lines)[at - 1]
  BY <1>0 DEF ExactInv
<1>2. AreLines(job.lines) /\ DOMAIN job.lines = 1 .. Len(job.lines) /\ Len(job.lines) \in Nat
  BY <1>1, JobTypes
<1>3. CASE Refuse
  BY <1>0, <1>1, <1>3, FileRefuse
<1>4. CASE ~Refuse
  <2>1. PICK line : line = job.lines[at]
    OBVIOUS
  <2>2. /\ line.kind # "broken"
        /\ items' = IF line.kind = "blank" THEN items
                    ELSE Append(items, [src |-> line.src, dst |-> line.dst])
        /\ at' = at + 1 /\ UNCHANGED <<pc, job>>
    BY <1>4, <2>1 DEF ReadLine
  <2>3. at \in 1 .. Len(job.lines)
    BY <1>0, <1>1, <1>2
  <2>4. line \in Line
    BY <1>2, <2>1, <2>3 DEF AreLines
  <2>5. line.kind \in {"blank", "entry"}
    BY <2>2, <2>4 DEF Line
  <2>6. NamedBy(job.lines)[at] = IF line.kind = "entry" THEN Append(NamedBy(job.lines)[at - 1], line.src)
                                 ELSE NamedBy(job.lines)[at - 1]
    BY <1>2, <2>1, <2>3, NamedDef
  <2>7. Sources(items') = NamedBy(job.lines)[at]
    <3>1. CASE line.kind = "blank"
      BY <1>1, <2>2, <2>6, <3>1
    <3>2. CASE line.kind = "entry"
      <4>1. line.src \in Uris /\ line.dst \in Uris
        BY <1>2, <2>1, <2>3, <3>2 DEF AreLines, IsUri, Uris
      <4>2. PICK e \in Item : e = [src |-> line.src, dst |-> line.dst]
        BY <4>1 DEF Item
      <4>3. items \in Seq(Item)
        BY <1>0 DEF ShapesInv
      <4>4. Sources(Append(items, e)) = Append(Sources(items), e.src)
        BY <4>3, SourcesGrow
      <4>5. items' = Append(items, e) /\ e.src = line.src
        BY <2>2, <3>2, <4>2
      <4>. QED
        BY <1>1, <2>6, <3>2, <4>4, <4>5
    <3>. QED
      BY <2>5, <3>1, <3>2
  <2>8. at' - 1 = at /\ at' \in 1 .. Len(job.lines) + 1
    BY <1>2, <2>2, <2>3
  <2>9. (Sources(items) = NamedBy(job.lines)[at - 1])'
    BY <2>2, <2>7, <2>8
  <2>. QED
    BY <1>0, <1>1, <2>2, <2>8, <2>9 DEF ExactInv, Validating
<1>. QED
  BY <1>3, <1>4

\* ... when they end,
LEMMA ExactLinesEnd == ASSUME ExactInv, LinesEnd PROVE ExactInv'
<1>0. ~CopyIdle /\ pc = "file" /\ at > Len(job.lines)
  BY DEF LinesEnd, ExactInv, CopyIdle
<1>1. /\ job \in Job /\ job.form = "file" /\ at \in 1 .. Len(job.lines) + 1
      /\ Sources(items) = NamedBy(job.lines)[at - 1]
  BY <1>0 DEF ExactInv
<1>2. Len(job.lines) \in Nat
  BY <1>1, JobTypes
<1>3. CASE Refuse
  BY <1>0, <1>1, <1>3, FileRefuse
<1>4. CASE ~Refuse
  <2>1. pc' = "check" /\ items' = items /\ job' = job
    BY <1>4 DEF LinesEnd
  <2>2. at - 1 = Len(job.lines)
    BY <1>0, <1>1, <1>2
  <2>3. Planned'
    BY <1>1, <2>1, <2>2 DEF Planned
  <2>. QED
    BY <1>1, <2>1, <2>3 DEF ExactInv, Validating
<1>. QED
  BY <1>3, <1>4

------------------------------------------------------------------------------
(* The validation.                                                           *)

\* A step within the validation, with the plan as it was.
LEMMA PlanStays ==
  ASSUME ExactInv, ~CopyIdle, pc \in Validating, pc' \in Validating, job' = job, items' = items
  PROVE  ExactInv'
<1>1. job \in Job /\ Planned
  BY DEF ExactInv
<1>2. Planned'
  BY <1>1 DEF Planned, Items, Destination
<1>. QED
  BY <1>1, <1>2 DEF ExactInv, Validating

\* A sensible plan, item by item.
LEMMA SensiblePlan ==
  ASSUME job \in Job, Planned, Sensible
  PROVE  /\ DOMAIN items = DOMAIN Wanted(job.args)
         /\ \A k \in DOMAIN items :
              /\ WellFormed(items[k].src) /\ WellFormed(items[k].dst)
              /\ items[k].src = Wanted(job.args)[k].src
              /\ items[k].dst = Destination(Wanted(job.args)[k])
              /\ Wanted(job.args)[k] \in Source
         /\ \A j, k \in DOMAIN items : Normalized(items[j].dst) = Normalized(items[k].dst) => j = k
<1>. DEFINE names == Wanted(job.args)
<1>1. job.form = "args" /\ AreArguments(job.args) /\ Len(job.args) \in Nat
  BY JobTypes DEF Sensible
<1>2. items = Items(names)
  BY <1>1 DEF Planned
<1>3. names \in Seq(Known)
  <2>1. \A k \in 0 .. Len(job.args) : WantedBy(job.args)[k] \in Seq(Known)
    BY <1>1, WantedKnown DEF Sensible
  <2>. QED
    BY <1>1, <2>1 DEF Wanted
<1>. HIDE DEF names
<1>4. /\ DOMAIN items = DOMAIN names
      /\ \A k \in DOMAIN items : items[k].src = names[k].src /\ items[k].dst = Destination(names[k])
  BY <1>2 DEF Items
<1>5. \A k \in DOMAIN names : names[k] \in Known
  BY <1>3
<1>6. \A k \in DOMAIN names : WellFormed(names[k].src) /\ names[k] \in Source
  BY <1>5 DEF Known
<1>7. /\ \A k \in DOMAIN names : WellFormed(Destination(names[k]))
      /\ \A j, k \in DOMAIN names :
           Place(Destination(names[j])) = Place(Destination(names[k])) => j = k
  BY DEF Sensible, names
<1>8. ASSUME NEW u, NEW v, Normalized(u) = Normalized(v) PROVE Place(u) = Place(v)
  <2>1. /\ Provider(u) = Provider(v) /\ Account(u) = Account(v)
        /\ Container(u) = Container(v) /\ Key(u) = Key(v)
    BY <1>8 DEF Normalized
  <2>. QED
    BY <2>1 DEF Place
<1>9. \A j, k \in DOMAIN items : Normalized(items[j].dst) = Normalized(items[k].dst) => j = k
  BY <1>4, <1>7, <1>8
<1>. QED
  BY <1>4, <1>6, <1>7, <1>9 DEF names

\* A sensible plan passes.
LEMMA ExactCheck == ASSUME ExactInv, PlanInv, CheckItem \/ CheckEnds PROVE ExactInv'
<1>0. ~CopyIdle /\ pc = "check"
  BY DEF CheckItem, CheckEnds, ExactInv, CopyIdle
<1>1. job \in Job /\ Planned
  BY <1>0 DEF ExactInv, Validating
<1>2. CASE Refuse
  <2>1. CheckItem /\ at <= Len(items)
    BY <1>2 DEF CheckItem, CheckEnds, Refuse, Give
  <2>2. /\ at \in 1 .. Len(items) + 1
        /\ \A n \in seen : \E k \in 1 .. at - 1 : n = Normalized(items[k].dst)
    BY <1>0 DEF PlanInv, DistinctInv
  <2>3. DOMAIN items = 1 .. Len(items) /\ Len(items) \in Nat
    BY DEF PlanInv, SequencesInv, IsSequence
  <2>4. at \in DOMAIN items /\ \A k \in 1 .. at - 1 : k \in DOMAIN items /\ k # at
    BY <2>1, <2>2, <2>3
  <2>5. \/ ~WellFormed(items[at].src) \/ ~WellFormed(items[at].dst) \/ Normalized(items[at].dst) \in seen
    BY <1>0, <1>2, <2>1 DEF CheckItem, Refuse, Give
  <2>6. ~Sensible
    BY <1>1, <2>2, <2>4, <2>5, SensiblePlan
  <2>7. Excess
    BY <2>6 DEF Excess
  <2>. QED
    BY <1>0, <1>2, <2>7, ExactRefuse
<1>3. CASE ~Refuse
  <2>1. pc' \in {"check", "legs"} /\ job' = job /\ items' = items
    BY <1>0, <1>3 DEF CheckItem, CheckEnds
  <2>. QED
    BY <1>0, <2>1, PlanStays DEF Validating
<1>. QED
  BY <1>2, <1>3

\* So do its legs.
LEMMA ExactLegs == ASSUME ExactInv, CheckLegs PROVE ExactInv'
<1>0. ~CopyIdle /\ pc = "legs"
  BY DEF CheckLegs, ExactInv, CopyIdle
<1>1. job \in Job /\ Planned
  BY <1>0 DEF ExactInv, Validating
<1>2. CASE Refuse
  <2>1. PICK side \in {"src", "dst"} : HasGcs(side) /\ ~LegResolves(side)
    BY <1>0, <1>2 DEF CheckLegs, Refuse, Give
  <2>2. ResolveError(job.world, CopyLegOptions(job.flags, side)) # "none"
    BY <2>1, SameOptions DEF LegResolves
  <2>3. PICK k \in DOMAIN items : Provider(Leg(items[k], side)) = "gcs"
    BY <2>1 DEF HasGcs
  <2>4. ASSUME Sensible PROVE FALSE
    <3>1. /\ k \in DOMAIN Wanted(job.args) /\ items[k].src = Wanted(job.args)[k].src
          /\ items[k].dst = Destination(Wanted(job.args)[k])
      BY <1>1, <2>4, SensiblePlan
    <3>2. LegsResolvable
      BY <2>4 DEF Sensible
    <3>3. CASE side = "src"
      BY <2>2, <2>3, <3>1, <3>2, <3>3 DEF LegsResolvable, Leg
    <3>4. CASE side = "dst"
      <4>1. Provider(job.dst) # "gcs"
        BY <2>2, <3>2, <3>4 DEF LegsResolvable
      <4>2. items[k].dst.form = job.dst.form
        <5>1. job.form = "args" /\ job.dst \in Written
          BY <1>1, <2>4, JobTypes DEF Sensible, IsUri
        <5>. QED
          BY <3>1, <5>1 DEF Destination, JoinDestinationPrefix, Written
      <4>3. Provider(items[k].dst) = Provider(job.dst)
        BY <4>2 DEF Provider
      <4>. QED
        BY <2>3, <3>4, <4>1, <4>3 DEF Leg
    <3>. QED
      BY <3>3, <3>4
  <2>5. Excess
    BY <2>4 DEF Excess
  <2>. QED
    BY <1>0, <1>2, <2>5, ExactRefuse
<1>3. CASE ~Refuse
  <2>1. pc' = "done" /\ job' = job /\ items' = items
    BY <1>3 DEF CheckLegs
  <2>. QED
    BY <1>0, <2>1, PlanStays DEF Validating
<1>. QED
  BY <1>2, <1>3

\* ... when nothing happens,
LEMMA ExactStutter == ASSUME ExactInv, UNCHANGED vars PROVE ExactInv'
<1>1. /\ pc' = pc /\ job' = job /\ at' = at /\ entry' = entry /\ matches' = matches
      /\ resolved' = resolved /\ items' = items /\ seen' = seen
  BY DEF vars
<1>2. Excess' = Excess
  BY <1>1, SameExcess
<1>3. (Gathered(at - 1))' = Gathered(at - 1) /\ Planned' = Planned /\ Arg' = Arg
  BY <1>1 DEF Gathered, Planned, Items, Destination, Arg
<1>4. CopyIdle' = CopyIdle
  BY <1>1 DEF CopyIdle
<1>. QED
  BY <1>1, <1>2, <1>3, <1>4 DEF ExactInv

\* ... when a listing or the file fails,
LEMMA ExactUnreads == ASSUME ExactInv, ListFails \/ ReadFails PROVE ExactInv'
<1>1. ~CopyIdle /\ Give("unread")
  BY DEF ListFails, ReadFails, CopyIdle
<1>. QED
  BY <1>1, ExactUnread

\* ... so whatever the step.
LEMMA ExactNext == ExactInv /\ ShapesInv /\ PlanInv /\ [Next]_vars => ExactInv'
  BY ExactExplicit, ExactGlobStarts, ExactEntry, ExactGlobEnds, ExactMap, ExactLine, ExactLinesEnd,
     ExactCheck, ExactLegs, ExactStutter, ExactUnreads DEF Next, Ended

\* What does not shrink from one to the next is largest at the end.
LEMMA Climbs ==
  ASSUME NEW m \in Nat, NEW f, \A k \in 0 .. m : f[k] \in Nat,
         \A k \in 1 .. m : f[k - 1] <= f[k], NEW i \in 0 .. m
  PROVE  f[i] <= f[m]
<1>. DEFINE T == {d \in Nat : i + d <= m => f[i] <= f[i + d]}
<1>1. 0 \in T
  <2>1. i + 0 = i /\ f[i] \in Nat
    OBVIOUS
  <2>. QED
    BY <2>1
<1>2. \A d \in Nat : d \in T => d + 1 \in T
  <2>. SUFFICES ASSUME NEW d \in Nat, d \in T, i + (d + 1) <= m
                PROVE  f[i] <= f[i + (d + 1)]
    OBVIOUS
  <2>1. PICK n \in Nat : n = i + d
    OBVIOUS
  <2>2. n + 1 \in 1 .. m /\ n \in 0 .. m /\ n + 1 \in 0 .. m /\ (n + 1) - 1 = n /\ i + (d + 1) = n + 1
    BY <2>1
  <2>3. f[i] <= f[n] /\ f[n] <= f[n + 1]
    BY <2>1, <2>2
  <2>4. f[i] \in Nat /\ f[n] \in Nat /\ f[n + 1] \in Nat
    BY <2>2
  <2>. QED
    BY <2>2, <2>3, <2>4
<1>3. Nat \subseteq T
  <2>. HIDE DEF T
  <2>. QED
    BY <1>1, <1>2, Induct
<1>4. m - i \in Nat /\ i + (m - i) = m
  OBVIOUS
<1>5. m - i \in T
  BY <1>3, <1>4
<1>. QED
  BY <1>4, <1>5

\* Up to the first plain source, all there is comes from globs.
LEMMA OnlyGlobbed ==
  ASSUME NEW args, AreArguments(args), NEW k \in 0 .. Len(args),
         \A j \in 1 .. k : args[j].glob
  PROVE  Len(WantedBy(args)[k]) = GlobbedBy(args)[k]
<1>1. PICK m \in Nat : m = Len(args) /\ DOMAIN args = 1 .. m
  BY DEF AreArguments
<1>2. PICK h, g : h = WantedBy(args) /\ g = GlobbedBy(args)
  OBVIOUS
<1>3. g[0] = 0 /\ Len(h[0]) = 0
  <2>1. h[0] = <<>> /\ g[0] = 0
    BY <1>2, WantedDef, GlobbedDef
  <2>. QED
    BY <2>1
<1>4. /\ \A n \in 1 .. m : Len(h[n]) = Len(h[n - 1]) + Len(Selected(args[n]))
      /\ \A n \in 1 .. m : g[n] = g[n - 1] + (IF args[n].glob THEN Len(Selected(args[n])) ELSE 0)
  BY <1>1, <1>2, WantedGrows, GlobbedDef
<1>. DEFINE T == {n \in Nat : n <= k => Len(h[n]) = g[n]}
<1>5. 0 \in T
  BY <1>3
<1>6. \A n \in Nat : n \in T => n + 1 \in T
  <2>. SUFFICES ASSUME NEW n \in Nat, n \in T, n + 1 <= k PROVE Len(h[n + 1]) = g[n + 1]
    OBVIOUS
  <2>1. n + 1 \in 1 .. m /\ (n + 1) - 1 = n /\ n + 1 \in 1 .. k
    BY <1>1
  <2>2. Len(h[n]) = g[n] /\ args[n + 1].glob
    BY <2>1
  <2>3. PICK i : i = n + 1
    OBVIOUS
  <2>4. Len(h[i]) = Len(h[i - 1]) + Len(Selected(args[i])) /\ g[i] = g[i - 1] + Len(Selected(args[i]))
    BY <1>4, <2>1, <2>2, <2>3, Zenon
  <2>. QED
    BY <2>1, <2>2, <2>3, <2>4
<1>7. Nat \subseteq T
  <2>. HIDE DEF T
  <2>. QED
    BY <1>5, <1>6, Induct
<1>8. k \in T
  BY <1>7
<1>. QED
  BY <1>2, <1>8

\* Too many at a glob are too many in all, and too many from globs where the
\* globs come first.
LEMMA ExcessTells ==
  ASSUME job \in Job, job.form = "args", TooMany
  PROVE  job.max < IF PlainBeforeGlob THEN Len(Wanted(job.args)) ELSE FromGlobs
<1>. DEFINE args == job.args
<1>1. PICK m \in Nat : m = Len(args) /\ DOMAIN args = 1 .. m /\ AreArguments(args)
  BY JobTypes
<1>2. PICK max \in Nat : max = job.max
  BY JobTypes
<1>3. PICK h, g : h = WantedBy(args) /\ g = GlobbedBy(args)
  OBVIOUS
<1>4. PICK k \in 1 .. m : args[k].glob /\ Len(h[k]) > max
  BY <1>1, <1>2, <1>3 DEF TooMany
<1>. DEFINE l == [i \in 0 .. m |-> Len(h[i])]
<1>5. /\ \A i \in 0 .. m : h[i] \in Seq(Chosen) /\ g[i] \in Nat
      /\ \A i \in 1 .. m : h[i] = h[i - 1] \o Selected(args[i])
      /\ \A i \in 1 .. m : g[i] = g[i - 1] + (IF args[i].glob THEN Len(Selected(args[i])) ELSE 0)
      /\ \A i \in 1 .. m : Len(h[i]) = Len(h[i - 1]) + Len(Selected(args[i]))
      /\ \A i \in 1 .. m : Selected(args[i]) \in Seq(Chosen)
  BY <1>1, <1>3, WantedDef, GlobbedDef, WantedGrows, SelectedType
<1>6. \A i \in 0 .. m : l[i] = Len(h[i]) /\ l[i] \in Nat
  <2>. HIDE DEF Chosen
  <2>. QED
    BY <1>5
<1>7. \A i \in 1 .. m : i \in 0 .. m /\ i - 1 \in 0 .. m /\ Len(Selected(args[i])) \in Nat
  <2>. HIDE DEF Chosen
  <2>. QED
    BY <1>5
<1>8. \A i \in 1 .. m : l[i - 1] <= l[i] /\ g[i - 1] <= g[i]
  <2>. SUFFICES ASSUME NEW i \in 1 .. m PROVE l[i - 1] <= l[i] /\ g[i - 1] <= g[i]
    OBVIOUS
  <2>1. PICK a \in Nat : a = Len(Selected(args[i]))
    BY <1>7
  <2>2. l[i - 1] \in Nat /\ g[i - 1] \in Nat /\ l[i] = l[i - 1] + a
    BY <1>5, <1>6, <1>7, <2>1
  <2>3. g[i] = g[i - 1] + a \/ g[i] = g[i - 1] + 0
    BY <1>5, <2>1
  <2>. QED
    BY <2>2, <2>3
<1>9. l[k] <= l[m] /\ g[k] <= g[m]
  <2>1. k \in 0 .. m
    OBVIOUS
  <2>. HIDE DEF l
  <2>. QED
    BY <1>5, <1>6, <1>8, <2>1, Climbs
<1>10. m \in 0 .. m /\ k \in 0 .. m
  OBVIOUS
<1>11. CASE PlainBeforeGlob
  <2>1. l[m] > max
    BY <1>4, <1>6, <1>9, <1>10
  <2>2. Len(Wanted(args)) = l[m]
    BY <1>1, <1>3, <1>6, <1>10 DEF Wanted
  <2>. QED
    BY <1>2, <1>6, <1>10, <1>11, <2>1, <2>2
<1>12. CASE ~PlainBeforeGlob
  <2>1. \A j \in 1 .. k : args[j].glob
    <3>. SUFFICES ASSUME NEW j \in 1 .. k, ~args[j].glob PROVE FALSE
      OBVIOUS
    <3>1. j # k /\ j < k /\ j \in DOMAIN args /\ k \in DOMAIN args
      BY <1>1, <1>4
    <3>. QED
      BY <1>4, <1>12, <3>1 DEF PlainBeforeGlob
  <2>2. Len(h[k]) = g[k]
    BY <1>1, <1>3, <1>10, <2>1, OnlyGlobbed
  <2>3. g[m] > max
    BY <1>4, <1>5, <1>9, <1>10, <2>2
  <2>4. FromGlobs = g[m]
    BY <1>1, <1>3 DEF FromGlobs
  <2>. QED
    BY <1>2, <1>5, <1>10, <1>12, <2>3, <2>4
<1>. QED
  BY <1>11, <1>12

\* What is planned is what was asked for.
LEMMA ExactTells == ExactInv => PlanIsExact
<1>1. CopyIdle => PlanIsExact
  BY DEF CopyIdle, PlanIsExact, PlanIsComplete, RefusesOnlyExcess
<1>2. ASSUME ExactInv, ~CopyIdle PROVE PlanIsExact
  <2>1. RefusesOnlyExcess
    <3>. SUFFICES ASSUME pc = "refused", Sensible, NoGcsGlob
                  PROVE  job.max < IF PlainBeforeGlob THEN Len(Wanted(job.args)) ELSE FromGlobs
      BY DEF RefusesOnlyExcess
    <3>1. job \in Job /\ TooMany
      BY <1>2 DEF ExactInv, Excess
    <3>2. job.form = "args"
      BY DEF Sensible
    <3>. QED
      BY <3>1, <3>2, ExcessTells
  <2>2. ASSUME pc = "done", job.form = "args"
        PROVE  Sources(items) = Sources(Wanted(job.args)) /\ GlobbedBy(job.args)[Len(job.args)] <= job.max
    <3>1. items = Items(Wanted(job.args)) /\ GlobbedBy(job.args)[Len(job.args)] <= job.max
      BY <1>2, <2>2 DEF ExactInv, Validating, Planned
    <3>2. PICK w : w = Wanted(job.args)
      OBVIOUS
    <3>3. /\ DOMAIN items = DOMAIN w /\ \A k \in DOMAIN w : items[k].src = w[k].src
      BY <3>1, <3>2 DEF Items
    <3>4. Sources(items) = Sources(w)
      BY <3>3 DEF Sources
    <3>. QED
      BY <3>1, <3>2, <3>4
  <2>3. ASSUME pc = "done", job.form # "args" PROVE Sources(items) = NamedBy(job.lines)[Len(job.lines)]
    BY <1>2, <2>3 DEF ExactInv, Validating, Planned
  <2>. QED
    BY <2>1, <2>2, <2>3 DEF PlanIsExact, PlanIsComplete, FromGlobs
<1>. QED
  BY <1>1, <1>2

\* The plan is exactly what was asked for, and a sensible command line is turned
\* away only for its limit, for any arguments, listings, spellings and limits.
THEOREM PlansAreExact == Spec => []PlanIsExact
<1>1. Init => ExactInv /\ ShapesInv /\ PlanInv
  BY ExactInit, ShapesInit, InitInv
<1>2. ExactInv /\ ShapesInv /\ PlanInv /\ [Next]_vars => (ExactInv /\ ShapesInv /\ PlanInv)'
  BY ExactNext, ShapesNext, NextInv
<1>. QED
  BY <1>1, <1>2, ExactTells, PTL DEF Spec

------------------------------------------------------------------------------
------------------------------------------------------------------------------
(* One process, one command.                                                *)

CopyInv ==
  /\ PlanInv /\ (pc = "idle" \/ job \in Job)
  /\ ShapesInv /\ ExactInv

VisitInv == DoctorInv \/ DoctorIdle

CommandInv == CopyInv /\ VisitInv /\ SplitInv

\* Each of the three starts, or is idle.
LEMMA CommandInitInv == CommandInit => CommandInv
<1>1. Init => CopyInv
  BY InitInv, ShapesInit, ExactInit DEF Init, CopyInv
<1>2. CopyIdle => PlanInv /\ pc = "idle"
  BY EmptySequence DEF CopyIdle, PlanInv, SequencesInv, DistinctInv, LegsInv
<1>3. CopyIdle => CopyInv
  BY <1>2 DEF CopyInv, ShapesInv, ExactInv
<1>4. SplitIdle => SplitInv
  BY DEF SplitInv
<1>. QED
  BY <1>1, <1>3, <1>4, DoctorInitInv, SplitInitInv DEF CommandInit, CommandInv, VisitInv

\* The composition keeps the invariant of a copy,
LEMMA CopyKept == CopyInv /\ [Next]_vars => CopyInv'
  BY NextInv, ShapesNext, ExactNext, JobStays DEF CopyInv

\* ... and that of doctor,
LEMMA VisitKept == VisitInv /\ [DoctorNext]_doctorVars => VisitInv'
<1>1. DoctorIdle /\ [DoctorNext]_doctorVars => DoctorIdle'
  BY DEF DoctorIdle, DoctorNext, doctorVars, Begin, ProbeAzure, ProbeGCS, Report, Open, Probe,
         DoctorEnded
<1>. QED
  BY <1>1, DoctorNextInv DEF VisitInv

\* Whichever part of the command runs, its invariant holds.
THEOREM CommandInvariance == CommandSpec => []CommandInv
<1>1. CommandNext \/ UNCHANGED <<vars, splitPlanVars, doctorVars>>
        => [Next]_vars /\ [DoctorNext]_doctorVars /\ [SplitPlanNext]_splitPlanVars
  BY DEF CommandNext
<1>2. CommandInv /\ [CommandNext]_<<vars, splitPlanVars, doctorVars>> => CommandInv'
  BY <1>1, CopyKept, VisitKept, SplitNextInv DEF CommandInv
<1>. QED
  BY CommandInitInv, <1>2, PTL DEF CommandSpec

\* The lists a plan is made of have their shapes at every step, whatever the
\* arguments, the listings and the file are.
THEOREM PlansAreTyped == CommandSpec => []TypeOK
<1>1. CommandInv => TypeOK
  BY ShapesTell DEF CommandInv, CopyInv
<1>. QED
  BY CommandInvariance, <1>1, PTL

\* The plan that starts is what was asked for, each source once and in order, and
\* nothing is refused that should not be.
THEOREM PlansAreWhatWasAsked == CommandSpec => []PlanIsExact
<1>1. CommandInv => PlanIsExact
  BY ExactTells DEF CommandInv, CopyInv
<1>. QED
  BY CommandInvariance, <1>1, PTL

\* A split in binary mode or of an uncompressed source writes no path longer than
\* the longest one the preflight looked at, and opens none that is longer, but for
\* the empty shard after a full one whose index is the first with one more digit.
THEOREM PreflightIsEnough == CommandSpec => []PlanCoversOutputs
<1>1. CommandInv => PlanCoversOutputs
  BY CoversOutputs DEF CommandInv
<1>. QED
  BY CommandInvariance, <1>1, PTL

\* Whatever the arguments are, no two transfers of a plan end at one place.
THEOREM PlansDontCollide == CommandSpec => []OneTransferPerPlace
<1>1. CommandInv => OneTransferPerPlace
  BY PlacesDiffer DEF CommandInv, CopyInv
<1>. QED
  BY CommandInvariance, <1>1, PTL

\* Whatever flags, profiles, files and environment there are, a plan starts only
\* with GCS legs that resolve to the documented project and identity.
THEOREM PlansHaveTheirLegs == CommandSpec => []LegsAsDocumented
<1>1. CommandInv => LegsAsDocumented
  BY LegsTold DEF CommandInv, CopyInv
<1>. QED
  BY CommandInvariance, <1>1, PTL

\* ... which gives what doctor promises.
LEMMA VisitTells == VisitInv => DoctorForetells /\ ExitTells
<1>1. DoctorIdle => DoctorForetells /\ ExitTells
  BY DEF DoctorIdle, DoctorForetells, ExitTells
<1>. QED
  BY <1>1, DoctorTells DEF VisitInv

\* What doctor says of GCS is what a client will meet, in every world.
THEOREM DoctorIsRight == CommandSpec => []DoctorForetells
<1>1. CommandInv => DoctorForetells
  BY VisitTells DEF CommandInv
<1>. QED
  BY CommandInvariance, <1>1, PTL

\* doctor's exit code tells whether what is in scope can be used.
THEOREM DoctorExits == CommandSpec => []ExitTells
<1>1. CommandInv => ExitTells
  BY VisitTells DEF CommandInv
<1>. QED
  BY CommandInvariance, <1>1, PTL
==============================================================================
