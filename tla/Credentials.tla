------------------------------ MODULE Credentials ------------------------------
(***************************************************************************)
(* Which identity and which project a GCS request is made with             *)
(* (internal/provider/gcs/auth.go, client.go), what doctor believes about  *)
(* it, and what cp makes of its flags for each leg (cmd/dimlox/cp.go,      *)
(* internal/transfer/common.go); which directory an Azure profile is       *)
(* (internal/provider/azblob/auth.go).  Functions of a world that does not *)
(* change; CopyPlan and Doctor use them.                                   *)
(*                                                                         *)
(* A world w has, for GCS:                                                 *)
(*   files     the state of each file: "absent", "garbage" (no JSON),      *)
(*             "json" (no credentials) or "sound"                          *)
(*   profiles  the gcloud configurations: override (a file) and project    *)
(*   env       GOOGLE_APPLICATION_CREDENTIALS, a file                      *)
(*   adc       the default credentials where dimlox looks, and             *)
(*   sdkAdc    where the Google SDK does: CLOUDSDK_CONFIG moves the first  *)
(*   metadata  the metadata server: "up", "slow" (not within dimlox's      *)
(*             300 ms) or "down"                                           *)
(*   gcloud, google  GCLOUD_PROJECT and GOOGLE_CLOUD_PROJECT               *)
(* and for Azure:                                                          *)
(*   base      whether AZURE_PROFILES_DIR is set                           *)
(*   dirs      the profile's directories there are                         *)
(* Options o are the record [project, profile, creds].                     *)
(***************************************************************************)
EXTENDS Uri

CONSTANTS Profile, File, Project

ASSUME CredentialsAssumption ==
  /\ None \notin Profile \cup File \cup Project
  /\ "metadata" \notin File

FileState == {"absent", "garbage", "json", "sound"}

IsWorld(w) ==
  /\ w.files \in [File -> FileState]
  /\ DOMAIN w.profiles \subseteq Profile
  /\ \A p \in DOMAIN w.profiles : /\ w.profiles[p].override \in File \cup {None}
                                  /\ w.profiles[p].project \in Project \cup {None}
  /\ w.env \in File \cup {None}
  /\ {w.adc, w.sdkAdc} \subseteq File
  /\ w.metadata \in {"up", "slow", "down"}
  /\ {w.gcloud, w.google} \subseteq Project \cup {None}
  /\ w.base \in BOOLEAN
  /\ w.dirs \subseteq {"base", "preferred", "legacy"}

IsOptions(o) ==
  /\ o.project \in Project \cup {None}
  /\ o.profile \in Profile \cup {None}
  /\ o.creds \in File \cup {None}

\* The first value, unless it is none.
Else(value, other) == IF value # None THEN value ELSE other

\* A file that holds credentials is an identity of its own.
Exists(w, file) == w.files[file] # "absent"

------------------------------------------------------------------------------
(* ResolveOptions.                                                           *)

Missing(w, o) == o.profile # None /\ o.profile \notin DOMAIN w.profiles

ProfileOverride(w, o) == IF o.profile = None THEN None ELSE w.profiles[o.profile].override
ProfileProject(w, o) == IF o.profile = None THEN None ELSE w.profiles[o.profile].project

\* (fault) the profile has the last word.
CredsFile_ProfileFirst(w, o) == Else(ProfileOverride(w, o), o.creds)

\* ResolvedOptions.CredsFile, not yet validated.
CredsFile(w, o) == Else(o.creds, ProfileOverride(w, o))

\* defaultProjectFromEnv
EnvProject(w) == Else(w.gcloud, w.google)

\* (fault) the profile's project replaces the flag.
ResolvedProject_ProfileFirst(w, o) ==
  Else(ProfileProject(w, o), Else(o.project, EnvProject(w)))

\* ResolvedOptions.Project
ResolvedProject(w, o) == Else(o.project, Else(ProfileProject(w, o), EnvProject(w)))

\* The error of ResolveOptions: the profile is read even when a file is given.
ResolveError(w, o) ==
  IF Missing(w, o) THEN "profile"
  ELSE IF CredsFile(w, o) # None /\ ~Exists(w, CredsFile(w, o)) THEN "file"
  ELSE "none"

------------------------------------------------------------------------------
(* The client.  Identities are files, "metadata", or None.                   *)

Holds(w, file) == IF w.files[file] = "sound" THEN file ELSE None

\* External: the default credentials as the Google SDK finds them.
SdkIdentity(w) ==
  IF w.env # None THEN Holds(w, w.env)
  ELSE IF Exists(w, w.sdkAdc) THEN Holds(w, w.sdkAdc)
  ELSE IF w.metadata # "down" THEN "metadata" ELSE None

\* NewGCSProvider, and the credentials of tokenExpiryForOptions.
ClientIdentity(w, o) ==
  IF ResolveError(w, o) # "none" THEN None
  ELSE IF CredsFile(w, o) # None THEN Holds(w, CredsFile(w, o))
  ELSE SdkIdentity(w)

------------------------------------------------------------------------------
(* What doctor believes: detectAuthDetails searches by itself.               *)

Readable(w, file) == w.files[file] \in {"json", "sound"}

\* (fault) the default file comes before the environment.
Detected_AdcFirst(w, o, answers) ==
  IF ResolveError(w, o) # "none" THEN None
  ELSE LET chosen == IF CredsFile(w, o) # None THEN CredsFile(w, o)
                     ELSE IF Exists(w, w.adc) THEN w.adc ELSE w.env
       IN IF chosen # None THEN (IF Readable(w, chosen) THEN chosen ELSE None)
          ELSE IF answers THEN "metadata" ELSE None

\* The file whose quota project is read, or the metadata server, if it answers
\* in time; None is an error.
Detected(w, o, answers) ==
  IF ResolveError(w, o) # "none" THEN None
  ELSE LET chosen == IF CredsFile(w, o) # None THEN CredsFile(w, o)
                     ELSE IF w.env # None THEN w.env
                     ELSE IF Exists(w, w.adc) THEN w.adc ELSE None
       IN IF chosen # None THEN (IF Readable(w, chosen) THEN chosen ELSE None)
          ELSE IF answers THEN "metadata" ELSE None

\* Whether the metadata server answers one request of dimlox.
Answers(w) == CASE w.metadata = "up" -> {TRUE}
                [] w.metadata = "down" -> {FALSE}
                [] w.metadata = "slow" -> BOOLEAN

\* What a status line names: DescribeAuthSource.  With a profile that has no
\* override only the file of the environment is named.
Described(w, o, answers) ==
  LET found == Detected(w, o, answers)
  IN IF o.profile # None /\ CredsFile(w, o) = None /\ w.env = None THEN None ELSE found

------------------------------------------------------------------------------
(* cp: the options of a leg.  f has project, profile, and for each side      *)
(* ("src", "dst") projectOf, profileOf and credsOf.                          *)

BaseOptions(f) == [project |-> f.project, profile |-> f.profile, creds |-> None]

\* cpCmd
LegOptions(f, side) ==
  [project |-> Else(f.projectOf[side], f.project),
   profile |-> Else(f.profileOf[side], f.profile),
   creds |-> f.credsOf[side]]

\* (fault) the credential file is forgotten.
MergeProviderOptions_NoCreds(base, override) ==
  [project |-> Else(override.project, base.project),
   profile |-> Else(override.profile, base.profile),
   creds |-> base.creds]

\* mergeProviderOptions
MergeProviderOptions(base, override) ==
  [project |-> Else(override.project, base.project),
   profile |-> Else(override.profile, base.profile),
   creds |-> Else(override.creds, base.creds)]

\* What Copy, and the expansion of a glob, make of them.
CopyLegOptions(f, side) == MergeProviderOptions(BaseOptions(f), LegOptions(f, side))

------------------------------------------------------------------------------
(* The documented orders: docs/setup/gcloud-storage.md.                      *)

\* The first of a sequence of candidates that is one.
FirstOf(candidates) == LET there == {k \in DOMAIN candidates : candidates[k] # None}
                       IN IF there = {} THEN None
                          ELSE candidates[CHOOSE k \in there : \A j \in there : k <= j]

DocumentedIdentity(w, o) ==
  FirstOf(<<o.creds,
            IF o.profile \in DOMAIN w.profiles THEN w.profiles[o.profile].override ELSE None,
            w.env,
            IF Exists(w, w.sdkAdc) THEN w.sdkAdc ELSE None,
            IF w.metadata # "down" THEN "metadata" ELSE None>>)

\* An identity, or none where its file holds no credentials.
Sound(w, who) == IF who \in File THEN Holds(w, who) ELSE who

DocumentedProject(w, o) ==
  FirstOf(<<o.project,
            IF o.profile \in DOMAIN w.profiles THEN w.profiles[o.profile].project ELSE None,
            w.gcloud, w.google>>)

------------------------------------------------------------------------------
(* Azure profiles.                                                           *)

\* ResolveProfile, of a profile that was given: the directory, of those that
\* may be there.
AzureDir(w) ==
  IF w.base THEN "base"
  ELSE IF "preferred" \in w.dirs THEN "preferred" ELSE "legacy"
AzureExists(w) == AzureDir(w) \in w.dirs
==============================================================================
