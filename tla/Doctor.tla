--------------------------------- MODULE Doctor ---------------------------------
(***************************************************************************)
(* doctor (internal/doctor/check.go, cmd/dimlox/doctor.go, exit.go): the   *)
(* probes, which of them run, what they say, and the exit code.  What is   *)
(* used after it, a client made with the same options by providers.ForURI, *)
(* is in Credentials.                                                      *)
(*                                                                         *)
(* The detail of a status is the identity it names, if it names one; the   *)
(* guidance for setup is left out.                                         *)
(***************************************************************************)
EXTENDS Credentials

CONSTANTS
  DoctorJob  \* the command lines, each with the world it runs in

\* target: a URI, or None; there: what a listing or a Stat of it would find.
\* The world has, beside the credentials: network; revoked, the identities whose
\* tokens are refused; azure, the answer of the Azure login in the directory
\* used: "ok", "login" (not logged in) or "refused".
ASSUME DoctorAssumption ==
  \A j \in DoctorJob :
    /\ IsWorld(j.world)
    /\ {j.world.network, j.az, j.there} \subseteq BOOLEAN
    /\ j.world.metadata # "down" => j.world.network
    /\ j.world.revoked \subseteq File \cup {"metadata"}
    /\ j.world.azure \in {"ok", "login", "refused"}
    /\ IsOptions(j.gcp) /\ j.gcp.creds = None
    /\ j.target # None => IsUri(j.target)

VARIABLES
  stage,   \* what doctor does next
  visit,   \* the command line
  status,  \* the statuses so far, by provider
  exit     \* the exit code

doctorVars == <<stage, visit, status, exit>>

Unset == -1
Codes == {0, 1, 40, 70}
Ok(said) == [ok |-> TRUE, kind |-> "", said |-> said]
Bad(kind) == [ok |-> FALSE, kind |-> kind, said |-> None]
Record(provider, s) == status' = [p \in DOMAIN status \cup {provider} |->
                                    IF p = provider THEN s ELSE status[p]]

Targeted == visit.target # None
World == visit.world

DoctorInit ==
  /\ visit \in DoctorJob
  /\ stage = "begin"
  /\ status = [p \in {} |-> {}]
  /\ exit = Unset

Quit(code) == stage' = "end" /\ exit' = code
Go(to) == stage' = to /\ UNCHANGED exit

------------------------------------------------------------------------------
(* Run.                                                                      *)

\* (fault) a profile of one cloud does not keep the other out.
ShouldProbeAzure_Always == TRUE

ShouldProbeAzure == visit.az \/ (visit.gcp.project = None /\ visit.gcp.profile = None)
ShouldProbeGCS == visit.gcp.profile # None \/ visit.gcp.project # None \/ ~visit.az

\* The local file system is always fine.  A target that does not parse: of the
\* errors only an unknown scheme is an invalid argument.
Begin ==
  /\ stage = "begin"
  /\ \/ ~Targeted /\ Record("local", Ok(None)) /\ Go("azure")
     \/ Targeted /\ ~WellFormed(visit.target)
        /\ Quit(IF visit.target.form \in RefusedForms THEN 40 ELSE 1) /\ UNCHANGED status
     \/ Targeted /\ WellFormed(visit.target)
        /\ Go(IF Provider(visit.target) = "azblob" THEN "azure" ELSE "open") /\ UNCHANGED status
  /\ UNCHANGED visit

\* probeAzure: a profile without a directory, and a directory without a login,
\* are matters of setup.
AzureStatus ==
  IF visit.az /\ ~AzureExists(World) THEN Bad("setup")
  ELSE IF ~World.network THEN Bad("network")
  ELSE CASE World.azure = "ok" -> Ok(None)
         [] World.azure = "login" -> Bad("setup")
         [] World.azure = "refused" -> Bad("auth")

ProbeAzure ==
  /\ stage = "azure"
  /\ IF Targeted \/ ShouldProbeAzure THEN Record("azblob", AzureStatus) ELSE UNCHANGED status
  /\ IF Targeted
     THEN IF AzureStatus.ok THEN Go("open")
          ELSE Quit(IF AzureStatus.kind = "auth" THEN 70 ELSE 1)
     ELSE Go("gcs")
  /\ UNCHANGED visit

\* External: a token, asked for with the credentials of a client.
Token(who) ==
  IF who = None THEN "auth"
  ELSE IF ~World.network THEN "network"
  ELSE IF who \in World.revoked THEN "auth" ELSE "ok"

\* ProbeAuth
GcsStatus(answers, again) ==
  IF Detected(World, visit.gcp, answers) = None THEN Bad("auth")
  ELSE LET token == Token(ClientIdentity(World, visit.gcp))
       IN IF token = "ok" THEN Ok(Described(World, visit.gcp, again)) ELSE Bad(token)

\* probeGCS: the search for credentials is done once for the token, and once
\* for the line that is printed.
ProbeGCS ==
  /\ stage = "gcs"
  /\ IF ShouldProbeGCS
     THEN \E answers, again \in Answers(World) : Record("gcs", GcsStatus(answers, again))
     ELSE UNCHANGED status
  /\ Go("report")
  /\ UNCHANGED visit

------------------------------------------------------------------------------
(* The exit code.                                                            *)

\* (fault) only the last status counts.
ReportCode_Last ==
  IF "gcs" \in DOMAIN status THEN (IF status["gcs"].ok THEN 0 ELSE 1) ELSE 0

\* doctorHasAuthFailure
ReportCode ==
  IF \A p \in DOMAIN status : status[p].ok THEN 0
  ELSE IF \E p \in DOMAIN status : status[p].kind = "auth" THEN 70 ELSE 1

Report ==
  /\ stage = "report"
  /\ Quit(ReportCode)
  /\ UNCHANGED <<visit, status>>

\* An error of an SDK: its words decide whether isAuthError knows it.
QuitBySdk == \E code \in {1, 70} : Quit(code)

\* providers.ForURI: an unknown profile is bad input, a missing file neither
\* that nor an error of authentication.
Open ==
  /\ stage = "open"
  /\ IF Provider(visit.target) = "gcs"
     THEN IF ResolveError(World, visit.gcp) = "profile" THEN Quit(40)
          ELSE IF ResolveError(World, visit.gcp) = "file" THEN Quit(1)
          ELSE IF ClientIdentity(World, visit.gcp) = None THEN QuitBySdk
          ELSE Go("probe")
     ELSE Go("probe")
  /\ UNCHANGED <<visit, status>>

\* shouldUseListProbe: a prefix is listed, and an empty listing is no error.
ListProbe ==
  Provider(visit.target) # "local" /\ (EndsInSlash(visit.target) \/ Key(visit.target) = <<>>)

Reaches ==
  CASE Provider(visit.target) = "local" -> TRUE
    [] Provider(visit.target) = "azblob" -> World.network /\ World.azure = "ok"
    [] Provider(visit.target) = "gcs" ->
         Token(ClientIdentity(World, visit.gcp)) = "ok"

\* List or Stat.
Probe ==
  /\ stage = "probe"
  /\ IF Reaches THEN Quit(IF visit.there \/ ListProbe THEN 0 ELSE 1) ELSE QuitBySdk
  /\ UNCHANGED <<visit, status>>

DoctorEnded == stage = "end" /\ UNCHANGED doctorVars

DoctorNext == Begin \/ ProbeAzure \/ ProbeGCS \/ Report \/ Open \/ Probe \/ DoctorEnded

DoctorSpec == DoctorInit /\ [][DoctorNext]_doctorVars

------------------------------------------------------------------------------
(* Properties.                                                               *)

\* Whether the clients a command makes with the same options can work.
GcsWorks == Token(ClientIdentity(World, visit.gcp)) = "ok"

\* Unless CLOUDSDK_CONFIG hides the default credentials from one of the two
\* searches, or a metadata server is too slow for dimlox, doctor's own search
\* agrees with the client's: GCS is fine exactly if the client will work, and
\* the identity named is the one it will use, the documented one.
DoctorForetells ==
  "gcs" \in DOMAIN status /\ World.adc = World.sdkAdc =>
    /\ status["gcs"].ok => GcsWorks
    /\ GcsWorks /\ World.metadata # "slow" => status["gcs"].ok
    /\ status["gcs"].said # None =>
         /\ status["gcs"].said = ClientIdentity(World, visit.gcp)
         /\ status["gcs"].said = DocumentedIdentity(World, visit.gcp)

\* docs/usage/doctor.md: the providers a run is about.
Scope ==
  IF Targeted THEN {Provider(visit.target)}
  ELSE IF visit.az THEN {"azblob"} \cup (IF visit.gcp.profile = None /\ visit.gcp.project = None
                                         THEN {} ELSE {"gcs"})
  ELSE IF visit.gcp.profile # None \/ visit.gcp.project # None THEN {"gcs"}
  ELSE {"azblob", "gcs"}

\* docs/setup/azure-cli.md:149: where the profile may be.
AzureProfileThere ==
  visit.az => World.dirs \cap (IF World.base THEN {"base"} ELSE {"preferred", "legacy"}) # {}

AzureWorks == AzureProfileThere /\ World.network /\ World.azure = "ok"

\* There are no credentials for GCS, or a provider that is reached refuses those
\* it is given.
Unauthenticated(p) ==
  \/ p = "gcs" /\ Token(ClientIdentity(World, visit.gcp)) = "auth"
  \/ p = "azblob" /\ AzureProfileThere /\ World.network /\ World.azure = "refused"

\* Exit code 0 means that every provider in the documented scope can be used,
\* and that what the target names is there or is a prefix; another code, that
\* something of this is not so, or that the target is not a URI.  70 is not
\* given when all credentials work; a run without a target gives it whenever
\* those of a provider in the scope fail, whatever else fails with them.  Of an
\* Azure profile or login that is missing only this is promised, that the code is
\* not 0: it is 1, a status of kind "setup", which docs/usage/doctor.md:146 counts
\* among those of 70.  Not promised where the two searches for default credentials
\* may differ.
ExitTells ==
  stage = "end" /\ World.adc = World.sdkAdc /\ World.metadata # "slow" =>
    LET works == [p \in Scope |-> CASE p = "azblob" -> AzureWorks
                                    [] p = "gcs" -> GcsWorks
                                    [] OTHER -> TRUE]
        usable == \A p \in Scope : works[p]
        found == Targeted => WellFormed(visit.target) /\ (visit.there \/ ListProbe)
    IN /\ exit = 0 <=> usable /\ found
       /\ exit = 70 => ~usable
       /\ ~Targeted /\ (\E p \in Scope : Unauthenticated(p)) => exit = 70
==============================================================================
