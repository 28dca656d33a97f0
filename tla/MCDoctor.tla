------------------------------- MODULE MCDoctor -------------------------------
(* Instances of Doctor for TLC. *)
EXTENDS Doctor

LOCAL T(form, host, path) == [form |-> form, host |-> host, path |-> path]

\* No target; a file, an object and a prefix; what does not parse.
DoctorTargets ==
  {None, T("abs", "", <<"a">>), T("gs", "b", <<"a">>), T("gs", "b", <<>>), T("gs", "b", <<"a", "">>),
   T("azblob", "acc", <<"c", "a">>), T("azhttps", "acc", <<"c", "">>),
   T("azblob", "acc", <<>>), T("other", "b", <<"a">>)}

\* Profile "p" has an override and a project, "q" neither, "r" is not there.
\* "f1" is the override, "f2" the environment's file, "f3" and "f4" the default
\* credentials.
ProfileOptions == {[project |-> j, profile |-> p, creds |-> None] :
                     j \in {None, "flag"}, p \in {None, "p", "q", "r"}}
GcsWorlds ==
  {[files |-> [f \in File |-> CASE f = "f1" -> a [] f = "f2" -> b [] OTHER -> c],
    profiles |-> [p \in {"p", "q"} |-> IF p = "p" THEN [override |-> "f1", project |-> "named"]
                                       ELSE [override |-> None, project |-> None]],
    env |-> e, adc |-> "f3", sdkAdc |-> "f3", metadata |-> m, gcloud |-> None,
    google |-> "google", base |-> FALSE, dirs |-> {}, network |-> n, revoked |-> r,
    azure |-> "ok"] :
     a \in {"absent", "sound"}, b \in FileState, c \in {"absent", "garbage", "sound"},
     e \in {None, "f2"}, m \in {"up", "slow", "down"}, n \in BOOLEAN, r \in {{}, {"f1", "f2"}}}
SaneWorlds == {w \in GcsWorlds : /\ w.metadata # "down" => w.network
                                 /\ w.env = None => w.files["f2"] = "absent"}
\* CLOUDSDK_CONFIG is set.
MovedWorlds == {[w EXCEPT !.sdkAdc = "f4", !.files["f4"] = "absent"] :
                  w \in {v \in SaneWorlds : v.env = None /\ v.revoked = {}}}

AnyGcs == CHOOSE w \in GcsWorlds : w.files["f3"] = "sound" /\ w.env = None /\ w.network
                                   /\ w.revoked = {} /\ w.metadata = "down"
AzureDirs == {<<FALSE, {}>>, <<FALSE, {"base"}>>, <<FALSE, {"preferred"}>>, <<FALSE, {"legacy"}>>,
              <<TRUE, {}>>, <<TRUE, {"base"}>>, <<TRUE, {"preferred", "legacy"}>>}
AzureWorlds ==
  {[AnyGcs EXCEPT !.base = d[1], !.dirs = d[2], !.network = n, !.azure = a] :
     d \in AzureDirs, n \in BOOLEAN, a \in {"ok", "login", "refused"}}

DoctorJobs ==
  {[target |-> t, there |-> TRUE, az |-> FALSE, gcp |-> o, world |-> w] :
     t \in {None, T("gs", "b", <<"a">>)}, o \in ProfileOptions, w \in SaneWorlds \cup MovedWorlds}
  \cup {[target |-> t, there |-> h, az |-> z, gcp |-> o, world |-> w] :
     t \in DoctorTargets, h \in BOOLEAN, z \in BOOLEAN,
     o \in {g \in ProfileOptions : g.profile \in {None, "r"}}, w \in AzureWorlds}
==============================================================================
