---------------------------------- MODULE Uri ----------------------------------
(***************************************************************************)
(* What a URI stands for (internal/uri/parse.go): the provider, the place, *)
(* the normal form, and the name a copy of it gets (transfer/plan.go,      *)
(* transfer/common.go).  Functions only; CopyPlan and Doctor use them.     *)
(*                                                                         *)
(* A URI as it is written has a form, a host (an account or a bucket), and *)
(* a path: what follows the first slash, cut at slashes, so that "a//b/"   *)
(* is <<"a", "", "b", "">> and no slash at all is <<>>.  A segment is a    *)
(* value; Escaped and Decoded tell what URL escaping makes of it.          *)
(***************************************************************************)
EXTENDS Integers, Sequences, FiniteSets, SequencesExt

CONSTANTS
  None,     \* no value
  Segment,  \* the segments, "", "." and ".." among them
  Escaped,  \* a segment as EscapedPath gives it
  Decoded,  \* a segment as url.Parse decodes it
  Cwd       \* the working directory

ASSUME UriAssumption ==
  /\ {"", ".", ".."} \subseteq Segment /\ None \notin Segment
  /\ Escaped \in [Segment -> Segment] /\ Decoded \in [Segment -> Segment]
  /\ \A s \in {"", ".", ".."} : Escaped[s] = s /\ Decoded[s] = s
  /\ Cwd \in Seq(Segment \ {"", ".", ".."})

AzureForms == {"azblob", "azhttps"}
GcsForms == {"gs", "gcshttps"}
LocalForms == {"abs", "rel", "file"}
\* "bare" has neither scheme nor leading dot or slash; "gcs" is the scheme of a
\* normal form; "other" is any other scheme or host.
RefusedForms == {"bare", "gcs", "other"}

Written ==
  [form : AzureForms \cup GcsForms \cup LocalForms \cup RefusedForms,
   host : Segment, path : Seq(Segment)]

IsUri(u) ==
  /\ u \in Written
  /\ u.form \in {"abs", "rel", "gcshttps"} => u.host = "" /\ u.path # <<>>

Provider(u) ==
  CASE u.form \in AzureForms -> "azblob"
    [] u.form \in GcsForms -> "gcs"
    [] u.form \in LocalForms -> "local"
    [] OTHER -> "unknown"

\* escapedPath
EscapedPath(u) == [k \in DOMAIN u.path |-> Escaped[u.path[k]]]

\* The account of an Azure URI; the container or bucket.
Account(u) == IF u.form \in AzureForms THEN u.host ELSE None
Container(u) ==
  CASE u.form = "gs" -> u.host
    [] u.form \in {"azblob", "azhttps", "gcshttps"} ->
         IF u.path = <<>> THEN "" ELSE EscapedPath(u)[1]
    [] OTHER -> None

\* Parse returns no error.
WellFormed(u) ==
  /\ u.form \notin RefusedForms
  /\ Container(u) # ""
  /\ u.form = "azblob" => u.host # ""

------------------------------------------------------------------------------
(* Objects and files.                                                        *)

\* normalizeObjectPath
TrimRight(path) ==
  LET named == {k \in DOMAIN path : path[k] # ""}
  IN IF named = {} THEN <<>>
     ELSE SubSeq(path, 1, CHOOSE k \in named : \A j \in named : j <= k)

\* The directory that segment s leads to from dir.
Enter(dir, s) ==
  CASE s \in {"", "."} -> dir
    [] s = ".." -> IF dir = <<>> THEN dir ELSE Front(dir)
    [] OTHER -> Append(dir, s)

\* filepath.Abs of a path with a leading slash.
Clean(path) ==
  LET dir[k \in 0 .. Len(path)] == IF k = 0 THEN <<>> ELSE Enter(dir[k - 1], path[k])
  IN dir[Len(path)]

\* parseLocal; a file URI is decoded, a path is not, and one without a path is
\* the working directory.
LocalPath(u) ==
  CASE u.form = "abs" -> Clean(u.path)
    [] u.form = "rel" -> Clean(Cwd \o u.path)
    [] u.form = "file" -> IF u.path = <<>> THEN Cwd
                          ELSE Clean([k \in DOMAIN u.path |-> Decoded[u.path[k]]])

ObjectPath(u) ==
  IF u.form = "gs" \/ u.path = <<>> THEN EscapedPath(u) ELSE Tail(EscapedPath(u))

\* AZBlobPath, GCSObject, or LocalPath.
Key(u) == IF u.form \in LocalForms THEN LocalPath(u) ELSE TrimRight(ObjectPath(u))

\* hasContainerOnlyTrailingSlash, and the path "/" of a gs URI.
ContainerSlash(u) == u.form \notin LocalForms /\ ObjectPath(u) = <<"">>

\* (fault) a URI is its own normal form.
Normalized_AsWritten(u) == u

\* ParsedURI.Normalized
Normalized(u) ==
  [provider |-> Provider(u), account |-> Account(u), container |-> Container(u),
   key |-> Key(u), slash |-> ContainerSlash(u)]

\* Where the bytes are: what the provider's requests are made of.
Place(u) == <<Provider(u), Account(u), Container(u), Key(u)>>

------------------------------------------------------------------------------
(* Names.                                                                    *)

\* basenameForURI: the last segment, or the container; a root has none.
Basename(u) ==
  IF ~WellFormed(u) THEN None
  ELSE IF Key(u) = <<>> THEN (IF u.form \in LocalForms THEN None ELSE Container(u))
  ELSE IF Last(Key(u)) = "." THEN None
  ELSE Last(Key(u))

\* A destination that ends in a slash, and what joinDestinationPrefix makes of
\* it.
EndsInSlash(u) == u.path # <<>> /\ Last(u.path) = ""
JoinDestinationPrefix(u, base) == [u EXCEPT !.path = Append(Front(u.path), base)]
==============================================================================
