------------------------------ MODULE MCCopyPlan ------------------------------
(* Instances of CopyPlan for TLC. *)
EXTENDS CopyPlan

MCSegment == {"", ".", "..", "a", "b", "c", "d", "x", "y", "acc", "out", "a b", "a%20b"}
MCEscaped == [s \in MCSegment |-> IF s = "a b" THEN "a%20b" ELSE s]
MCDecoded == [s \in MCSegment |-> IF s = "a%20b" THEN "a b" ELSE s]
MCCwd == <<"out">>

U(form, host, path) == [form |-> form, host |-> host, path |-> path]

\* Two sources of one name, one of another, one whose name is escaped, a
\* container, a root, and two that are refused.
S1 == U("gs", "b", <<"d", "a">>)
S2 == U("azblob", "acc", <<"c", "a", "">>)
S3 == U("abs", "", <<"d", "x">>)
S4 == U("azhttps", "acc", <<"c", "a b">>)
Bucket == U("gcshttps", "", <<"b">>)
Root == U("abs", "", <<"">>)
Unparsable == {U("gcs", "b", <<"a">>), U("azblob", "acc", <<"">>)}

\* Destinations: prefixes, and spellings of three places.
Out == U("rel", "", <<".", "y", "">>)
OutGcs == U("gs", "b", <<"">>)
X == U("gs", "b", <<"x">>)
Y == U("azblob", "acc", <<"c", "y">>)
Spellings ==
  {X, U("gcshttps", "", <<"b", "x", "">>), U("gs", "b", <<"x", "", "">>),
   U("gs", "b", <<"", "x">>),
   U("abs", "", <<"out", "a b">>), U("rel", "", <<".", "d", "..", "a b">>),
   U("file", "", <<"out", "a%20b">>), U("abs", "", <<"out", "a%20b">>),
   U("gs", "b", <<"a b">>), U("gs", "b", <<"a%20b">>), OutGcs, U("gs", "b", <<>>)}
Nowhere == U("bare", "", <<"x">>)

PlainWorld ==
  [files |-> [f \in File |-> "absent"], profiles |-> <<>>, env |-> None,
   adc |-> "f3", sdkAdc |-> "f3", metadata |-> "up", gcloud |-> None, google |-> None,
   base |-> FALSE, dirs |-> {}]
Both(v) == [s \in {"src", "dst"} |-> v]
NoFlags == [project |-> None, profile |-> None,
            projectOf |-> Both(None), profileOf |-> Both(None), credsOf |-> Both(None)]

Entry(u) == [src |-> u, base |-> u.path[Len(u.path)], match |-> TRUE, prefix |-> FALSE]
Entries == {Entry(u) : u \in {S1, S3, S4}}
             \cup {[Entry(S1) EXCEPT !.match = FALSE], [Entry(S1) EXCEPT !.prefix = TRUE]}
Lists == {<<>>} \cup {<<e>> : e \in Entries} \cup {<<e, f>> : e, f \in Entries}

Explicits == {[glob |-> FALSE, src |-> s] : s \in {S1, S2, S3, S4, Bucket, Root} \cup Unparsable}
Globs == {[glob |-> TRUE, src |-> s, list |-> l] : s \in {S1, S2}, l \in Lists}
Args == Explicits \cup Globs

\* The three sources of a longer command line.
Few == {[glob |-> FALSE, src |-> s] : s \in {S1, S3}}
         \cup {[glob |-> TRUE, src |-> S3, list |-> l] :
                 l \in {<<>>, <<Entry(S3)>>, <<Entry(S1), Entry(S3)>>}}

Lines(dsts) == {[kind |-> "blank"], [kind |-> "broken"]}
                 \cup {[kind |-> "entry", src |-> s, dst |-> d] :
                         s \in {S1, U("other", "", <<"a">>)}, d \in dsts}
FewLines == {l \in Lines({X, Y, OutGcs}) : l.kind = "entry" => l.src = S1}

PlainJobs ==
  {[form |-> "args", args |-> a, dst |-> d, max |-> m, flags |-> NoFlags, world |-> PlainWorld] :
     a \in {<<b>> : b \in Args} \cup {<<b, c>> : b \in Explicits, c \in Args}
             \cup {<<b, c>> : b \in Globs, c \in Few} \cup {<<b, c, e>> : b, c, e \in Few},
     d \in {Out, X, Nowhere}, m \in 1 .. 2}
  \cup {[form |-> "file", lines |-> l, flags |-> NoFlags, world |-> PlainWorld] :
          l \in {<<>>} \cup {<<b>> : b \in Lines(Spellings \cup {Nowhere})}
                  \cup {<<b, c>> : b, c \in Lines(Spellings)}
                  \cup {<<b, c, d>> : b, c, d \in FewLines}}

\* Profile "p" names "f1" and a project, "q" neither; "r" is not there.
Flags ==
  {[project |-> j, profile |-> p,
    projectOf |-> [src |-> k, dst |-> None], profileOf |-> [src |-> q, dst |-> r],
    credsOf |-> [src |-> f, dst |-> g]] :
     j \in {None, "flag"}, p \in {None, "p", "r"}, k \in {None, "leg"}, q \in {None, "q"},
     r \in {None, "p"}, f \in {None, "f2"}, g \in {None, "f1"}}
Worlds ==
  {[PlainWorld EXCEPT !.files = [f \in File |-> IF f = "f1" THEN a ELSE b],
                      !.profiles = [p \in {"p", "q"} |->
                                      IF p = "p" THEN [override |-> "f1", project |-> "named"]
                                      ELSE [override |-> None, project |-> None]],
                      !.env = e, !.google = "google"] :
     a \in {"absent", "sound"}, b \in {"absent", "json", "sound"}, e \in {None, "f3"}}
LegJobs ==
  {[form |-> "args", args |-> <<[glob |-> FALSE, src |-> i[1]]>>, dst |-> i[2], max |-> 1,
    flags |-> f, world |-> w] :
     i \in {<<S1, X>>, <<S3, X>>, <<S1, Out>>, <<S2, Out>>}, f \in Flags, w \in Worlds}

CopyJobs == PlainJobs \cup LegJobs
==============================================================================
