------------------------------- MODULE MCSample -------------------------------
(* Instances of Sample for TLC. *)
EXTENDS Sample

\* Every placement of newlines in sources of up to six bytes, and sources that
\* have grown by two since Stat.
Sources ==
  {[size |-> n, length |-> n, nl |-> s] : n \in {6}, s \in SUBSET (0 .. 5)}
  \cup {[size |-> n, length |-> n, nl |-> s] : n \in 0 .. 3, s \in {{}}}
  \cup {[size |-> 2, length |-> 3, nl |-> s] : s \in SUBSET (0 .. 2)}
  \cup {[size |-> 4, length |-> 6, nl |-> s] : s \in SUBSET (0 .. 5)}

AllJobs ==
  {[mode |-> m, count |-> c, cloud |-> r, size |-> s.size, length |-> s.length, nl |-> s.nl] :
     m \in {"head", "tail", "ring", "mid", "wc"}, c \in {1, 2, 3}, r \in BOOLEAN, s \in Sources}

==============================================================================
