------------------------------- MODULE MCConsole -------------------------------
(* Instances of Console for TLC. *)
EXTENDS Console, MCSample

\* Two workers of two pieces each: reports overtake each other, and a worker
\* that was overtaken comes back with an old sum.
CONSTANTS w1, w2

MCDelims == <<"|", ",", ";">>
MCByteOf == [d \in {"|", ",", ";"} |-> CASE d = "|" -> 124 [] d = "," -> 44 [] d = ";" -> 59]

Row(a, b, c) == [blank |-> FALSE, fields |-> [d \in {"|", ",", ";"} |->
                                               CASE d = "|" -> a [] d = "," -> b [] d = ";" -> c]]
Blank == [Row(1, 1, 1) EXCEPT !.blank = TRUE]

\* Three rows, or fewer, over two delimiters, and six over rows that agree or
\* not, so that four in five and the limit of five are met, missed and passed.
Short == UNION {[1 .. n -> {Blank} \cup {Row(a, b, 1) : a, b \in 1 .. 3}] : n \in 0 .. 2}
Long == [1 .. 6 -> {Row(3, 2, 1), Row(3, 1, 2), Row(1, 2, 4), Row(2, 2, 2)}]

\* A source in the sample with or without its last newline, and every cut: after
\* a row, or within the next one, of which one field is left or all.
Cuts(s) ==
  {Nothing} \cup
  {[after |-> n, rest |-> r] : n \in 0 .. Len(s) - 1, r \in {Row(1, 1, 1)}}
  \cup {[after |-> n, rest |-> Nothing] : n \in 1 .. Len(s)}
  \cup {[after |-> n, rest |-> s[n + 1]] : n \in {m \in 0 .. Len(s) - 1 : ~s[m + 1].blank}}
RowJobs ==
  {j \in UNION {{[kind |-> "rows", rows |-> s, ended |-> e, cut |-> c] : e \in {TRUE}, c \in Cuts(s)} :
             s \in Short} : j.cut # Nothing /\ j.cut.rest # Nothing => ~j.rows[j.cut.after + 1].blank}
  \cup {[kind |-> "rows", rows |-> s, ended |-> FALSE, cut |-> c] :
          s \in Long, c \in {Nothing, [after |-> 5, rest |-> Row(1, 1, 1)]}}

\* Texts of up to three characters, and of up to five of two kinds, cut anywhere.
Texts ==
  UNION {[1 .. n -> Chars] : n \in 0 .. 3} \cup UNION {[1 .. n -> {"ascii", "wide"}] : n \in 4 .. 5}
ByteJobs ==
  {[kind |-> "bytes", encoding |-> e, bom |-> b, text |-> t, size |-> n] :
     e \in {"UTF-8", "UTF-16BE", "UTF-16LE", "UTF-32BE", "UTF-32LE"}, b \in BOOLEAN,
     t \in Texts, n \in {1, 2, 3, 4, 6, 7, 8, 9, 10, 12, 24}}
DetectJobs == RowJobs \cup ByteJobs
==============================================================================
