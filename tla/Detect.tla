--------------------------------- MODULE Detect ---------------------------------
(***************************************************************************)
(* inspect --detect (internal/inspect/detect.go): a bounded sample, the    *)
(* encoding its bytes are in, and the delimiter its rows are cut at.       *)
(*                                                                         *)
(* A row of the sample is whether it is blank, and the number of fields    *)
(* each delimiter makes of it.  The encoding is looked for in a sample of  *)
(* bytes of its own.  Confidence is compared as a real number, where the   *)
(* code's float64 rounds.                                                  *)
(***************************************************************************)
EXTENDS Integers, Sequences, FiniteSets, SequencesExt

CONSTANTS
  Nothing,    \* no value
  Delims,     \* detectDelimiters, in the order they are tried
  ByteOf,     \* the byte each of them is
  RowLimit,   \* rows looked at, 100 in the code
  DetectJob   \* what is detected

RowsOf(j) == {j.rows[k] : k \in DOMAIN j.rows}
                \cup (IF j.cut = Nothing \/ j.cut.rest = Nothing THEN {} ELSE {j.cut.rest})

\* The characters of a text: A (U+0041), one whose code has no null byte
\* (U+4E2D), one whose low byte is null (U+4E00), and one beyond the first
\* plane (U+1F600).  None is U+0000.
Chars == {"ascii", "wide", "round", "astral"}

\* kind "rows": the rows of the source, whether the last has its newline, and
\* cut: the sample ends after so many rows, and rest is what it has of the next.
\* kind "bytes": text is encoded, and size bytes of it are the sample.
ASSUME DetectAssumption ==
  /\ RowLimit \in Nat \ {0}
  /\ Delims \in Seq({Delims[d] : d \in DOMAIN Delims}) /\ Delims # <<>>
  /\ \A d \in DOMAIN Delims : ByteOf[Delims[d]] \in Nat
  /\ \A d, e \in DOMAIN Delims : ByteOf[Delims[d]] = ByteOf[Delims[e]] => d = e
  /\ \A j \in DetectJob :
       \/ /\ j.kind = "rows" /\ j.ended \in BOOLEAN /\ j.rows \in Seq(RowsOf(j))
          /\ \A r \in RowsOf(j) : /\ r.blank \in BOOLEAN
                                  /\ \A d \in DOMAIN Delims : r.fields[Delims[d]] \in Nat \ {0}
          /\ j.cut # Nothing =>
               /\ j.cut.after \in 0 .. Len(j.rows)
               /\ j.cut.rest = Nothing => j.cut.after > 0
               /\ j.cut.rest # Nothing =>
                    /\ j.cut.after < Len(j.rows) /\ ~j.cut.rest.blank
                    /\ \A d \in DOMAIN Delims :
                         j.cut.rest.fields[Delims[d]] <= j.rows[j.cut.after + 1].fields[Delims[d]]
       \/ /\ j.kind = "bytes" /\ j.bom \in BOOLEAN /\ j.size \in Nat \ {0}
          /\ j.encoding \in {"UTF-8", "UTF-16BE", "UTF-16LE", "UTF-32BE", "UTF-32LE"}
          /\ j.text \in Seq(Chars)

VARIABLES
  step,      \* where the detection is
  query,     \* what it was asked
  rows,      \* the rows it looks at
  next,      \* the delimiter in turn
  left,      \* numbers of fields the loop over the map has not met
  dominant,  \* the number of fields most rows had so far, and how many had it
  best,      \* the best score
  told       \* the encoding

detectVars == <<step, query, rows, next, left, dominant, best, told>>

------------------------------------------------------------------------------
(* The encoding.                                                             *)

Bom == [e \in {"UTF-8", "UTF-16BE", "UTF-16LE", "UTF-32BE", "UTF-32LE"} |->
          CASE e = "UTF-8" -> <<239, 187, 191>>
            [] e = "UTF-16BE" -> <<254, 255>>
            [] e = "UTF-16LE" -> <<255, 254>>
            [] e = "UTF-32BE" -> <<0, 0, 254, 255>>
            [] e = "UTF-32LE" -> <<255, 254, 0, 0>>]

Begins(sample, mark) == Len(sample) >= Len(mark) /\ SubSeq(sample, 1, Len(mark)) = mark

\* (fault) the shorter marks come first.
Marks_ShortFirst == <<"UTF-16BE", "UTF-16LE", "UTF-8", "UTF-32BE", "UTF-32LE">>

Marks == <<"UTF-32BE", "UTF-32LE", "UTF-16BE", "UTF-16LE", "UTF-8">>

Zeroes(sample, Where(_)) == Cardinality({k \in DOMAIN sample : sample[k] = 0 /\ Where(k - 1)})

\* likelyUTF32
LikelyUTF32(sample) ==
  Len(sample) >= 8 /\ 20 * Zeroes(sample, LAMBDA k : TRUE) >= 9 * Len(sample)

\* likelyUTF16Order
UTF16Order(sample) ==
  IF Zeroes(sample, LAMBDA k : k % 2 = 0) > Zeroes(sample, LAMBDA k : k % 2 = 1)
  THEN "UTF-16BE" ELSE "UTF-16LE"

\* likelyUTF32Order: units whose first, or last, two bytes are null.
UTF32Order(sample) ==
  LET units == {k \in DOMAIN sample : k % 4 = 1 /\ k + 3 <= Len(sample)}
      Null(k) == sample[k] = 0 /\ sample[k + 1] = 0
  IN IF Cardinality({k \in units : Null(k)}) > Cardinality({k \in units : Null(k + 2)})
     THEN "UTF-32BE" ELSE "UTF-32LE"

\* detectEncoding
Encoding(sample) ==
  LET marked == {k \in DOMAIN Marks : Begins(sample, Bom[Marks[k]])}
  IN IF marked # {} THEN <<Marks[CHOOSE k \in marked : \A m \in marked : k <= m], TRUE>>
     ELSE IF \A k \in DOMAIN sample : sample[k] # 0 THEN <<"UTF-8", FALSE>>
     ELSE IF LikelyUTF32(sample) THEN <<UTF32Order(sample), FALSE>>
     ELSE <<UTF16Order(sample), FALSE>>

\* External: the bytes of a character.
Encoded(e, c) ==
  LET Of(ascii, wide, round, astral) ==
        CASE c = "ascii" -> ascii [] c = "wide" -> wide [] c = "round" -> round [] c = "astral" -> astral
  IN CASE e = "UTF-8" -> Of(<<65>>, <<228, 184, 173>>, <<228, 184, 128>>, <<240, 159, 152, 128>>)
       [] e = "UTF-16BE" -> Of(<<0, 65>>, <<78, 45>>, <<78, 0>>, <<216, 61, 222, 0>>)
       [] e = "UTF-16LE" -> Of(<<65, 0>>, <<45, 78>>, <<0, 78>>, <<61, 216, 0, 222>>)
       [] e = "UTF-32BE" -> Of(<<0, 0, 0, 65>>, <<0, 0, 78, 45>>, <<0, 0, 78, 0>>, <<0, 1, 246, 0>>)
       [] e = "UTF-32LE" -> Of(<<65, 0, 0, 0>>, <<45, 78, 0, 0>>, <<0, 78, 0, 0>>, <<0, 246, 1, 0>>)

SampleBytes ==
  LET source == (IF query.bom THEN Bom[query.encoding] ELSE <<>>)
                  \o FlattenSeq([k \in DOMAIN query.text |-> Encoded(query.encoding, query.text[k])])
  IN IF query.size < Len(source) THEN SubSeq(source, 1, query.size) ELSE source

------------------------------------------------------------------------------
(* The rows.                                                                 *)

Truncated == query.cut # Nothing
SampleEndsInNewline == IF Truncated THEN query.cut.rest = Nothing ELSE query.ended

\* What the sample is split into.
SampleRows ==
  IF ~Truncated THEN query.rows
  ELSE SubSeq(query.rows, 1, query.cut.after)
         \o (IF query.cut.rest = Nothing THEN <<>> ELSE <<query.cut.rest>>)

FirstRows(all) ==
  FoldLeft(LAMBDA kept, r : IF r.blank \/ Len(kept) = RowLimit THEN kept ELSE Append(kept, r),
           <<>>, all)

\* (fault) a row the sample cuts is taken for a short one.
SampledLines_KeepCut == FirstRows(SampleRows)

\* sampledLines
SampledLines ==
  FirstRows(IF Truncated /\ ~SampleEndsInNewline THEN Front(SampleRows) ELSE SampleRows)

Fields(d) == [k \in DOMAIN rows |-> rows[k].fields[d]]
Among(all) == {all[k] : k \in DOMAIN all}
Frequency(fields, n) == Cardinality({k \in DOMAIN fields : fields[k] = n})
Sum(seq) == FoldLeft(LAMBDA a, b : a + b, 0, seq)

Delim == Delims[next]
NoScore == [valid |-> FALSE, delim |-> Nothing, count |-> 0, sum |-> 0, spread |-> 0, fields |-> 0]
NoDominant == [fields |-> 0, count |-> 0]

DetectInit ==
  /\ query \in DetectJob
  /\ step = query.kind
  /\ rows = <<>>
  /\ next = 1
  /\ left = {}
  /\ dominant = NoDominant
  /\ best = NoScore
  /\ told = Nothing

TellEncoding ==
  /\ step = "bytes"
  /\ IF SampleBytes = <<>> THEN step' = "failed" /\ UNCHANGED told
     ELSE step' = "verdict" /\ told' = Encoding(SampleBytes)
  /\ UNCHANGED <<query, rows, next, left, dominant, best>>

TakeRows ==
  /\ step = "rows"
  /\ rows' = SampledLines
  /\ IF SampledLines = <<>> THEN step' = "failed" /\ UNCHANGED left
     ELSE step' = "score" /\ left' = {SampledLines[k].fields[Delim] : k \in DOMAIN SampledLines}
  /\ UNCHANGED <<query, next, dominant, best, told>>

Dominates(fields, count) ==
  count > dominant.count \/ (count = dominant.count /\ fields > dominant.fields)

\* scoreDelimiter: one turn of the loop over the map, in any order.
Meet ==
  /\ step = "score"
  /\ \E n \in left :
       LET count == Frequency(Fields(Delim), n)
       IN /\ left' = left \ {n}
          /\ dominant' = IF n >= 2 /\ Dominates(n, count) THEN [fields |-> n, count |-> count]
                         ELSE dominant
  /\ UNCHANGED <<step, query, rows, next, best, told>>

Acceptable(sum) ==
  /\ dominant.fields >= 2
  /\ 5 * dominant.count >= 4 * Len(rows)
  /\ sum >= 2 * Len(rows)

\* The rest of scoreDelimiter; the variance is spread / n^2.
Score ==
  LET sum == Sum(Fields(Delim))
      squares == Sum([k \in DOMAIN rows |-> Fields(Delim)[k] * Fields(Delim)[k]])
  IN IF ~Acceptable(sum) THEN NoScore
     ELSE [valid |-> TRUE, delim |-> Delim, count |-> dominant.count, sum |-> sum,
           spread |-> Len(rows) * squares - sum * sum, fields |-> dominant.fields]

\* a + root(x) > root(y), for a >= 0, and root(x) + a >= root(y).
RootsAbove(a, x, y) ==
  y < a * a + x \/ 4 * a * a * x > (y - a * a - x) * (y - a * a - x)
RootsReach(a, x, y) ==
  y <= a * a + x \/ 4 * a * a * x >= (y - a * a - x) * (y - a * a - x)

\* Confidence is (count / n) / (1 + root(spread) / sum).
MoreConfident(s, o) ==
  LET a == s.sum * o.sum * (s.count - o.count)
      x == s.count * s.sum * s.count * s.sum * o.spread
      y == o.count * o.sum * o.count * o.sum * s.spread
  IN IF a >= 0 THEN RootsAbove(a, x, y) ELSE ~RootsReach(-a, y, x)

\* (fault) more fields count before more confidence.
BetterThan_Fields(s, o) ==
  s.valid /\ (~o.valid \/ s.fields > o.fields)

\* betterThan; a score that is not valid is never better.
BetterThan(s, o) ==
  /\ s.valid
  /\ \/ ~o.valid
     \/ MoreConfident(s, o)
     \/ /\ ~MoreConfident(o, s)
        /\ \/ s.fields > o.fields
           \/ s.fields = o.fields /\ ByteOf[s.delim] < ByteOf[o.delim]

\* The next delimiter, or the end.
Compare ==
  /\ step = "score"
  /\ left = {}
  /\ best' = IF BetterThan(Score, best) THEN Score ELSE best
  /\ dominant' = NoDominant
  /\ IF next < Len(Delims)
     THEN /\ next' = next + 1
          /\ left' = Among(Fields(Delims[next + 1]))
          /\ UNCHANGED step
     ELSE /\ step' = IF best'.valid THEN "verdict" ELSE "failed"
          /\ UNCHANGED <<next, left>>
  /\ UNCHANGED <<query, rows, told>>

DetectEnded == step \in {"verdict", "failed"} /\ UNCHANGED detectVars

DetectNext == TellEncoding \/ TakeRows \/ Meet \/ Compare \/ DetectEnded

DetectSpec == DetectInit /\ [][DetectNext]_detectVars

------------------------------------------------------------------------------
(* Properties.                                                               *)

\* The whole rows there are to judge by: all, or those whose newline is in the
\* sample; blank ones do not count, and no more than RowLimit do.
Whole == IF query.cut = Nothing THEN query.rows ELSE SubSeq(query.rows, 1, query.cut.after)
Evidence ==
  {k \in DOMAIN Whole :
     ~Whole[k].blank /\ Cardinality({m \in 1 .. k : ~Whole[m].blank}) <= RowLimit}

Agree(d, n) == {k \in Evidence : Whole[k].fields[d] = n}
Splits(d, n) == n >= 2 /\ Agree(d, n) = Evidence

\* What --detect answers is what the whole rows of the sample show, whatever
\* order the map of frequencies is met in and however the sample is cut: at
\* least four rows in five have the fields told, and a delimiter that splits all
\* rows alike wins over any that does not, then the one into more fields, then
\* the smaller byte.  It gives up only if no delimiter splits all rows alike, nor
\* four in five of them into three fields or more.
VerdictIsRight ==
  query # Nothing /\ query.kind = "rows" =>
    LET all == Cardinality(Evidence)
        Options == {<<d, n>> : d \in Among(Delims),
                               n \in {Whole[k].fields[e] : k \in Evidence, e \in Among(Delims)}}
        perfect == {o \in Options : Splits(o[1], o[2])}
    IN /\ step = "verdict" =>
            /\ Len(rows) = all
            /\ best.fields >= 2
            /\ 5 * Cardinality(Agree(best.delim, best.fields)) >= 4 * all
            /\ perfect # {} => <<best.delim, best.fields>> \in perfect
            /\ \A o \in perfect :
                 \/ best.fields > o[2]
                 \/ best.fields = o[2] /\ ByteOf[best.delim] <= ByteOf[o[1]]
       /\ step = "failed" =>
            all = 0 \/ \A o \in Options :
                        /\ ~Splits(o[1], o[2])
                        /\ 5 * Cardinality(Agree(o[1], o[2])) >= 4 * all => o[2] <= 2

\* The encoding told is the one the text is in if it has its mark, whatever the
\* text goes on with; and without one if it is UTF-8, or UTF-32 of which many
\* bytes are null (from the high order on, if it does not begin with a character
\* beyond the first plane), or UTF-16 of which some, but not many, are null, if no
\* character has a null low byte.  Nothing is claimed of other texts without a
\* mark, since for some of them another encoding is told: nulls in low bytes tell
\* the other order; UTF-16 with as many nulls as ASCII passes for UTF-32, and
\* without any for UTF-8; UTF-32BE all beyond the first plane passes for UTF-32LE.
EncodingIsRight ==
  told # Nothing =>
    LET nulls == Cardinality({k \in DOMAIN SampleBytes : SampleBytes[k] = 0})
        many == Len(SampleBytes) >= 8 /\ 20 * nulls >= 9 * Len(SampleBytes)
        clear == \/ query.encoding = "UTF-8"
                 \/ query.encoding = "UTF-32LE" /\ many
                 \/ query.encoding = "UTF-32BE" /\ many /\ query.text[1] # "astral"
                 \/ /\ query.encoding \in {"UTF-16BE", "UTF-16LE"} /\ nulls > 0 /\ ~many
                    /\ \A k \in DOMAIN query.text : query.text[k] \in {"ascii", "wide"}
    IN (IF query.bom THEN Len(SampleBytes) >= 4 ELSE clear) => told = <<query.encoding, query.bom>>
==============================================================================
