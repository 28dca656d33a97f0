-------------------------- MODULE RangeSplit_proofs ---------------------------
(***************************************************************************)
(* Theorems about RangeSplit, for every object, whatever replaces it while *)
(* it is read, every size of the blocks, every set of limits, every        *)
(* directory an earlier run may have left, and every interleaving of       *)
(* failures, a signal and a kill.                                          *)
(*                                                                         *)
(* A row is put together from what several reads returned, and the lines   *)
(* it must equal are those of the object as a whole: the argument needs to *)
(* know, at every point of a run, which positions are in the header, in    *)
(* published shards, in the shard in progress, in the line in hand and in  *)
(* the carry (ReaderInv, ShardsInv, ProgressInv), and that what is between *)
(* them is the end of a line (LineInv).                                    *)
(***************************************************************************)
EXTENDS RangeSplit, SequenceTheorems, FiniteSetTheorems, WellFoundedInduction, TLAPS

Dead == {"abort", "abortManifest", "failed", "crashed"}
Live == ~job.dryRun /\ pc \notin Dead
N == Len(result)

\* The header has been read and the run goes on.
Past == pc \notin Dead \cup {"start", "header"}

\* The object has been read to its end.
Ending == {"finish", "commit", "unlinkManifest", "renameManifest", "done"}

\* A byte, whatever the object and however far it has been read.
Bits == Nat \X Nat

\* s is what stands after position a, read while there were g versions.
Stretch(s, a, g) ==
  /\ s \in Seq(Bits)
  /\ \A k \in 1 .. Len(s) : s[k][1] \in 1 .. g /\ s[k][2] = a + k

\* The position up to which bytes have been made into rows and handed on.
Put == offset - Len(pending) - (IF pc = "row" THEN Len(row) ELSE 0)

\* The newlines of the object that Stat saw, and where its lines end.
Newlines == job.versions[1].nl
Ends == Newlines \cup ({Size} \ {0})

\* How many lines end up to x, and how many rows that is.
Rank(x) == Cardinality({e \in Ends : e <= x})
Top == IF HasHeader THEN 1 ELSE 0
Handed == Rank(Put) - Top

\* No line ends after a and up to b.
Unbroken(a, b) == \A p \in Newlines : p <= a \/ b < p

\* The rows are those of the source after the first a.
RowsAre(s, a) == \A k \in 1 .. Len(s) : a + k \in 1 .. Len(Body) /\ s[k] = Body[a + k]

\* The header is the one of the object that Stat saw.
HeaderRead == Len(headerLine) = IF HasHeader THEN LineEnds[1] ELSE 0

M == Cardinality(Published)

\* Where the reader is, whatever happens to the object.
ReaderInv ==
  /\ Stretch(headerLine, 0, gen)
  /\ pc \in {"start", "header"} => pending = <<>> /\ row = <<>> /\ ~drained /\ offset = Len(headerLine)
  /\ pc = "start" => offset = 0
  /\ Past => /\ Stretch(pending, offset - Len(pending), gen)
             /\ Len(headerLine) <= Put
             /\ drained => pending = <<>>
             /\ pc \in {"loop", "lines", "carry"} => ~drained
             /\ pc = "row" => row # <<>> /\ Stretch(row, Put, gen)
             /\ pc \in Ending => drained

\* Where the reader is in the object that Stat saw, when nobody has replaced it.
LineInv ==
  gen = 1 =>
    /\ pc = "header" => job.header /\ Unbroken(0, offset) /\ (offset < Size \/ Size = 0)
    /\ Past => /\ HeaderRead
               /\ Put \in Ends \cup {0}
               /\ pc = "row" => Put + Len(row) \in Ends /\ Unbroken(Put, Put + Len(row) - 1)
               /\ pc \in {"loop", "carry"} => Unbroken(Put, offset) /\ (offset = Size => pending = <<>>)
               /\ pc = "carry" \/ drained => offset = Size

\* Where in its life the shard writer is at each point of the run.
WriterInv ==
  /\ job.dryRun => /\ shard.st = "none" /\ Published = {} /\ man = "none"
                   /\ pc \notin {"flush", "unlink", "rename", "record"}
  /\ pc \in {"start", "header", "loop", "lines", "carry", "row", "finish"} => shard.st \in {"none", "open"}
  /\ pc \in {"start", "header", "commit", "unlinkManifest", "renameManifest", "done"} => shard.st = "none"
  /\ pc = "flush" => shard.st = "open"
  /\ pc \in {"unlink", "rename", "record"} => shard.st = "closed"
  /\ shard.st # "none" => index \in ShardId
  /\ pc \in {"start", "header"} => N = 0 /\ Published = {}
  /\ pc # "done" => ~New(manFile)
  /\ pc = "start" => man = "none"
  /\ man = "open" => manPart \in Seq(EntryType)
  /\ pc \in {"unlinkManifest", "renameManifest"} => man = "closed"

\* What is published: the first rows, and the bytes after the header.
ShardsInv ==
  /\ M \in Nat /\ Published = 1 .. M
  /\ \A i \in Published :
       /\ shardFile[i] \in FileState /\ shardFile[i].whole
       /\ shardFile[i].hdr <=> headerLine # <<>>
  /\ PublishedRows \in Seq(Seq(Bits))
  /\ Stretch(FlattenSeq(PublishedRows), Len(headerLine), gen)
  /\ gen = 1 /\ M > 0 => Size > 0 /\ HeaderRead
  /\ gen = 1 => RowsAre(PublishedRows, 0)
  /\ M > 0 => LET s == FlattenSeq(shardFile[M].rows)
              IN s \in Seq(Bits) /\ s # <<>> /\ s[Len(s)][2] = Len(headerLine) + Len(FlattenSeq(PublishedRows))

\* What is in progress: the rows that follow.
ProgressInv ==
  Live => /\ M = IF pc = "record" THEN N + 1 ELSE N
          /\ index = IF shard.st = "none" THEN N ELSE N + 1
          /\ InProgress \in Seq(Seq(Bits))
          /\ Stretch(FlattenSeq(InProgress), Len(headerLine) + Len(FlattenSeq(PublishedRows)), gen)
          /\ Past => Put = Len(headerLine) + Len(FlattenSeq(PublishedRows)) + Len(FlattenSeq(InProgress))
          /\ gen = 1 => RowsAre(InProgress, Len(PublishedRows))
          /\ gen = 1 /\ Past => Handed = Len(PublishedRows) + Len(InProgress)

\* What the open or closing shard holds.
CarrierInv ==
  Live /\ shard.st \in {"open", "closed"} /\ pc # "record" =>
    /\ shardPart[index] \in FileState
    /\ shardPart[index].hdr <=> headerLine # <<>>
    /\ shard.st = "closed" => shardPart[index].whole
    /\ pc # "row" => FlattenSeq(InProgress) # <<>>

IInv ==
  /\ TypeOK
  /\ ReaderInv
  /\ LineInv
  /\ WriterInv
  /\ ShardsInv
  /\ ProgressInv
  /\ CarrierInv

------------------------------------------------------------------------------
(* The concatenation of a sequence of sequences.                             *)

\* The pairs of naturals in order.
Less == {p \in Nat \X Nat : p[1] < p[2]}

\* The order of the naturals is well founded.
LEMMA LessWF == IsWellFoundedOn(Less, Nat)
  BY NatLessThanWellFounded DEF OpToRel, Less

\* A set with 0 and with every successor of its members holds the naturals.
LEMMA Induct ==
  ASSUME NEW S, 0 \in S, \A n \in Nat : n \in S => n + 1 \in S
  PROVE  Nat \subseteq S
  <1> SUFFICES ASSUME Nat \ S # {} PROVE FALSE
    OBVIOUS
  <1>1. PICK x \in Nat \ S : \A y \in Nat \ S : <<y, x>> \notin Less
    BY LessWF, WFMin, (Nat \ S) \subseteq Nat
  <1>2. x # 0 /\ x - 1 \in Nat /\ x \in Nat
    OBVIOUS
  <1>3. <<x - 1, x>> \in Less
    BY <1>2 DEF Less
  <1>4. x - 1 \in S
    BY <1>1, <1>2, <1>3
  <1> QED  BY <1>2, <1>4

\* f holds the concatenations of the first i members of s, for each i up to n.
IsFlat(f, s, n) == f = [i \in 1 .. n |-> IF i = 1 THEN s[i] ELSE f[i - 1] \o s[i]]

\* The recursion that defines FlattenSeq has a solution.
LEMMA FlatExists ==
  ASSUME NEW s, NEW m \in Nat
  PROVE  \E f : IsFlat(f, s, m)
  <1> DEFINE Good(n) == \E f : IsFlat(f, s, n)
             S == {n \in Nat : Good(n)}
  <1>1. Good(0)
    <2> DEFINE z == [i \in 1 .. 0 |-> s[i]]
    <2>1. IsFlat(z, s, 0)
      BY DEF IsFlat
    <2> QED  BY <2>1
  <1>2. ASSUME NEW n \in Nat, Good(n) PROVE Good(n + 1)
    <2>1. PICK f : IsFlat(f, s, n)
      BY <1>2
    <2>0. PICK last : last = IF n = 0 THEN s[1] ELSE f[n] \o s[n + 1]
      OBVIOUS
    <2> DEFINE g == [i \in 1 .. n + 1 |-> IF i = n + 1 THEN last ELSE f[i]]
    <2>2. g[n + 1] = last /\ \A i \in 1 .. n : g[i] = f[i]
      OBVIOUS
    <2>3. \A i \in 1 .. n : f[i] = IF i = 1 THEN s[i] ELSE f[i - 1] \o s[i]
      BY <2>1 DEF IsFlat
    <2>4. \A i \in 1 .. n : g[i] = IF i = 1 THEN s[i] ELSE g[i - 1] \o s[i]
      BY <2>2, <2>3
    <2>5. g = [i \in 1 .. n + 1 |-> g[i]]
      OBVIOUS
    <2>6. g[n + 1] = IF n + 1 = 1 THEN s[n + 1] ELSE g[n] \o s[n + 1]
      <3>1. n # 0 => g[n] = f[n]
        BY <2>2
      <3> QED  BY <2>0, <2>2, <3>1
    <2> HIDE DEF g
    <2>7. \A i \in 1 .. n + 1 : g[i] = IF i = 1 THEN s[i] ELSE g[i - 1] \o s[i]
      BY <2>4, <2>6
    <2>8. IsFlat(g, s, n + 1)
      BY <2>5, <2>7 DEF IsFlat
    <2> QED  BY <2>8
  <1> HIDE DEF Good
  <1>3. Nat \subseteq S
    <2>1. 0 \in S
      BY <1>1
    <2>2. \A n \in Nat : n \in S => n + 1 \in S
      BY <1>2
    <2> HIDE DEF S
    <2> QED  BY <2>1, <2>2, Induct
  <1>4. Good(m)
    BY <1>3
  <1> QED  BY <1>4 DEF Good

\* FlattenSeq is the last of them.
LEMMA FlattenDef ==
  ASSUME NEW s, Len(s) \in Nat, Len(s) # 0
  PROVE  \E f : IsFlat(f, s, Len(s)) /\ FlattenSeq(s) = f[Len(s)]
  <1> DEFINE n == Len(s)
             g == CHOOSE f : f = [i \in 1 .. n |-> IF i = 1 THEN s[i] ELSE f[i - 1] \o s[i]]
  <1>1. \E f : IsFlat(f, s, n)
    BY FlatExists
  <1>2. IsFlat(g, s, n)
    BY <1>1, Zenon DEF IsFlat
  <1>3. FlattenSeq(s) = g[n]
    BY Zenon DEF FlattenSeq
  <1> QED  BY <1>2, <1>3

\* One more piece is added at the end.
LEMMA FlattenAppend ==
  ASSUME NEW T, NEW s \in Seq(T), NEW x \in T
  PROVE  FlattenSeq(Append(s, x)) = IF s = <<>> THEN x ELSE FlattenSeq(s) \o x
  <1> DEFINE n == Len(s)
             t == Append(s, x)
  <1>1. n \in Nat /\ Len(t) = n + 1 /\ t[n + 1] = x /\ \A i \in 1 .. n : t[i] = s[i]
    BY AppendProperties
  <1> HIDE DEF t
  <1>2. PICK g : IsFlat(g, t, n + 1) /\ FlattenSeq(t) = g[n + 1]
    BY <1>1, FlattenDef
  <1>3. \A i \in 1 .. n + 1 : g[i] = IF i = 1 THEN t[i] ELSE g[i - 1] \o t[i]
    BY <1>2 DEF IsFlat
  <1>4. CASE n = 0
    <2>1. s = <<>>
      BY <1>4, EmptySeq
    <2>2. g[1] = x
      BY <1>1, <1>3, <1>4
    <2> QED  BY <1>2, <1>4, <2>1, <2>2 DEF t
  <1>5. CASE n # 0
    <2>1. PICK f : IsFlat(f, s, n) /\ FlattenSeq(s) = f[n]
      BY <1>1, <1>5, FlattenDef
    <2>2. \A i \in 1 .. n : f[i] = IF i = 1 THEN s[i] ELSE f[i - 1] \o s[i]
      BY <2>1 DEF IsFlat
    <2> DEFINE S == {i \in Nat : i \in 1 .. n => f[i] = g[i]}
    <2>3. 0 \in S
      OBVIOUS
    <2>4. ASSUME NEW i \in Nat, i \in S PROVE i + 1 \in S
      <3> SUFFICES ASSUME i + 1 \in 1 .. n PROVE f[i + 1] = g[i + 1]
        OBVIOUS
      <3>1. t[i + 1] = s[i + 1] /\ i + 1 \in 1 .. n + 1 /\ (i + 1) - 1 = i
        BY <1>1
      <3>2. CASE i = 0
        BY <1>3, <2>2, <3>1, <3>2
      <3>3. CASE i # 0
        <4>1. f[i] = g[i]
          BY <2>4, <3>1, <3>3
        <4>0. i + 1 # 1
          BY <3>3
        <4>2. f[i + 1] = f[(i + 1) - 1] \o s[i + 1]
          BY <2>2, <4>0
        <4>3. g[i + 1] = g[(i + 1) - 1] \o t[i + 1]
          BY <1>3, <3>1, <4>0
        <4> QED  BY <3>1, <4>1, <4>2, <4>3
      <3> QED  BY <3>2, <3>3
    <2>5. Nat \subseteq S
      <3>1. \A i \in Nat : i \in S => i + 1 \in S
        BY <2>4
      <3> HIDE DEF S
      <3> QED  BY <2>3, <3>1, Induct
    <2>6. f[n] = g[n]
      BY <1>1, <1>5, <2>5
    <2>7. g[n + 1] = g[n] \o t[n + 1]
      <3>1. n + 1 \in 1 .. n + 1 /\ n + 1 # 1 /\ (n + 1) - 1 = n
        BY <1>1, <1>5
      <3>2. g[n + 1] = g[(n + 1) - 1] \o t[n + 1]
        BY <1>3, <3>1
      <3> QED  BY <3>1, <3>2
    <2>8. s # <<>>
      BY <1>5
    <2> QED  BY <1>1, <1>2, <2>1, <2>6, <2>7, <2>8 DEF t
  <1> QED  BY <1>4, <1>5

\* Nothing is put together from nothing.
LEMMA FlattenEmpty == FlattenSeq(<<>>) = <<>>
  BY EmptySeq DEF FlattenSeq

\* The same for sequences, where the empty one makes no difference.
LEMMA FlattenGrows ==
  ASSUME NEW T, NEW s \in Seq(Seq(T)), NEW x \in Seq(T), FlattenSeq(s) \in Seq(T)
  PROVE  FlattenSeq(Append(s, x)) = FlattenSeq(s) \o x /\ FlattenSeq(Append(s, x)) \in Seq(T)
  <1>1. FlattenSeq(Append(s, x)) = IF s = <<>> THEN x ELSE FlattenSeq(s) \o x
    BY FlattenAppend
  <1>2. FlattenSeq(s) \o x \in Seq(T)
    BY ConcatProperties
  <1>3. s = <<>> => FlattenSeq(s) \o x = x
    BY FlattenEmpty, ConcatEmptySeq
  <1> QED  BY <1>1, <1>2, <1>3

\* It does not matter which of three sequences are joined first.
LEMMA JoinsAnyway ==
  ASSUME NEW T, NEW a \in Seq(T), NEW b \in Seq(T), NEW c \in Seq(T)
  PROVE  (a \o b) \o c = a \o (b \o c)
  BY ConcatAssociative

\* What is put together from two sequences is what each gives, one after the other.
LEMMA FlattenConcat ==
  ASSUME NEW T, NEW s \in Seq(Seq(T)), FlattenSeq(s) \in Seq(T), NEW t \in Seq(Seq(T))
  PROVE  /\ FlattenSeq(t) \in Seq(T)
         /\ FlattenSeq(s \o t) = FlattenSeq(s) \o FlattenSeq(t)
  <1> DEFINE Good(n) == \A u \in Seq(Seq(T)) : Len(u) = n =>
                          /\ FlattenSeq(u) \in Seq(T)
                          /\ FlattenSeq(s \o u) = FlattenSeq(s) \o FlattenSeq(u)
             S == {n \in Nat : Good(n)}
  <1>1. Good(0)
    <2> SUFFICES ASSUME NEW u \in Seq(Seq(T)), Len(u) = 0
                 PROVE  FlattenSeq(u) \in Seq(T) /\ FlattenSeq(s \o u) = FlattenSeq(s) \o FlattenSeq(u)
      OBVIOUS
    <2>1. u = <<>>
      BY EmptySeq
    <2>2. FlattenSeq(u) = <<>> /\ <<>> \in Seq(T)
      BY <2>1, FlattenEmpty, EmptySeq
    <2>3. s \o u = s /\ FlattenSeq(s) \o <<>> = FlattenSeq(s)
      BY <2>1, ConcatEmptySeq
    <2> QED  BY <2>2, <2>3
  <1>2. ASSUME NEW n \in Nat, Good(n) PROVE Good(n + 1)
    <2> SUFFICES ASSUME NEW u \in Seq(Seq(T)), Len(u) = n + 1
                 PROVE  FlattenSeq(u) \in Seq(T) /\ FlattenSeq(s \o u) = FlattenSeq(s) \o FlattenSeq(u)
      OBVIOUS
    <2>1. PICK v \in Seq(Seq(T)), x \in Seq(T) : u = Append(v, x)
      <3>1. u # <<>>
        BY EmptySeq
      <3> QED  BY <3>1, SequenceEmptyOrAppend
    <2>2. Len(v) = n
      BY <2>1, AppendProperties
    <2>3. FlattenSeq(v) \in Seq(T) /\ FlattenSeq(s \o v) = FlattenSeq(s) \o FlattenSeq(v)
      BY <1>2, <2>2
    <2>4. FlattenSeq(u) = FlattenSeq(v) \o x /\ FlattenSeq(u) \in Seq(T)
      BY <2>1, <2>3, FlattenGrows
    <2>5. s \o u = Append(s \o v, x) /\ s \o v \in Seq(Seq(T))
      BY <2>1, AppendIsConcat, ConcatProperties, ConcatAssociative, SMTT(20)
    <2>6. FlattenSeq(s \o v) \in Seq(T)
      BY <2>3, ConcatProperties
    <2>7. FlattenSeq(s \o u) = FlattenSeq(s \o v) \o x
      BY <2>5, <2>6, FlattenGrows
    <2>8. (FlattenSeq(s) \o FlattenSeq(v)) \o x = FlattenSeq(s) \o (FlattenSeq(v) \o x)
      BY <2>1, <2>3, JoinsAnyway
    <2> QED  BY <2>3, <2>4, <2>7, <2>8
  <1> HIDE DEF Good
  <1>3. Nat \subseteq S
    <2>1. \A n \in Nat : n \in S => n + 1 \in S
      BY <1>2
    <2> HIDE DEF S
    <2>2. 0 \in S
      BY <1>1 DEF S
    <2> QED  BY <2>1, <2>2, Induct
  <1>4. Good(Len(t))
    BY <1>3, LenProperties
  <1> QED  BY <1>4 DEF Good

------------------------------------------------------------------------------
(* Stretches of the object.                                                  *)

\* No bytes stand anywhere.
LEMMA StretchEmpty ==
  ASSUME NEW a, NEW g
  PROVE  Stretch(<<>>, a, g)
  BY EmptySeq DEF Stretch

\* What was read stays what it is when the object is replaced.
LEMMA StretchStays ==
  ASSUME NEW s, NEW a, NEW g \in Nat, NEW h \in Nat, g <= h, Stretch(s, a, g)
  PROVE  Stretch(s, a, h)
  BY DEF Stretch

\* Stretches that meet are a stretch.
LEMMA StretchJoin ==
  ASSUME NEW s, NEW t, NEW a \in Int, NEW b \in Int, NEW g,
         Stretch(s, a, g), b = a + Len(s), Stretch(t, b, g)
  PROVE  Stretch(s \o t, a, g) /\ Len(s \o t) = Len(s) + Len(t)
  <1>1. /\ s \in Seq(Bits) /\ t \in Seq(Bits) /\ Len(s) \in Nat /\ Len(t) \in Nat
    BY LenProperties DEF Stretch
  <1>2. /\ s \o t \in Seq(Bits) /\ Len(s \o t) = Len(s) + Len(t)
        /\ \A k \in 1 .. Len(s) + Len(t) : (s \o t)[k] = IF k <= Len(s) THEN s[k] ELSE t[k - Len(s)]
    BY <1>1, ConcatProperties
  <1>3. ASSUME NEW k \in 1 .. Len(s) + Len(t)
        PROVE  (s \o t)[k][1] \in 1 .. g /\ (s \o t)[k][2] = a + k
    <2>1. CASE k <= Len(s)
      BY <1>1, <1>2, <2>1 DEF Stretch
    <2>2. CASE ~(k <= Len(s))
      <3>1. k - Len(s) \in 1 .. Len(t)
        BY <1>1, <2>2
      <3>2. t[k - Len(s)][1] \in 1 .. g /\ t[k - Len(s)][2] = b + (k - Len(s))
        BY <3>1 DEF Stretch
      <3>3. (s \o t)[k] = t[k - Len(s)]
        BY <1>2, <2>2
      <3> QED  BY <1>1, <3>2, <3>3
    <2> QED  BY <2>1, <2>2
  <1> QED  BY <1>2, <1>3 DEF Stretch

\* A stretch can be cut anywhere.
LEMMA StretchCut ==
  ASSUME NEW s, NEW a \in Int, NEW g, NEW m \in 0 .. Len(s), Stretch(s, a, g)
  PROVE  /\ Stretch(SubSeq(s, 1, m), a, g) /\ Len(SubSeq(s, 1, m)) = m
         /\ Stretch(SubSeq(s, m + 1, Len(s)), a + m, g) /\ Len(SubSeq(s, m + 1, Len(s))) = Len(s) - m
         /\ \A k \in 1 .. m : SubSeq(s, 1, m)[k] = s[k]
  <1>1. s \in Seq(Bits) /\ Len(s) \in Nat /\ \A k \in 1 .. Len(s) : s[k] \in Bits
    BY LenProperties, ElementOfSeq DEF Stretch
  <1>2. /\ SubSeq(s, 1, m) \in Seq(Bits) /\ Len(SubSeq(s, 1, m)) = m
        /\ \A k \in 1 .. m : SubSeq(s, 1, m)[k] = s[k]
    <2>1. \A k \in 1 .. m : s[k] \in Bits
      BY <1>1
    <2> QED  BY <1>1, <2>1, SubSeqProperties
  <1>3. /\ SubSeq(s, m + 1, Len(s)) \in Seq(Bits) /\ Len(SubSeq(s, m + 1, Len(s))) = Len(s) - m
        /\ \A k \in 1 .. Len(s) - m : SubSeq(s, m + 1, Len(s))[k] = s[m + k]
    <2>0. PICK i \in Nat : i = m + 1
      BY <1>1
    <2>1. \A k \in i .. Len(s) : s[k] \in Bits
      BY <1>1, <2>0
    <2>2. /\ SubSeq(s, i, Len(s)) \in Seq(Bits)
          /\ Len(SubSeq(s, i, Len(s))) = IF i <= Len(s) THEN Len(s) - i + 1 ELSE 0
          /\ \A k \in 1 .. Len(s) - i + 1 : SubSeq(s, i, Len(s))[k] = s[i + k - 1]
      BY <1>1, <2>1, SubSeqProperties
    <2>3. \A k \in 1 .. Len(s) - m : i + k - 1 = m + k
      BY <2>0
    <2> QED  BY <1>1, <2>0, <2>2, <2>3
  <1>4. Stretch(SubSeq(s, 1, m), a, g)
    BY <1>1, <1>2 DEF Stretch
  <1>5. Stretch(SubSeq(s, m + 1, Len(s)), a + m, g)
    <2>1. \A k \in 1 .. Len(s) - m : m + k \in 1 .. Len(s) /\ (a + m) + k = a + (m + k)
      BY <1>1
    <2> QED  BY <1>3, <2>1 DEF Stretch
  <1> QED  BY <1>2, <1>3, <1>4, <1>5

\* While there is one version, a stretch is known by where it begins and ends.
LEMMA StretchIs ==
  ASSUME NEW s, NEW a, Stretch(s, a, 1)
  PROVE  s = [k \in 1 .. Len(s) |-> <<1, a + k>>]
  <1>1. s = [k \in 1 .. Len(s) |-> s[k]]
    BY LenProperties DEF Stretch
  <1>2. ASSUME NEW k \in 1 .. Len(s) PROVE s[k] = <<1, a + k>>
    <2>1. s[k] \in Nat \X Nat
      BY ElementOfSeq DEF Stretch, Bits
    <2>2. s[k][1] = 1 /\ s[k][2] = a + k
      BY DEF Stretch
    <2> QED  BY <2>1, <2>2
  <1> QED  BY <1>1, <1>2

\* The bytes up to the offset are those TypeOK speaks of.
LEMMA StretchTyped ==
  ASSUME NEW s, NEW a \in Nat, NEW g \in Nat, Stretch(s, a, g),
         g <= Len(job.versions), Len(job.versions) \in Nat, offset \in Nat, a + Len(s) <= offset
  PROVE  s \in Seq(Byte)
  <1>1. s \in Seq(Bits) /\ Len(s) \in Nat
    BY LenProperties DEF Stretch
  <1>2. ASSUME NEW k \in 1 .. Len(s) PROVE s[k] \in Byte
    <2>1. s[k] \in Nat \X Nat
      BY <1>1, ElementOfSeq DEF Bits
    <2>2. s[k][1] \in 1 .. Len(job.versions) /\ s[k][2] \in 1 .. offset
      BY <1>1 DEF Stretch
    <2>3. PICK v \in 1 .. Len(job.versions), p \in 1 .. offset : v = s[k][1] /\ p = s[k][2]
      BY <2>2
    <2>4. s[k] = <<v, p>>
      BY <2>1, <2>3
    <2> QED  BY <2>4 DEF Byte
  <1>3. s = [k \in 1 .. Len(s) |-> s[k]]
    BY <1>1, LenProperties
  <1> QED  BY <1>1, <1>2, <1>3, IsASeq

\* Bytes read earlier are bytes read.
LEMMA TypedStays ==
  ASSUME NEW s \in Seq(Byte), offset \in Nat, offset' \in Nat, offset <= offset', job' = job
  PROVE  s \in Seq(Byte')
  <1>1. Byte \subseteq Byte'
    BY DEF Byte
  <1> QED  BY <1>1, SeqMonotonic

\* The object has a size and newlines within it.
LEMMA JobType ==
  ASSUME job \in Job
  PROVE  /\ job.rows \in Nat /\ job.bytes \in Nat
         /\ job.header \in BOOLEAN /\ job.manifest \in BOOLEAN
         /\ job.dryRun \in BOOLEAN /\ job.gz \in BOOLEAN
         /\ Len(job.versions) \in Nat /\ 1 \in 1 .. Len(job.versions)
         /\ \A g \in 1 .. Len(job.versions) :
              job.versions[g].size \in Nat /\ job.versions[g].nl \subseteq 1 .. job.versions[g].size
         /\ Size \in Nat /\ Newlines \subseteq 1 .. Size /\ Ends \subseteq 1 .. Size
  <1>1. /\ job.rows \in Nat /\ job.bytes \in Nat
        /\ job.header \in BOOLEAN /\ job.manifest \in BOOLEAN
        /\ job.dryRun \in BOOLEAN /\ job.gz \in BOOLEAN
    BY JobAssumption
  <1>2. /\ job.versions \in Seq([size : Nat, nl : SUBSET Nat]) /\ job.versions # <<>>
        /\ \A g \in 1 .. Len(job.versions) : job.versions[g].nl \subseteq 1 .. job.versions[g].size
    BY VersionsAssumption
  <1>3. Len(job.versions) \in Nat /\ Len(job.versions) # 0
    BY <1>2, LenProperties, EmptySeq
  <1>4. \A g \in 1 .. Len(job.versions) : job.versions[g].size \in Nat
    <2> TAKE g \in 1 .. Len(job.versions)
    <2>1. job.versions[g] \in [size : Nat, nl : SUBSET Nat]
      BY <1>2, ElementOfSeq
    <2> QED  BY <2>1
  <1>5. 1 \in 1 .. Len(job.versions)
    BY <1>3
  <1>6. Size \in Nat /\ Newlines \subseteq 1 .. Size
    BY <1>2, <1>4, <1>5 DEF Size, Newlines
  <1>7. Ends \subseteq 1 .. Size
    BY <1>6 DEF Ends
  <1> QED  BY <1>1, <1>2, <1>3, <1>4, <1>5, <1>6, <1>7

\* A reader gives a stretch of the version it was opened on, and all that was
\* asked for when the range is within it.
LEMMA BytesAre ==
  ASSUME job \in Job, gen \in 1 .. Len(job.versions), NEW from \in Nat, NEW n \in Nat
  PROVE  /\ Stretch(Bytes(from, n), from, gen) /\ Len(Bytes(from, n)) \in 0 .. n
         /\ gen = 1 /\ from + n <= Size => Len(Bytes(from, n)) = n
  <1>1. PICK end \in Nat : end = job.versions[gen].size
    BY JobType
  <1>2. PICK m \in 0 .. n : m = IF from + n <= end THEN n ELSE IF from < end THEN end - from ELSE 0
    <2>1. (IF from + n <= end THEN n ELSE IF from < end THEN end - from ELSE 0) \in 0 .. n
      BY <1>1
    <2> QED  BY <2>1
  <1>3. Bytes(from, n) = [k \in 1 .. m |-> <<gen, from + k>>]
    BY <1>1, <1>2 DEF Bytes
  <1>4. gen \in Nat /\ m \in Nat
    BY JobType
  <1>5. PICK s : s = [k \in 1 .. m |-> <<gen, from + k>>]
    OBVIOUS
  <1>6. s \in Seq(Bits) /\ Len(s) = m /\ \A k \in 1 .. m : s[k] = <<gen, from + k>>
    <2>1. \A k \in 1 .. m : <<gen, from + k>> \in Bits
      BY <1>4 DEF Bits
    <2>2. s = [k \in 1 .. m |-> s[k]] /\ \A k \in 1 .. m : s[k] \in Bits
      BY <1>5, <2>1
    <2>3. Len(s) = m
      BY <1>4, <1>5
    <2>4. s \in Seq(Bits)
      BY <1>4, <2>2
    <2> QED  BY <1>5, <2>3, <2>4
  <1>7. Stretch(s, from, gen)
    BY <1>4, <1>6 DEF Stretch
  <1>8. gen = 1 => end = Size
    BY <1>1 DEF Size
  <1> QED  BY <1>2, <1>3, <1>5, <1>6, <1>7, <1>8

\* What SelectInSeq finds is the first byte that ends a line, if one does.
LEMMA FirstNewline ==
  ASSUME NEW s, Len(s) \in Nat
  PROVE  \/ /\ SelectInSeq(s, EndsLine) = 0
            /\ \A k \in 1 .. Len(s) : ~EndsLine(s[k])
         \/ /\ SelectInSeq(s, EndsLine) \in 1 .. Len(s)
            /\ EndsLine(s[SelectInSeq(s, EndsLine)])
            /\ \A k \in 1 .. Len(s) : k < SelectInSeq(s, EndsLine) => ~EndsLine(s[k])
  <1> DEFINE I == {k \in 1 .. Len(s) : EndsLine(s[k])}
  <1>1. SelectInSeq(s, EndsLine) = IF I # {} THEN Min(I) ELSE 0
    BY DEF SelectInSeq
  <1>2. CASE I = {}
    BY <1>1, <1>2
  <1>3. CASE I # {}
    <2>1. PICK x \in I : \A y \in I : <<y, x>> \notin Less
      <3>1. I \subseteq Nat
        OBVIOUS
      <3> HIDE DEF I
      <3> QED  BY <1>3, <3>1, LessWF, WFMin
    <2>2. \A y \in I : x <= y
      <3>1. I \subseteq Nat
        OBVIOUS
      <3> HIDE DEF I
      <3> TAKE y \in I
      <3>2. <<y, x>> \notin Less /\ y \in Nat /\ x \in Nat
        BY <2>1, <3>1
      <3> QED  BY <3>2 DEF Less
    <2>3. Min(I) \in I /\ \A y \in I : Min(I) <= y
      <3> HIDE DEF I
      <3> QED  BY <2>1, <2>2 DEF Min
    <2>4. Min(I) \in 1 .. Len(s) /\ EndsLine(s[Min(I)])
      BY <2>3
    <2>5. ASSUME NEW k \in 1 .. Len(s), k < Min(I) PROVE ~EndsLine(s[k])
      <3>1. EndsLine(s[k]) => k \in I
        OBVIOUS
      <3> HIDE DEF I
      <3> QED  BY <2>3, <2>4, <2>5, <3>1
    <2> HIDE DEF I
    <2> QED  BY <1>1, <1>3, <2>4, <2>5
  <1> QED  BY <1>2, <1>3

------------------------------------------------------------------------------
(* The lines of the object that Stat saw.                                    *)

\* An object has a number of lines, and so has any part of it.
LEMMA EndsFinite ==
  ASSUME job \in Job
  PROVE  /\ IsFiniteSet(Ends) /\ Cardinality(Ends) \in Nat
         /\ \A x : /\ IsFiniteSet({e \in Ends : e <= x}) /\ Rank(x) \in Nat
                   /\ Rank(x) <= Cardinality(Ends)
  <1>1. IsFiniteSet(1 .. Size)
    BY JobType, FS_Interval
  <1>2. IsFiniteSet(Ends)
    BY <1>1, JobType, FS_Subset
  <1>3. Cardinality(Ends) \in Nat
    BY <1>2, FS_CardinalityType
  <1>4. ASSUME NEW x PROVE IsFiniteSet({e \in Ends : e <= x}) /\ Rank(x) \in Nat /\ Rank(x) <= Cardinality(Ends)
    <2> DEFINE T == {e \in Ends : e <= x}
    <2>1. T \in SUBSET Ends
      OBVIOUS
    <2>2. Rank(x) = Cardinality(T)
      BY DEF Rank
    <2> HIDE DEF T
    <2>3. IsFiniteSet(T) /\ Cardinality(T) <= Cardinality(Ends)
      BY <1>2, <2>1, FS_Subset
    <2>4. Cardinality(T) \in Nat
      BY <2>3, FS_CardinalityType
    <2>5. IsFiniteSet({e \in Ends : e <= x})
      BY <2>3 DEF T
    <2> QED  BY <2>2, <2>3, <2>4, <2>5
  <1> QED  BY <1>2, <1>3, <1>4

\* The next line is one more.
LEMMA RankNext ==
  ASSUME job \in Job, NEW x \in Nat, NEW e \in Ends, x < e, Unbroken(x, e - 1)
  PROVE  Rank(e) = Rank(x) + 1
  <1>1. /\ Size \in Nat /\ Ends \subseteq 1 .. Size /\ Newlines \subseteq 1 .. Size
    BY JobType
  <1>2. \A f \in Ends : f <= x \/ e <= f
    BY <1>1 DEF Ends, Unbroken
  <1> DEFINE A == {f \in Ends : f <= x}
             B == {f \in Ends : f <= e}
  <1>3. B = A \cup {e} /\ e \notin A
    <2>1. \A f \in Ends : f \in Nat
      BY <1>1
    <2>2. \A f \in Ends : f <= e <=> (f <= x \/ f = e)
      BY <1>2, <2>1
    <2>3. ~(e <= x)
      BY <2>1
    <2> QED  BY <2>2, <2>3
  <1>4. Rank(x) = Cardinality(A) /\ Rank(e) = Cardinality(B)
    BY DEF Rank
  <1>5. IsFiniteSet(A)
    BY EndsFinite
  <1> HIDE DEF A, B
  <1> QED  BY <1>3, <1>4, <1>5, FS_AddElement

\* A line that ends later has more before it.
LEMMA RankGrows ==
  ASSUME job \in Job, NEW x \in Nat, NEW e \in Ends, x < e
  PROVE  Rank(x) < Rank(e)
  <1> DEFINE A == {f \in Ends : f <= x}
             B == {f \in Ends : f <= e}
  <1>1. Ends \subseteq 1 .. Size /\ Size \in Nat
    BY JobType
  <1>2. A \in SUBSET B /\ A # B
    <2>1. \A f \in Ends : f \in Nat
      BY <1>1
    <2>2. \A f \in Ends : f <= x => f <= e
      BY <2>1
    <2>3. e <= e /\ ~(e <= x)
      BY <2>1
    <2> QED  BY <2>2, <2>3
  <1>3. Rank(x) = Cardinality(A) /\ Rank(e) = Cardinality(B)
    BY DEF Rank
  <1>4. IsFiniteSet(B)
    BY EndsFinite
  <1>5. Rank(x) \in Nat /\ Rank(e) \in Nat
    BY EndsFinite
  <1> HIDE DEF A, B
  <1>6. Cardinality(A) <= Cardinality(B) /\ Cardinality(A) # Cardinality(B)
    BY <1>2, <1>4, FS_Subset
  <1> QED  BY <1>3, <1>5, <1>6

\* No line ends before the first byte, and all do by the last.
LEMMA RankBounds ==
  ASSUME job \in Job
  PROVE  Rank(0) = 0 /\ Rank(Size) = Cardinality(Ends)
  <1>1. Ends \subseteq 1 .. Size /\ Size \in Nat
    BY JobType
  <1>2. \A e \in Ends : ~(e <= 0) /\ e <= Size
    BY <1>1
  <1>3. {e \in Ends : e <= 0} = {} /\ {e \in Ends : e <= Size} = Ends
    BY <1>2
  <1> QED  BY <1>3, FS_EmptySet DEF Rank

\* LineEnds lists the ends in order.
LEMMA LineEndIs ==
  ASSUME job \in Job
  PROVE  /\ Len(LineEnds) = Cardinality(Ends)
         /\ \A e \in Ends : Rank(e) \in 1 .. Cardinality(Ends) /\ LineEnds[Rank(e)] = e
  <1> DEFINE c == Cardinality(Ends)
  <1>1. LineEnds = [k \in 1 .. c |-> CHOOSE e \in Ends : Rank(e) = k]
    BY DEF LineEnds, Ends, Newlines, Rank
  <1>2. c \in Nat
    BY EndsFinite
  <1>3. Ends \subseteq 1 .. Size /\ Size \in Nat
    BY JobType
  <1>4. ASSUME NEW e \in Ends PROVE Rank(e) \in 1 .. c /\ LineEnds[Rank(e)] = e
    <2>1. Rank(e) \in Nat /\ Rank(e) <= c
      BY EndsFinite
    <2>2. 0 \in Nat /\ 0 < e
      BY <1>3
    <2>3. 0 < Rank(e)
      BY <2>2, RankGrows, RankBounds
    <2>4. \A f \in Ends : Rank(f) = Rank(e) => f = e
      <3> SUFFICES ASSUME NEW f \in Ends, Rank(f) = Rank(e) PROVE f = e
        OBVIOUS
      <3>0. Rank(f) \in Nat /\ Rank(e) \in Nat
        BY EndsFinite
      <3>1. e \in Nat /\ f \in Nat /\ Rank(f) \in Nat /\ Rank(e) \in Nat
        BY <1>3, <3>0
      <3>2. ~(e < f) /\ ~(f < e)
        BY <3>1, RankGrows
      <3> QED  BY <3>1, <3>2
    <2>5. PICK k \in 1 .. c : k = Rank(e)
      BY <2>1, <2>3
    <2>6. LineEnds[k] = CHOOSE f \in Ends : Rank(f) = k
      BY <1>1
    <2>7. (CHOOSE f \in Ends : Rank(f) = k) = e
      BY <2>4, <2>5
    <2> QED  BY <2>5, <2>6, <2>7
  <1>5. Len(LineEnds) = c
    BY <1>1, <1>2
  <1> QED  BY <1>4, <1>5

\* A line is the bytes after the end of the one before it.
LEMMA SourceLineIs ==
  ASSUME job \in Job, NEW x \in Ends \cup {0}, NEW e \in Ends, x < e, Unbroken(x, e - 1)
  PROVE  /\ Rank(e) = Rank(x) + 1 /\ Rank(x) \in Nat
         /\ Rank(e) \in 1 .. Len(SourceLines) /\ Len(SourceLines) = Cardinality(Ends)
         /\ SourceLines[Rank(e)] = [i \in 1 .. e - x |-> <<1, x + i>>]
  <1>1. /\ Ends \subseteq 1 .. Size /\ Size \in Nat /\ x \in Nat /\ e \in Nat
    BY JobType
  <1>2. Rank(e) = Rank(x) + 1 /\ Rank(x) \in Nat
    BY <1>1, RankNext, EndsFinite
  <1>3. Rank(e) \in 1 .. Cardinality(Ends) /\ LineEnds[Rank(e)] = e /\ Len(LineEnds) = Cardinality(Ends)
    BY LineEndIs
  <1>4. PICK k \in 1 .. Len(LineEnds) : k = Rank(e)
    BY <1>3
  <1>5. (IF k = 1 THEN 0 ELSE LineEnds[k - 1]) = x
    <2>1. CASE x \in Ends
      <3>1. Rank(x) \in 1 .. Cardinality(Ends) /\ LineEnds[Rank(x)] = x
        BY <2>1, LineEndIs
      <3>2. k # 1 /\ k - 1 = Rank(x)
        BY <1>2, <1>4, <3>1
      <3> QED  BY <3>1, <3>2
    <2>2. CASE x \notin Ends
      <3>1. x = 0 /\ k = 1
        BY <1>2, <1>4, <2>2, RankBounds
      <3> QED  BY <3>1
    <2> QED  BY <2>1, <2>2
  <1>6. SourceLines[k] = [i \in 1 .. LineEnds[k] - x |-> <<1, x + i>>]
    <2>1. SourceLines[k] = LET before == IF k = 1 THEN 0 ELSE LineEnds[k - 1]
                           IN [i \in 1 .. LineEnds[k] - before |-> <<1, before + i>>]
      BY DEF SourceLines
    <2> QED  BY <1>5, <2>1
  <1>7. Len(SourceLines) = Len(LineEnds)
    BY <1>3, EndsFinite DEF SourceLines
  <1> QED  BY <1>2, <1>3, <1>4, <1>6, <1>7

\* The body is the lines after the header.
LEMMA BodyIs ==
  ASSUME job \in Job
  PROVE  /\ Len(Body) = Cardinality(Ends) - Top /\ Len(Body) \in Nat /\ Top \in {0, 1}
         /\ \A k \in 1 .. Len(Body) : Body[k] = SourceLines[k + Top]
         /\ Size > 0 => Size \in Ends
  <1>1. /\ Ends \subseteq 1 .. Size /\ Size \in Nat /\ (Size > 0 => Size \in Ends)
    BY JobType DEF Ends
  <1>2. PICK c \in Nat : c = Cardinality(Ends)
    BY EndsFinite
  <1>3. Len(LineEnds) = c
    BY <1>2, LineEndIs
  <1>4. PICK s : s = SourceLines
    OBVIOUS
  <1>5. s = [k \in 1 .. c |-> s[k]] /\ Len(s) = c
    BY <1>2, <1>3, <1>4 DEF SourceLines
  <1>6. CASE HasHeader
    <2>1. c # 0
      <3>1. Size \in Ends
        BY <1>1, <1>6 DEF HasHeader
      <3> QED  BY <1>2, <3>1, EndsFinite, FS_EmptySet
    <2>2. Body = Tail(s) /\ Top = 1
      BY <1>4, <1>6 DEF Body, Top
    <2>3. Tail(s) = [i \in 1 .. c - 1 |-> s[i + 1]]
      BY <1>5, <2>1
    <2> QED  BY <1>1, <1>2, <1>4, <2>1, <2>2, <2>3
  <1>7. CASE ~HasHeader
    BY <1>1, <1>2, <1>4, <1>5, <1>7 DEF Body, Top
  <1> QED  BY <1>6, <1>7

\* The first line is the header, if one is asked for.
LEMMA FirstLine ==
  ASSUME job \in Job, NEW e \in Ends, Unbroken(0, e - 1)
  PROVE  LineEnds[1] = e /\ Rank(e) = 1 /\ SourceLines[1] = [i \in 1 .. e |-> <<1, i>>]
  <1>1. Ends \subseteq 1 .. Size /\ Size \in Nat
    BY JobType
  <1>2. 0 < e /\ e - 0 = e
    BY <1>1
  <1>3. PICK x \in Ends \cup {0} : x = 0
    OBVIOUS
  <1>4. Rank(e) = Rank(x) + 1 /\ SourceLines[Rank(e)] = [i \in 1 .. e - x |-> <<1, x + i>>]
    BY <1>2, <1>3, SourceLineIs
  <1>5. Rank(e) = 1
    BY <1>3, <1>4, RankBounds
  <1>6. LineEnds[1] = e
    BY <1>5, LineEndIs
  <1>7. [i \in 1 .. e - 0 |-> <<1, 0 + i>>] = [i \in 1 .. e |-> <<1, i>>]
    BY <1>1
  <1> QED  BY <1>3, <1>4, <1>5, <1>6, <1>7

\* The next row, when the rows so far end at x, is the line from x to e.
LEMMA NextRow ==
  ASSUME job \in Job, NEW x \in Ends \cup {0}, NEW e \in Ends, x < e, Unbroken(x, e - 1),
         NEW n \in Nat, n = Rank(x) - Top
  PROVE  /\ n + 1 \in 1 .. Len(Body) /\ Body[n + 1] = [i \in 1 .. e - x |-> <<1, x + i>>]
         /\ Rank(e) - Top = n + 1
  <1>1. /\ Rank(e) = Rank(x) + 1 /\ Rank(x) \in Nat
        /\ Rank(e) \in 1 .. Len(SourceLines) /\ Len(SourceLines) = Cardinality(Ends)
        /\ SourceLines[Rank(e)] = [i \in 1 .. e - x |-> <<1, x + i>>]
    BY SourceLineIs
  <1>2. Len(Body) = Cardinality(Ends) - Top /\ Len(Body) \in Nat /\ Top \in {0, 1}
    BY BodyIs
  <1>3. (n + 1) + Top = Rank(e) /\ n + 1 \in 1 .. Len(Body)
    BY <1>1, <1>2, EndsFinite
  <1>4. Body[n + 1] = SourceLines[(n + 1) + Top]
    BY <1>3, BodyIs
  <1> QED  BY <1>1, <1>2, <1>3, <1>4


\* The header ends where the first line does, and some line is the first.
LEMMA HeaderEnd ==
  ASSUME job \in Job, Size > 0
  PROVE  /\ LineEnds[1] \in Ends /\ Rank(LineEnds[1]) = 1
         /\ SourceLines[1] = [i \in 1 .. LineEnds[1] |-> <<1, i>>]
  <1>1. Ends \subseteq 1 .. Size /\ Size \in Nat /\ Size \in Ends /\ Newlines \subseteq Ends
    BY JobType DEF Ends
  <1>2. PICK E : E = Ends
    OBVIOUS
  <1>3. PICK e \in E : \A f \in E : <<f, e>> \notin Less
    <2>1. E \subseteq Nat /\ E # {}
      BY <1>1, <1>2
    <2> QED  BY <2>1, LessWF, WFMin
  <1>4. \A f \in E : e <= f
    <2> TAKE f \in E
    <2>1. <<f, e>> \notin Less /\ f \in Nat /\ e \in Nat
      BY <1>1, <1>2, <1>3
    <2> QED  BY <2>1 DEF Less
  <1>5. Unbroken(0, e - 1)
    <2>1. \A p \in Newlines : p \in Nat /\ e <= p /\ e \in Nat
      BY <1>1, <1>2, <1>4
    <2> QED  BY <2>1 DEF Unbroken
  <1>6. e \in Ends
    BY <1>2
  <1>7. LineEnds[1] = e /\ Rank(e) = 1 /\ SourceLines[1] = [i \in 1 .. e |-> <<1, i>>]
    BY <1>5, <1>6, FirstLine
  <1> QED  BY <1>6, <1>7

\* What is true of the source stays true of it.
LEMMA Static ==
  ASSUME job' = job
  PROVE  /\ Size' = Size /\ Newlines' = Newlines /\ Ends' = Ends /\ LineEnds' = LineEnds
         /\ SourceLines' = SourceLines /\ Body' = Body /\ (HasHeader' <=> HasHeader) /\ Top' = Top
         /\ \A x : Rank(x)' = Rank(x)
         /\ \A a, b : Unbroken(a, b)' <=> Unbroken(a, b)
         /\ \A s, a : RowsAre(s, a)' <=> RowsAre(s, a)
  <1>1. Size' = Size /\ Newlines' = Newlines
    BY DEF Size, Newlines
  <1>2. LineEnds' = LineEnds /\ Ends' = Ends
    BY <1>1 DEF LineEnds, Ends, Newlines
  <1>3. SourceLines' = SourceLines /\ (HasHeader' <=> HasHeader)
    BY <1>1, <1>2 DEF SourceLines, HasHeader
  <1>4. Body' = Body /\ Top' = Top
    BY <1>3 DEF Body, Top
  <1> QED  BY <1>1, <1>2, <1>3, <1>4 DEF Rank, Unbroken, RowsAre

------------------------------------------------------------------------------
(* What the steps share.                                                     *)

\* Names for the bytes that were published and those in progress.
Out == FlattenSeq(PublishedRows)
Held == FlattenSeq(InProgress)

\* The numbers and sequences a run is about.
LEMMA Shapes ==
  ASSUME IInv
  PROVE  /\ job \in Job /\ gen \in 1 .. Len(job.versions) /\ gen \in Nat /\ gen >= 1
         /\ offset \in Nat /\ offset <= Size /\ Size \in Nat
         /\ headerLine \in Seq(Bits) /\ Len(headerLine) \in Nat
         /\ Len(pending) \in Nat /\ Len(row) \in Nat /\ Put \in Int
         /\ pending \in Seq(Byte) /\ row \in Seq(Byte) /\ headerLine \in Seq(Byte)
         /\ Out \in Seq(Bits) /\ Len(Out) \in Nat /\ N \in Nat
  <1>1. job \in Job /\ gen \in 1 .. Len(job.versions) /\ offset \in 0 .. Size
    BY DEF IInv, TypeOK
  <1>2. pending \in Seq(Byte) /\ row \in Seq(Byte) /\ headerLine \in Seq(Byte)
    BY DEF IInv, TypeOK
  <1>3. Len(pending) \in Nat /\ Len(row) \in Nat /\ Len(headerLine) \in Nat
    BY <1>2, LenProperties
  <1>4. headerLine \in Seq(Bits)
    BY DEF IInv, ReaderInv, Stretch
  <1>5. Size \in Nat /\ Len(job.versions) \in Nat
    BY <1>1, JobType
  <1>6. Put \in Int
    BY <1>1, <1>3, <1>5 DEF Put
  <1>7. Out \in Seq(Bits) /\ Len(Out) \in Nat
    BY LenProperties DEF IInv, ShardsInv, Stretch, Out
  <1>8. N \in Nat
    BY LenProperties DEF IInv, TypeOK, N
  <1> QED  BY <1>1, <1>2, <1>3, <1>4, <1>5, <1>6, <1>7, <1>8

\* Published shards that are left alone stay what they are.
LEMMA ShardsFrame ==
  ASSUME ShardsInv, UNCHANGED <<job, shardFile, headerLine, gen>>
  PROVE  ShardsInv' /\ M' = M /\ PublishedRows' = PublishedRows /\ Published' = Published
  <1>1. Published' = Published
    BY DEF Published, New
  <1>2. M' = M /\ PublishedRows' = PublishedRows
    BY <1>1 DEF M, PublishedRows
  <1>3. (HeaderRead' <=> HeaderRead) /\ Size' = Size
    BY Static DEF HeaderRead
  <1>4. RowsAre(PublishedRows, 0)' <=> RowsAre(PublishedRows, 0)
    BY <1>2, Static DEF RowsAre
  <1>5. Stretch(FlattenSeq(PublishedRows), Len(headerLine), gen)' <=> Stretch(FlattenSeq(PublishedRows), Len(headerLine), gen)
    BY <1>2
  <1> QED  BY <1>1, <1>2, <1>3, <1>4, <1>5 DEF ShardsInv

\* A reader that is left alone stays where it is, unless a line is in hand.
LEMMA ReaderFrame ==
  ASSUME ReaderInv, LineInv, Past,
         UNCHANGED <<job, gen, offset, headerLine, pending, row, drained>>,
         \/ pc' = pc
         \/ /\ pc # "row" /\ pc' \in {"lines", "flush", "unlink", "rename", "record"} \cup Ending
            /\ pc' = "lines" => ~drained
            /\ pc' \in Ending => drained
  PROVE  ReaderInv' /\ LineInv' /\ Put' = Put /\ Handed' = Handed /\ Past'
  <1>1. Put' = Put
    BY DEF Put, Ending
  <1>2. Handed' = Handed
    BY <1>1, Static DEF Handed, Rank
  <1>3. Past'
    BY DEF Past, Dead, Ending
  <1>4. ReaderInv'
    BY <1>1, <1>3 DEF ReaderInv, Past, Ending
  <1>5. (HeaderRead' <=> HeaderRead) /\ Size' = Size /\ Ends' = Ends /\ Newlines' = Newlines
    BY Static DEF HeaderRead
  <1>6. LineInv'
    BY <1>1, <1>3, <1>5 DEF LineInv, Past, Ending, Unbroken
  <1> QED  BY <1>1, <1>2, <1>3, <1>4, <1>6

\* A shard in progress that is left alone stays what it is.
LEMMA ProgressFrame ==
  ASSUME ProgressInv, ShardsInv, CarrierInv, Past, Past',
         UNCHANGED <<job, gen, headerLine, shardFile, shardPart, index, shard, result, Put, Handed>>,
         pc = "record" <=> pc' = "record", pc = "row" \/ pc' # "row"
  PROVE  ProgressInv' /\ InProgress' = InProgress
  <1>1. M' = M /\ PublishedRows' = PublishedRows
    BY ShardsFrame
  <1>2. InProgress' = InProgress
    BY DEF InProgress
  <1>3. Live' => Live
    BY DEF Live, Past
  <1>4. RowsAre(InProgress, Len(PublishedRows))' <=> RowsAre(InProgress, Len(PublishedRows))
    BY <1>1, <1>2, Static DEF RowsAre
  <1> QED  BY <1>1, <1>2, <1>3, <1>4 DEF ProgressInv, N

\* On its way out a run only leaves what it published.
LEMMA WayOut ==
  ASSUME IInv, pc' \in Dead, UNCHANGED <<job, shardFile, gen, headerLine>>
  PROVE  ReaderInv' /\ LineInv' /\ ShardsInv' /\ ProgressInv' /\ CarrierInv'
  <1>1. ShardsInv'
    BY ShardsFrame DEF IInv
  <1>2. ~Past' /\ ~Live'
    BY DEF Past, Live
  <1>3. ReaderInv' /\ LineInv'
    BY <1>2 DEF IInv, ReaderInv, LineInv, Dead
  <1> QED  BY <1>1, <1>2, <1>3 DEF ProgressInv, CarrierInv

\* Before the first row nothing is published or in progress.
LEMMA Nothing ==
  ASSUME Published = {}, UNCHANGED <<job, shardFile>>, shard'.st = "none", N' = 0,
         Live' => index' = 0, pc' # "record", Len(headerLine') \in Nat,
         Past' => Put' = Len(headerLine'),
         Past' /\ gen' = 1 => Handed' = 0
  PROVE  ShardsInv' /\ ProgressInv' /\ CarrierInv'
  <1>1. Published' = {}
    BY DEF Published, New
  <1>2. M' = 0
    BY <1>1, FS_EmptySet DEF M
  <1>3. PublishedRows' = <<>>
    <2>1. PublishedRows' = FlattenSeq([i \in 1 .. 0 |-> shardFile'[i].rows])
      BY <1>2 DEF PublishedRows, M
    <2>2. [i \in 1 .. 0 |-> shardFile'[i].rows] = <<>>
      OBVIOUS
    <2> QED  BY <2>1, <2>2, FlattenEmpty
  <1>4. InProgress' = <<>>
    BY DEF InProgress
  <1>5. FlattenSeq(<<>>) = <<>> /\ Len(<<>>) = 0 /\ <<>> \in Seq(Seq(Bits))
    BY FlattenEmpty, EmptySeq
  <1>6. \A a, g : Stretch(<<>>, a, g)
    BY StretchEmpty
  <1>7. \A a : RowsAre(<<>>, a)'
    BY <1>5 DEF RowsAre
  <1>8. RowsAre(PublishedRows, 0)' /\ RowsAre(InProgress, Len(PublishedRows))'
    BY <1>3, <1>4, <1>5 DEF RowsAre
  <1>9. ShardsInv'
    <2>1. Published' = 1 .. M' /\ M' \in Nat
      BY <1>1, <1>2
    <2>2. Stretch(FlattenSeq(PublishedRows), Len(headerLine), gen)'
      BY <1>3, <1>5, <1>6
    <2>3. ~(M' > 0)
      BY <1>2
    <2> QED  BY <1>1, <1>3, <1>5, <1>8, <2>1, <2>2, <2>3 DEF ShardsInv
  <1>10. ProgressInv'
    <2>1. Stretch(FlattenSeq(InProgress), Len(headerLine) + Len(FlattenSeq(PublishedRows)), gen)'
      BY <1>4, <1>5, <1>6
    <2>2. Past' => Put' = Len(headerLine') + Len(FlattenSeq(PublishedRows')) + Len(FlattenSeq(InProgress'))
      BY <1>3, <1>4, <1>5
    <2>3. Past' /\ gen' = 1 => Handed' = Len(PublishedRows') + Len(InProgress')
      BY <1>3, <1>4, <1>5
    <2> QED  BY <1>2, <1>4, <1>5, <1>8, <2>1, <2>2, <2>3 DEF ProgressInv
  <1>11. CarrierInv'
    BY DEF CarrierInv
  <1> QED  BY <1>9, <1>10, <1>11

\* Where LineOf and RestOf cut, if there is a newline.
LEMMA LineOfIs ==
  ASSUME NEW s, NEW a \in Int, NEW g, Stretch(s, a, g)
  PROVE  \/ LineOf(s) = <<>> /\ \A k \in 1 .. Len(s) : ~EndsLine(s[k])
         \/ \E m \in 1 .. Len(s) :
              /\ LineOf(s) # <<>> /\ LineOf(s) = SubSeq(s, 1, m) /\ RestOf(s) = SubSeq(s, m + 1, Len(s))
              /\ EndsLine(s[m]) /\ \A k \in 1 .. Len(s) : k < m => ~EndsLine(s[k])
  <1>1. Len(s) \in Nat
    BY LenProperties DEF Stretch
  <1>2. PICK m : m = SelectInSeq(s, EndsLine)
    OBVIOUS
  <1>3. LineOf(s) = SubSeq(s, 1, m) /\ RestOf(s) = SubSeq(s, m + 1, Len(s))
    BY <1>2 DEF LineOf, RestOf
  <1>4. \/ m = 0 /\ \A k \in 1 .. Len(s) : ~EndsLine(s[k])
        \/ m \in 1 .. Len(s) /\ EndsLine(s[m]) /\ \A k \in 1 .. Len(s) : k < m => ~EndsLine(s[k])
    BY <1>1, <1>2, FirstNewline
  <1>5. m \in 0 .. Len(s)
    BY <1>1, <1>4
  <1>6. Len(SubSeq(s, 1, m)) = m /\ SubSeq(s, 1, m) \in Seq(Bits)
    BY <1>5, StretchCut DEF Stretch
  <1>7. CASE m = 0
    BY <1>3, <1>4, <1>6, <1>7, EmptySeq
  <1>8. CASE m # 0
    <2>1. SubSeq(s, 1, m) # <<>>
      BY <1>6, <1>8, EmptySeq
    <2> QED  BY <1>3, <1>4, <1>8, <2>1
  <1> QED  BY <1>7, <1>8

\* Which bytes of the object that Stat saw end a line.
LEMMA EndsLineIs ==
  ASSUME NEW s, NEW a, Stretch(s, a, 1), NEW k \in 1 .. Len(s)
  PROVE  EndsLine(s[k]) <=> a + k \in Newlines
  BY DEF Stretch, EndsLine, Newlines


\* The reader's variables have their shapes as long as nobody touches them.
LEMMA ReadTyped ==
  ASSUME IInv, UNCHANGED <<job, gen, offset, headerLine, pending, row, drained>>
  PROVE  /\ {headerLine', pending', row'} \subseteq Seq(Byte')
         /\ gen' \in 1 .. Len(job'.versions) /\ offset' \in 0 .. Size' /\ drained' \in BOOLEAN
  <1>1. Byte' = Byte /\ Size' = Size
    BY DEF Byte, Size
  <1>2. /\ {headerLine, pending, row} \subseteq Seq(Byte)
        /\ gen \in 1 .. Len(job.versions) /\ offset \in 0 .. Size /\ drained \in BOOLEAN
    BY DEF IInv, TypeOK
  <1> QED  BY <1>1, <1>2

------------------------------------------------------------------------------
(* One lemma per action, with one step per part of the invariant.            *)

\* newManifestWriter keeps the invariant: nothing is published or open yet.
LEMMA StartStep == IInv /\ Start => IInv'
  <1> SUFFICES ASSUME IInv, Start PROVE IInv'
    OBVIOUS
  <1> USE DEF Start, NewManifestWriter, Writes, disk, readVars
  <1>0. /\ pc = "start" /\ pc' \in {"header", "loop", "failed"}
        /\ UNCHANGED <<job, shardFile, gen, offset, headerLine, pending, row, drained, shard, index, result>>
    OBVIOUS
  <1>1. TypeOK'
    <2>1. manPart' \in Seq(EntryType) \cup {None, Old}
      BY EmptySeq DEF IInv, TypeOK
    <2>2. man' \in {"none", "open", "closed", "aborted"}
      BY DEF IInv, TypeOK
    <2> QED  BY <2>1, <2>2, ReadTyped DEF IInv, TypeOK, Terminal
  <1>2. WriterInv'
    <2>1. man' = "open" => manPart' \in Seq(EntryType)
      BY EmptySeq DEF IInv, WriterInv
    <2> QED  BY <2>1 DEF IInv, WriterInv, Published, New, N, Ending
  <1>3. CASE pc' = "failed"
    <2>1. ReaderInv' /\ LineInv' /\ ShardsInv' /\ ProgressInv' /\ CarrierInv'
      BY <1>0, <1>3, WayOut DEF Dead
    <2> QED  BY <1>1, <1>2, <2>1 DEF IInv
  <1>4. CASE pc' # "failed"
    <2>0. pc' = IF job.header THEN "header" ELSE "loop"
      BY <1>4
    <2>1. /\ pending = <<>> /\ row = <<>> /\ ~drained /\ offset = 0 /\ Len(headerLine) = 0 /\ headerLine = <<>>
      BY <1>0, Shapes, EmptySeq DEF IInv, ReaderInv
    <2>2. Len(<<>>) = 0
      BY EmptySeq
    <2>3. Put' = 0
      <3>1. pc' # "row" /\ offset' = 0 /\ pending' = <<>>
        BY <1>0, <2>1
      <3>2. Len(pending') = 0
        BY <2>2, <3>1
      <3>3. Put' = offset' - Len(pending') - 0
        BY <3>1 DEF Put
      <3> QED  BY <3>1, <3>2, <3>3
    <2>4. Stretch(headerLine', 0, gen')
      BY <1>0 DEF IInv, ReaderInv
    <2>5. ReaderInv'
      <3>1. Stretch(pending', offset' - Len(pending'), gen')
        BY <1>0, <2>1, StretchEmpty
      <3> QED  BY <1>0, <2>0, <2>1, <2>2, <2>3, <2>4, <3>1 DEF ReaderInv, Past, Ending
    <2>6. Rank(0) = 0 /\ job \in Job /\ Size \in Nat /\ Newlines \subseteq 1 .. Size
      BY Shapes, RankBounds, JobType
    <2>7. LineInv'
      <3>1. Unbroken(0, 0)
        BY <2>6 DEF Unbroken
      <3>2. pc' = "header" => job.header /\ Unbroken(0, offset)' /\ (offset' < Size' \/ Size' = 0)
        <4>1. Newlines' = Newlines /\ Size' = Size
          BY <1>0, Static
        <4>2. Unbroken(0, offset)'
          BY <1>0, <2>1, <3>1, <4>1 DEF Unbroken
        <4>3. offset' < Size' \/ Size' = 0
          BY <1>0, <2>1, <2>6, <4>1
        <4> QED  BY <1>0, <2>0, <4>2, <4>3
      <3>3. Past' => HeaderRead' /\ Put' \in Ends' \cup {0} /\ Unbroken(Put, offset)'
        <4>1. pc' = "loop" => ~job.header
          BY <1>0, <2>0
        <4>2. pc' = "loop" => HeaderRead'
          BY <1>0, <2>1, <4>1 DEF HeaderRead, HasHeader
        <4>3. Unbroken(Put, offset)'
          BY <1>0, <2>1, <2>3, <3>1, Static DEF Unbroken
        <4> QED  BY <2>0, <2>3, <4>2, <4>3 DEF Past
      <3> QED  BY <1>0, <2>0, <2>1, <3>2, <3>3 DEF LineInv
    <2>8. Past' => Handed' = 0
      <3> SUFFICES ASSUME Past' PROVE Handed' = 0
        OBVIOUS
      <3>1. ~HasHeader
        BY <2>0 DEF Past, HasHeader
      <3>2. Top' = 0
        BY <1>0, <3>1, Static DEF Top
      <3>3. Rank(Put)' = 0
        BY <1>0, <2>3, <2>6, Static DEF Rank
      <3> QED  BY <3>2, <3>3 DEF Handed
    <2>9. ShardsInv' /\ ProgressInv' /\ CarrierInv'
      <3>1. Published = {} /\ shard'.st = "none" /\ N' = 0
        BY <1>0 DEF IInv, WriterInv, N
      <3>2. Live' => index' = 0
        <4>1. Live' => Live
          BY <1>0 DEF Live, Dead
        <4> QED  BY <1>0, <3>1, <4>1 DEF IInv, ProgressInv, N
      <3> QED  BY <1>0, <2>0, <2>1, <2>2, <2>3, <2>8, <3>1, <3>2, Nothing
    <2> QED  BY <1>1, <1>2, <2>5, <2>7, <2>9 DEF IInv
  <1> QED  BY <1>3, <1>4

\* An empty object keeps the invariant: it has no header.
LEMMA NoHeaderStep == IInv /\ NoHeader => IInv'
  <1> SUFFICES ASSUME IInv, NoHeader PROVE IInv'
    OBVIOUS
  <1> USE DEF NoHeader, disk, readVars
  <1>0. /\ pc = "header" /\ pc' = "loop" /\ offset >= Size
        /\ UNCHANGED <<job, shardFile, gen, offset, headerLine, pending, row, drained, shard, index, result>>
    OBVIOUS
  <1>1. TypeOK'
    BY ReadTyped DEF IInv, TypeOK, Terminal
  <1>2. WriterInv'
    BY DEF IInv, WriterInv, Published, New, N, Ending
  <1>3. /\ pending = <<>> /\ row = <<>> /\ ~drained /\ offset = Len(headerLine) /\ offset \in Nat /\ Size \in Nat
    BY <1>0, Shapes DEF IInv, ReaderInv
  <1>4. Len(<<>>) = 0
    BY EmptySeq
  <1>5. Put' = offset
    BY <1>0, <1>3, <1>4 DEF Put
  <1>6. ReaderInv'
    <2>1. Stretch(pending', offset' - Len(pending'), gen')
      BY <1>0, <1>3, StretchEmpty
    <2>2. Stretch(headerLine', 0, gen')
      BY <1>0 DEF IInv, ReaderInv
    <2> QED  BY <1>0, <1>3, <1>5, <2>1, <2>2 DEF ReaderInv, Past, Ending
  <1>7. gen = 1 => Size = 0 /\ offset = 0
    BY <1>0, <1>3, Shapes DEF IInv, LineInv
  <1>8. Rank(0) = 0 /\ job \in Job
    BY Shapes, RankBounds
  <1>9. LineInv'
    <2> SUFFICES ASSUME gen' = 1 PROVE LineInv'
      BY DEF LineInv
    <2>1. Size = 0 /\ offset = 0 /\ Put' = 0
      BY <1>0, <1>5, <1>7
    <2>2. HeaderRead'
      BY <1>0, <1>3, <2>1, Static DEF HeaderRead, HasHeader
    <2>3. Unbroken(Put, offset)'
      <3>1. Newlines \subseteq 1 .. Size
        BY <1>8, JobType
      <3>2. Newlines' = Newlines /\ offset' = 0 /\ Newlines = {}
        BY <1>0, <2>1, <3>1, Static
      <3> QED  BY <3>2 DEF Unbroken
    <2> QED  BY <1>0, <1>3, <2>1, <2>2, <2>3 DEF LineInv
  <1>10. gen' = 1 => Handed' = 0
    <2> SUFFICES ASSUME gen' = 1 PROVE Handed' = 0
      OBVIOUS
    <2>1. Size = 0 /\ Put' = 0
      BY <1>0, <1>5, <1>7
    <2>2. Top' = 0 /\ Rank(Put)' = 0
      BY <1>0, <1>8, <2>1, Static DEF Top, HasHeader, Rank
    <2> QED  BY <2>2 DEF Handed
  <1>11. ShardsInv' /\ ProgressInv' /\ CarrierInv'
    <2>1. Published = {} /\ shard'.st = "none" /\ N' = 0
      BY <1>0 DEF IInv, WriterInv, N
    <2>2. Live' => index' = 0
      <3>1. Live' => Live
        BY <1>0 DEF Live, Dead
      <3> QED  BY <1>0, <2>1, <3>1 DEF IInv, ProgressInv, N
    <2> QED  BY <1>0, <1>3, <1>4, <1>5, <1>10, <2>1, <2>2, Nothing
  <1> QED  BY <1>1, <1>2, <1>6, <1>9, <1>11 DEF IInv


\* A reader that fails keeps the invariant.
LEMMA ReadFailsStep == IInv /\ ReadFails => IInv'
  <1> SUFFICES ASSUME IInv, ReadFails PROVE IInv'
    OBVIOUS
  <1> USE DEF ReadFails, disk, readVars
  <1>1. TypeOK'
    BY ReadTyped DEF IInv, TypeOK, Terminal
  <1>2. WriterInv'
    BY DEF IInv, WriterInv, Published, New, N, Ending
  <1>3. ReaderInv' /\ LineInv' /\ ShardsInv' /\ ProgressInv' /\ CarrierInv'
    BY WayOut DEF Dead
  <1> QED  BY <1>1, <1>2, <1>3 DEF IInv

\* A range asked for lies within the size that Stat returned.
LEMMA LengthIs ==
  ASSUME NEW b \in Nat, offset \in Nat, Size \in Nat, offset <= Size
  PROVE  /\ Length(b) \in Nat /\ offset + Length(b) <= Size
         /\ b > 0 /\ offset < Size => Length(b) > 0
  <1>1. Length(b) = IF b < Size - offset THEN b ELSE Size - offset
    BY DEF Length
  <1>2. PICK o, z \in Nat : o = offset /\ z = Size
    OBVIOUS
  <1> QED  BY <1>1, <1>2

\* What a probe adds to the header: no further than the first newline.
LEMMA Probed ==
  ASSUME IInv, pc = "header", offset < Size,
         NEW got, got = Bytes(offset, Length(Probe)), got # <<>>,
         NEW part, part = IF LineOf(got) = <<>> THEN got ELSE LineOf(got)
  PROVE  /\ Stretch(part, offset, gen) /\ Len(part) \in Nat /\ Len(part) > 0
         /\ offset + Len(part) <= Size
         /\ \A k \in 1 .. Len(part) : k < Len(part) => ~EndsLine(part[k])
  <1>1. job \in Job /\ gen \in 1 .. Len(job.versions) /\ offset \in Nat /\ Size \in Nat
    BY Shapes
  <1>2. PICK n \in Nat : n = Length(Probe) /\ offset + n <= Size
    <2>1. Probe \in Nat
      BY BlocksAssumption
    <2> QED  BY <1>1, <2>1, LengthIs
  <1>3. Stretch(got, offset, gen) /\ Len(got) \in 0 .. n
    BY <1>1, <1>2, BytesAre
  <1>4. Len(got) > 0
    BY <1>3, EmptySeq DEF Stretch
  <1>5. CASE LineOf(got) = <<>>
    <2>1. \A k \in 1 .. Len(got) : ~EndsLine(got[k])
      BY <1>1, <1>3, <1>5, LineOfIs
    <2> QED  BY <1>1, <1>2, <1>3, <1>4, <1>5, <2>1
  <1>6. CASE LineOf(got) # <<>>
    <2>1. PICK m \in 1 .. Len(got) :
            /\ LineOf(got) = SubSeq(got, 1, m)
            /\ \A k \in 1 .. Len(got) : k < m => ~EndsLine(got[k])
      BY <1>1, <1>3, <1>6, LineOfIs
    <2>2. /\ Stretch(SubSeq(got, 1, m), offset, gen) /\ Len(SubSeq(got, 1, m)) = m
          /\ \A k \in 1 .. m : SubSeq(got, 1, m)[k] = got[k]
      <3>1. m \in 0 .. Len(got)
        OBVIOUS
      <3> QED  BY <1>1, <1>3, <3>1, StretchCut
    <2>3. part = SubSeq(got, 1, m)
      BY <1>6, <2>1
    <2>4. Stretch(part, offset, gen) /\ Len(part) = m
      BY <2>2, <2>3
    <2>5. m \in Nat /\ m > 0 /\ offset + m <= Size
      BY <1>1, <1>2, <1>3
    <2>6. \A k \in 1 .. m : k < m => ~EndsLine(part[k])
      BY <1>3, <2>1, <2>2, <2>3
    <2> QED  BY <2>4, <2>5, <2>6
  <1> QED  BY <1>5, <1>6

\* A probe of the header keeps the invariant, whether the line goes on or not.
LEMMA ProbeHeaderStep == IInv /\ ProbeHeader => IInv'
  <1> SUFFICES ASSUME IInv, ProbeHeader PROVE IInv'
    OBVIOUS
  <1>0. /\ pc = "header" /\ offset < Size
        /\ UNCHANGED <<job, cancelled, shardFile, shardPart, manFile, manPart, index, shard, man, dry,
                       result, gen, pending, row, drained>>
    BY DEF ProbeHeader, disk
  <1>1. /\ job \in Job /\ gen \in 1 .. Len(job.versions) /\ gen \in Nat /\ gen >= 1
        /\ offset \in Nat /\ Size \in Nat /\ Len(headerLine) \in Nat /\ Len(job.versions) \in Nat
    BY Shapes, JobType
  <1>2. pending = <<>> /\ row = <<>> /\ ~drained /\ offset = Len(headerLine) /\ Stretch(headerLine, 0, gen)
    BY <1>0 DEF IInv, ReaderInv
  <1>3. Len(<<>>) = 0 /\ \A S : <<>> \in Seq(S)
    BY EmptySeq
  <1>4. PICK got : got = Bytes(offset, Length(Probe))
    OBVIOUS
  <1>5. PICK part : part = IF LineOf(got) = <<>> THEN got ELSE LineOf(got)
    OBVIOUS
  <1>6. IF got = <<>>
        THEN headerLine' = <<>> /\ offset' = 0 /\ pc' = "loop"
        ELSE /\ headerLine' = headerLine \o part
             /\ offset' = offset + Len(part)
             /\ pc' = IF EndsLine(part[Len(part)]) \/ offset' >= Size THEN "loop" ELSE "header"
    BY <1>4, <1>5 DEF ProbeHeader
  <1>7. pc' \in {"header", "loop"}
    BY <1>6
  <1>8. WriterInv'
    BY <1>0, <1>7 DEF IInv, WriterInv, Published, New, N, Ending
  <1>9. Published = {} /\ shard'.st = "none" /\ N' = 0 /\ (Live' => index' = 0)
    <2>1. Live' => Live
      BY <1>0, <1>7 DEF Live, Dead
    <2>2. Published = {} /\ shard.st = "none" /\ N = 0
      BY <1>0 DEF IInv, WriterInv
    <2>3. Live => index = 0
      BY <1>0, <2>2 DEF IInv, ProgressInv
    <2> QED  BY <1>0, <2>1, <2>2, <2>3 DEF N
  <1>10. /\ Size' = Size /\ Newlines' = Newlines /\ Ends' = Ends
         /\ (HasHeader' <=> HasHeader) /\ LineEnds' = LineEnds /\ Top' = Top
    BY <1>0, Static
  <1>11. /\ Stretch(headerLine', 0, gen') /\ Len(headerLine') = offset' /\ offset' \in Nat /\ offset' <= Size
    <2>1. CASE got = <<>>
      BY <1>0, <1>1, <1>3, <1>6, <2>1, StretchEmpty
    <2>2. CASE got # <<>>
      <3>1. Stretch(part, offset, gen) /\ Len(part) \in Nat /\ offset + Len(part) <= Size
        BY <1>0, <1>4, <1>5, <2>2, Probed
      <3>2. Stretch(headerLine \o part, 0, gen) /\ Len(headerLine \o part) = Len(headerLine) + Len(part)
        BY <1>1, <1>2, <3>1, StretchJoin
      <3>3. headerLine' = headerLine \o part /\ offset' = offset + Len(part)
        BY <1>6, <2>2
      <3>4. Len(headerLine') = offset' /\ offset' \in Nat /\ offset' <= Size
        BY <1>1, <1>2, <3>1, <3>2, <3>3
      <3> QED  BY <1>0, <3>2, <3>3, <3>4
    <2> QED  BY <2>1, <2>2
  <1>12. Put' = offset'
    <2>1. pc' # "row" /\ Len(pending') = 0
      BY <1>0, <1>2, <1>3, <1>7
    <2>2. Put' = offset' - Len(pending') - 0
      BY <2>1 DEF Put
    <2>3. PICK o \in Nat : o = offset'
      BY <1>11
    <2>4. o - 0 - 0 = o
      OBVIOUS
    <2> QED  BY <2>1, <2>2, <2>3, <2>4
  <1>13. TypeOK'
    <2>1. headerLine' \in Seq(Byte')
      <3>1. gen' <= Len(job'.versions) /\ Len(job'.versions) \in Nat /\ 0 + Len(headerLine') <= offset'
        <4>1. job' = job /\ gen' = gen
          BY <1>0
        <4>2. Len(headerLine') = offset' /\ offset' \in Nat
          BY <1>11
        <4>3. PICK v \in Nat : v = Len(job.versions) /\ gen <= v
          BY <1>1
        <4>4. PICK o \in Nat : o = offset'
          BY <4>2
        <4>5. 0 + o <= o
          OBVIOUS
        <4> QED  BY <4>1, <4>2, <4>3, <4>4, <4>5
      <3>3. headerLine' \in Seq(Bits) /\ \A k \in 1 .. Len(headerLine') : headerLine'[k] \in Byte'
        <4>1. headerLine' \in Seq(Bits)
          BY <1>11 DEF Stretch
        <4>2. ASSUME NEW k \in 1 .. Len(headerLine') PROVE headerLine'[k] \in Byte'
          <5>1. headerLine'[k] \in Nat \X Nat
            BY <4>1, ElementOfSeq DEF Bits
          <5>2. headerLine'[k][1] \in 1 .. Len(job'.versions) /\ headerLine'[k][2] \in 1 .. offset'
            BY <1>0, <1>1, <1>11, <3>1 DEF Stretch
          <5>3. PICK v \in 1 .. Len(job'.versions), p \in 1 .. offset' : v = headerLine'[k][1] /\ p = headerLine'[k][2]
            BY <5>2
          <5>4. headerLine'[k] = <<v, p>>
            BY <5>1, <5>3
          <5> QED  BY <5>4 DEF Byte
        <4> QED  BY <4>1, <4>2
      <3>4. headerLine' = [k \in 1 .. Len(headerLine') |-> headerLine'[k]] /\ Len(headerLine') \in Nat
        BY <3>3, LenProperties
      <3> QED  BY <3>3, <3>4
    <2>2. pending' \in Seq(Byte') /\ row' \in Seq(Byte')
      BY <1>0, <1>2, <1>3
    <2> QED  BY <1>0, <1>1, <1>7, <1>10, <1>11, <2>1, <2>2 DEF IInv, TypeOK
  <1>14. ReaderInv'
    <2>1. Stretch(pending', offset' - Len(pending'), gen')
      BY <1>0, <1>2, StretchEmpty
    <2> QED  BY <1>0, <1>2, <1>3, <1>7, <1>11, <1>12, <2>1 DEF ReaderInv, Past, Ending
  <1>15. gen' = 1 => /\ got # <<>> /\ job.header
                     /\ Unbroken(0, offset' - 1) /\ offset' \in Nat /\ offset' > 0
                     /\ pc' = "header" => Unbroken(0, offset') /\ offset' < Size
                     /\ pc' = "loop" => offset' \in Ends
    <2> SUFFICES ASSUME gen' = 1
                 PROVE  /\ got # <<>> /\ job.header
                        /\ Unbroken(0, offset' - 1) /\ offset' \in Nat /\ offset' > 0
                        /\ pc' = "header" => Unbroken(0, offset') /\ offset' < Size
                        /\ pc' = "loop" => offset' \in Ends
      OBVIOUS
    <2>1. got # <<>>
      <3>1. Probe \in Nat \ {0}
        BY BlocksAssumption
      <3>3. PICK n \in Nat : n = Length(Probe) /\ n > 0 /\ offset + n <= Size
        <4>1. Probe \in Nat /\ Probe > 0 /\ offset \in Nat /\ Size \in Nat /\ offset < Size /\ offset <= Size
          BY <1>0, <1>1, <3>1
        <4> QED  BY <4>1, LengthIs
      <3>4. Len(got) = n
        BY <1>0, <1>1, <1>4, <3>3, BytesAre
      <3> QED  BY <1>3, <3>3, <3>4
    <2>2. /\ Stretch(part, offset, 1) /\ Len(part) \in Nat /\ Len(part) > 0
          /\ offset + Len(part) <= Size
          /\ \A k \in 1 .. Len(part) : k < Len(part) => ~EndsLine(part[k])
      BY <1>0, <1>4, <1>5, <2>1, Probed
    <2>3. \A k \in 1 .. Len(part) : EndsLine(part[k]) <=> offset + k \in Newlines
      BY <2>2, EndsLineIs
    <2>4. job.header /\ Unbroken(0, offset)
      BY <1>0 DEF IInv, LineInv
    <2>5. Newlines \subseteq 1 .. Size /\ Newlines \subseteq Ends /\ (Size > 0 => Size \in Ends)
      BY <1>1, JobType DEF Ends
    <2>6. offset' = offset + Len(part) /\ pc' = IF EndsLine(part[Len(part)]) \/ offset' >= Size THEN "loop" ELSE "header"
      BY <1>6, <2>1
    <2>7. PICK m \in Nat : m = Len(part) /\ m > 0
      BY <2>2
    <2>8. \A p \in Newlines : p <= 0 \/ offset + m - 1 < p
      <3> SUFFICES ASSUME NEW p \in Newlines PROVE p <= 0 \/ offset + m - 1 < p
        OBVIOUS
      <3>1. p \in Nat /\ (p <= 0 \/ offset < p)
        BY <1>1, <2>4, <2>5 DEF Unbroken
      <3>2. CASE offset < p /\ p <= offset + m - 1
        <4>1. p - offset \in 1 .. m /\ p - offset < m /\ offset + (p - offset) = p
          BY <1>1, <3>1, <3>2
        <4> QED  BY <2>2, <2>3, <2>7, <4>1
      <3> QED  BY <1>1, <3>1, <3>2
    <2>9. Unbroken(0, offset' - 1) /\ offset' \in Nat /\ offset' > 0
      <3>1. offset' - 1 = offset + m - 1
        BY <1>1, <2>6, <2>7
      <3> QED  BY <1>1, <2>6, <2>7, <2>8, <3>1 DEF Unbroken
    <2>10. EndsLine(part[Len(part)]) <=> offset' \in Newlines
      BY <2>2, <2>3, <2>6, <2>7
    <2>11. CASE pc' = "header"
      <3>1. offset' \notin Newlines /\ offset' < Size
        BY <1>1, <2>2, <2>6, <2>10, <2>11
      <3>2. \A p \in Newlines : p \in Nat /\ p # offset'
        BY <2>5, <3>1
      <3>3. Unbroken(0, offset')
        BY <2>9, <3>2 DEF Unbroken
      <3> QED  BY <2>1, <2>4, <2>9, <2>11, <3>1, <3>3
    <2>12. CASE pc' = "loop"
      <3>1. offset' \in Newlines \/ offset' = Size
        BY <1>1, <2>2, <2>6, <2>10, <2>12
      <3> QED  BY <2>1, <2>4, <2>5, <2>9, <2>12, <3>1
    <2> QED  BY <1>7, <2>11, <2>12
  <1>16. gen' = 1 /\ pc' = "loop" => HeaderRead' /\ Rank(offset') = 1 /\ Top = 1
    <2> SUFFICES ASSUME gen' = 1, pc' = "loop" PROVE HeaderRead' /\ Rank(offset') = 1 /\ Top = 1
      OBVIOUS
    <2>1. HasHeader /\ Top = 1
      BY <1>0, <1>1, <1>15 DEF HasHeader, Top
    <2>2. PICK e \in Ends : e = offset'
      BY <1>15
    <2>3. LineEnds[1] = e /\ Rank(e) = 1
      BY <1>1, <1>15, <2>2, FirstLine
    <2>4. HeaderRead'
      BY <1>10, <1>11, <2>1, <2>2, <2>3 DEF HeaderRead
    <2> QED  BY <2>1, <2>2, <2>3, <2>4
  <1>17. LineInv'
    <2> SUFFICES ASSUME gen' = 1 PROVE LineInv'
      BY DEF LineInv
    <2>1. CASE pc' = "header"
      <3>1. Unbroken(0, offset)'
        BY <1>10, <1>15, <2>1 DEF Unbroken
      <3> QED  BY <1>0, <1>10, <1>15, <2>1, <3>1 DEF LineInv, Past
    <2>2. CASE pc' = "loop"
      <3>1. Unbroken(Put, offset)'
        <4>1. \A p \in Newlines : p \in Nat /\ (p <= offset' \/ offset' < p)
          BY <1>1, <1>11, JobType
        <4> QED  BY <1>10, <1>12, <4>1 DEF Unbroken
      <3> QED  BY <1>0, <1>2, <1>10, <1>12, <1>15, <1>16, <2>2, <3>1 DEF LineInv
    <2> QED  BY <1>7, <2>1, <2>2
  <1>18. Past' /\ gen' = 1 => Handed' = 0
    <2> SUFFICES ASSUME Past', gen' = 1 PROVE Handed' = 0
      OBVIOUS
    <2>1. pc' = "loop"
      BY <1>7 DEF Past
    <2>2. Handed' = Cardinality({e \in Ends : e <= offset'}) - Top
      BY <1>10, <1>12 DEF Handed, Rank
    <2>3. Handed' = Rank(offset') - Top
      BY <2>2 DEF Rank
    <2> QED  BY <1>16, <2>1, <2>3
  <1>19. ShardsInv' /\ ProgressInv' /\ CarrierInv'
    <2>1. Past' => Put' = Len(headerLine')
      BY <1>11, <1>12
    <2>2. pc' # "record" /\ Len(headerLine') \in Nat
      BY <1>7, <1>11
    <2> QED  BY <1>0, <1>9, <1>18, <2>1, <2>2, Nothing
  <1> QED  BY <1>8, <1>13, <1>14, <1>17, <1>19 DEF IInv


\* A stretch in hand consists of bytes as TypeOK has them after the step.
LEMMA TypedAfter ==
  ASSUME NEW s, NEW a \in Nat, Stretch(s, a, gen'), job' = job, job \in Job,
         gen' \in 1 .. Len(job.versions), offset' \in Nat, a + Len(s) <= offset'
  PROVE  s \in Seq(Byte')
  <1>1. s \in Seq(Bits) /\ Len(s) \in Nat /\ Len(job.versions) \in Nat
    BY LenProperties, JobType DEF Stretch
  <1>2. ASSUME NEW k \in 1 .. Len(s) PROVE s[k] \in Byte'
    <2>1. s[k] \in Nat \X Nat
      BY <1>1, ElementOfSeq DEF Bits
    <2>2. s[k][1] \in 1 .. Len(job'.versions) /\ s[k][2] \in 1 .. offset'
      BY <1>1 DEF Stretch
    <2>3. PICK v \in 1 .. Len(job'.versions), p \in 1 .. offset' : v = s[k][1] /\ p = s[k][2]
      BY <2>2
    <2>4. s[k] = <<v, p>>
      BY <2>1, <2>3
    <2> QED  BY <2>4 DEF Byte
  <1>3. s = [k \in 1 .. Len(s) |-> s[k]]
    BY <1>1, LenProperties
  <1> QED  BY <1>1, <1>2, <1>3

\* What a running reader knows, with its numbers as numbers.
LEMMA Reads ==
  ASSUME IInv, Past
  PROVE  /\ Stretch(pending, offset - Len(pending), gen) /\ offset - Len(pending) \in Nat
         /\ Put \in Nat /\ Len(headerLine) <= Put /\ Put <= Size
         /\ Put = offset - Len(pending) - (IF pc = "row" THEN Len(row) ELSE 0)
         /\ pc = "row" => Stretch(row, Put, gen) /\ Len(row) > 0
         /\ pc # "row" => Put = offset - Len(pending)
         /\ gen = 1 => HeaderRead /\ Put \in Ends \cup {0}
  <1>1. /\ offset \in Nat /\ Len(pending) \in Nat /\ Len(row) \in Nat /\ Put \in Int
        /\ Len(headerLine) \in Nat /\ offset <= Size /\ Size \in Nat /\ row \in Seq(Byte)
    BY Shapes
  <1>2. Put = offset - Len(pending) - (IF pc = "row" THEN Len(row) ELSE 0)
    BY DEF Put
  <1>3. Len(headerLine) <= Put /\ Stretch(pending, offset - Len(pending), gen)
    BY DEF IInv, ReaderInv
  <1>4. pc = "row" => Stretch(row, Put, gen) /\ row # <<>>
    BY DEF IInv, ReaderInv
  <1>5. row # <<>> => Len(row) > 0
    BY <1>1, EmptySeq
  <1>6. PICK o, p, r \in Nat : o = offset /\ p = Len(pending) /\ r = Len(row)
    BY <1>1
  <1>7. Put = o - p - (IF pc = "row" THEN r ELSE 0)
    BY <1>2, <1>6
  <1>8. Put \in Nat /\ o - p \in Nat /\ Put <= Size /\ (pc # "row" => Put = o - p)
    BY <1>1, <1>3, <1>6, <1>7
  <1>9. gen = 1 => HeaderRead /\ Put \in Ends \cup {0}
    BY DEF IInv, LineInv
  <1> QED  BY <1>2, <1>3, <1>4, <1>5, <1>6, <1>8, <1>9

\* A step of the reader that hands on no row leaves what is published or in
\* progress as it is.
LEMMA ReadingFrame ==
  ASSUME IInv, pc \in {"loop", "lines", "carry"}, pc' \in {"loop", "lines", "carry", "row", "finish"},
         UNCHANGED <<job, cancelled, shardFile, shardPart, manFile, manPart, index, shard, man, dry,
                     result, gen, headerLine, Put>>
  PROVE  /\ ShardsInv' /\ ProgressInv' /\ CarrierInv' /\ WriterInv'
         /\ Past /\ Past' /\ (HeaderRead' <=> HeaderRead) /\ Size' = Size /\ Ends' = Ends /\ Newlines' = Newlines
  <1>1. Past /\ Past'
    BY DEF Past, Dead
  <1>2. ShardsInv' /\ M' = M /\ PublishedRows' = PublishedRows /\ Published' = Published
    BY ShardsFrame DEF IInv
  <1>3. WriterInv'
    BY <1>2 DEF IInv, WriterInv, N, New
  <1>4. /\ (HeaderRead' <=> HeaderRead) /\ Size' = Size /\ Ends' = Ends /\ Newlines' = Newlines
    BY Static DEF HeaderRead
  <1>5. Handed' = Handed
    BY Static DEF Handed, Rank
  <1>6. InProgress' = InProgress
    BY DEF InProgress
  <1>7. ProgressInv'
    <2>1. Live' => Live
      BY DEF Live, Dead
    <2>2. RowsAre(InProgress, Len(PublishedRows))' <=> RowsAre(InProgress, Len(PublishedRows))
      BY <1>2, <1>6, Static DEF RowsAre
    <2> QED  BY <1>1, <1>2, <1>5, <1>6, <2>1, <2>2 DEF IInv, ProgressInv, N
  <1>8. CarrierInv'
    <2>1. Live' => Live
      BY DEF Live, Dead
    <2> QED  BY <1>6, <2>1 DEF IInv, CarrierInv
  <1> QED  BY <1>1, <1>2, <1>3, <1>4, <1>7, <1>8

\* A block keeps the invariant: it continues the carry.
LEMMA ReadChunkStep == IInv /\ ReadChunk => IInv'
  <1> SUFFICES ASSUME IInv, ReadChunk PROVE IInv'
    OBVIOUS
  <1>1. /\ pc = "loop" /\ offset < Size
        /\ UNCHANGED <<job, cancelled, shardFile, shardPart, manFile, manPart, index, shard, man, dry,
                       result, gen, headerLine, row, drained>>
    BY DEF ReadChunk, AfterEmpty, disk
  <1>2. PICK chunk : chunk = Bytes(offset, Length(Block))
    OBVIOUS
  <1>3. /\ pc' = IF chunk = <<>> THEN "carry" ELSE "lines"
        /\ offset' = offset + Len(chunk)
        /\ pending' = IF chunk = <<>> THEN pending ELSE pending \o chunk
    BY <1>2 DEF ReadChunk, AfterEmpty, After, Combined
  <1>4. /\ job \in Job /\ gen \in 1 .. Len(job.versions) /\ offset \in Nat /\ Size \in Nat
        /\ Len(pending) \in Nat /\ offset <= Size
    BY Shapes
  <1>5. Past
    BY <1>1 DEF Past, Dead
  <1>6. PICK n \in Nat : n = Length(Block) /\ n > 0 /\ offset + n <= Size
    <2>1. Block \in Nat /\ Block > 0
      BY BlocksAssumption
    <2> QED  BY <1>1, <1>4, <2>1, LengthIs
  <1>7. Stretch(chunk, offset, gen) /\ Len(chunk) \in 0 .. n /\ (gen = 1 => Len(chunk) = n)
    BY <1>2, <1>4, <1>6, BytesAre
  <1>8. PICK m \in Nat : m = Len(chunk) /\ offset + m <= Size /\ (chunk = <<>> <=> m = 0)
    <2>1. chunk = <<>> <=> Len(chunk) = 0
      BY EmptySeq, <1>7 DEF Stretch
    <2> QED  BY <1>4, <1>6, <1>7, <2>1
  <1>9. /\ Stretch(pending, offset - Len(pending), gen) /\ offset - Len(pending) \in Nat
        /\ Put \in Nat /\ Len(headerLine) <= Put /\ Put = offset - Len(pending)
    BY <1>1, <1>5, Reads
  <1>10. /\ Stretch(pending', offset - Len(pending), gen) /\ Len(pending') = Len(pending) + m
    <2>1. CASE chunk = <<>>
      BY <1>3, <1>4, <1>8, <1>9, <2>1
    <2>2. CASE chunk # <<>>
      <3>1. offset = (offset - Len(pending)) + Len(pending) /\ offset - Len(pending) \in Int /\ offset \in Int
        BY <1>4, <1>9
      <3>2. Stretch(pending \o chunk, offset - Len(pending), gen) /\ Len(pending \o chunk) = Len(pending) + Len(chunk)
        BY <1>7, <1>9, <3>1, StretchJoin
      <3> QED  BY <1>3, <1>8, <2>2, <3>2
    <2> QED  BY <2>1, <2>2
  <1>11. PICK o, p \in Nat : o = offset /\ p = Len(pending)
    BY <1>4
  <1>12. /\ offset' = o + m /\ Len(pending') = p + m /\ (o + m) - (p + m) = o - p /\ offset' \in Nat
         /\ offset' <= Size /\ o <= o + m
    BY <1>3, <1>4, <1>8, <1>10, <1>11
  <1>13. offset' - Len(pending') = Put
    BY <1>9, <1>11, <1>12
  <1>14. pc' \in {"carry", "lines"}
    BY <1>3
  <1>15. Put' = Put
    <2>1. Put' = offset' - Len(pending') - 0
      BY <1>14 DEF Put
    <2>2. Put - 0 = Put
      BY <1>9
    <2> QED  BY <1>13, <2>1, <2>2
  <1>16. /\ ShardsInv' /\ ProgressInv' /\ CarrierInv' /\ WriterInv'
         /\ Past' /\ (HeaderRead' <=> HeaderRead) /\ Size' = Size /\ Ends' = Ends /\ Newlines' = Newlines
    BY <1>1, <1>14, <1>15, ReadingFrame
  <1>17. Stretch(pending', Put, gen') /\ Stretch(headerLine', 0, gen')
    BY <1>1, <1>9, <1>10 DEF IInv, ReaderInv
  <1>18. TypeOK'
    <2>1. pending' \in Seq(Byte')
      <3>1. Put + Len(pending') <= offset'
        BY <1>9, <1>11, <1>12
      <3>2. gen' \in 1 .. Len(job.versions) /\ job' = job
        BY <1>1, <1>4
      <3> QED  BY <1>4, <1>9, <1>12, <1>17, <3>1, <3>2, TypedAfter
    <2>2. headerLine' \in Seq(Byte') /\ row' \in Seq(Byte')
      <3>1. headerLine \in Seq(Byte) /\ row \in Seq(Byte)
        BY Shapes
      <3> QED  BY <1>1, <1>4, <1>11, <1>12, <3>1, TypedStays
    <2>3. offset' \in 0 .. Size' /\ gen' \in 1 .. Len(job'.versions)
      BY <1>1, <1>4, <1>12, <1>16
    <2> QED  BY <1>1, <1>14, <2>1, <2>2, <2>3 DEF IInv, TypeOK
  <1>19. ReaderInv'
    <2>1. ~drained
      BY <1>1, <1>5 DEF IInv, ReaderInv
    <2>2. Stretch(pending', offset' - Len(pending'), gen')
      BY <1>13, <1>17
    <2> QED  BY <1>1, <1>9, <1>14, <1>15, <1>16, <1>17, <2>1, <2>2 DEF ReaderInv, Ending
  <1>20. LineInv'
    <2> SUFFICES ASSUME gen' = 1 PROVE LineInv'
      BY DEF LineInv
    <2>1. pc' = "lines"
      BY <1>1, <1>3, <1>6, <1>7, <1>8
    <2>2. HeaderRead /\ Put \in Ends \cup {0} /\ ~drained
      BY <1>1, <1>5, Reads DEF IInv, ReaderInv
    <2> QED  BY <1>1, <1>15, <1>16, <2>1, <2>2 DEF LineInv
  <1> QED  BY <1>16, <1>18, <1>19, <1>20 DEF IInv

\* The end of the loop keeps the invariant.
LEMMA LoopEndsStep == IInv /\ LoopEnds => IInv'
  <1> SUFFICES ASSUME IInv, LoopEnds PROVE IInv'
    OBVIOUS
  <1>1. /\ pc = "loop" /\ pc' = "carry" /\ offset >= Size
        /\ UNCHANGED <<job, cancelled, shardFile, shardPart, manFile, manPart, index, shard, man, dry,
                       result, gen, headerLine, row, drained, offset, pending>>
    BY DEF LoopEnds, disk, readVars
  <1>2. Put' = Put /\ Past
    BY <1>1 DEF Put, Past, Dead
  <1>3. /\ ShardsInv' /\ ProgressInv' /\ CarrierInv' /\ WriterInv'
        /\ Past' /\ (HeaderRead' <=> HeaderRead) /\ Size' = Size /\ Ends' = Ends /\ Newlines' = Newlines
    BY <1>1, <1>2, ReadingFrame
  <1>4. TypeOK'
    BY <1>1, ReadTyped DEF IInv, TypeOK
  <1>5. ReaderInv'
    BY <1>1, <1>2, <1>3 DEF IInv, ReaderInv, Ending
  <1>6. LineInv'
    <2>1. offset <= Size /\ offset \in Nat /\ Size \in Nat
      BY Shapes
    <2>2. offset = Size
      BY <1>1, <2>1
    <2> QED  BY <1>1, <1>2, <1>3, <2>2 DEF IInv, LineInv, Unbroken
  <1> QED  BY <1>3, <1>4, <1>5, <1>6 DEF IInv

\* What a cut into a row and a rest leaves behind.
LEMMA CutStep ==
  ASSUME IInv, pc \in {"lines", "carry"}, pc' = "row",
         UNCHANGED <<job, cancelled, shardFile, shardPart, manFile, manPart, index, shard, man, dry,
                     result, gen, offset, headerLine>>,
         NEW m \in 1 .. Len(pending), Len(row') = m, Len(pending') = Len(pending) - m,
         Stretch(row', Put, gen), Stretch(pending', Put + m, gen),
         drained' \in BOOLEAN, drained' => pending' = <<>>,
         gen = 1 => /\ Put + m \in Ends /\ Unbroken(Put, Put + m - 1)
                    /\ drained' => offset = Size
  PROVE  IInv'
  <1>1. /\ job \in Job /\ gen \in 1 .. Len(job.versions) /\ offset \in Nat /\ Size \in Nat
        /\ offset <= Size /\ Len(pending) \in Nat
    BY Shapes
  <1>2. Past
    BY DEF Past, Dead
  <1>3. /\ Put \in Nat /\ Len(headerLine) <= Put /\ Put = offset - Len(pending)
    BY <1>2, Reads
  <1>4. PICK o, p, x \in Nat : o = offset /\ p = Len(pending) /\ x = Put
    BY <1>1, <1>3
  <1>5. /\ x = o - p /\ Len(pending') = p - m /\ m \in 1 .. p
        /\ o - (p - m) - m = x /\ o - (p - m) = x + m /\ x + m <= o
    BY <1>3, <1>4
  <1>6. Put' = Put
    <2>1. Put' = offset' - Len(pending') - Len(row')
      BY DEF Put
    <2> QED  BY <1>4, <1>5, <2>1
  <1>7. /\ ShardsInv' /\ ProgressInv' /\ CarrierInv' /\ WriterInv'
        /\ Past' /\ (HeaderRead' <=> HeaderRead) /\ Size' = Size /\ Ends' = Ends /\ Newlines' = Newlines
    BY <1>6, ReadingFrame
  <1>8. offset' - Len(pending') = Put + m
    BY <1>4, <1>5
  <1>9. TypeOK'
    <2>1. gen' \in 1 .. Len(job.versions) /\ job' = job /\ offset' \in Nat
      BY <1>1
    <2>2. row' \in Seq(Byte')
      <3>1. Put + Len(row') <= offset'
        BY <1>4, <1>5
      <3> QED  BY <1>1, <1>3, <2>1, <3>1, TypedAfter
    <2>3. pending' \in Seq(Byte')
      <3>1. (Put + m) + Len(pending') <= offset' /\ Put + m \in Nat
        BY <1>4, <1>5
      <3> QED  BY <1>1, <2>1, <3>1, TypedAfter
    <2>4. headerLine' \in Seq(Byte')
      <3>1. headerLine \in Seq(Byte) /\ offset <= offset'
        BY <1>1, Shapes
      <3> QED  BY <1>1, <2>1, <3>1, TypedStays
    <2>5. offset' \in 0 .. Size'
      BY <1>1, <1>7
    <2> QED  BY <1>1, <2>2, <2>3, <2>4, <2>5 DEF IInv, TypeOK
  <1>10. ReaderInv'
    <2>1. row' # <<>>
      BY EmptySeq
    <2>2. Stretch(pending', offset' - Len(pending'), gen') /\ Stretch(row', Put', gen')
      BY <1>6, <1>8
    <2>3. Stretch(headerLine', 0, gen')
      BY DEF IInv, ReaderInv
    <2> QED  BY <1>3, <1>6, <1>7, <2>1, <2>2, <2>3 DEF ReaderInv, Ending
  <1>11. LineInv'
    <2> SUFFICES ASSUME gen' = 1 PROVE LineInv'
      BY DEF LineInv
    <2>1. HeaderRead /\ Put \in Ends \cup {0}
      BY <1>2, Reads
    <2>2. Put' + Len(row') \in Ends' /\ Unbroken(Put, Put + Len(row) - 1)'
      BY <1>6, <1>7 DEF Unbroken
    <2> QED  BY <1>6, <1>7, <2>1, <2>2 DEF LineInv
  <1> QED  BY <1>7, <1>9, <1>10, <1>11 DEF IInv


\* Bytes among which no line ends.
LEMMA QuietBytes ==
  ASSUME job \in Job, NEW s, NEW a \in Nat, Stretch(s, a, 1), NEW m \in Nat, m <= Len(s),
         \A k \in 1 .. m : ~EndsLine(s[k])
  PROVE  Unbroken(a, a + m)
  <1>1. Newlines \subseteq 1 .. Size /\ Size \in Nat
    BY JobType
  <1>2. Len(s) \in Nat
    BY LenProperties DEF Stretch
  <1>3. ASSUME NEW p \in Newlines PROVE p <= a \/ a + m < p
    <2>1. p \in Nat
      BY <1>1
    <2>2. CASE a < p /\ p <= a + m
      <3>1. PICK k \in 1 .. m : a + k = p
        <4>1. p - a \in 1 .. m /\ a + (p - a) = p
          BY <2>1, <2>2
        <4> QED  BY <4>1
      <3>2. k \in 1 .. Len(s)
        BY <1>2
      <3> QED  BY <3>1, <3>2, EndsLineIs
    <2> QED  BY <2>1, <2>2
  <1> QED  BY <1>3 DEF Unbroken

\* A line taken from the bytes read keeps the invariant.
LEMMA TakeLineStep == IInv /\ TakeLine => IInv'
  <1> SUFFICES ASSUME IInv, TakeLine PROVE IInv'
    OBVIOUS
  <1>1. /\ pc = "lines"
        /\ UNCHANGED <<job, cancelled, shardFile, shardPart, manFile, manPart, index, shard, man, dry,
                       result, gen, offset, headerLine, drained>>
    BY DEF TakeLine, disk
  <1>2. Past
    BY <1>1 DEF Past, Dead
  <1>3. /\ Stretch(pending, Put, gen) /\ Put \in Nat /\ Put = offset - Len(pending)
        /\ (gen = 1 => HeaderRead /\ Put \in Ends \cup {0})
    BY <1>1, <1>2, Reads
  <1>4. /\ job \in Job /\ offset \in Nat /\ Size \in Nat /\ offset <= Size /\ Len(pending) \in Nat
        /\ pending \in Seq(Byte)
    BY Shapes
  <1>5. /\ Newlines \subseteq Ends /\ (Size > 0 => Size \in Ends)
    BY DEF Ends
  <1>6. ~drained
    BY <1>1, <1>2 DEF IInv, ReaderInv
  <1>7. CASE LineOf(pending) # <<>>
    <2>1. row' = LineOf(pending) /\ pending' = RestOf(pending) /\ pc' = "row"
      BY <1>7 DEF TakeLine
    <2>2. PICK m \in 1 .. Len(pending) :
            /\ LineOf(pending) = SubSeq(pending, 1, m) /\ RestOf(pending) = SubSeq(pending, m + 1, Len(pending))
            /\ EndsLine(pending[m]) /\ \A k \in 1 .. Len(pending) : k < m => ~EndsLine(pending[k])
      BY <1>3, <1>7, LineOfIs
    <2>3. /\ Stretch(row', Put, gen) /\ Len(row') = m
          /\ Stretch(pending', Put + m, gen) /\ Len(pending') = Len(pending) - m
      <3>1. m \in 0 .. Len(pending) /\ Put \in Int
        BY <1>3, <1>4
      <3> QED  BY <1>3, <2>1, <2>2, <3>1, StretchCut
    <2>4. gen = 1 => Put + m \in Ends /\ Unbroken(Put, Put + m - 1)
      <3> SUFFICES ASSUME gen = 1 PROVE Put + m \in Ends /\ Unbroken(Put, Put + m - 1)
        OBVIOUS
      <3>1. Put + m \in Newlines
        BY <1>3, <2>2, EndsLineIs
      <3>2. PICK j \in Nat : j = m - 1 /\ j <= Len(pending) /\ Put + m - 1 = Put + j
        <4>1. m - 1 \in Nat /\ m - 1 <= Len(pending) /\ Put + m - 1 = Put + (m - 1)
          BY <1>3, <1>4
        <4> QED  BY <4>1
      <3>3. \A k \in 1 .. j : ~EndsLine(pending[k])
        BY <1>4, <2>2, <3>2
      <3>4. Unbroken(Put, Put + j)
        BY <1>3, <1>4, <3>2, <3>3, QuietBytes
      <3> QED  BY <1>5, <3>1, <3>2, <3>4
    <2>5. drained' \in BOOLEAN /\ ~drained'
      BY <1>1, <1>6 DEF IInv, TypeOK
    <2> QED  BY <1>1, <2>1, <2>3, <2>4, <2>5, CutStep
  <1>8. CASE LineOf(pending) = <<>>
    <2>1. \A k \in 1 .. Len(pending) : ~EndsLine(pending[k])
      BY <1>3, <1>8, LineOfIs
    <2>2. gen = 1 => Unbroken(Put, offset)
      <3>1. Put + Len(pending) = offset /\ Len(pending) <= Len(pending)
        BY <1>3, <1>4
      <3>2. gen = 1 => Unbroken(Put, Put + Len(pending))
        BY <1>3, <1>4, <2>1, <3>1, QuietBytes
      <3> QED  BY <3>1, <3>2
    <2>3. CASE pending # <<>> /\ offset >= Size
      <3>1. row' = pending /\ pending' = <<>> /\ pc' = "row"
        BY <1>8, <2>3 DEF TakeLine
      <3>2. PICK m \in 1 .. Len(pending) : m = Len(pending)
        BY <1>4, <2>3, EmptySeq
      <3>3. Len(row') = m /\ Len(pending') = Len(pending) - m
        BY <1>4, <3>1, <3>2, EmptySeq
      <3>4. Stretch(row', Put, gen) /\ Stretch(pending', Put + m, gen)
        BY <1>3, <3>1, StretchEmpty
      <3>5. gen = 1 => Put + m \in Ends /\ Unbroken(Put, Put + m - 1)
        <4> SUFFICES ASSUME gen = 1 PROVE Put + m \in Ends /\ Unbroken(Put, Put + m - 1)
          OBVIOUS
        <4>1. Put + m = offset /\ offset = Size /\ Size > 0
          BY <1>3, <1>4, <2>3, <3>2
        <4>2. \A p \in Newlines : p \in Nat /\ (p <= Put \/ offset < p)
          BY <1>4, <2>2, JobType DEF Unbroken
        <4>3. Unbroken(Put, Put + m - 1)
          <5>1. Put + m - 1 = offset - 1
            BY <1>3, <1>4, <4>1
          <5>2. \A p \in Newlines : p <= Put \/ offset - 1 < p
            BY <1>4, <4>2
          <5> QED  BY <5>1, <5>2 DEF Unbroken
        <4> QED  BY <1>5, <4>1, <4>3
      <3>6. drained' \in BOOLEAN /\ ~drained'
        BY <1>1, <1>6 DEF IInv, TypeOK
      <3> QED  BY <1>1, <3>1, <3>3, <3>4, <3>5, <3>6, CutStep
    <2>4. CASE ~(pending # <<>> /\ offset >= Size)
      <3>1. pc' = "loop" /\ UNCHANGED <<row, pending>>
        BY <1>8, <2>4 DEF TakeLine
      <3>2. Put' = Put
        BY <1>1, <3>1 DEF Put
      <3>3. /\ ShardsInv' /\ ProgressInv' /\ CarrierInv' /\ WriterInv'
            /\ Past' /\ (HeaderRead' <=> HeaderRead) /\ Size' = Size /\ Ends' = Ends /\ Newlines' = Newlines
        BY <1>1, <3>1, <3>2, ReadingFrame
      <3>4. TypeOK'
        BY <1>1, <3>1, ReadTyped DEF IInv, TypeOK
      <3>5. ReaderInv'
        BY <1>1, <1>2, <1>6, <3>1, <3>2, <3>3 DEF IInv, ReaderInv, Ending
      <3>6. LineInv'
        <4> SUFFICES ASSUME gen' = 1 PROVE LineInv'
          BY DEF LineInv
        <4>1. Unbroken(Put, offset)'
          BY <1>1, <2>2, <3>2, <3>3 DEF Unbroken
        <4>2. offset' = Size' => pending' = <<>>
          BY <1>1, <1>4, <2>4, <3>1, <3>3
        <4> QED  BY <1>1, <1>3, <1>6, <3>1, <3>2, <3>3, <4>1, <4>2 DEF LineInv
      <3> QED  BY <3>3, <3>4, <3>5, <3>6 DEF IInv
    <2> QED  BY <2>3, <2>4
  <1> QED  BY <1>7, <1>8

\* The carry keeps the invariant: there is one only when the object was replaced.
LEMMA TakeCarryStep == IInv /\ TakeCarry => IInv'
  <1> SUFFICES ASSUME IInv, TakeCarry PROVE IInv'
    OBVIOUS
  <1>1. /\ pc = "carry" /\ drained' = TRUE
        /\ UNCHANGED <<job, cancelled, shardFile, shardPart, manFile, manPart, index, shard, man, dry,
                       result, gen, offset, headerLine>>
    BY DEF TakeCarry, disk
  <1>2. Past
    BY <1>1 DEF Past, Dead
  <1>3. /\ Stretch(pending, Put, gen) /\ Put \in Nat /\ Put = offset - Len(pending)
        /\ (gen = 1 => HeaderRead /\ Put \in Ends \cup {0})
    BY <1>1, <1>2, Reads
  <1>4. /\ job \in Job /\ offset \in Nat /\ Size \in Nat /\ offset <= Size /\ Len(pending) \in Nat
        /\ pending \in Seq(Byte)
    BY Shapes
  <1>5. gen = 1 => offset = Size /\ pending = <<>>
    BY <1>1, <1>2 DEF IInv, LineInv
  <1>6. CASE pending # <<>>
    <2>1. row' = pending /\ pending' = <<>> /\ pc' = "row"
      BY <1>6 DEF TakeCarry
    <2>2. PICK m \in 1 .. Len(pending) : m = Len(pending)
      BY <1>4, <1>6, EmptySeq
    <2>3. Len(row') = m /\ Len(pending') = Len(pending) - m
      BY <1>4, <2>1, <2>2, EmptySeq
    <2>4. Stretch(row', Put, gen) /\ Stretch(pending', Put + m, gen)
      BY <1>3, <2>1, StretchEmpty
    <2>5. gen # 1
      BY <1>5, <1>6
    <2>6. drained' \in BOOLEAN
      BY <1>1
    <2> QED  BY <1>1, <2>1, <2>3, <2>4, <2>5, <2>6, CutStep
  <1>7. CASE pending = <<>>
    <2>1. pc' = "finish" /\ UNCHANGED <<row, pending>>
      BY <1>7 DEF TakeCarry
    <2>2. Put' = Put
      BY <1>1, <2>1 DEF Put
    <2>3. /\ ShardsInv' /\ ProgressInv' /\ CarrierInv' /\ WriterInv'
          /\ Past' /\ (HeaderRead' <=> HeaderRead) /\ Size' = Size /\ Ends' = Ends /\ Newlines' = Newlines
      BY <1>1, <2>1, <2>2, ReadingFrame
    <2>4. TypeOK'
      <3>1. Byte' = Byte /\ Size' = Size
        BY <1>1 DEF Byte, Size
      <3> QED  BY <1>1, <2>1, <3>1 DEF IInv, TypeOK
    <2>5. ReaderInv'
      BY <1>1, <1>2, <1>7, <2>1, <2>2, <2>3 DEF IInv, ReaderInv, Ending
    <2>6. LineInv'
      BY <1>1, <1>3, <1>5, <2>1, <2>2, <2>3 DEF LineInv
    <2> QED  BY <2>3, <2>4, <2>5, <2>6 DEF IInv
  <1> QED  BY <1>6, <1>7


\* The rows handed on so far, and the one in hand, are those of the object.
LEMMA HandedIs ==
  ASSUME IInv, Past, gen = 1
  PROVE  Handed \in Nat
  <1>1. /\ job \in Job /\ Put \in Nat /\ HeaderRead /\ Put \in Ends \cup {0} /\ Len(headerLine) <= Put
        /\ Ends \subseteq 1 .. Size /\ Size \in Nat
    BY Shapes, Reads, JobType
  <1>2. Rank(Put) \in Nat
    BY <1>1, EndsFinite
  <1>3. CASE HasHeader
    <2>1. PICK e \in Ends : e = LineEnds[1] /\ Rank(e) = 1
      BY <1>1, <1>3, HeaderEnd DEF HasHeader
    <2>2. e <= Put /\ e \in Nat
      BY <1>1, <1>3, <2>1 DEF HeaderRead
    <2>3. Put \in Ends
      BY <1>1, <2>2
    <2>4. Rank(Put) >= 1
      <3>1. CASE e = Put
        BY <2>1, <3>1
      <3>2. CASE e < Put
        <4>1. Rank(e) < Rank(Put)
          BY <1>1, <2>2, <2>3, <3>2, RankGrows
        <4> QED  BY <1>2, <2>1, <4>1
      <3> QED  BY <1>1, <2>2, <3>1, <3>2
    <2> QED  BY <1>2, <1>3, <2>4 DEF Handed, Top
  <1>4. CASE ~HasHeader
    BY <1>2, <1>4 DEF Handed, Top
  <1> QED  BY <1>3, <1>4

\* When the row in hand is handed on, the reader is one row further.
LEMMA RowRead ==
  ASSUME IInv, pc = "row", pc' \in {"flush", AfterRow},
         UNCHANGED <<job, gen, offset, headerLine, pending, row, drained>>
  PROVE  /\ ReaderInv' /\ LineInv' /\ Past /\ Past'
         /\ Put \in Nat /\ Len(row) \in Nat /\ Len(row) > 0 /\ Put' = Put + Len(row)
         /\ Stretch(row, Put, gen)
         /\ gen = 1 => /\ Handed \in Nat /\ Handed' = Handed + 1
                       /\ Handed + 1 \in 1 .. Len(Body) /\ row = Body[Handed + 1]
  <1>1. Past /\ Past'
    BY DEF Past, Dead, AfterRow
  <1>2. /\ Put \in Nat /\ Len(row) > 0 /\ Stretch(row, Put, gen) /\ Len(headerLine) <= Put
        /\ Put = offset - Len(pending) - Len(row)
        /\ offset - Len(pending) \in Nat /\ Stretch(pending, offset - Len(pending), gen)
        /\ (gen = 1 => HeaderRead /\ Put \in Ends \cup {0})
    BY <1>1, Reads
  <1>3. job \in Job /\ Len(row) \in Nat /\ Len(pending) \in Nat /\ offset \in Nat /\ Len(headerLine) \in Nat
    BY Shapes
  <1>4. PICK o, p, r \in Nat : o = offset /\ p = Len(pending) /\ r = Len(row)
    BY <1>3
  <1>5. Put' = Put + Len(row)
    <2>1. pc' # "row"
      BY DEF AfterRow
    <2>2. Put' = offset' - Len(pending') - 0
      BY <2>1 DEF Put
    <2>3. Put' = o - p - 0 /\ Put = o - p - r
      BY <1>2, <1>4, <2>2
    <2> QED  BY <1>4, <2>3
  <1>6. drained => pending = <<>>
    BY <1>1 DEF IInv, ReaderInv
  <1>7. ReaderInv'
    <2>1. Len(headerLine') <= Put'
      BY <1>2, <1>3, <1>5
    <2>2. Stretch(headerLine', 0, gen') /\ Stretch(pending', offset' - Len(pending'), gen')
      BY <1>2 DEF IInv, ReaderInv
    <2> QED  BY <1>1, <1>6, <2>1, <2>2 DEF ReaderInv, AfterRow, Ending
  <1>8. gen = 1 => Put + Len(row) \in Ends /\ Unbroken(Put, Put + Len(row) - 1) /\ (drained => offset = Size)
    BY <1>1 DEF IInv, LineInv
  <1>9. LineInv'
    <2> SUFFICES ASSUME gen' = 1 PROVE LineInv'
      BY DEF LineInv
    <2>1. (HeaderRead' <=> HeaderRead) /\ Size' = Size /\ Ends' = Ends
      BY Static DEF HeaderRead
    <2> QED  BY <1>2, <1>5, <1>8, <2>1 DEF LineInv, AfterRow
  <1>10. gen = 1 => /\ Handed \in Nat /\ Handed' = Handed + 1
                    /\ Handed + 1 \in 1 .. Len(Body) /\ row = Body[Handed + 1]
    <2> SUFFICES ASSUME gen = 1
                 PROVE  /\ Handed \in Nat /\ Handed' = Handed + 1
                        /\ Handed + 1 \in 1 .. Len(Body) /\ row = Body[Handed + 1]
      OBVIOUS
    <2>1. PICK n \in Nat : n = Handed
      BY <1>1, HandedIs
    <2>2. PICK x \in Ends \cup {0} : x = Put
      BY <1>2
    <2>3. PICK e \in Ends : e = Put + Len(row)
      BY <1>8
    <2>4. x < e /\ Unbroken(x, e - 1) /\ n = Rank(x) - Top /\ e - x = Len(row)
      BY <1>2, <1>3, <1>8, <2>1, <2>2, <2>3 DEF Handed
    <2>5. n + 1 \in 1 .. Len(Body) /\ Body[n + 1] = [i \in 1 .. e - x |-> <<1, x + i>>] /\ Rank(e) - Top = n + 1
      BY <1>3, <2>4, NextRow
    <2>6. row = [i \in 1 .. Len(row) |-> <<1, x + i>>]
      BY <1>2, <2>2, StretchIs
    <2>7. Handed' = Rank(e) - Top
      BY <1>5, <2>3, Static DEF Handed, Rank
    <2> QED  BY <2>1, <2>4, <2>5, <2>6, <2>7
  <1> QED  BY <1>1, <1>2, <1>3, <1>5, <1>7, <1>9, <1>10

\* FreshFile and WithRow give files of this run.
LEMMA FreshFileType ==
  ASSUME NEW h \in BOOLEAN, job.gz \in BOOLEAN
  PROVE  FreshFile(h) \in FileState /\ (FreshFile(h).hdr <=> h) /\ FreshFile(h).rows = <<>>
  <1>1. <<>> \in Seq(Seq(Nat \X Nat))
    BY EmptySeq
  <1>2. PICK w \in BOOLEAN : w = (~h \/ ~job.gz)
    OBVIOUS
  <1>3. FreshFile(h) = [hdr |-> h, rows |-> <<>>, whole |-> w]
    BY <1>2, Zenon DEF FreshFile
  <1>4. [hdr |-> h, rows |-> <<>>, whole |-> w] \in [hdr : BOOLEAN, rows : Seq(Seq(Nat \X Nat)), whole : BOOLEAN]
    BY <1>1, Zenon
  <1>5. FreshFile(h) \in FileState
    BY <1>3, <1>4, Zenon DEF FileState
  <1>6. FreshFile(h).hdr = h
    BY Zenon DEF FreshFile
  <1>7. FreshFile(h).rows = <<>>
    BY DEF FreshFile
  <1> QED  BY <1>5, <1>6, <1>7, Zenon

\* A failed header write still leaves a file.
LEMMA TornFileType == TornFile \in FileState
  <1>1. <<>> \in Seq(Seq(Nat \X Nat))
    BY EmptySeq
  <1> QED  BY <1>1, Zenon DEF TornFile, FileState

\* A row is added at the end.
LEMMA WithRowType ==
  ASSUME NEW f \in FileState, NEW r \in Seq(Bits), job.gz \in BOOLEAN
  PROVE  /\ WithRow(f, r) \in FileState /\ (WithRow(f, r).hdr <=> f.hdr)
         /\ WithRow(f, r).rows = Append(f.rows, r)
         /\ f.rows \in Seq(Seq(Bits)) /\ Append(f.rows, r) \in Seq(Seq(Bits))
  <1>1. f.rows \in Seq(Seq(Bits)) /\ f.hdr \in BOOLEAN /\ f.whole \in BOOLEAN
    BY Zenon DEF FileState, Bits
  <1>2. Append(f.rows, r) \in Seq(Seq(Bits))
    BY <1>1, AppendProperties
  <1>3. PICK w \in BOOLEAN : w = (f.whole /\ ~job.gz)
    OBVIOUS
  <1>4. WithRow(f, r) = [hdr |-> f.hdr, rows |-> Append(f.rows, r), whole |-> w]
    BY <1>3, Zenon DEF WithRow
  <1>5. WithRow(f, r) \in FileState
    <2>1. Append(f.rows, r) \in Seq(Seq(Nat \X Nat))
      BY <1>2 DEF Bits
    <2>2. [hdr |-> f.hdr, rows |-> Append(f.rows, r), whole |-> w] \in
            [hdr : BOOLEAN, rows : Seq(Seq(Nat \X Nat)), whole : BOOLEAN]
      BY <1>1, <2>1, Zenon
    <2> QED  BY <1>4, <2>2, Zenon DEF FileState
  <1>6. WithRow(f, r).hdr = f.hdr
    BY Zenon DEF WithRow
  <1>7. WithRow(f, r).rows = Append(f.rows, r)
    BY DEF WithRow
  <1> QED  BY <1>1, <1>2, <1>5, <1>6, <1>7, Zenon

\* countingHashWriter counts bytes.
LEMMA CountType ==
  ASSUME job.gz \in BOOLEAN, NEW n \in Nat, NEW size \in Nat, NEW x \in CountAfter(n, size)
  PROVE  x \in Nat
  <1>1. CASE job.gz
    BY <1>1, GzBurstAssumption DEF CountAfter
  <1>2. CASE ~job.gz
    BY <1>2 DEF CountAfter
  <1> QED  BY <1>1, <1>2

\* newShardWriter keeps the invariant: the new .part is the next shard's, empty.
LEMMA OpenShardStep == IInv /\ OpenShard => IInv'
  <1> SUFFICES ASSUME IInv, OpenShard PROVE IInv'
    OBVIOUS
  <1>1. /\ pc = "row" /\ shard.st = "none" /\ ~job.dryRun /\ index + 1 \in ShardId /\ index' = index + 1
        /\ UNCHANGED <<job, cancelled, shardFile, manFile, manPart, man, dry, result,
                       gen, offset, headerLine, pending, row, drained>>
    BY DEF OpenShard, NewShardWriter, readVars
  <1>2. \/ \E n \in (IF headerLine # <<>> THEN CountAfter(0, Len(headerLine)) ELSE {0}) :
             /\ shardPart' = [shardPart EXCEPT ![index + 1] = FreshFile(headerLine # <<>>)]
             /\ shard' = [st |-> "open", rows |-> 0, n |-> n]
             /\ pc' = pc
        \/ /\ \E f \in {None, shardPart[index + 1]} : shardPart' = [shardPart EXCEPT ![index + 1] = f]
           /\ pc' = "abort"
           /\ shard' = shard
        \/ /\ shardPart' = [shardPart EXCEPT ![index + 1] = TornFile]
           /\ shard' = [st |-> "open", rows |-> 0, n |-> 0]
           /\ pc' = "abort"
    BY DEF OpenShard, NewShardWriter
  <1>3. job \in Job /\ job.gz \in BOOLEAN /\ Len(headerLine) \in Nat /\ index \in Nat
    BY Shapes, JobType DEF IInv, TypeOK
  <1>4. shardPart \in [ShardId -> FileState \cup {None, Old}] /\ shard \in [st : {"none", "open", "closed", "aborted"}, rows : Nat, n : Nat]
    BY DEF IInv, TypeOK
  <1>5. PICK h \in BOOLEAN : h = (headerLine # <<>>)
    OBVIOUS
  <1>6. FreshFile(h) \in FileState /\ (FreshFile(h).hdr <=> h) /\ FreshFile(h).rows = <<>>
    BY <1>3, FreshFileType
  <1>7. PICK f \in FileState \cup {None, Old} :
          /\ shardPart' = [shardPart EXCEPT ![index + 1] = f]
          /\ pc' = "row" => f = FreshFile(h)
    <2>1. shardPart[index + 1] \in FileState \cup {None, Old}
      BY <1>1, <1>4
    <2> QED  BY <1>1, <1>2, <1>5, <1>6, <2>1, TornFileType
  <1>8. \/ pc' = "row" /\ \E n \in Nat : shard' = [st |-> "open", rows |-> 0, n |-> n]
        \/ pc' = "abort" /\ (shard' = shard \/ shard' = [st |-> "open", rows |-> 0, n |-> 0])
    <2>1. ASSUME NEW n \in (IF headerLine # <<>> THEN CountAfter(0, Len(headerLine)) ELSE {0})
          PROVE  n \in Nat
      BY <1>3, CountType
    <2> QED  BY <1>1, <1>2, <2>1
  <1>9. shardPart' \in [ShardId -> FileState \cup {None, Old}] /\ shardPart'[index'] = f
    BY <1>1, <1>4, <1>7
  <1>10. shard' \in [st : {"none", "open", "closed", "aborted"}, rows : Nat, n : Nat]
    BY <1>4, <1>8
  <1>11. TypeOK'
    <2>1. pc' \in {"row", "abort"} /\ index' \in Nat
      BY <1>1, <1>3, <1>8
    <2> QED  BY <1>1, <1>9, <1>10, <2>1, ReadTyped DEF IInv, TypeOK
  <1>12. WriterInv'
    <2>1. shard'.st \in {"none", "open"}
      BY <1>1, <1>8
    <2> QED  BY <1>1, <1>8, <2>1 DEF IInv, WriterInv, Published, New, N, Ending
  <1>13. CASE pc' = "abort"
    <2>1. ReaderInv' /\ LineInv' /\ ShardsInv' /\ ProgressInv' /\ CarrierInv'
      BY <1>1, <1>13, WayOut DEF Dead
    <2> QED  BY <1>11, <1>12, <2>1 DEF IInv
  <1>14. CASE pc' = "row"
    <2>1. Past /\ Past' /\ Live
      BY <1>1, <1>14 DEF Past, Dead, Live
    <2>2. ReaderInv' /\ LineInv' /\ Put' = Put /\ Handed' = Handed
      BY <1>1, <1>14, <2>1, ReaderFrame DEF IInv
    <2>3. ShardsInv' /\ M' = M /\ PublishedRows' = PublishedRows
      BY <1>1, ShardsFrame DEF IInv
    <2>4. shard'.st = "open" /\ f = FreshFile(h)
      BY <1>7, <1>8, <1>14
    <2>5. InProgress = <<>> /\ InProgress' = <<>>
      <3>1. InProgress' = shardPart'[index'].rows
        BY <1>14, <2>4 DEF InProgress
      <3> QED  BY <1>1, <1>6, <1>9, <2>4, <3>1 DEF InProgress
    <2>6. ProgressInv'
      <3>1. index' = N' + 1 /\ N' = N /\ M' = N
        BY <1>1, <2>1, <2>3 DEF IInv, ProgressInv, N
      <3> QED  BY <1>1, <1>14, <2>1, <2>2, <2>3, <2>4, <2>5, <3>1, Static DEF IInv, ProgressInv
    <2>7. CarrierInv'
      BY <1>1, <1>5, <1>6, <1>9, <1>14, <2>4 DEF CarrierInv
    <2> QED  BY <1>11, <1>12, <2>2, <2>3, <2>6, <2>7 DEF IInv
  <1> QED  BY <1>8, <1>13, <1>14


\* WriteRow keeps the invariant: the row in hand is the next one of the shard,
\* or the write fails and the run is on its way out.
LEMMA RowStep == IInv /\ Row => IInv'
  <1> SUFFICES ASSUME IInv, Row PROVE IInv'
    OBVIOUS
  <1>1. /\ pc = "row" /\ shard.st = "open"
        /\ UNCHANGED <<job, cancelled, shardFile, manFile, manPart, index, man, dry, result,
                       gen, offset, headerLine, pending, row, drained>>
    BY DEF Row, WriteRow, readVars
  <1>2. \/ /\ \E n \in CountAfter(shard.n, Len(row)) :
                /\ shardPart' = [shardPart EXCEPT ![index] = WithRow(@, row)]
                /\ shard' = [shard EXCEPT !.rows = @ + 1, !.n = n]
           /\ pc' \in {"flush", AfterRow}
        \/ /\ shardPart' = [shardPart EXCEPT ![index].whole = FALSE]
           /\ pc' = "abort" /\ shard' = shard
    BY DEF Row, WriteRow, WriteOk, WriteFails
  <1>3. job \in Job /\ job.gz \in BOOLEAN /\ Len(row) \in Nat /\ index \in Nat
    BY Shapes, JobType DEF IInv, TypeOK
  <1>4. /\ shardPart \in [ShardId -> FileState \cup {None, Old}]
        /\ shard \in [st : {"none", "open", "closed", "aborted"}, rows : Nat, n : Nat]
    BY DEF IInv, TypeOK
  <1>5. Past /\ Live /\ index \in ShardId
    BY <1>1 DEF IInv, WriterInv, Past, Live, Dead
  <1>6. PICK f \in FileState : f = shardPart[index] /\ (f.hdr <=> headerLine # <<>>) /\ InProgress = f.rows
    BY <1>1, <1>5 DEF IInv, CarrierInv, InProgress
  <1>7. Stretch(row, Put, gen) /\ row \in Seq(Bits) /\ Len(row) > 0
    BY <1>1, <1>5, Reads DEF Stretch
  <1>8. /\ WithRow(f, row) \in FileState /\ (WithRow(f, row).hdr <=> f.hdr)
        /\ WithRow(f, row).rows = Append(f.rows, row)
        /\ f.rows \in Seq(Seq(Bits)) /\ Append(f.rows, row) \in Seq(Seq(Bits))
    BY <1>3, <1>7, WithRowType
  <1>9. [f EXCEPT !.whole = FALSE] \in FileState
    BY DEF FileState
  <1>10. PICK g \in FileState :
           /\ shardPart' = [shardPart EXCEPT ![index] = g]
           /\ pc' # "abort" => g = WithRow(f, row)
    BY <1>2, <1>6, <1>8, <1>9 DEF AfterRow
  <1>11. shardPart' \in [ShardId -> FileState \cup {None, Old}] /\ shardPart'[index] = g
    BY <1>4, <1>5, <1>10
  <1>12. shard' \in [st : {"none", "open", "closed", "aborted"}, rows : Nat, n : Nat] /\ shard'.st = "open"
    <2>1. ASSUME NEW n \in CountAfter(shard.n, Len(row)) PROVE n \in Nat
      BY <1>3, <1>4, CountType
    <2>2. ASSUME NEW n \in Nat
          PROVE  /\ [shard EXCEPT !.rows = @ + 1, !.n = n] \in [st : {"none", "open", "closed", "aborted"}, rows : Nat, n : Nat]
                 /\ [shard EXCEPT !.rows = @ + 1, !.n = n].st = "open"
      <3>1. PICK r \in Nat : r = shard.rows + 1
        BY <1>4
      <3>2. [shard EXCEPT !.rows = r, !.n = n] \in [st : {"none", "open", "closed", "aborted"}, rows : Nat, n : Nat]
        BY <1>4
      <3>3. [shard EXCEPT !.rows = r, !.n = n].st = "open"
        BY <1>1, <1>4
      <3> QED  BY <3>1, <3>2, <3>3
    <2> QED  BY <1>1, <1>2, <1>4, <2>1, <2>2
  <1>13. pc' \in {"flush", "finish", "lines", "abort"}
    BY <1>2 DEF AfterRow
  <1>14. TypeOK'
    BY <1>1, <1>11, <1>12, <1>13, ReadTyped DEF IInv, TypeOK
  <1>15. WriterInv'
    BY <1>1, <1>5, <1>12, <1>13 DEF IInv, WriterInv, Published, New, N, Live, Dead
  <1>16. CASE pc' = "abort"
    <2>1. ReaderInv' /\ LineInv' /\ ShardsInv' /\ ProgressInv' /\ CarrierInv'
      BY <1>1, <1>16, WayOut DEF Dead
    <2> QED  BY <1>14, <1>15, <2>1 DEF IInv
  <1>17. CASE pc' # "abort"
    <2>1. pc' \in {"flush", AfterRow}
      BY <1>2, <1>17
    <2>2. /\ ReaderInv' /\ LineInv' /\ Past' /\ Put \in Nat /\ Put' = Put + Len(row)
          /\ gen = 1 => /\ Handed \in Nat /\ Handed' = Handed + 1
                        /\ Handed + 1 \in 1 .. Len(Body) /\ row = Body[Handed + 1]
      BY <1>1, <2>1, RowRead
    <2>3. ShardsInv' /\ M' = M /\ PublishedRows' = PublishedRows
      BY <1>1, ShardsFrame DEF IInv
    <2>4. InProgress' = Append(InProgress, row) /\ pc' # "record" /\ pc' # "row"
      BY <1>1, <1>6, <1>8, <1>10, <1>11, <1>12, <1>13, <1>17 DEF InProgress
    <2>5. /\ InProgress \in Seq(Seq(Bits)) /\ Stretch(Held, Len(headerLine) + Len(Out), gen)
          /\ Put = Len(headerLine) + Len(Out) + Len(Held)
          /\ M = N /\ index = N + 1 /\ PublishedRows \in Seq(Seq(Bits))
      BY <1>1, <1>5 DEF IInv, ProgressInv, ShardsInv, Held, Out
    <2>6. PICK l, m \in Nat : l = Len(headerLine) + Len(Out) /\ m = Len(Held)
      <3>1. Len(headerLine) \in Nat /\ Len(Out) \in Nat
        BY Shapes
      <3>2. Len(Held) \in Nat
        BY <2>5, LenProperties DEF Stretch
      <3> QED  BY <3>1, <3>2
    <2>7. Held' = Held \o row
      <3>1. FlattenSeq(InProgress) \in Seq(Bits)
        BY <2>5 DEF Held, Stretch
      <3>2. FlattenSeq(Append(InProgress, row)) = FlattenSeq(InProgress) \o row
        BY <1>7, <2>5, <3>1, FlattenGrows
      <3> QED  BY <2>4, <3>2 DEF Held
    <2>8. Stretch(Held \o row, l, gen) /\ Len(Held \o row) = m + Len(row)
      <3>1. Put = l + Len(Held) /\ l \in Int /\ Put \in Int
        BY <2>2, <2>5, <2>6
      <3> QED  BY <1>7, <2>5, <2>6, <3>1, StretchJoin
    <2>9. gen = 1 => RowsAre(InProgress, Len(PublishedRows))' /\ Handed' = Len(PublishedRows') + Len(InProgress')
      <3> SUFFICES ASSUME gen = 1
                   PROVE  RowsAre(InProgress, Len(PublishedRows))' /\ Handed' = Len(PublishedRows') + Len(InProgress')
        OBVIOUS
      <3>1. RowsAre(InProgress, Len(PublishedRows)) /\ Handed = Len(PublishedRows) + Len(InProgress)
        BY <1>5 DEF IInv, ProgressInv
      <3>2. PICK a, k \in Nat : a = Len(PublishedRows) /\ k = Len(InProgress)
        BY <2>5, LenProperties
      <3>3. /\ Len(InProgress') = k + 1 /\ InProgress'[k + 1] = row
            /\ \A i \in 1 .. k : InProgress'[i] = InProgress[i]
        BY <1>7, <2>4, <2>5, <3>2, AppendProperties
      <3>4. Body' = Body
        BY <1>1, Static
      <3>5. a + (k + 1) \in 1 .. Len(Body) /\ row = Body[a + (k + 1)]
        BY <2>2, <3>1, <3>2
      <3>6. \A i \in 1 .. k + 1 : a + i \in 1 .. Len(Body) /\ InProgress'[i] = Body[a + i]
        BY <3>1, <3>2, <3>3, <3>5 DEF RowsAre
      <3>7. Len(PublishedRows') = a
        BY <2>3, <3>2
      <3>8. RowsAre(InProgress, Len(PublishedRows))'
        BY <3>3, <3>4, <3>6, <3>7 DEF RowsAre
      <3>9. Handed' = a + (k + 1)
        BY <2>2, <3>1, <3>2
      <3> QED  BY <3>3, <3>7, <3>8, <3>9
    <2>10. ProgressInv'
      <3>1. M' = N' /\ index' = N' + 1 /\ shard'.st # "none"
        BY <1>1, <1>12, <2>3, <2>5 DEF N
      <3>2. InProgress' \in Seq(Seq(Bits))
        BY <1>6, <1>8, <2>4
      <3>3. Len(headerLine') + Len(FlattenSeq(PublishedRows')) = l
        BY <1>1, <2>3, <2>6 DEF Out
      <3>4. FlattenSeq(InProgress') = Held \o row
        BY <2>7 DEF Held
      <3>5. Stretch(FlattenSeq(InProgress'), l, gen')
        BY <1>1, <2>8, <3>4
      <3>6. Put' = l + (m + Len(row))
        BY <1>3, <2>2, <2>5, <2>6
      <3>7. Put' = l + Len(FlattenSeq(InProgress'))
        BY <2>8, <3>4, <3>6
      <3> QED  BY <1>1, <2>4, <2>9, <3>1, <3>2, <3>3, <3>5, <3>7 DEF ProgressInv
    <2>11. CarrierInv'
      <3>1. FlattenSeq(InProgress') # <<>>
        <4>1. Len(Held \o row) > 0
          BY <1>3, <1>7, <2>6, <2>8
        <4> QED  BY <2>7, <4>1, EmptySeq DEF Held
      <3>2. g \in FileState /\ (g.hdr <=> headerLine' # <<>>)
        BY <1>1, <1>6, <1>8, <1>10, <1>17
      <3> QED  BY <1>1, <1>11, <1>12, <3>1, <3>2 DEF CarrierInv
    <2> QED  BY <1>14, <1>15, <2>2, <2>3, <2>10, <2>11 DEF IInv
  <1> QED  BY <1>16, <1>17

\* A row of a dry run keeps the invariant: the shard is counted and not written.
LEMMA PlanRowStep == IInv /\ PlanRow => IInv'
  <1> SUFFICES ASSUME IInv, PlanRow PROVE IInv'
    OBVIOUS
  <1>1. /\ pc = "row" /\ job.dryRun /\ pc' = AfterRow
        /\ UNCHANGED <<job, cancelled, shardFile, shardPart, manFile, manPart, shard, man,
                       gen, offset, headerLine, pending, row, drained>>
    BY DEF PlanRow, DryRow, readVars, disk
  <1>2. /\ index \in Nat /\ dry \in [open : BOOLEAN, rows : Nat, bytes : Nat] /\ result \in Seq(EntryType)
        /\ Len(headerLine) \in Nat /\ Len(row) \in Nat /\ job \in Job
    BY Shapes DEF IInv, TypeOK
  <1>3. PICK i, r, b \in Nat :
          /\ i = (IF dry.open THEN index ELSE index + 1)
          /\ r = dry.rows + 1
          /\ b = (IF dry.open THEN dry.bytes ELSE Len(headerLine)) + Len(row)
    <2>1. dry.rows \in Nat /\ dry.bytes \in Nat
      BY <1>2
    <2>2. (IF dry.open THEN index ELSE index + 1) \in Nat
      BY <1>2
    <2>3. dry.rows + 1 \in Nat
      BY <2>1
    <2>4. (IF dry.open THEN dry.bytes ELSE Len(headerLine)) + Len(row) \in Nat
      BY <1>2, <2>1
    <2> QED  BY <2>2, <2>3, <2>4
  <1>4. /\ index' = i
        /\ \/ dry' = NoDry /\ result' = Append(result, Entry(i, r, b, None))
           \/ dry' = [open |-> TRUE, rows |-> r, bytes |-> b] /\ result' = result
    BY <1>3 DEF PlanRow, DryRow
  <1>5. TypeOK'
    <2>1. Entry(i, r, b, None) \in EntryType
      BY DEF Entry, EntryType
    <2>2. result' \in Seq(EntryType)
      BY <1>2, <1>4, <2>1, AppendProperties
    <2>3. dry' \in [open : BOOLEAN, rows : Nat, bytes : Nat]
      <3>1. NoDry \in [open : BOOLEAN, rows : Nat, bytes : Nat]
        BY DEF NoDry
      <3>2. [open |-> TRUE, rows |-> r, bytes |-> b] \in [open : BOOLEAN, rows : Nat, bytes : Nat]
        OBVIOUS
      <3> QED  BY <1>4, <3>1, <3>2
    <2> QED  BY <1>1, <1>4, <2>2, <2>3, ReadTyped DEF IInv, TypeOK, AfterRow
  <1>6. WriterInv'
    BY <1>1 DEF IInv, WriterInv, Published, New, AfterRow
  <1>7. ReaderInv' /\ LineInv'
    BY <1>1, RowRead
  <1>8. ShardsInv'
    BY <1>1, ShardsFrame DEF IInv
  <1>9. ProgressInv' /\ CarrierInv'
    BY <1>1 DEF ProgressInv, CarrierInv, Live
  <1> QED  BY <1>5, <1>6, <1>7, <1>8, <1>9 DEF IInv

\* RecordShard keeps the invariant: the entry is that of the shard just published.
LEMMA RecordStep == IInv /\ Record => IInv'
  <1> SUFFICES ASSUME IInv, Record PROVE IInv'
    OBVIOUS
  <1>1. /\ pc = "record"
        /\ UNCHANGED <<job, cancelled, shardFile, shardPart, manFile, index, man, dry,
                       gen, offset, headerLine, pending, row, drained>>
    BY DEF Record, RecordShard, readVars
  <1>2. PICK e : e = Entry(index, shard.rows, shard.n, shardFile[index])
    OBVIOUS
  <1>3. \/ /\ manPart' = IF man = "open" THEN Append(manPart, e) ELSE manPart
           /\ result' = Append(result, e) /\ shard' = NoShard /\ pc' = AfterRow
        \/ pc' = "abort" /\ UNCHANGED <<manPart, result, shard>>
    BY <1>2 DEF Record, RecordShard
  <1>4. Past /\ Live /\ shard.st = "closed" /\ index \in ShardId
    BY <1>1 DEF IInv, WriterInv, Past, Live, Dead
  <1>5. M = N + 1 /\ index = N + 1 /\ N \in Nat /\ M \in Nat /\ Published = 1 .. M
    BY <1>1, <1>4, Shapes DEF IInv, ProgressInv, ShardsInv
  <1>6. e \in EntryType
    <2>1. index \in Published
      BY <1>5
    <2>2. shardFile[index] \in FileState
      BY <2>1 DEF IInv, ShardsInv
    <2>3. shard.rows \in Nat /\ shard.n \in Nat /\ index \in Nat
      BY DEF IInv, TypeOK
    <2> QED  BY <1>2, <2>2, <2>3 DEF Entry, EntryType
  <1>7. TypeOK'
    <2>1. result' \in Seq(EntryType)
      <3>1. result \in Seq(EntryType)
        BY DEF IInv, TypeOK
      <3>2. Append(result, e) \in Seq(EntryType)
        BY <1>6, <3>1, AppendProperties
      <3> QED  BY <1>3, <3>1, <3>2
    <2>2. manPart' \in Seq(EntryType) \cup {None, Old}
      <3>1. CASE man = "open" /\ pc' # "abort"
        <4>1. manPart \in Seq(EntryType)
          BY <3>1 DEF IInv, WriterInv
        <4> QED  BY <1>3, <1>6, <3>1, <4>1, AppendProperties
      <3>2. CASE ~(man = "open" /\ pc' # "abort")
        BY <1>3, <3>2 DEF IInv, TypeOK, AfterRow
      <3> QED  BY <3>1, <3>2
    <2>3. shard' \in [st : {"none", "open", "closed", "aborted"}, rows : Nat, n : Nat]
      BY <1>3 DEF IInv, TypeOK, NoShard
    <2>4. pc' \in {"lines", "finish", "abort"}
      BY <1>3 DEF AfterRow
    <2> QED  BY <1>1, <2>1, <2>2, <2>3, <2>4, ReadTyped DEF IInv, TypeOK
  <1>8. WriterInv'
    <2>1. man' = "open" => manPart' \in Seq(EntryType)
      BY <1>1, <1>3, <1>6, AppendProperties DEF IInv, WriterInv, AfterRow
    <2>2. pc' \in {"lines", "finish", "abort"} /\ shard'.st \in {"none", "closed"} /\ (pc' # "abort" => shard'.st = "none")
      BY <1>3, <1>4 DEF AfterRow, NoShard
    <2> QED  BY <1>1, <1>4, <2>1, <2>2 DEF IInv, WriterInv, Published, New, Live
  <1>9. CASE pc' = "abort"
    <2>1. ReaderInv' /\ LineInv' /\ ShardsInv' /\ ProgressInv' /\ CarrierInv'
      BY <1>1, <1>9, WayOut DEF Dead
    <2> QED  BY <1>7, <1>8, <2>1 DEF IInv
  <1>10. CASE pc' # "abort"
    <2>1. pc' = AfterRow /\ shard' = NoShard /\ result' = Append(result, e)
      BY <1>3, <1>10
    <2>2. ReaderInv' /\ LineInv' /\ Put' = Put /\ Handed' = Handed /\ Past'
      BY <1>1, <1>4, <2>1, ReaderFrame DEF IInv, AfterRow, Ending
    <2>3. ShardsInv' /\ M' = M /\ PublishedRows' = PublishedRows
      BY <1>1, ShardsFrame DEF IInv
    <2>4. N' = N + 1
      BY <1>6, <2>1, AppendProperties DEF N, IInv, TypeOK
    <2>5. InProgress = <<>> /\ InProgress' = <<>>
      BY <1>1, <2>1 DEF InProgress, NoShard
    <2>6. shard'.st = "none" /\ pc' # "record"
      BY <2>1 DEF NoShard, AfterRow
    <2>7. ProgressInv'
      <3>1. M' = N' /\ index' = N'
        BY <1>1, <1>5, <2>3, <2>4
      <3> QED  BY <1>1, <1>4, <2>2, <2>3, <2>5, <2>6, <3>1, Static DEF IInv, ProgressInv
    <2>8. CarrierInv'
      BY <2>6 DEF CarrierInv
    <2> QED  BY <1>7, <1>8, <2>2, <2>3, <2>7, <2>8 DEF IInv
  <1> QED  BY <1>9, <1>10

\* Published shards that are left alone stay what they are, whatever else is on disk.
LEMMA ShardsKept ==
  ASSUME ShardsInv, UNCHANGED <<job, headerLine, gen>>, Published' = Published,
         \A i \in Published : shardFile'[i] = shardFile[i]
  PROVE  ShardsInv' /\ M' = M /\ PublishedRows' = PublishedRows
  <1>1. M' = M /\ Published = 1 .. M
    BY DEF M, ShardsInv
  <1>2. [i \in 1 .. M' |-> shardFile'[i].rows] = [i \in 1 .. M |-> shardFile[i].rows]
    BY <1>1
  <1>3. PublishedRows' = PublishedRows
    BY <1>2 DEF PublishedRows, M
  <1>4. (HeaderRead' <=> HeaderRead) /\ Size' = Size
    BY Static DEF HeaderRead
  <1>5. RowsAre(PublishedRows, 0)' <=> RowsAre(PublishedRows, 0)
    BY <1>3, Static DEF RowsAre
  <1>6. Stretch(FlattenSeq(PublishedRows), Len(headerLine), gen)' <=> Stretch(FlattenSeq(PublishedRows), Len(headerLine), gen)
    BY <1>3
  <1>7. M > 0 => shardFile'[M] = shardFile[M]
    BY <1>1 DEF ShardsInv
  <1> QED  BY <1>1, <1>3, <1>4, <1>5, <1>6, <1>7 DEF ShardsInv

\* What is in progress stays what it is, wherever it stands.
LEMMA ProgressKept ==
  ASSUME IInv, Past, Past', ShardsInv', M' = M, PublishedRows' = PublishedRows,
         UNCHANGED <<job, gen, headerLine, index, Put, Handed, InProgress>>,
         Live => N' = N, shard'.st = "none" <=> shard.st = "none", pc # "record", pc' # "record"
  PROVE  ProgressInv'
  <1>1. Live' => Live
    BY DEF Live, Past
  <1>2. RowsAre(InProgress, Len(PublishedRows))' <=> RowsAre(InProgress, Len(PublishedRows))
    BY Static DEF RowsAre
  <1> QED  BY <1>1, <1>2 DEF IInv, ProgressInv

\* shardWriter.Close, first half, keeps the invariant: the rows stay what they are.
LEMMA FlushShardStep == IInv /\ FlushShard /\ UNCHANGED readVars => IInv'
  <1> SUFFICES ASSUME IInv, FlushShard, UNCHANGED readVars PROVE IInv'
    OBVIOUS
  <1>1. /\ pc = "flush" /\ shard.st = "open"
        /\ UNCHANGED <<job, cancelled, shardFile, manFile, manPart, index, man, dry, result,
                       gen, offset, headerLine, pending, row, drained>>
    BY DEF FlushShard, readVars
  <1>2. \/ /\ \E n \in (IF job.gz THEN CountAfter(shard.n, 0) ELSE {shard.n}) :
                shard' = [shard EXCEPT !.st = "closed", !.n = n]
           /\ shardPart' = [shardPart EXCEPT ![index].whole = TRUE]
           /\ pc' = AfterFlush
        \/ /\ shard' = [shard EXCEPT !.st = "closed"]
           /\ shardPart' = shardPart
           /\ pc' = "abort"
    BY DEF FlushShard
  <1>3. job \in Job /\ job.gz \in BOOLEAN
    BY Shapes, JobType
  <1>4. /\ shardPart \in [ShardId -> FileState \cup {None, Old}]
        /\ shard \in [st : {"none", "open", "closed", "aborted"}, rows : Nat, n : Nat]
    BY DEF IInv, TypeOK
  <1>5. Past /\ Live /\ index \in ShardId
    BY <1>1 DEF IInv, WriterInv, Past, Live, Dead
  <1>6. PICK f \in FileState : /\ f = shardPart[index] /\ (f.hdr <=> headerLine # <<>>)
                               /\ InProgress = f.rows /\ FlattenSeq(f.rows) # <<>>
    BY <1>1, <1>5 DEF IInv, CarrierInv, InProgress
  <1>7. PICK g \in FileState : /\ shardPart' = [shardPart EXCEPT ![index] = g]
                               /\ g.rows = f.rows /\ (g.hdr <=> f.hdr) /\ (pc' # "abort" => g.whole)
    <2>1. [f EXCEPT !.whole = TRUE] \in FileState
      BY DEF FileState
    <2>2. [f EXCEPT !.whole = TRUE].rows = f.rows
      BY DEF FileState
    <2>3. [f EXCEPT !.whole = TRUE].hdr = f.hdr
      BY DEF FileState
    <2>4. [f EXCEPT !.whole = TRUE].whole = TRUE
      BY DEF FileState
    <2>5. shardPart = [shardPart EXCEPT ![index] = f]
      BY <1>4, <1>6
    <2>6. CASE pc' = "abort"
      <3>1. shardPart' = [shardPart EXCEPT ![index] = f]
        BY <1>2, <2>5, <2>6 DEF AfterFlush
      <3> QED  BY <2>6, <3>1
    <2>7. CASE pc' # "abort"
      <3>1. shardPart' = [shardPart EXCEPT ![index] = [f EXCEPT !.whole = TRUE]]
        BY <1>2, <1>6, <2>7
      <3> QED  BY <2>1, <2>2, <2>3, <2>4, <3>1
    <2> QED  BY <2>6, <2>7
  <1>8. shardPart' \in [ShardId -> FileState \cup {None, Old}] /\ shardPart'[index] = g
    BY <1>4, <1>5, <1>7
  <1>9. shard' \in [st : {"none", "open", "closed", "aborted"}, rows : Nat, n : Nat] /\ shard'.st = "closed"
    <2>1. ASSUME NEW n \in (IF job.gz THEN CountAfter(shard.n, 0) ELSE {shard.n}) PROVE n \in Nat
      BY <1>3, <1>4, CountType
    <2> QED  BY <1>1, <1>2, <1>4, <2>1
  <1>10. pc' \in {"unlink", "rename", "abort"}
    BY <1>2 DEF AfterFlush
  <1>11. TypeOK'
    BY <1>1, <1>8, <1>9, <1>10, ReadTyped DEF IInv, TypeOK
  <1>12. WriterInv'
    BY <1>1, <1>5, <1>9, <1>10 DEF IInv, WriterInv, Published, New, N, Live, Dead
  <1>13. CASE pc' = "abort"
    <2>1. ReaderInv' /\ LineInv' /\ ShardsInv' /\ ProgressInv' /\ CarrierInv'
      BY <1>1, <1>13, WayOut DEF Dead
    <2> QED  BY <1>11, <1>12, <2>1 DEF IInv
  <1>14. CASE pc' # "abort"
    <2>1. ReaderInv' /\ LineInv' /\ Put' = Put /\ Handed' = Handed /\ Past'
      BY <1>1, <1>5, <1>10, <1>14, ReaderFrame DEF IInv, Ending
    <2>2. ShardsInv' /\ M' = M /\ PublishedRows' = PublishedRows
      BY <1>1, ShardsFrame DEF IInv
    <2>3. InProgress' = InProgress
      BY <1>1, <1>6, <1>7, <1>8, <1>9, <1>10, <1>14 DEF InProgress
    <2>4. ProgressInv'
      BY <1>1, <1>5, <1>9, <1>10, <2>1, <2>2, <2>3, ProgressKept DEF N
    <2>5. CarrierInv'
      BY <1>1, <1>6, <1>7, <1>8, <1>9, <1>10, <1>14, <2>3 DEF CarrierInv
    <2> QED  BY <1>11, <1>12, <2>1, <2>2, <2>4, <2>5 DEF IInv
  <1> QED  BY <1>13, <1>14

\* Where the shard that is being published stands: after the published ones.
LEMMA Publishing ==
  ASSUME IInv, pc \in {"unlink", "rename"}
  PROVE  /\ Past /\ Live /\ shard.st = "closed" /\ index \in ShardId
         /\ M = N /\ index = M + 1 /\ M \in Nat /\ Published = 1 .. M /\ index \notin Published
         /\ shardFile \in [ShardId -> FileState \cup {None, Old}]
         /\ shardPart \in [ShardId -> FileState \cup {None, Old}]
         /\ shardPart[index] \in FileState /\ shardPart[index].whole
         /\ (shardPart[index].hdr <=> headerLine # <<>>) /\ InProgress = shardPart[index].rows
         /\ FlattenSeq(InProgress) # <<>>
  <1>1. Past /\ Live /\ shard.st = "closed" /\ index \in ShardId
    BY DEF IInv, WriterInv, Past, Live, Dead
  <1>2. M = N /\ index = M + 1 /\ M \in Nat /\ Published = 1 .. M
    BY <1>1 DEF IInv, ProgressInv, ShardsInv
  <1>3. index \notin Published
    BY <1>2
  <1>4. /\ shardFile \in [ShardId -> FileState \cup {None, Old}]
        /\ shardPart \in [ShardId -> FileState \cup {None, Old}]
    BY DEF IInv, TypeOK
  <1>5. /\ shardPart[index] \in FileState /\ shardPart[index].whole
        /\ (shardPart[index].hdr <=> headerLine # <<>>) /\ FlattenSeq(InProgress) # <<>>
    BY <1>1 DEF IInv, CarrierInv
  <1>6. InProgress = shardPart[index].rows
    BY <1>1 DEF InProgress
  <1> QED  BY <1>1, <1>2, <1>3, <1>4, <1>5, <1>6

\* On Windows, removing the old output keeps the invariant: it is not one of the
\* published shards.
LEMMA UnlinkShardStep == IInv /\ UnlinkShard /\ UNCHANGED readVars => IInv'
  <1> SUFFICES ASSUME IInv, UnlinkShard, UNCHANGED readVars PROVE IInv'
    OBVIOUS
  <1>1. /\ pc = "unlink"
        /\ UNCHANGED <<job, cancelled, shardPart, manFile, manPart, index, shard, man, dry, result,
                       gen, offset, headerLine, pending, row, drained>>
    BY DEF UnlinkShard, readVars
  <1>2. \/ shardFile' = [shardFile EXCEPT ![index] = None] /\ pc' = "rename"
        \/ pc' = "abort" /\ shardFile' = shardFile
    BY DEF UnlinkShard
  <1>3. /\ Past /\ Live /\ shard.st = "closed" /\ index \in ShardId /\ index \notin Published
        /\ shardFile \in [ShardId -> FileState \cup {None, Old}]
    BY <1>1, Publishing
  <1>4. shardFile' \in [ShardId -> FileState \cup {None, Old}]
    BY <1>2, <1>3
  <1>5. /\ \A i \in ShardId : i # index => shardFile'[i] = shardFile[i]
        /\ ~New(shardFile'[index])
    BY <1>2, <1>3 DEF New, Published
  <1>6. Published' = Published
    BY <1>3, <1>5 DEF Published, New
  <1>7. ShardsInv' /\ M' = M /\ PublishedRows' = PublishedRows
    <2>1. \A i \in Published : shardFile'[i] = shardFile[i]
      BY <1>3, <1>5 DEF Published
    <2> QED  BY <1>1, <1>6, <2>1, ShardsKept DEF IInv
  <1>8. pc' \in {"rename", "abort"}
    BY <1>2
  <1>9. TypeOK'
    BY <1>1, <1>4, <1>8, ReadTyped DEF IInv, TypeOK
  <1>10. WriterInv'
    BY <1>1, <1>3, <1>6, <1>8 DEF IInv, WriterInv, N, Live
  <1>11. CASE pc' = "abort"
    <2>1. ReaderInv' /\ LineInv' /\ ShardsInv' /\ ProgressInv' /\ CarrierInv'
      BY <1>1, <1>2, <1>11, WayOut DEF Dead
    <2> QED  BY <1>9, <1>10, <2>1 DEF IInv
  <1>12. CASE pc' = "rename"
    <2>1. ReaderInv' /\ LineInv' /\ Put' = Put /\ Handed' = Handed /\ Past'
      BY <1>1, <1>3, <1>12, ReaderFrame DEF IInv, Ending
    <2>2. InProgress' = InProgress
      BY <1>1, <1>12 DEF InProgress
    <2>3. ProgressInv'
      BY <1>1, <1>3, <1>7, <1>12, <2>1, <2>2, ProgressKept DEF N
    <2>4. CarrierInv'
      BY <1>1, <1>3, <1>12, <2>2 DEF IInv, CarrierInv
    <2> QED  BY <1>7, <1>9, <1>10, <2>1, <2>3, <2>4 DEF IInv
  <1> QED  BY <1>8, <1>11, <1>12


\* What a run has published once one more shard takes its final name.
LEMMA OneMore ==
  ASSUME IInv, NEW f \in FileState, shardFile' = [shardFile EXCEPT ![M + 1] = f], M + 1 \in ShardId,
         FlattenSeq(f.rows) \in Seq(Bits)
  PROVE  /\ Published' = 1 .. M + 1 /\ M' = M + 1
         /\ PublishedRows' = PublishedRows \o f.rows
         /\ Out' = Out \o FlattenSeq(f.rows) /\ f.rows \in Seq(Seq(Bits))
  <1>1. /\ shardFile \in [ShardId -> FileState \cup {None, Old}] /\ M \in Nat /\ Published = 1 .. M
        /\ \A i \in Published : shardFile[i] \in FileState
        /\ PublishedRows \in Seq(Seq(Bits)) /\ Out \in Seq(Bits)
    BY Shapes DEF IInv, TypeOK, ShardsInv
  <1>2. f.rows \in Seq(Seq(Bits))
    BY DEF FileState, Bits
  <1>3. New(f)
    BY MarkersAreNotFiles DEF New
  <1>4. shardFile'[M + 1] = f /\ \A i \in ShardId : i # M + 1 => shardFile'[i] = shardFile[i]
    BY <1>1
  <1>5. Published' = Published \cup {M + 1}
    BY <1>3, <1>4 DEF Published, New
  <1>6. Published' = 1 .. M + 1
    BY <1>1, <1>5
  <1>7. M' = M + 1
    <2>1. PICK m \in Nat : m = M + 1
      BY <1>1
    <2>2. Cardinality(1 .. m) = m
      <3>1. 1 \in Int /\ m \in Int
        OBVIOUS
      <3>2. Cardinality(1 .. m) = IF 1 > m THEN 0 ELSE m - 1 + 1
        BY <3>1, FS_Interval
      <3> QED  BY <1>1, <2>1, <3>2
    <2> QED  BY <1>6, <2>1, <2>2 DEF M
  <1> DEFINE s == [i \in 1 .. M |-> shardFile[i].rows]
             t == [i \in 1 .. M + 1 |-> shardFile'[i].rows]
  <1>8. s \in Seq(Seq(Seq(Bits)))
    <2>1. \A i \in 1 .. M : shardFile[i].rows \in Seq(Seq(Bits))
      BY <1>1 DEF FileState, Bits
    <2> QED  BY <1>1, <2>1
  <1>9. t = Append(s, f.rows)
    <2>1. Len(s) = M
      BY <1>1
    <2>2. \A i \in 1 .. M : t[i] = s[i]
      BY <1>1, <1>4 DEF Published
    <2>3. t[M + 1] = f.rows
      BY <1>1, <1>4
    <2>4. Append(s, f.rows) = [i \in 1 .. M + 1 |-> IF i <= M THEN s[i] ELSE f.rows]
      BY <1>1, <2>1
    <2> QED  BY <1>1, <2>2, <2>3, <2>4
  <1>10. FlattenSeq(s) = PublishedRows /\ FlattenSeq(t) = PublishedRows'
    BY <1>7 DEF PublishedRows, M
  <1> HIDE DEF s, t
  <1>11. PublishedRows' = PublishedRows \o f.rows
    BY <1>1, <1>2, <1>8, <1>9, <1>10, FlattenGrows
  <1>12. FlattenSeq(PublishedRows \o f.rows) = FlattenSeq(PublishedRows) \o FlattenSeq(f.rows)
    BY <1>1, <1>2, FlattenConcat DEF Out
  <1>13. Out' = Out \o FlattenSeq(f.rows)
    BY <1>11, <1>12 DEF Out
  <1> QED  BY <1>2, <1>6, <1>7, <1>11, <1>13

\* AtomicRename keeps the invariant: the rows in progress become published ones.
LEMMA RenameShardStep == IInv /\ RenameShard /\ UNCHANGED readVars => IInv'
  <1> SUFFICES ASSUME IInv, RenameShard, UNCHANGED readVars PROVE IInv'
    OBVIOUS
  <1>1. /\ pc = "rename"
        /\ UNCHANGED <<job, cancelled, manFile, manPart, index, shard, man, dry, result,
                       gen, offset, headerLine, pending, row, drained>>
    BY DEF RenameShard, readVars
  <1>2. \/ /\ shardFile' = [shardFile EXCEPT ![index] = shardPart[index]]
           /\ shardPart' = [shardPart EXCEPT ![index] = None]
           /\ pc' = "record"
        \/ pc' = "abort" /\ UNCHANGED <<shardFile, shardPart>>
    BY DEF RenameShard
  <1>3. /\ Past /\ Live /\ shard.st = "closed" /\ index \in ShardId
        /\ M = N /\ index = M + 1 /\ M \in Nat /\ Published = 1 .. M
        /\ shardFile \in [ShardId -> FileState \cup {None, Old}]
        /\ shardPart \in [ShardId -> FileState \cup {None, Old}]
        /\ InProgress = shardPart[index].rows /\ FlattenSeq(InProgress) # <<>>
    BY <1>1, Publishing
  <1>4. PICK f \in FileState : f = shardPart[index] /\ f.whole /\ (f.hdr <=> headerLine # <<>>)
    BY <1>1, Publishing
  <1>5. pc' \in {"record", "abort"}
    BY <1>2
  <1>6. TypeOK'
    <2>1. shardFile' \in [ShardId -> FileState \cup {None, Old}]
      BY <1>2, <1>3, <1>4
    <2>2. shardPart' \in [ShardId -> FileState \cup {None, Old}]
      BY <1>2, <1>3
    <2> QED  BY <1>1, <1>5, <2>1, <2>2, ReadTyped DEF IInv, TypeOK
  <1>7. WriterInv'
    <2>1. ~job'.dryRun
      BY <1>1, <1>3 DEF Live
    <2> QED  BY <1>1, <1>3, <1>5, <2>1 DEF IInv, WriterInv
  <1>8. CASE pc' = "abort"
    <2>1. ReaderInv' /\ LineInv' /\ ShardsInv' /\ ProgressInv' /\ CarrierInv'
      BY <1>1, <1>2, <1>8, WayOut DEF Dead
    <2> QED  BY <1>6, <1>7, <2>1 DEF IInv
  <1>9. CASE pc' = "record"
    <2>1. ReaderInv' /\ LineInv' /\ Put' = Put /\ Handed' = Handed /\ Past'
      BY <1>1, <1>3, <1>9, ReaderFrame DEF IInv, Ending
    <2>2. /\ InProgress \in Seq(Seq(Bits)) /\ Stretch(Held, Len(headerLine) + Len(Out), gen)
          /\ Put = Len(headerLine) + Len(Out) + Len(Held)
          /\ Stretch(Out, Len(headerLine), gen) /\ PublishedRows \in Seq(Seq(Bits))
      BY <1>3 DEF IInv, ProgressInv, ShardsInv, Held, Out
    <2>3. f.rows = InProgress /\ FlattenSeq(f.rows) = Held /\ Held \in Seq(Bits) /\ Held # <<>>
      BY <1>3, <1>4, <2>2 DEF Held, Stretch
    <2>4. /\ Published' = 1 .. M + 1 /\ M' = M + 1
          /\ PublishedRows' = PublishedRows \o InProgress /\ Out' = Out \o Held
      <3>1. shardFile' = [shardFile EXCEPT ![M + 1] = f]
        BY <1>2, <1>3, <1>4, <1>9
      <3>2. FlattenSeq(f.rows) \in Seq(Bits) /\ M + 1 \in ShardId
        BY <1>3, <2>3
      <3> QED  BY <2>3, <3>1, <3>2, OneMore
    <2>5. PICK h, o, l \in Nat : h = Len(headerLine) /\ o = Len(Out) /\ l = Len(Held)
      BY Shapes, <2>3, LenProperties
    <2>6. l > 0
      BY <2>3, <2>5, EmptySeq
    <2>7. Stretch(Out', h, gen) /\ Len(Out') = o + l
      <3>1. h \in Int /\ h + o \in Int /\ h + o = h + Len(Out)
        BY <2>5
      <3> QED  BY <2>2, <2>4, <2>5, <3>1, StretchJoin
    <2>8. Stretch(Out', Len(headerLine'), gen')
      BY <1>1, <2>5, <2>7
    <2>9. gen = 1 => Size > 0 /\ HeaderRead
      <3>1. Put <= Size /\ Put > 0
        BY <1>3, <2>2, <2>5, <2>6, Reads
      <3> QED  BY <1>3, <3>1, Shapes, Reads
    <2>10. gen = 1 => /\ RowsAre(PublishedRows \o InProgress, 0)
                      /\ Handed = Len(PublishedRows) + Len(InProgress)
      <3> SUFFICES ASSUME gen = 1
                   PROVE  RowsAre(PublishedRows \o InProgress, 0) /\ Handed = Len(PublishedRows) + Len(InProgress)
        OBVIOUS
      <3>1. /\ RowsAre(PublishedRows, 0) /\ RowsAre(InProgress, Len(PublishedRows))
            /\ Handed = Len(PublishedRows) + Len(InProgress)
        BY <1>3 DEF IInv, ProgressInv, ShardsInv
      <3>2. PICK a, k \in Nat : a = Len(PublishedRows) /\ k = Len(InProgress)
        BY <2>2, LenProperties
      <3> DEFINE z == PublishedRows \o InProgress
      <3>3. /\ Len(z) = a + k
            /\ \A i \in 1 .. a + k : z[i] = IF i <= a THEN PublishedRows[i] ELSE InProgress[i - a]
        BY <2>2, <3>2, ConcatProperties
      <3> HIDE DEF z
      <3>4. ASSUME NEW i \in 1 .. a + k PROVE 0 + i \in 1 .. Len(Body) /\ z[i] = Body[0 + i]
        <4>1. CASE i <= a
          BY <3>1, <3>2, <3>3, <4>1 DEF RowsAre
        <4>2. CASE ~(i <= a)
          <5>1. PICK j \in 1 .. k : j = i - a
            BY <4>2
          <5>2. a + j \in 1 .. Len(Body) /\ InProgress[j] = Body[a + j]
            BY <3>1, <3>2, <5>1 DEF RowsAre
          <5>3. a + j = i /\ 0 + i = i
            BY <5>1
          <5>4. z[i] = InProgress[j]
            BY <3>3, <4>2, <5>1
          <5> QED  BY <5>2, <5>3, <5>4
        <4> QED  BY <4>1, <4>2
      <3>5. RowsAre(z, 0)
        BY <3>3, <3>4 DEF RowsAre
      <3> QED  BY <3>1, <3>5 DEF z
    <2>11. ShardsInv'
      <3>1. \A i \in Published' : shardFile'[i] \in FileState /\ shardFile'[i].whole /\ (shardFile'[i].hdr <=> headerLine' # <<>>)
        <4>1. \A i \in Published : shardFile[i] \in FileState /\ shardFile[i].whole /\ (shardFile[i].hdr <=> headerLine # <<>>)
          BY DEF IInv, ShardsInv
        <4>2. shardFile'[index] = f /\ \A i \in ShardId : i # index => shardFile'[i] = shardFile[i]
          BY <1>2, <1>3, <1>4, <1>9
        <4>3. \A i \in Published' : i = index \/ i \in Published
          BY <1>3, <2>4
        <4>4. Published \subseteq ShardId /\ index \notin Published
          BY <1>1, Publishing DEF Published
        <4> QED  BY <1>1, <1>4, <4>1, <4>2, <4>3, <4>4
      <3>2. PublishedRows' \in Seq(Seq(Bits))
        BY <2>2, <2>4, ConcatProperties
      <3>3. gen' = 1 => Size' > 0 /\ HeaderRead' /\ RowsAre(PublishedRows, 0)'
        <4>1. (HeaderRead' <=> HeaderRead) /\ Size' = Size /\ Body' = Body
          BY <1>1, Static DEF HeaderRead
        <4>2. gen = 1 => RowsAre(PublishedRows, 0)'
          BY <2>4, <2>10, <4>1 DEF RowsAre
        <4> QED  BY <1>1, <2>9, <4>1, <4>2
      <3>4. LET s == FlattenSeq(shardFile'[M'].rows)
            IN s \in Seq(Bits) /\ s # <<>> /\ s[Len(s)][2] = Len(headerLine') + Len(FlattenSeq(PublishedRows'))
        <4>1. shardFile'[M'] = f
          BY <1>2, <1>3, <1>4, <1>9, <2>4
        <4>2. Held[l][2] = (h + o) + l
          BY <2>2, <2>5, <2>6 DEF Stretch
        <4>3. Len(headerLine') + Len(FlattenSeq(PublishedRows')) = h + (o + l)
          BY <1>1, <2>5, <2>7 DEF Out
        <4>4. (h + o) + l = h + (o + l)
          OBVIOUS
        <4> QED  BY <2>3, <2>5, <4>1, <4>2, <4>3, <4>4
      <3>5. Published' = 1 .. M' /\ M' \in Nat
        BY <1>3, <2>4
      <3>6. Stretch(FlattenSeq(PublishedRows'), Len(headerLine'), gen')
        BY <2>8 DEF Out
      <3> QED  BY <3>1, <3>2, <3>3, <3>4, <3>5, <3>6 DEF ShardsInv
    <2>12. InProgress' = <<>> /\ FlattenSeq(<<>>) = <<>> /\ Len(<<>>) = 0 /\ <<>> \in Seq(Seq(Bits))
      BY <1>9, FlattenEmpty, EmptySeq DEF InProgress
    <2>13. ProgressInv'
      <3>1. M' = N' + 1 /\ index' = N' + 1 /\ shard'.st # "none"
        BY <1>1, <1>3, <2>4 DEF N
      <3>2. InProgress' \in Seq(Seq(Bits)) /\ FlattenSeq(InProgress') = <<>>
        BY <2>12
      <3>3. \A a : Stretch(FlattenSeq(InProgress'), a, gen')
        BY <3>2, StretchEmpty
      <3>4. Put' = Len(headerLine') + Len(FlattenSeq(PublishedRows')) + Len(FlattenSeq(InProgress'))
        <4>1. Put' = (h + o) + l
          BY <2>1, <2>2, <2>5
        <4>2. Len(headerLine') + Len(FlattenSeq(PublishedRows')) + Len(FlattenSeq(InProgress')) = (h + (o + l)) + 0
          BY <1>1, <2>5, <2>7, <2>12, <3>2 DEF Out
        <4> QED  BY <4>1, <4>2
      <3>5. RowsAre(InProgress, Len(PublishedRows))'
        BY <2>12 DEF RowsAre
      <3>6. gen' = 1 => Handed' = Len(PublishedRows') + Len(InProgress')
        <4>1. Len(PublishedRows') = Len(PublishedRows) + Len(InProgress) /\ Len(PublishedRows') \in Nat
          BY <2>2, <2>4, ConcatProperties, LenProperties
        <4> QED  BY <1>1, <2>1, <2>10, <2>12, <4>1
      <3> QED  BY <1>9, <3>1, <3>2, <3>3, <3>4, <3>5, <3>6 DEF ProgressInv
    <2>14. CarrierInv'
      BY <1>9 DEF CarrierInv
    <2> QED  BY <1>6, <1>7, <2>1, <2>11, <2>13, <2>14 DEF IInv
  <1> QED  BY <1>5, <1>8, <1>9


\* The end of the rows keeps the invariant: the last shard is closed, or there is none.
LEMMA FinishStep == IInv /\ Finish /\ UNCHANGED readVars => IInv'
  <1> SUFFICES ASSUME IInv, Finish, UNCHANGED readVars PROVE IInv'
    OBVIOUS
  <1>1. /\ pc = "finish" /\ pc' = IF shard.st = "open" THEN "flush" ELSE "commit"
        /\ UNCHANGED <<job, cancelled, shardFile, shardPart, manFile, manPart, index, shard, man,
                       gen, offset, headerLine, pending, row, drained>>
    BY DEF Finish, readVars, disk
  <1>2. \/ /\ job.dryRun
           /\ result' = Append(result, Entry(index, dry.rows, dry.bytes, None))
           /\ dry' = NoDry
        \/ UNCHANGED <<result, dry>>
    BY DEF Finish
  <1>3. pc' \in {"flush", "commit"} /\ Past /\ shard.st \in {"none", "open"}
    BY <1>1 DEF Past, Dead, IInv, WriterInv
  <1>4. TypeOK'
    <2>1. /\ index \in Nat /\ dry \in [open : BOOLEAN, rows : Nat, bytes : Nat] /\ result \in Seq(EntryType)
      BY DEF IInv, TypeOK
    <2>2. dry.rows \in Nat /\ dry.bytes \in Nat
      BY <2>1
    <2>3. Entry(index, dry.rows, dry.bytes, None) \in EntryType
      BY <2>1, <2>2 DEF Entry, EntryType
    <2>4. result' \in Seq(EntryType)
      BY <1>2, <2>1, <2>3, AppendProperties
    <2>5. dry' \in [open : BOOLEAN, rows : Nat, bytes : Nat]
      <3>1. NoDry \in [open : BOOLEAN, rows : Nat, bytes : Nat]
        BY DEF NoDry
      <3> QED  BY <1>2, <2>1, <3>1
    <2> QED  BY <1>1, <1>3, <2>4, <2>5, ReadTyped DEF IInv, TypeOK
  <1>5. WriterInv'
    BY <1>1, <1>3 DEF IInv, WriterInv, Published, New
  <1>6. ReaderInv' /\ LineInv' /\ Put' = Put /\ Handed' = Handed /\ Past'
    <2>1. drained
      BY <1>1, <1>3 DEF IInv, ReaderInv, Ending
    <2> QED  BY <1>1, <1>3, <2>1, ReaderFrame DEF IInv, Ending
  <1>7. ShardsInv' /\ M' = M /\ PublishedRows' = PublishedRows
    BY <1>1, ShardsFrame DEF IInv
  <1>8. InProgress' = InProgress
    BY <1>1, <1>3 DEF InProgress
  <1>9. ProgressInv'
    <2>1. Live => N' = N
      BY <1>2 DEF Live, N
    <2> QED  BY <1>1, <1>3, <1>6, <1>7, <1>8, <2>1, ProgressKept
  <1>10. CarrierInv'
    <2>1. Live' => Live
      BY <1>1 DEF Live, Dead
    <2> QED  BY <1>1, <1>3, <1>8, <2>1 DEF IInv, CarrierInv
  <1> QED  BY <1>4, <1>5, <1>6, <1>7, <1>9, <1>10 DEF IInv

\* The steps that publish the manifest keep the invariant: every shard is on disk.
LEMMA ManifestSteps ==
  IInv /\ (CloseManifest \/ UnlinkManifest \/ RenameManifest) /\ UNCHANGED readVars => IInv'
  <1> SUFFICES ASSUME IInv, CloseManifest \/ UnlinkManifest \/ RenameManifest, UNCHANGED readVars PROVE IInv'
    OBVIOUS
  <1>1. /\ pc \in {"commit", "unlinkManifest", "renameManifest"}
        /\ pc' \in {"done", "unlinkManifest", "renameManifest", "abort"}
        /\ UNCHANGED <<job, cancelled, shardFile, shardPart, index, shard, dry, result,
                       gen, offset, headerLine, pending, row, drained>>
    BY DEF CloseManifest, UnlinkManifest, RenameManifest, readVars, disk
  <1>2. Past /\ shard.st = "none"
    BY <1>1 DEF Past, Dead, IInv, WriterInv
  <1>3. /\ man \in {"none", "open", "closed", "aborted"}
        /\ manFile \in Seq(EntryType) \cup {None, Old} /\ manPart \in Seq(EntryType) \cup {None, Old}
    BY DEF IInv, TypeOK
  <1>4. /\ man' \in {"none", "open", "closed", "aborted"}
        /\ manFile' \in Seq(EntryType) \cup {None, Old} /\ manPart' \in Seq(EntryType) \cup {None, Old}
    BY <1>3 DEF CloseManifest, UnlinkManifest, RenameManifest, disk
  <1>5. TypeOK'
    BY <1>1, <1>4, ReadTyped DEF IInv, TypeOK, Terminal
  <1>6. WriterInv'
    <2>1. /\ pc' # "done" => ~New(manFile')
          /\ man' = "open" => manPart' \in Seq(EntryType)
          /\ pc' \in {"unlinkManifest", "renameManifest"} => man' = "closed"
          /\ job.dryRun => man' = "none"
      BY <1>1, <1>3 DEF IInv, WriterInv, CloseManifest, UnlinkManifest, RenameManifest, New, disk
    <2> QED  BY <1>1, <1>2, <2>1 DEF IInv, WriterInv, Published, New
  <1>7. CASE pc' = "abort"
    <2>1. ReaderInv' /\ LineInv' /\ ShardsInv' /\ ProgressInv' /\ CarrierInv'
      BY <1>1, <1>7, WayOut DEF Dead
    <2> QED  BY <1>5, <1>6, <2>1 DEF IInv
  <1>8. CASE pc' # "abort"
    <2>1. ReaderInv' /\ LineInv' /\ Put' = Put /\ Handed' = Handed /\ Past'
      <3>1. drained
        BY <1>1, <1>2 DEF IInv, ReaderInv, Ending
      <3> QED  BY <1>1, <1>2, <1>8, <3>1, ReaderFrame DEF IInv, Ending
    <2>2. ShardsInv' /\ M' = M /\ PublishedRows' = PublishedRows
      BY <1>1, ShardsFrame DEF IInv
    <2>3. InProgress' = InProgress
      BY <1>1, <1>2 DEF InProgress
    <2>4. ProgressInv'
      BY <1>1, <1>2, <2>1, <2>2, <2>3, ProgressKept DEF N
    <2>5. CarrierInv'
      BY <1>1, <1>2 DEF CarrierInv
    <2> QED  BY <1>5, <1>6, <2>1, <2>2, <2>4, <2>5 DEF IInv
  <1> QED  BY <1>7, <1>8

\* The deferred cleanup keeps the invariant: it only takes away what is unfinished.
LEMMA AbortSteps == IInv /\ (AbortShard \/ AbortManifest) /\ UNCHANGED readVars => IInv'
  <1> SUFFICES ASSUME IInv, AbortShard \/ AbortManifest, UNCHANGED readVars PROVE IInv'
    OBVIOUS
  <1>1. /\ pc \in {"abort", "abortManifest"} /\ pc' \in {"abortManifest", "failed"}
        /\ UNCHANGED <<job, cancelled, shardFile, manFile, index, dry, result,
                       gen, offset, headerLine, pending, row, drained>>
    BY DEF AbortShard, AbortManifest, readVars
  <1>2. /\ \/ shardPart' = shardPart
           \/ shard.st = "open" /\ shardPart' = [shardPart EXCEPT ![index] = None]
        /\ \/ shard' = shard
           \/ shard.st = "open" /\ shard' = [shard EXCEPT !.st = "aborted"]
        /\ \/ man' = man /\ manPart' = manPart
           \/ man = "open" /\ man' = "aborted" /\ manPart' = None
    BY DEF AbortShard, AbortManifest
  <1>3. /\ shardPart \in [ShardId -> FileState \cup {None, Old}]
        /\ shard \in [st : {"none", "open", "closed", "aborted"}, rows : Nat, n : Nat]
        /\ man \in {"none", "open", "closed", "aborted"} /\ manPart \in Seq(EntryType) \cup {None, Old}
    BY DEF IInv, TypeOK
  <1>4. /\ shardPart' \in [ShardId -> FileState \cup {None, Old}]
        /\ shard' \in [st : {"none", "open", "closed", "aborted"}, rows : Nat, n : Nat]
        /\ man' \in {"none", "open", "closed", "aborted"} /\ manPart' \in Seq(EntryType) \cup {None, Old}
        /\ shard'.st = "none" <=> shard.st = "none"
    BY <1>2, <1>3
  <1>5. TypeOK'
    BY <1>1, <1>4, ReadTyped DEF IInv, TypeOK, Terminal
  <1>6. WriterInv'
    BY <1>1, <1>2, <1>4 DEF IInv, WriterInv, Published, New
  <1>7. ReaderInv' /\ LineInv' /\ ShardsInv' /\ ProgressInv' /\ CarrierInv'
    BY <1>1, WayOut DEF Dead
  <1> QED  BY <1>5, <1>6, <1>7 DEF IInv

\* A kill keeps the invariant: what is on disk stays as it is.
LEMMA CrashStep == IInv /\ Crash /\ UNCHANGED readVars => IInv'
  <1> SUFFICES ASSUME IInv, Crash, UNCHANGED readVars PROVE IInv'
    OBVIOUS
  <1>1. /\ pc' = "crashed"
        /\ UNCHANGED <<job, cancelled, shardFile, shardPart, manFile, manPart, index, shard, man, dry, result,
                       gen, offset, headerLine, pending, row, drained>>
        /\ pc # "done"
    BY DEF Crash, readVars, disk, Terminal
  <1>2. TypeOK'
    BY <1>1, ReadTyped DEF IInv, TypeOK, Terminal
  <1>3. WriterInv'
    BY <1>1 DEF IInv, WriterInv, Published, New
  <1>4. ReaderInv' /\ LineInv' /\ ShardsInv' /\ ProgressInv' /\ CarrierInv'
    BY <1>1, WayOut DEF Dead
  <1> QED  BY <1>2, <1>3, <1>4 DEF IInv

\* When nothing but the signal moves, the invariant stays what it is.
LEMMA StillStep ==
  ASSUME IInv, cancelled' \in BOOLEAN,
         UNCHANGED <<pc, job, shardFile, shardPart, manFile, manPart, index, shard, man, dry, result,
                     gen, offset, headerLine, pending, row, drained>>
  PROVE  IInv'
  <1>1. TypeOK'
    BY ReadTyped DEF IInv, TypeOK
  <1>2. WriterInv'
    BY DEF IInv, WriterInv, Published, New, N
  <1>3. Put' = Put /\ Handed' = Handed /\ (Past' <=> Past) /\ (Live' <=> Live) /\ InProgress' = InProgress /\ N' = N
    BY Static DEF Put, Handed, Rank, Past, Live, InProgress, N
  <1>4. ShardsInv' /\ M' = M /\ PublishedRows' = PublishedRows
    BY ShardsFrame DEF IInv
  <1>5. (HeaderRead' <=> HeaderRead) /\ Size' = Size /\ Ends' = Ends /\ Newlines' = Newlines
    BY Static DEF HeaderRead
  <1>6. ReaderInv'
    BY <1>3 DEF IInv, ReaderInv
  <1>7. LineInv'
    BY <1>3, <1>5 DEF IInv, LineInv, Unbroken
  <1>8. RowsAre(InProgress, Len(PublishedRows))' <=> RowsAre(InProgress, Len(PublishedRows))
    BY <1>3, <1>4, Static DEF RowsAre
  <1>9. ProgressInv'
    BY <1>3, <1>4, <1>8 DEF IInv, ProgressInv
  <1>10. CarrierInv'
    BY <1>3 DEF IInv, CarrierInv
  <1> QED  BY <1>1, <1>2, <1>4, <1>6, <1>7, <1>9, <1>10 DEF IInv

\* When the object is replaced, what was read of it stays where it is; what it
\* says about its lines no longer matters.
LEMMA ReplaceStep == IInv /\ Replace => IInv'
  <1> SUFFICES ASSUME IInv, Replace PROVE IInv'
    OBVIOUS
  <1>1. /\ gen < Len(job.versions) /\ gen' = gen + 1
        /\ UNCHANGED <<pc, job, cancelled, shardFile, shardPart, manFile, manPart, index, shard, man, dry, result,
                       offset, headerLine, pending, row, drained>>
    BY DEF Replace, outVars, disk
  <1>2. job \in Job /\ gen \in 1 .. Len(job.versions) /\ gen \in Nat /\ Len(job.versions) \in Nat
    BY Shapes, JobType
  <1>3. gen' \in Nat /\ gen <= gen' /\ gen' # 1 /\ gen' \in 1 .. Len(job.versions)
    BY <1>1, <1>2
  <1>4. ASSUME NEW s, NEW a, Stretch(s, a, gen) PROVE Stretch(s, a, gen')
    BY <1>2, <1>3, <1>4, StretchStays
  <1>5. TypeOK'
    <2>1. Byte' = Byte /\ Size' = Size
      BY <1>1 DEF Byte, Size
    <2> QED  BY <1>1, <1>3, <2>1 DEF IInv, TypeOK
  <1>6. WriterInv'
    BY <1>1 DEF IInv, WriterInv, Published, New, N
  <1>7. Put' = Put /\ (Past' <=> Past) /\ (Live' <=> Live) /\ InProgress' = InProgress /\ N' = N
    BY <1>1 DEF Put, Past, Live, InProgress, N
  <1>8. Published' = Published /\ M' = M /\ PublishedRows' = PublishedRows
    <2>1. Published' = Published
      BY <1>1 DEF Published, New
    <2> QED  BY <1>1, <2>1 DEF M, PublishedRows
  <1>9. ReaderInv'
    BY <1>1, <1>4, <1>7 DEF IInv, ReaderInv
  <1>10. LineInv'
    BY <1>3 DEF LineInv
  <1>11. ShardsInv'
    BY <1>1, <1>3, <1>4, <1>8 DEF IInv, ShardsInv
  <1>12. ProgressInv'
    BY <1>1, <1>3, <1>4, <1>7, <1>8 DEF IInv, ProgressInv
  <1>13. CarrierInv'
    BY <1>1, <1>7 DEF IInv, CarrierInv
  <1> QED  BY <1>5, <1>6, <1>9, <1>10, <1>11, <1>12, <1>13 DEF IInv

\* The invariant holds before the run has done anything.
LEMMA InitInv == Init => IInv
  <1> SUFFICES ASSUME Init PROVE IInv
    OBVIOUS
  <1>1. /\ pc = "start" /\ job \in Job /\ cancelled = FALSE /\ index = 0 /\ shard = NoShard /\ man = "none"
        /\ dry = NoDry /\ result = <<>> /\ gen = 1 /\ offset = 0 /\ headerLine = <<>> /\ pending = <<>>
        /\ row = <<>> /\ drained = FALSE
    BY DEF Init, OutInit
  <1>2. /\ shardFile \in [ShardId -> {None, Old}] /\ shardPart \in [ShardId -> {None, Old}]
        /\ manFile \in {None, Old} /\ manPart \in {None, Old}
    BY DEF Init, OutInit
  <1>3. Len(<<>>) = 0 /\ FlattenSeq(<<>>) = <<>> /\ <<>> \in Seq(Byte) /\ <<>> \in Seq(EntryType) /\ <<>> \in Seq(Seq(Bits))
    BY EmptySeq, FlattenEmpty
  <1>4. \A a, g : Stretch(<<>>, a, g)
    BY StretchEmpty
  <1>5. Published = {} /\ M = 0
    BY <1>2, FS_EmptySet DEF Published, New, M
  <1>6. PublishedRows = <<>>
    <2>1. PublishedRows = FlattenSeq([i \in 1 .. 0 |-> shardFile[i].rows])
      BY <1>5 DEF PublishedRows, M
    <2>2. [i \in 1 .. 0 |-> shardFile[i].rows] = <<>>
      OBVIOUS
    <2> QED  BY <1>3, <2>1, <2>2
  <1>7. shard.st = "none" /\ InProgress = <<>> /\ N = 0
    BY <1>1, <1>3 DEF NoShard, InProgress, N
  <1>8. TypeOK
    <2>1. Size \in Nat /\ 1 \in 1 .. Len(job.versions)
      BY <1>1, JobType
    <2>2. shard \in [st : {"none", "open", "closed", "aborted"}, rows : Nat, n : Nat]
      BY <1>1 DEF NoShard
    <2>3. dry \in [open : BOOLEAN, rows : Nat, bytes : Nat]
      BY <1>1 DEF NoDry
    <2>4. /\ shardFile \in [ShardId -> FileState \cup {None, Old}]
          /\ shardPart \in [ShardId -> FileState \cup {None, Old}]
      BY <1>2
    <2>5. offset \in 0 .. Size /\ {headerLine, pending, row} \subseteq Seq(Byte)
      BY <1>1, <1>3, <2>1
    <2>6. cancelled \in BOOLEAN /\ drained \in BOOLEAN
      BY <1>1
    <2> QED  BY <1>1, <1>2, <1>3, <2>1, <2>2, <2>3, <2>4, <2>5, <2>6 DEF TypeOK
  <1>9. ReaderInv
    BY <1>1, <1>3, <1>4 DEF ReaderInv, Past
  <1>10. LineInv
    BY <1>1 DEF LineInv, Past
  <1>11. WriterInv
    BY <1>1, <1>2, <1>5, <1>7 DEF WriterInv, New
  <1>12. RowsAre(<<>>, 0)
    BY <1>3 DEF RowsAre
  <1>13. ShardsInv
    <2>1. Published = 1 .. M /\ M \in Nat /\ ~(M > 0)
      BY <1>5
    <2> QED  BY <1>3, <1>4, <1>5, <1>6, <1>12, <2>1 DEF ShardsInv
  <1>14. ProgressInv
    <2>1. ~Past /\ pc # "record"
      BY <1>1 DEF Past
    <2> QED  BY <1>1, <1>3, <1>4, <1>5, <1>6, <1>7, <1>12, <2>1 DEF ProgressInv
  <1>15. CarrierInv
    BY <1>7 DEF CarrierInv
  <1> QED  BY <1>8, <1>9, <1>10, <1>11, <1>13, <1>14, <1>15 DEF IInv

\* Every step keeps the invariant.
LEMMA NextInv == IInv /\ [Next]_vars => IInv'
  <1> SUFFICES ASSUME IInv, [Next]_vars PROVE IInv'
    OBVIOUS
  <1>1. CASE Process
    <2>1. Output => IInv'
      BY FlushShardStep, UnlinkShardStep, RenameShardStep, FinishStep, ManifestSteps, AbortSteps DEF Output
    <2> QED  BY <1>1, <2>1, StartStep, ProbeHeaderStep, NoHeaderStep, ReadFailsStep, ReadChunkStep, LoopEndsStep,
                TakeLineStep, TakeCarryStep, OpenShardStep, RowStep, PlanRowStep, RecordStep DEF Process
  <1>2. CASE Environment
    <2>1. Cancel /\ UNCHANGED readVars => IInv'
      BY StillStep DEF Cancel, readVars, disk
    <2> QED  BY <1>2, <2>1, ReplaceStep, CrashStep DEF Environment
  <1>3. CASE UNCHANGED vars
    <2>1. cancelled' \in BOOLEAN
      BY <1>3 DEF vars, outVars, IInv, TypeOK
    <2> QED  BY <1>3, <2>1, StillStep DEF vars, outVars, disk
  <1> QED  BY <1>1, <1>2, <1>3 DEF Next, Ended

\* The invariant holds throughout every run.
LEMMA Invariance == Spec => []IInv
  BY InitInv, NextInv, PTL DEF Spec

\* Every variable keeps its shape: a block is never cut beyond the end of the
\* object, and the header, the carry and the line in hand are bytes of versions
\* the object has had, at positions the run has read.
THEOREM TypeCorrect == Spec => []TypeOK
  <1>1. IInv => TypeOK
    BY DEF IInv
  <1> QED  BY <1>1, Invariance, PTL


\* The body is a sequence.
LEMMA BodySequence ==
  ASSUME job \in Job
  PROVE  Body = [k \in 1 .. Len(Body) |-> Body[k]]
  <1>1. PICK c \in Nat : c = Cardinality(Ends)
    BY EndsFinite
  <1>2. Len(LineEnds) = c
    BY <1>1, LineEndIs
  <1>3. PICK s : s = SourceLines
    OBVIOUS
  <1>4. s = [k \in 1 .. c |-> s[k]] /\ Len(s) = c
    BY <1>1, <1>2, <1>3 DEF SourceLines
  <1>5. CASE HasHeader
    <2>1. Body = Tail(s)
      BY <1>3, <1>5 DEF Body
    <2>2. c # 0
      BY <1>1, <1>5, BodyIs, EndsFinite, FS_EmptySet DEF HasHeader
    <2>3. Tail(s) = [i \in 1 .. c - 1 |-> s[i + 1]]
      BY <1>4, <2>2
    <2>4. Len(Body) = c - 1
      BY <1>1, <1>5, BodyIs DEF Top
    <2>5. \A k \in 1 .. c - 1 : Body[k] = s[k + 1]
      BY <2>1, <2>3
    <2> QED  BY <2>1, <2>3, <2>4, <2>5
  <1>6. CASE ~HasHeader
    BY <1>3, <1>4, <1>6 DEF Body
  <1> QED  BY <1>5, <1>6

\* Rows that are those of the source begin it.
LEMMA RowsArePrefix ==
  ASSUME job \in Job, NEW s \in Seq(Seq(Bits)), RowsAre(s, 0)
  PROVE  IsPrefix(s, Body) /\ (Len(s) = Len(Body) => s = Body)
  <1>1. PICK n, m \in Nat : n = Len(s) /\ m = Len(Body)
    BY BodyIs, LenProperties
  <1>2. PICK b : b = Body
    OBVIOUS
  <1>3. \A k \in 1 .. n : k \in 1 .. m /\ s[k] = b[k]
    <2> TAKE k \in 1 .. n
    <2>1. 0 + k = k
      OBVIOUS
    <2> QED  BY <1>1, <1>2, <2>1 DEF RowsAre
  <1>4. n <= m
    <2>1. CASE n = 0
      BY <2>1
    <2>2. CASE n # 0
      <3>1. n \in 1 .. n
        BY <2>2
      <3> QED  BY <1>3, <3>1
    <2> QED  BY <2>1, <2>2
  <1>5. SubSeq(s, 1, n) = [k \in 1 .. n |-> s[k]] /\ SubSeq(b, 1, n) = [k \in 1 .. n |-> b[k]]
    <2> DEFINE S == {b[k] : k \in 1 .. m}
    <2>1. b = [k \in 1 .. m |-> b[k]]
      BY <1>1, <1>2, BodySequence
    <2>2. b \in Seq(S)
      <3>1. \A k \in 1 .. m : b[k] \in S
        OBVIOUS
      <3> HIDE DEF S
      <3> QED  BY <2>1, <3>1
    <2> HIDE DEF S
    <2>3. 1 \in 1 .. m + 1 /\ n \in 1 - 1 .. m /\ 1 \in 1 .. n + 1 /\ n \in 1 - 1 .. n
      BY <1>4
    <2> QED  BY <1>1, <1>2, <2>2, <2>3
  <1>6. [k \in 1 .. n |-> s[k]] = [k \in 1 .. n |-> b[k]]
    BY <1>3
  <1>7. IsPrefix(s, Body)
    BY <1>1, <1>2, <1>4, <1>5, <1>6 DEF IsPrefix
  <1>8. s = [k \in 1 .. n |-> s[k]]
    BY <1>1
  <1>9. b = [k \in 1 .. m |-> b[k]]
    BY <1>1, <1>2, BodySequence
  <1> QED  BY <1>1, <1>2, <1>6, <1>7, <1>8, <1>9

\* Once the last shard is closed every byte has been made into a row and published.
LEMMA AllOut ==
  ASSUME IInv, pc \in Ending, pc # "finish", ~job.dryRun
  PROVE  /\ Past /\ Live /\ InProgress = <<>> /\ pending = <<>> /\ Put = offset
         /\ Put = Len(headerLine) + Len(Out)
         /\ gen = 1 => offset = Size /\ Len(PublishedRows) = Len(Body)
  <1>1. Past /\ Live /\ shard.st = "none" /\ drained
    BY DEF IInv, WriterInv, ReaderInv, Past, Live, Dead, Ending
  <1>2. InProgress = <<>>
    BY <1>1 DEF InProgress
  <1>3. pending = <<>>
    BY <1>1 DEF IInv, ReaderInv
  <1>4. Len(<<>>) = 0 /\ FlattenSeq(<<>>) = <<>>
    BY EmptySeq, FlattenEmpty
  <1>5. Put = offset
    BY <1>3, <1>4, Shapes DEF Put, Ending
  <1>6. Put = Len(headerLine) + Len(Out)
    <2>1. Put = Len(headerLine) + Len(Out) + 0
      BY <1>1, <1>2, <1>4 DEF IInv, ProgressInv, Out
    <2> QED  BY <2>1, Shapes
  <1>7. gen = 1 => offset = Size /\ Len(PublishedRows) = Len(Body)
    <2> SUFFICES ASSUME gen = 1 PROVE offset = Size /\ Len(PublishedRows) = Len(Body)
      OBVIOUS
    <2>1. offset = Size
      BY <1>1 DEF IInv, LineInv
    <2>2. Handed = Cardinality(Ends) - Top
      BY <1>5, <2>1, Shapes, RankBounds DEF Handed
    <2>3. Handed = Len(PublishedRows) + 0 /\ Len(PublishedRows) \in Nat
      BY <1>1, <1>2, <1>4, LenProperties DEF IInv, ProgressInv, ShardsInv
    <2> QED  BY <2>1, <2>2, <2>3, Shapes, BodyIs
  <1> QED  BY <1>1, <1>2, <1>3, <1>5, <1>6, <1>7

\* The rows of the published shards are lines of the object.
LEMMA InvReassembled == IInv => LinesReassembled
  <1> SUFFICES ASSUME IInv, gen = 1 PROVE LinesReassembled
    BY DEF LinesReassembled
  <1>1. /\ Published = 1 .. M /\ M \in Nat /\ PublishedRows \in Seq(Seq(Bits)) /\ RowsAre(PublishedRows, 0)
        /\ \A i \in Published :
             /\ shardFile[i] \in FileState /\ shardFile[i].whole
             /\ shardFile[i].hdr <=> headerLine # <<>>
        /\ M > 0 => Size > 0 /\ HeaderRead
    BY DEF IInv, ShardsInv
  <1>2. job \in Job /\ job.header \in BOOLEAN /\ headerLine \in Seq(Bits) /\ Stretch(headerLine, 0, 1)
        /\ Ends \subseteq 1 .. Size /\ Size \in Nat
    BY Shapes, JobType DEF IInv, ReaderInv
  <1>3. Published # {} => M > 0
    BY <1>1
  <1>4. M > 0 /\ HasHeader => /\ Len(headerLine) = LineEnds[1] /\ Len(headerLine) > 0
                              /\ headerLine = SourceLines[1]
    <2> SUFFICES ASSUME M > 0, HasHeader
                 PROVE  Len(headerLine) = LineEnds[1] /\ Len(headerLine) > 0 /\ headerLine = SourceLines[1]
      OBVIOUS
    <2>1. PICK e \in Ends : e = LineEnds[1] /\ SourceLines[1] = [i \in 1 .. e |-> <<1, i>>]
      BY <1>1, <1>2, HeaderEnd
    <2>2. Len(headerLine) = e /\ e \in Nat /\ e > 0
      BY <1>1, <1>2, <2>1 DEF HeaderRead
    <2>3. headerLine = [i \in 1 .. e |-> <<1, 0 + i>>]
      BY <1>2, <2>2, StretchIs
    <2>4. [i \in 1 .. e |-> <<1, 0 + i>>] = [i \in 1 .. e |-> <<1, i>>]
      BY <2>2
    <2> QED  BY <2>1, <2>2, <2>3, <2>4
  <1>5. M > 0 => (headerLine # <<>> <=> job.header)
    <2> SUFFICES ASSUME M > 0 PROVE headerLine # <<>> <=> job.header
      OBVIOUS
    <2>1. CASE HasHeader
      BY <1>4, <2>1, EmptySeq DEF HasHeader
    <2>2. CASE ~HasHeader
      <3>1. Len(headerLine) = 0
        BY <1>1, <2>2 DEF HeaderRead
      <3> QED  BY <1>1, <1>2, <2>2, <3>1, EmptySeq DEF HasHeader
    <2> QED  BY <2>1, <2>2
  <1>6. \A i \in Published : shardFile[i].whole /\ shardFile[i].hdr = job.header
    <2> TAKE i \in Published
    <2>1. shardFile[i].hdr \in BOOLEAN
      <3>1. shardFile[i] \in FileState
        BY <1>1
      <3> QED  BY <3>1, Zenon DEF FileState
    <2>2. shardFile[i].hdr <=> job.header
      BY <1>1, <1>3, <1>5
    <2>3. shardFile[i].hdr = job.header
      <3>1. PICK x, y \in BOOLEAN : x = shardFile[i].hdr /\ y = job.header
        BY <1>2, <2>1
      <3>2. x <=> y
        BY <2>2, <3>1
      <3>3. x = y
        BY <3>2
      <3> QED  BY <3>1, <3>3
    <2> QED  BY <1>1, <2>3
  <1>7. IsPrefix(PublishedRows, Body)
    BY <1>1, <1>2, RowsArePrefix
  <1>8. pc = "done" /\ ~job.dryRun => PublishedRows = Body
    BY <1>1, <1>2, AllOut, RowsArePrefix DEF Ending
  <1> QED  BY <1>1, <1>3, <1>4, <1>6, <1>7, <1>8 DEF LinesReassembled, M

\* Every position read is in one place, in order.
LEMMA InvOnce == IInv => EveryOffsetOnce
  <1> SUFFICES ASSUME IInv, ~job.dryRun, pc \notin {"start", "header", "abort", "abortManifest", "failed", "crashed"}
               PROVE  Len(Carried) = offset /\ \A k \in 1 .. offset : Carried[k][2] = k
    BY DEF EveryOffsetOnce
  <1>1. Past /\ Live
    BY DEF Past, Live, Dead
  <1>2. /\ Stretch(headerLine, 0, gen) /\ Stretch(Out, Len(headerLine), gen)
        /\ Stretch(Held, Len(headerLine) + Len(Out), gen)
        /\ Put = Len(headerLine) + Len(Out) + Len(Held)
    BY <1>1 DEF IInv, ReaderInv, ShardsInv, ProgressInv, Out, Held
  <1>3. Len(Held) \in Nat
    BY <1>2, LenProperties DEF Stretch
  <1>4. PICK h, o, l, p, n \in Nat : /\ h = Len(headerLine) /\ o = Len(Out) /\ l = Len(Held)
                                     /\ p = Len(pending) /\ n = offset
    BY <1>3, Shapes
  <1>5. PICK r : r = IF pc = "row" THEN row ELSE <<>>
    OBVIOUS
  <1>6. Stretch(r, Put, gen) /\ Len(r) \in Nat /\ Put + Len(r) = offset - Len(pending)
    <2>1. CASE pc = "row"
      <3>1. Stretch(row, Put, gen) /\ Put = offset - Len(pending) - Len(row) /\ Len(row) \in Nat
        BY <1>1, <2>1, Reads, Shapes
      <3> QED  BY <1>4, <1>5, <2>1, <3>1
    <2>2. CASE pc # "row"
      <3>1. Put = offset - Len(pending)
        BY <1>1, <2>2, Reads
      <3>2. r = <<>> /\ Len(<<>>) = 0
        BY <1>5, <2>2, EmptySeq
      <3> QED  BY <1>4, <3>1, <3>2, StretchEmpty
    <2> QED  BY <2>1, <2>2
  <1>7. Stretch(pending, offset - Len(pending), gen)
    BY <1>1, Reads
  <1>8. Stretch(headerLine \o Out, 0, gen) /\ Len(headerLine \o Out) = h + o
    <2>1. h \in Int /\ h = 0 + h /\ 0 \in Int
      OBVIOUS
    <2> QED  BY <1>2, <1>4, <2>1, StretchJoin
  <1>9. PICK x : x = headerLine \o Out
    OBVIOUS
  <1>10. Stretch(x \o Held, 0, gen) /\ Len(x \o Held) = h + o + l
    <2>1. h + o \in Int /\ h + o = 0 + (h + o) /\ 0 \in Int
      OBVIOUS
    <2> QED  BY <1>2, <1>4, <1>8, <1>9, <2>1, StretchJoin
  <1>11. PICK y : y = x \o Held
    OBVIOUS
  <1>12. Stretch(y \o r, 0, gen) /\ Len(y \o r) = h + o + l + Len(r)
    <2>1. h + o + l \in Int /\ h + o + l = 0 + (h + o + l) /\ 0 \in Int
      OBVIOUS
    <2>2. Stretch(r, h + o + l, gen)
      BY <1>2, <1>4, <1>6
    <2> QED  BY <1>10, <1>11, <2>1, <2>2, StretchJoin
  <1>13. PICK z : z = y \o r
    OBVIOUS
  <1>14. PICK b \in Nat : b = h + o + l + Len(r) /\ b = n - p
    BY <1>2, <1>4, <1>6
  <1>15. Stretch(z \o pending, 0, gen) /\ Len(z \o pending) = b + p
    <2>1. b \in Int /\ b = 0 + b /\ 0 \in Int
      OBVIOUS
    <2>2. Stretch(pending, b, gen) /\ Stretch(z, 0, gen) /\ Len(z) = b
      BY <1>4, <1>7, <1>12, <1>13, <1>14
    <2> QED  BY <1>4, <2>1, <2>2, StretchJoin
  <1>16. Carried = z \o pending
    BY <1>5, <1>9, <1>11, <1>13 DEF Carried, Out, Held
  <1>17. Len(Carried) = n
    BY <1>4, <1>14, <1>15, <1>16
  <1>18. \A k \in 1 .. n : Carried[k][2] = k
    <2> TAKE k \in 1 .. n
    <2>1. Carried[k][2] = 0 + k
      BY <1>15, <1>16, <1>17 DEF Stretch
    <2> QED  BY <2>1
  <1> QED  BY <1>4, <1>17, <1>18

\* Nothing is lost, repeated or torn where blocks meet, wherever that is: the
\* rows published are lines of the object, whole and in order, and every
\* position read is in the header, in a shard, in hand or in the carry.
THEOREM LinesSurvive == Spec => []LinesKept
  <1>1. IInv => LinesKept
    BY InvReassembled, InvOnce DEF LinesKept
  <1> QED  BY <1>1, Invariance, PTL


------------------------------------------------------------------------------
(* The refinement.                                                           *)

\* Where the bytes of a shard stood in the object.
Positions(f) ==
  LET bytes == FlattenSeq(f.rows)
  IN [k \in 1 .. Len(bytes) |-> bytes[k][2]]
Pieces == [i \in Published |-> Positions(shardFile[i])]

\* Which actions touch the two final names.
LEMMA WhoPublishes ==
  ASSUME [Next]_vars
  PROVE  /\ job' = job
         /\ \/ UNCHANGED <<shardFile, manFile>>
            \/ UnlinkShard /\ UNCHANGED <<manFile, readVars>>
            \/ RenameShard /\ UNCHANGED <<manFile, readVars>>
            \/ UnlinkManifest /\ UNCHANGED <<shardFile, readVars>>
            \/ RenameManifest /\ UNCHANGED <<shardFile, readVars>>
  <1>1. CASE Output
    BY <1>1 DEF Output, FlushShard, UnlinkShard, RenameShard, Finish, CloseManifest, UnlinkManifest,
                RenameManifest, AbortShard, AbortManifest, disk
  <1>2. CASE Start \/ OpenShard \/ Row \/ PlanRow \/ Record
    BY <1>2 DEF Start, OpenShard, Row, PlanRow, Record, NewManifestWriter, NewShardWriter, WriteRow,
                DryRow, RecordShard, disk
  <1>3. CASE ProbeHeader \/ NoHeader \/ ReadFails \/ ReadChunk \/ LoopEnds \/ TakeLine \/ TakeCarry
    BY <1>3 DEF ProbeHeader, NoHeader, ReadFails, ReadChunk, AfterEmpty, LoopEnds, TakeLine, TakeCarry, disk
  <1>4. CASE Environment \/ Ended \/ UNCHANGED vars
    BY <1>4 DEF Environment, Replace, Cancel, Crash, Ended, vars, outVars, disk
  <1> QED  BY <1>1, <1>2, <1>3, <1>4 DEF Next, Process

\* What the contract counts as out is what the shards hold, after the header.
LEMMA DoneIs ==
  ASSUME IInv, Past, Unchanging
  PROVE  /\ gen = 1 /\ Contract!Done = Len(headerLine) + Len(Out)
         /\ Pieces = [i \in 1 .. M |-> Pieces[i]] /\ M \in Nat /\ Published = 1 .. M
  <1>1. gen = 1
    BY Shapes DEF Unchanging
  <1>2. HeaderRead /\ job \in Job
    BY <1>1, Reads, Shapes
  <1>3. PICK h, o \in Nat : h = Len(headerLine) /\ o = Len(Out)
    BY Shapes
  <1>4. M \in Nat /\ Published = 1 .. M
    BY DEF IInv, ShardsInv
  <1>5. Pieces = [i \in 1 .. M |-> Pieces[i]]
    BY <1>4 DEF Pieces
  <1>6. Contract!Done = IF Pieces = <<>> THEN (IF HasHeader THEN LineEnds[1] + 1 ELSE 1) - 1
                        ELSE Pieces[Len(Pieces)][Len(Pieces[Len(Pieces)])]
    BY DEF Contract!Done, Pieces, Positions, Unchanging
  <1>7. CASE M = 0
    <2>1. Pieces = <<>>
      BY <1>5, <1>7
    <2>2. (IF HasHeader THEN LineEnds[1] + 1 ELSE 1) - 1 = h
      BY <1>2, <1>3, HeaderEnd, JobType DEF HeaderRead, HasHeader
    <2>3. PublishedRows = <<>>
      <3>1. PublishedRows = FlattenSeq([i \in 1 .. 0 |-> shardFile[i].rows])
        BY <1>7 DEF PublishedRows, M
      <3>2. [i \in 1 .. 0 |-> shardFile[i].rows] = <<>>
        OBVIOUS
      <3> QED  BY <3>1, <3>2, FlattenEmpty
    <2>4. o = 0
      BY <1>3, <2>3, FlattenEmpty, EmptySeq DEF Out
    <2> QED  BY <1>1, <1>3, <1>4, <1>5, <1>6, <2>1, <2>2, <2>4
  <1>8. CASE M # 0
    <2>1. Len(Pieces) = M /\ Pieces # <<>> /\ M \in 1 .. M
      BY <1>4, <1>5, <1>8, EmptySeq
    <2>2. PICK s : s = FlattenSeq(shardFile[M].rows)
      OBVIOUS
    <2>3. s \in Seq(Bits) /\ s # <<>> /\ s[Len(s)][2] = h + o
      BY <1>3, <1>4, <1>8, <2>2 DEF IInv, ShardsInv, Out
    <2>4. Pieces[M] = [k \in 1 .. Len(s) |-> s[k][2]]
      BY <1>4, <2>1, <2>2 DEF Pieces, Positions
    <2>5. PICK n \in Nat : n = Len(s) /\ n \in 1 .. n
      BY <2>3, EmptySeq, LenProperties
    <2>6. Len(Pieces[M]) = n /\ Pieces[M][n] = h + o
      BY <2>3, <2>4, <2>5
    <2> QED  BY <1>1, <1>3, <1>4, <1>5, <1>6, <2>1, <2>6
  <1> QED  BY <1>4, <1>7, <1>8

\* RenameShard is the contract's Publish: the bytes that appear are the next ones.
LEMMA RenamePublishes ==
  ASSUME IInv, RenameShard, UNCHANGED <<manFile, readVars>>, pc' = "record", Unchanging
  PROVE  Contract!Publish
  <1>1. /\ pc = "rename" /\ shardFile' = [shardFile EXCEPT ![index] = shardPart[index]]
        /\ UNCHANGED <<job, headerLine, gen, manFile>>
    BY DEF RenameShard, readVars
  <1>2. /\ Past /\ Live /\ index \in ShardId /\ index = M + 1 /\ M \in Nat /\ Published = 1 .. M
        /\ shardFile \in [ShardId -> FileState \cup {None, Old}]
        /\ InProgress = shardPart[index].rows /\ FlattenSeq(InProgress) # <<>>
    BY <1>1, Publishing
  <1>3. PICK f \in FileState : f = shardPart[index]
    BY <1>1, Publishing
  <1>4. PICK d \in Nat : d = Len(headerLine) + Len(Out) /\ Contract!Done = d
    <2>1. Len(headerLine) \in Nat /\ Len(Out) \in Nat
      BY Shapes
    <2> QED  BY <1>2, <2>1, DoneIs
  <1>5. Stretch(Held, d, gen) /\ Put = d + Len(Held) /\ Held = FlattenSeq(f.rows) /\ Put <= Size
    BY <1>2, <1>3, <1>4, Reads DEF IInv, ProgressInv, Held, Out
  <1>6. PICK n \in Nat : n = Len(Held) /\ n > 0
    BY <1>2, <1>5, EmptySeq, LenProperties DEF Stretch, Held
  <1>7. n \in 1 .. (Size - Contract!Done)
    BY <1>4, <1>5, <1>6, Shapes
  <1>8. PICK x : x = [k \in 1 .. n |-> d + k]
    OBVIOUS
  <1>9. Positions(f) = x
    <2>1. \A k \in 1 .. n : Held[k][2] = d + k
      BY <1>5, <1>6 DEF Stretch
    <2>2. Positions(f) = [k \in 1 .. n |-> Held[k][2]]
      BY <1>5, <1>6 DEF Positions
    <2> QED  BY <1>8, <2>1, <2>2
  <1>10. Pieces' = Append(Pieces, x)
    <2>1. /\ Pieces = [i \in 1 .. M |-> Pieces[i]]
      BY <1>2, DoneIs
    <2>2. Published' = 1 .. M + 1
      <3>1. FlattenSeq(f.rows) \in Seq(Bits)
        BY <1>5 DEF Stretch
      <3> QED  BY <1>1, <1>2, <1>3, <3>1, OneMore
    <2>3. shardFile'[M + 1] = f /\ \A i \in 1 .. M : shardFile'[i] = shardFile[i]
      <3>1. \A i \in 1 .. M : i \in ShardId /\ i # M + 1
        BY <1>2 DEF Published
      <3> QED  BY <1>1, <1>2, <1>3, <3>1
    <2>4. Pieces' = [i \in 1 .. M + 1 |-> Positions(shardFile'[i])]
      BY <2>2 DEF Pieces, Positions
    <2>5. \A i \in 1 .. M : Pieces[i] = Positions(shardFile'[i])
      BY <1>2, <2>3 DEF Pieces
    <2>6. Positions(shardFile'[M + 1]) = x
      BY <1>9, <2>3
    <2> DEFINE S == {Pieces[i] : i \in 1 .. M} \cup {x}
    <2>7. Pieces \in Seq(S) /\ Len(Pieces) = M /\ x \in S
      <3>1. \A i \in 1 .. M : Pieces[i] \in S
        OBVIOUS
      <3>2. x \in S
        OBVIOUS
      <3> HIDE DEF S
      <3> QED  BY <1>2, <2>1, <3>1, <3>2
    <2> HIDE DEF S
    <2>8. Append(Pieces, x) = [i \in 1 .. M + 1 |-> IF i <= M THEN Pieces[i] ELSE x]
      <3>1. PICK a : a = Append(Pieces, x)
        OBVIOUS
      <3>2. /\ a \in Seq(S) /\ Len(a) = M + 1 /\ a[M + 1] = x
            /\ \A i \in 1 .. M : a[i] = Pieces[i]
        BY <2>7, <3>1, AppendProperties
      <3>3. a = [i \in 1 .. M + 1 |-> a[i]]
        BY <3>2
      <3>4. \A i \in 1 .. M + 1 : a[i] = IF i <= M THEN Pieces[i] ELSE x
        BY <1>2, <3>2
      <3> QED  BY <3>1, <3>3, <3>4
    <2>9. \A i \in 1 .. M + 1 : Positions(shardFile'[i]) = IF i <= M THEN Pieces[i] ELSE x
      <3>1. \A i \in 1 .. M + 1 : i \in 1 .. M \/ (i = M + 1 /\ ~(i <= M))
        BY <1>2
      <3> QED  BY <1>2, <2>5, <2>6, <3>1
    <2> QED  BY <2>4, <2>8, <2>9
  <1>11. ~New(manFile) /\ ~New(manFile)'
    BY <1>1 DEF IInv, WriterInv, New
  <1>12. /\ Size' = Size /\ LineEnds' = LineEnds /\ (HasHeader' <=> HasHeader)
         /\ Unchanging'
    BY <1>1, Static DEF Unchanging
  <1>13. Append(Pieces, x) = Append(Pieces, [k \in 1 .. n |-> Contract!Done + k])
    BY <1>4, <1>8
  <1>14. Pieces' = Append(Pieces, [k \in 1 .. n |-> Contract!Done + k])
    BY <1>10, <1>13
  <1> QED  BY <1>7, <1>11, <1>12, <1>14 DEF Contract!Publish, Pieces, Positions

\* RenameManifest is the contract's List: it happens when every byte is out.
LEMMA RenameLists ==
  ASSUME IInv, RenameManifest, UNCHANGED <<shardFile, readVars>>, New(manFile)', Unchanging
  PROVE  Contract!List
  <1>1. /\ pc = "renameManifest" /\ UNCHANGED <<job, shardFile>> /\ ~New(manFile)
    BY DEF RenameManifest, IInv, WriterInv
  <1>2. Past /\ ~job.dryRun
    BY <1>1 DEF Past, Dead, IInv, WriterInv
  <1>3. Contract!Done >= Size
    <2>1. Contract!Done = Len(headerLine) + Len(Out) /\ gen = 1
      BY <1>2, DoneIs
    <2>2. Put = offset /\ Put = Len(headerLine) + Len(Out) /\ offset = Size
      BY <1>1, <1>2, <2>1, AllOut DEF Ending
    <2> QED  BY <2>1, <2>2, Shapes
  <1>4. Pieces' = Pieces
    BY <1>1 DEF Pieces, Published, Positions, New
  <1>5. /\ Size' = Size /\ LineEnds' = LineEnds /\ (HasHeader' <=> HasHeader) /\ Unchanging'
    BY <1>1, Static DEF Unchanging
  <1> QED  BY <1>1, <1>3, <1>4, <1>5 DEF Contract!List, Pieces, Positions

\* A range split of an object nobody replaces implements SplitContract: every step
\* of the program publishes the next run of bytes, publishes the manifest when all
\* are out, or changes nothing the contract sees; wherever the blocks meet, and
\* wherever the lines end.
THEOREM Refinement == Spec => ImplementsContract
  <1>1. Init => Contract!Init
    <2> SUFFICES ASSUME Init PROVE Contract!Init
      OBVIOUS
    <2>1. Published = {} /\ ~New(manFile)
      BY DEF Init, OutInit, Published, New
    <2> QED  BY <2>1 DEF Contract!Init
  <1>2. IInv /\ [Next]_vars => [Contract!Next]_(Contract!vars)
    <2> SUFFICES ASSUME IInv, [Next]_vars PROVE [Contract!Next]_(Contract!vars)
      OBVIOUS
    <2>1. job' = job
      BY WhoPublishes
    <2>2. /\ Size' = Size /\ LineEnds' = LineEnds /\ (HasHeader' <=> HasHeader)
          /\ (Unchanging' <=> Unchanging)
      BY <2>1, Static DEF Unchanging
    <2>3. ASSUME ~Unchanging \/ UNCHANGED <<Pieces, New(manFile)>> PROVE [Contract!Next]_(Contract!vars)
      BY <2>2, <2>3 DEF Contract!vars, Pieces, Positions
    <2>4. ASSUME UNCHANGED <<shardFile, New(manFile)>> PROVE [Contract!Next]_(Contract!vars)
      <3>1. Pieces' = Pieces
        BY <2>1, <2>4 DEF Pieces, Published, Positions, New
      <3> QED  BY <2>3, <2>4, <3>1
    <2>5. CASE UNCHANGED <<shardFile, manFile>>
      BY <2>4, <2>5 DEF New
    <2>6. CASE UnlinkShard /\ UNCHANGED <<manFile, readVars>>
      <3>1. pc = "unlink"
        BY <2>6 DEF UnlinkShard
      <3>2. /\ shardFile \in [ShardId -> FileState \cup {None, Old}]
            /\ index \notin Published /\ index \in ShardId
        BY <3>1, Publishing
      <3>3. /\ \A i \in ShardId : i # index => shardFile'[i] = shardFile[i]
            /\ shardFile'[index] \in {None, shardFile[index]}
        BY <2>6, <3>2 DEF UnlinkShard
      <3>4. Published' = Published
        BY <3>2, <3>3 DEF Published, New
      <3>5. \A i \in Published : shardFile'[i] = shardFile[i]
        BY <3>2, <3>3 DEF Published
      <3>6. Pieces' = Pieces
        BY <3>4, <3>5 DEF Pieces, Positions
      <3> QED  BY <2>3, <2>6, <3>6 DEF New
    <2>7. CASE RenameShard /\ UNCHANGED <<manFile, readVars>>
      <3>1. CASE pc' = "record" /\ Unchanging
        BY <2>7, <3>1, RenamePublishes DEF Contract!Next
      <3>2. CASE pc' # "record"
        BY <2>4, <2>7, <3>2 DEF RenameShard, New
      <3>3. CASE ~Unchanging
        BY <2>3, <3>3
      <3> QED  BY <3>1, <3>2, <3>3
    <2>8. CASE UnlinkManifest /\ UNCHANGED <<shardFile, readVars>>
      <3>1. ~New(manFile) /\ manFile' \in {None, manFile}
        BY <2>8 DEF IInv, WriterInv, UnlinkManifest
      <3> QED  BY <2>4, <2>8, <3>1 DEF New
    <2>9. CASE RenameManifest /\ UNCHANGED <<shardFile, readVars>>
      <3>1. CASE New(manFile)' /\ Unchanging
        BY <2>9, <3>1, RenameLists DEF Contract!Next
      <3>2. CASE ~New(manFile)'
        <4>1. ~New(manFile)
          BY <2>9 DEF RenameManifest, IInv, WriterInv
        <4>2. New(manFile)' = New(manFile)
          BY <3>2, <4>1 DEF New
        <4> QED  BY <2>4, <2>9, <4>2
      <3>3. CASE ~Unchanging
        BY <2>3, <3>3
      <3> QED  BY <3>1, <3>2, <3>3
    <2> QED  BY <2>5, <2>6, <2>7, <2>8, <2>9, WhoPublishes
  <1> QED  BY <1>1, <1>2, Invariance, PTL DEF Spec, ImplementsContract, Contract!Spec



------------------------------------------------------------------------------
(* Layouts: greedy filling is a recursion over the sizes of the rows, so     *)
(* what it computes is shown by induction on how many rows it has placed.    *)

Span == [rows : Nat, bytes : Nat]
CutType == [done : Seq(Span), rows : Nat, bytes : Nat]

\* The first n + 1 values of Cuts, as a function.
IsCuts(c, j, sizes, hdr, n) ==
  c = [r \in 0 .. n |-> IF r = 0 THEN Uncut ELSE Placing(j, c[r - 1], sizes[r], hdr)]

\* The recursion that defines Cuts has a solution.
LEMMA CutsExist ==
  ASSUME NEW j, NEW sizes, NEW hdr, NEW m \in Nat
  PROVE  \E c : IsCuts(c, j, sizes, hdr, m)
  <1> DEFINE Good(n) == \E c : IsCuts(c, j, sizes, hdr, n)
             S == {n \in Nat : Good(n)}
  <1>1. Good(0)
    <2> DEFINE z == [r \in 0 .. 0 |-> Uncut]
    <2>1. IsCuts(z, j, sizes, hdr, 0)
      BY DEF IsCuts
    <2> QED  BY <2>1
  <1>2. ASSUME NEW n \in Nat, Good(n) PROVE Good(n + 1)
    <2>1. PICK c : IsCuts(c, j, sizes, hdr, n)
      BY <1>2
    <2> DEFINE g == [r \in 0 .. n + 1 |-> IF r = n + 1 THEN Placing(j, c[n], sizes[n + 1], hdr) ELSE c[r]]
    <2>2. /\ g[0] = Uncut /\ g[n + 1] = Placing(j, g[n], sizes[n + 1], hdr)
          /\ \A r \in 0 .. n : g[r] = c[r]
      BY <2>1 DEF IsCuts
    <2>3. \A r \in 1 .. n : g[r] = Placing(j, g[r - 1], sizes[r], hdr)
      BY <2>1, <2>2 DEF IsCuts
    <2>4. g = [r \in 0 .. n + 1 |-> g[r]]
      OBVIOUS
    <2> HIDE DEF g
    <2>5. \A r \in 0 .. n + 1 : g[r] = IF r = 0 THEN Uncut ELSE Placing(j, g[r - 1], sizes[r], hdr)
      BY <2>2, <2>3
    <2>6. IsCuts(g, j, sizes, hdr, n + 1)
      BY <2>4, <2>5 DEF IsCuts
    <2> QED  BY <2>6
  <1> HIDE DEF Good
  <1>3. Nat \subseteq S
    <2>1. 0 \in S
      BY <1>1
    <2>2. \A n \in Nat : n \in S => n + 1 \in S
      BY <1>2
    <2> HIDE DEF S
    <2> QED  BY <2>1, <2>2, Induct
  <1>4. Good(m)
    BY <1>3
  <1> QED  BY <1>4 DEF Good

\* Greedy filling, one row at a time.
LEMMA CutsDef ==
  ASSUME NEW j, NEW sizes \in Seq(Nat), NEW hdr
  PROVE  /\ Cuts(j, sizes, hdr)[0] = Uncut
         /\ \A r \in 1 .. Len(sizes) :
              Cuts(j, sizes, hdr)[r] = Placing(j, Cuts(j, sizes, hdr)[r - 1], sizes[r], hdr)
  <1>1. Len(sizes) \in Nat
    OBVIOUS
  <1>2. \E c : IsCuts(c, j, sizes, hdr, Len(sizes))
    BY <1>1, CutsExist
  <1>3. IsCuts(Cuts(j, sizes, hdr), j, sizes, hdr, Len(sizes))
    BY <1>2, Zenon DEF IsCuts, Cuts
  <1>4. PICK c : c = Cuts(j, sizes, hdr)
    OBVIOUS
  <1>5. \A r \in 0 .. Len(sizes) : c[r] = IF r = 0 THEN Uncut ELSE Placing(j, c[r - 1], sizes[r], hdr)
    BY <1>3, <1>4 DEF IsCuts
  <1> QED  BY <1>1, <1>4, <1>5

\* A layout in the making is made of spans.
LEMMA UncutType == Uncut \in CutType
  <1>1. <<>> \in Seq(Span)
    BY EmptySeq
  <1> QED  BY <1>1 DEF Uncut, CutType

\* a is the beginning of b.
Begins(a, b) == Len(a) <= Len(b) /\ \A i \in 1 .. Len(a) : b[i] = a[i]

\* The bytes of the shard in progress once it holds one more row.
Heap(c, s, hdr) == s + (IF c.rows > 0 THEN c.bytes ELSE hdr)

\* A shard of that many rows and bytes has reached a limit of j.
Reached(j, rows, bytes) == (j.rows > 0 /\ rows >= j.rows) \/ (j.bytes > 0 /\ bytes >= j.bytes)

\* One more row finishes the shard in progress exactly when it reaches a limit.
LEMMA PlacingIs ==
  ASSUME NEW j, j.rows \in Nat, j.bytes \in Nat, NEW c \in CutType, NEW s \in Nat, NEW hdr \in Nat,
         j.rows > 0 => c.rows < j.rows
  PROVE  Placing(j, c, s, hdr) =
           IF Reached(j, c.rows + 1, Heap(c, s, hdr))
           THEN [done |-> Append(c.done, [rows |-> c.rows + 1, bytes |-> Heap(c, s, hdr)]),
                 rows |-> 0, bytes |-> 0]
           ELSE [done |-> c.done, rows |-> c.rows + 1, bytes |-> Heap(c, s, hdr)]
  <1>1. c.rows \in Nat
    BY DEF CutType
  <1>2. c.rows + 1 = j.rows <=> j.rows > 0 /\ c.rows + 1 >= j.rows
    BY <1>1
  <1> QED  BY <1>2 DEF Placing, Reached, Heap

\* One more row gives a layout in the making, below both limits.
LEMMA PlacingType ==
  ASSUME NEW j, j.rows \in Nat, j.bytes \in Nat, NEW c \in CutType, NEW s \in Nat, NEW hdr \in Nat,
         j.rows > 0 => c.rows < j.rows
  PROVE  /\ Placing(j, c, s, hdr) \in CutType
         /\ j.rows > 0 => Placing(j, c, s, hdr).rows < j.rows
         /\ Begins(c.done, Placing(j, c, s, hdr).done)
  <1>1. c.done \in Seq(Span) /\ c.rows \in Nat /\ c.bytes \in Nat
    BY DEF CutType
  <1>2. PICK b : b = Heap(c, s, hdr)
    OBVIOUS
  <1>3. PICK span : span = [rows |-> c.rows + 1, bytes |-> b]
    OBVIOUS
  <1>4. b \in Nat /\ span \in Span
    BY <1>1, <1>2, <1>3 DEF Span, Heap
  <1>5. /\ Append(c.done, span) \in Seq(Span) /\ Len(Append(c.done, span)) = Len(c.done) + 1
        /\ \A i \in 1 .. Len(c.done) : Append(c.done, span)[i] = c.done[i]
    BY <1>1, <1>4, AppendProperties
  <1>6. PICK p : p = Placing(j, c, s, hdr)
    OBVIOUS
  <1>7. p = IF Reached(j, c.rows + 1, b) THEN [done |-> Append(c.done, span), rows |-> 0, bytes |-> 0]
            ELSE [done |-> c.done, rows |-> c.rows + 1, bytes |-> b]
    BY <1>2, <1>3, <1>6, PlacingIs
  <1>8. p \in CutType /\ (j.rows > 0 => p.rows < j.rows)
    BY <1>1, <1>4, <1>5, <1>7 DEF CutType, Reached
  <1>9. Begins(c.done, p.done)
    BY <1>1, <1>5, <1>7 DEF Begins
  <1> QED  BY <1>6, <1>8, <1>9

\* A layout that continues one that continues another continues that one.
LEMMA BeginsTransitive ==
  ASSUME NEW a \in Seq(Span), NEW b \in Seq(Span), NEW c \in Seq(Span), Begins(a, b), Begins(b, c)
  PROVE  Begins(a, c)
  BY DEF Begins

\* Greedy filling stays a layout in the making, whose shard in progress is below
\* both limits.
LEMMA CutsType ==
  ASSUME NEW j, j.rows \in Nat, j.bytes \in Nat, NEW sizes \in Seq(Nat), NEW hdr \in Nat,
         NEW r \in 0 .. Len(sizes)
  PROVE  /\ Cuts(j, sizes, hdr)[r] \in CutType
         /\ j.rows > 0 => Cuts(j, sizes, hdr)[r].rows < j.rows
  <1> DEFINE c == Cuts(j, sizes, hdr)
             Good(n) == n <= Len(sizes) => c[n] \in CutType /\ (j.rows > 0 => c[n].rows < j.rows)
             S == {n \in Nat : Good(n)}
  <1>1. /\ c[0] = Uncut
        /\ \A n \in 1 .. Len(sizes) : c[n] = Placing(j, c[n - 1], sizes[n], hdr)
    BY CutsDef
  <1> HIDE DEF c
  <1>2. 0 \in S
    BY <1>1, UncutType DEF Uncut
  <1>3. ASSUME NEW n \in Nat, Good(n) PROVE Good(n + 1)
    <2> SUFFICES ASSUME n + 1 <= Len(sizes) 
                 PROVE c[n + 1] \in CutType /\ (j.rows > 0 => c[n + 1].rows < j.rows)
      OBVIOUS
    <2>1. n + 1 \in 1 .. Len(sizes) /\ sizes[n + 1] \in Nat
      OBVIOUS
    <2>2. c[n + 1] = Placing(j, c[n], sizes[n + 1], hdr)
      BY <1>1, <2>1
    <2>3. c[n] \in CutType /\ (j.rows > 0 => c[n].rows < j.rows)
      BY <1>3
    <2> HIDE DEF Good, S
    <2>4. /\ Placing(j, c[n], sizes[n + 1], hdr) \in CutType
          /\ j.rows > 0 => Placing(j, c[n], sizes[n + 1], hdr).rows < j.rows
      BY <2>1, <2>3, PlacingType
    <2> QED  BY <2>2, <2>4
  <1>4. \A n \in Nat : n \in S => n + 1 \in S
    BY <1>3
  <1>5. Nat \subseteq S
    <2> HIDE DEF S
    <2> QED  BY <1>2, <1>4, Induct
  <1> QED  BY <1>5 DEF c

\* What greedy filling has finished it never changes.
LEMMA CutsGrow ==
  ASSUME NEW j, j.rows \in Nat, j.bytes \in Nat, NEW sizes \in Seq(Nat), NEW hdr \in Nat,
         NEW r \in 0 .. Len(sizes)
  PROVE  Begins(Cuts(j, sizes, hdr)[r].done, Cuts(j, sizes, hdr)[Len(sizes)].done)
  <1> DEFINE c == Cuts(j, sizes, hdr)
             Good(d) == r + d <= Len(sizes) => Begins(c[r].done, c[r + d].done)
             S == {d \in Nat : Good(d)}
  <1>1. /\ \A n \in 1 .. Len(sizes) : c[n] = Placing(j, c[n - 1], sizes[n], hdr)
        /\ \A n \in 0 .. Len(sizes) : c[n] \in CutType /\ (j.rows > 0 => c[n].rows < j.rows)
    BY CutsDef, CutsType
  <1> HIDE DEF c
  <1>2. 0 \in S
    BY <1>1 DEF CutType, Begins
  <1>3. ASSUME NEW d \in Nat, Good(d) PROVE Good(d + 1)
    <2> SUFFICES ASSUME r + (d + 1) <= Len(sizes) PROVE Begins(c[r].done, c[r + (d + 1)].done)
      OBVIOUS
    <2>1. PICK n : n = r + d
      OBVIOUS
    <2>2. n + 1 \in 1 .. Len(sizes) /\ n \in 0 .. Len(sizes) /\ sizes[n + 1] \in Nat /\ r + (d + 1) = n + 1
      BY <2>1
    <2>3. c[n + 1] = Placing(j, c[n], sizes[n + 1], hdr)
      BY <1>1, <2>2
    <2>4. c[n] \in CutType /\ (j.rows > 0 => c[n].rows < j.rows) /\ c[r] \in CutType
      BY <1>1, <2>2
    <2>5. Begins(c[r].done, c[n].done)
      BY <1>3, <2>1, <2>2
    <2> HIDE DEF Good, S
    <2>6. Begins(c[n].done, c[n + 1].done)
      BY <2>2, <2>3, <2>4, PlacingType
    <2>7. c[r].done \in Seq(Span) /\ c[n].done \in Seq(Span) /\ c[n + 1].done \in Seq(Span)
      <3>1. c[n + 1] \in CutType
        <4>1. n + 1 \in 0 .. Len(sizes)
          BY <2>2
        <4> QED  BY <1>1, <4>1
      <3> QED  BY <2>4, <3>1 DEF CutType
    <2> QED  BY <2>2, <2>5, <2>6, <2>7, BeginsTransitive
  <1>4. \A n \in Nat : n \in S => n + 1 \in S
    BY <1>3
  <1>5. Nat \subseteq S
    <2> HIDE DEF S
    <2> QED  BY <1>2, <1>4, Induct
  <1>6. PICK d \in Nat : r + d = Len(sizes)
    <2>1. Len(sizes) - r \in Nat /\ r + (Len(sizes) - r) = Len(sizes)
      OBVIOUS
    <2> QED  BY <2>1
  <1>7. Good(d)
    BY <1>5
  <1> QED  BY <1>6, <1>7 DEF c

------------------------------------------------------------------------------
(* How far the layout has come at each point of a run.                       *)
------------------------------------------------------------------------------
(* How far the layout has come at each point of a run.                       *)

\* What greedy filling is about: the rows of the object that Stat saw, and its header.
RowSizes == [k \in 1 .. Len(Body) |-> Len(Body[k])]
HeaderBytes == IF HasHeader THEN LineEnds[1] ELSE 0
RangeLayout == Layout(job, RowSizes, HeaderBytes)

\* The layout in the making after the first r rows, and after those handed on.
CutAt(r) == Cuts(job, RowSizes, HeaderBytes)[r]
Now == CutAt(Handed)

\* Bytes are predicted, and then shards, except where gzip decides.
Counted == job.dryRun \/ ~job.gz
Shaped == Counted \/ job.bytes = 0

\* A shard of that many rows and bytes is span s of the layout.
Fits(s, rows, n) == s.rows = rows /\ (Counted => s.bytes = n)

\* Before the loop there is no shard.
Fresh ==
  /\ N = 0 /\ index = 0
  /\ shard.st = "none"
  /\ ~dry.open /\ dry.rows = 0

\* The shards listed are the first of the layout.
ToldInv ==
  Shaped => /\ N <= Len(RangeLayout)
            /\ \A i \in 1 .. N : /\ result[i].index = i
                                 /\ Fits(RangeLayout[i], result[i].rows, result[i].bytes)

\* Between rows: what is listed is finished, what is in progress is the rest.
Midway ==
  /\ Len(Now.done) = N
  /\ IF job.dryRun
     THEN /\ dry.open <=> Now.rows > 0
          /\ dry.rows = Now.rows
          /\ dry.open => dry.bytes = Now.bytes
          /\ index = IF dry.open THEN N + 1 ELSE N
     ELSE /\ shard.rows = Now.rows
          /\ shard.st = "open" /\ pc # "row" => shard.rows > 0
          /\ Counted /\ shard.st = "open" =>
               shard.n = IF Now.rows = 0 THEN HeaderBytes ELSE Now.bytes

\* A shard that is being closed is the next of the layout: it reached a limit, or
\* it is the last.
Closing ==
  \/ /\ Now.rows = 0
     /\ Len(Now.done) = N + 1
     /\ Fits(Now.done[N + 1], shard.rows, shard.n)
  \/ /\ drained
     /\ Handed = Len(RowSizes)
     /\ Now.rows > 0
     /\ Len(Now.done) = N
     /\ Fits(Now, shard.rows, shard.n)

Complete == N = Len(RangeLayout)

Reading == {"loop", "lines", "carry", "row"}
Shutting == {"flush", "unlink", "rename", "record"}
Committing == {"commit", "unlinkManifest", "renameManifest", "done"}

CutInv ==
  /\ pc \in {"start", "header"} => Fresh
  /\ pc \notin Dead /\ shard.st = "none" => shard.rows = 0
  /\ Shaped => /\ pc \in Reading => Midway
               /\ pc = "finish" => Midway \/ (Complete /\ shard.st = "none" /\ ~job.dryRun)
               /\ pc \in Shutting => Closing
               /\ pc \in Committing => Complete

\* As long as nobody replaces the object.
LayoutInv == gen = 1 => ToldInv /\ CutInv

\* Every line has an end: the ends are as many as their ranks.
LEMMA EndOfEach ==
  ASSUME job \in Job, NEW k \in 1 .. Cardinality(Ends)
  PROVE  LineEnds[k] \in Nat
  <1> DEFINE c == Cardinality(Ends)
             f == [e \in Ends |-> Rank(e)]
  <1>1. IsFiniteSet(Ends) /\ c \in Nat
    BY EndsFinite
  <1>2. IsFiniteSet(1 .. c) /\ Cardinality(1 .. c) = c
    <2>1. 1 \in Int /\ c \in Int
      BY <1>1
    <2> HIDE DEF c
    <2>2. IsFiniteSet(1 .. c) /\ Cardinality(1 .. c) = IF 1 > c THEN 0 ELSE c - 1 + 1
      BY <2>1, FS_Interval
    <2> QED  BY <1>1, <2>2
  <1>3. \A e \in Ends : Rank(e) \in 1 .. c /\ LineEnds[Rank(e)] = e
    BY LineEndIs
  <1>4. f \in Injection(Ends, 1 .. c)
    <2>1. f \in [Ends -> 1 .. c]
      BY <1>3
    <2>2. \A d, e \in Ends : f[d] = f[e] => d = e
      <3> TAKE d, e \in Ends
      <3>1. LineEnds[Rank(d)] = d /\ LineEnds[Rank(e)] = e /\ f[d] = Rank(d) /\ f[e] = Rank(e)
        BY <1>3
      <3> HIDE DEF f
      <3> QED  BY <3>1
    <2> HIDE DEF f, c
    <2> QED  BY <2>1, <2>2, Zenon DEF Injection, IsInjective
  <1>5. f \in Surjection(Ends, 1 .. c)
    <2> HIDE DEF f
    <2>1. Cardinality(Ends) = Cardinality(1 .. c)
      BY <1>2
    <2> HIDE DEF c
    <2> QED  BY <1>2, <1>4, <2>1, FS_Injection
  <1>6. \E e \in Ends : f[e] = k
    <2> HIDE DEF f
    <2> QED  BY <1>5, Zenon DEF Surjection
  <1>7. PICK e \in Ends : Rank(e) = k
    BY <1>6
  <1>8. Ends \subseteq 1 .. Size /\ Size \in Nat
    BY JobType
  <1> QED  BY <1>3, <1>7, <1>8

\* A line has a length.
LEMMA LineSized ==
  ASSUME job \in Job, NEW k \in 1 .. Cardinality(Ends)
  PROVE  Len(SourceLines[k]) \in Nat
  <1>1. Cardinality(Ends) \in Nat /\ Len(LineEnds) = Cardinality(Ends)
    BY EndsFinite, LineEndIs
  <1>2. PICK b \in Int : b = IF k = 1 THEN 0 ELSE LineEnds[k - 1]
    <2>1. CASE k = 1
      BY <2>1
    <2>2. CASE k # 1
      <3>1. k - 1 \in 1 .. Cardinality(Ends)
        BY <1>1, <2>2
      <3>2. LineEnds[k - 1] \in Nat
        BY <3>1, EndOfEach
      <3> QED  BY <2>2, <3>2
    <2> QED  BY <2>1, <2>2
  <1>3. PICK n \in Int : n = LineEnds[k] - b
    <2>1. LineEnds[k] \in Nat
      BY EndOfEach
    <2> QED  BY <2>1
  <1>4. SourceLines[k] = [i \in 1 .. n |-> <<1, b + i>>]
    <2>1. SourceLines[k] = LET before == IF k = 1 THEN 0 ELSE LineEnds[k - 1]
                           IN [i \in 1 .. LineEnds[k] - before |-> <<1, before + i>>]
      BY <1>1 DEF SourceLines
    <2> QED  BY <1>2, <1>3, <2>1
  <1>5. CASE n \in Nat
    BY <1>4, <1>5
  <1>6. CASE n \notin Nat
    <2>1. 1 .. n = 1 .. 0
      BY <1>3, <1>6
    <2>2. SourceLines[k] = [i \in 1 .. 0 |-> <<1, b + i>>]
      BY <1>4, <2>1
    <2> QED  BY <2>2
  <1> QED  BY <1>5, <1>6

\* The sizes greedy filling is about are those of the lines after the header.
LEMMA RowSizesAre ==
  ASSUME job \in Job
  PROVE  /\ RowSizes \in Seq(Nat) /\ HeaderBytes \in Nat
         /\ Len(RowSizes) = Len(Body) /\ Len(Body) \in Nat
         /\ \A r \in 1 .. Len(RowSizes) : RowSizes[r] = Len(Body[r])
  <1>1. PICK m \in Nat : m = Len(Body)
    BY BodyIs
  <1>2. \A k \in 1 .. m : Len(Body[k]) \in Nat
    <2> TAKE k \in 1 .. m
    <2>1. Cardinality(Ends) \in Nat /\ Top \in {0, 1} /\ m = Cardinality(Ends) - Top
      BY <1>1, BodyIs, EndsFinite
    <2>2. k + Top \in 1 .. Cardinality(Ends) /\ Body[k] = SourceLines[k + Top]
      BY <1>1, <2>1, BodyIs
    <2>3. Len(SourceLines[k + Top]) \in Nat
      BY <2>2, LineSized
    <2> QED  BY <2>2, <2>3
  <1>3. RowSizes \in [1 .. m -> Nat] /\ \A k \in 1 .. m : RowSizes[k] = Len(Body[k])
    BY <1>1, <1>2 DEF RowSizes
  <1>4. RowSizes \in Seq(Nat) /\ Len(RowSizes) = m
    BY <1>3
  <1>5. HeaderBytes \in Nat
    <2>1. CASE HasHeader
      <3>1. PICK e \in Ends : e = LineEnds[1]
        BY <2>1, HeaderEnd, JobType DEF HasHeader
      <3>2. e \in Nat
        BY JobType
      <3> QED  BY <2>1, <3>1, <3>2 DEF HeaderBytes
    <2>2. CASE ~HasHeader
      BY <2>2 DEF HeaderBytes
    <2> QED  BY <2>1, <2>2
  <1> QED  BY <1>1, <1>3, <1>4, <1>5

\* The layout in the making, row by row of this object.
LEMMA CutAtType ==
  ASSUME job \in Job, NEW r \in 0 .. Len(RowSizes)
  PROVE  /\ CutAt(r) \in CutType
         /\ job.rows > 0 => CutAt(r).rows < job.rows
  BY RowSizesAre, CutsType, JobType DEF CutAt

\* Before the first row nothing is cut.
LEMMA CutAtZero ==
  ASSUME job \in Job
  PROVE  CutAt(0) = Uncut
  BY RowSizesAre, CutsDef DEF CutAt

\* The next row is placed by greedy filling.
LEMMA CutAtNext ==
  ASSUME job \in Job, NEW r \in Nat, r < Len(RowSizes)
  PROVE  CutAt(r + 1) = Placing(job, CutAt(r), Len(Body[r + 1]), HeaderBytes)
  <1>1. r + 1 \in 1 .. Len(RowSizes) /\ (r + 1) - 1 = r
    BY RowSizesAre
  <1>2. CutAt(r + 1) = Placing(job, CutAt((r + 1) - 1), RowSizes[r + 1], HeaderBytes)
    BY <1>1, RowSizesAre, CutsDef DEF CutAt
  <1>3. RowSizes[r + 1] = Len(Body[r + 1])
    BY <1>1, RowSizesAre
  <1> QED  BY <1>1, <1>2, <1>3

\* The layout is what is finished after the last row, and the shard in progress
\* if it has a row.
LEMMA LayoutEnd ==
  ASSUME job \in Job, NEW c, c = CutAt(Len(RowSizes))
  PROVE  /\ c.rows = 0 => RangeLayout = c.done
         /\ c.rows # 0 => /\ Len(RangeLayout) = Len(c.done) + 1
                          /\ RangeLayout[Len(c.done) + 1] = [rows |-> c.rows, bytes |-> c.bytes]
         /\ Begins(c.done, RangeLayout)
         /\ RangeLayout \in Seq(Span)
  <1>1. c \in CutType
    BY RowSizesAre, CutAtType
  <1>2. c.done \in Seq(Span) /\ [rows |-> c.rows, bytes |-> c.bytes] \in Span
    BY <1>1 DEF CutType, Span
  <1>3. RangeLayout = IF c.rows = 0 THEN c.done
                       ELSE Append(c.done, [rows |-> c.rows, bytes |-> c.bytes])
    BY DEF RangeLayout, Layout, CutAt
  <1>4. PICK s : s = [rows |-> c.rows, bytes |-> c.bytes]
    OBVIOUS
  <1>5. /\ Append(c.done, s) \in Seq(Span) /\ Len(Append(c.done, s)) = Len(c.done) + 1
        /\ Append(c.done, s)[Len(c.done) + 1] = s
        /\ \A i \in 1 .. Len(c.done) : Append(c.done, s)[i] = c.done[i]
    BY <1>2, <1>4, AppendProperties
  <1> QED  BY <1>2, <1>3, <1>4, <1>5 DEF Begins

\* Whatever is finished is the beginning of the layout.
LEMMA CutAtBegins ==
  ASSUME job \in Job, NEW r \in 0 .. Len(RowSizes)
  PROVE  Begins(CutAt(r).done, RangeLayout)
  <1>1. Len(RowSizes) \in 0 .. Len(RowSizes)
    BY RowSizesAre
  <1>2. Begins(CutAt(r).done, CutAt(Len(RowSizes)).done)
    BY RowSizesAre, CutsGrow, JobType DEF CutAt
  <1>3. /\ Begins(CutAt(Len(RowSizes)).done, RangeLayout) /\ RangeLayout \in Seq(Span)
    BY LayoutEnd
  <1>4. CutAt(r).done \in Seq(Span) /\ CutAt(Len(RowSizes)).done \in Seq(Span)
    BY <1>1, CutAtType DEF CutType
  <1> QED  BY <1>2, <1>3, <1>4, BeginsTransitive

\* Where in the source the run is: in the layout in the making.

\* Where in the object the run is: in the layout in the making.
LEMMA NowIs ==
  ASSUME IInv, gen = 1, Past
  PROVE  /\ job \in Job /\ Handed \in 0 .. Len(RowSizes)
         /\ Now \in CutType /\ Begins(Now.done, RangeLayout)
         /\ job.rows > 0 => Now.rows < job.rows
         /\ N \in Nat
         /\ drained /\ pc # "row" => Handed = Len(RowSizes)
  <1>1. job \in Job /\ N \in Nat /\ offset \in Nat
    BY Shapes
  <1>2. /\ Len(RowSizes) = Cardinality(Ends) - Top /\ Cardinality(Ends) \in Nat /\ Top \in {0, 1}
        /\ Handed \in Nat /\ Rank(Put) <= Cardinality(Ends) /\ Rank(Put) \in Nat
    BY <1>1, RowSizesAre, BodyIs, EndsFinite, HandedIs
  <1>3. Handed \in 0 .. Len(RowSizes)
    <2>1. PICK c, r, h \in Nat, t \in {0, 1} : c = Cardinality(Ends) /\ r = Rank(Put) /\ t = Top /\ h = Handed
      BY <1>2
    <2>2. h = r - t /\ r <= c /\ Len(RowSizes) = c - t
      BY <1>2, <2>1 DEF Handed
    <2> QED  BY <2>1, <2>2
  <1>4. drained /\ pc # "row" => Handed = Len(RowSizes)
    <2> SUFFICES ASSUME drained, pc # "row" PROVE Handed = Len(RowSizes)
      OBVIOUS
    <2>1. pending = <<>> /\ offset = Size
      BY DEF IInv, ReaderInv, LineInv
    <2>2. Put = Size
      <3>1. Len(pending) = 0
        BY <2>1, EmptySeq
      <3> QED  BY <1>1, <2>1, <3>1 DEF Put
    <2> QED  BY <1>1, <1>2, <2>2, RankBounds DEF Handed
  <1>5. Now \in CutType /\ (job.rows > 0 => Now.rows < job.rows)
    BY <1>1, <1>3, CutAtType DEF Now
  <1>6. Begins(Now.done, RangeLayout)
    BY <1>1, <1>3, CutAtBegins DEF Now
  <1> QED  BY <1>1, <1>3, <1>4, <1>5, <1>6

\* What is predicted is a matter of the options and the object.
LEMMA JobFrame ==
  ASSUME job' = job
  PROVE  /\ RangeLayout' = RangeLayout /\ RowSizes' = RowSizes /\ HeaderBytes' = HeaderBytes
         /\ (Counted' <=> Counted) /\ (Shaped' <=> Shaped)
         /\ \A s, r, n : Fits(s, r, n)' <=> Fits(s, r, n)
         /\ Put' = Put => Handed' = Handed
         /\ Handed' = Handed => Now' = Now
         /\ \A r : CutAt(r)' = CutAt(r)
  <1>1. RowSizes' = RowSizes /\ HeaderBytes' = HeaderBytes
    BY Static DEF RowSizes, HeaderBytes
  <1>2. RangeLayout' = RangeLayout /\ (Handed' = Handed => Now' = Now) /\ \A r : CutAt(r)' = CutAt(r)
    BY <1>1 DEF RangeLayout, Now, CutAt
  <1>3. Put' = Put => Handed' = Handed
    BY Static DEF Handed, Rank
  <1> QED  BY <1>1, <1>2, <1>3 DEF Counted, Shaped, Fits

\* A step that lists nothing new.
LEMMA ToldFrame ==
  ASSUME ToldInv, UNCHANGED <<job, result>>
  PROVE  ToldInv'
  BY JobFrame DEF ToldInv, N

\* A step that lists the next shard of the layout.
LEMMA ToldAppend ==
  ASSUME ToldInv, job' = job, result \in Seq(EntryType), NEW e \in EntryType,
         result' = Append(result, e), e.index = N + 1,
         Shaped => N + 1 <= Len(RangeLayout) /\ Fits(RangeLayout[N + 1], e.rows, e.bytes)
  PROVE  ToldInv'
  <1>1. /\ N' = N + 1 /\ N \in Nat /\ result'[N + 1] = e
        /\ \A i \in 1 .. N : result'[i] = result[i]
    BY AppendProperties DEF N
  <1>2. /\ RangeLayout' = RangeLayout /\ (Counted' <=> Counted) /\ (Shaped' <=> Shaped)
    BY JobFrame
  <1>3. \A i \in 1 .. N + 1 : i \in 1 .. N \/ i = N + 1
    BY <1>1
  <1>4. PICK r : r = result'
    OBVIOUS
  <1>5. Shaped => \A i \in 1 .. N + 1 : /\ r[i].index = i
                                       /\ RangeLayout[i].rows = r[i].rows
                                       /\ Counted => RangeLayout[i].bytes = r[i].bytes
    BY <1>1, <1>3, <1>4 DEF ToldInv, Fits
  <1> QED  BY <1>1, <1>2, <1>4, <1>5 DEF ToldInv, Fits

\* The parts of a run that the layout does not tell apart.
SameStage ==
  \/ pc \in {"start", "header"} /\ pc' \in {"start", "header"}
  \/ pc \in Reading \ {"row"} /\ pc' \in Reading \cup {"finish"}
  \/ pc = pc'
  \/ {pc, pc'} \subseteq Shutting
  \/ {pc, pc'} \subseteq Committing

\* A step that places no row and closes no shard, or is on the way out.
LEMMA Quiet ==
  ASSUME LayoutInv, UNCHANGED <<job, result>>, gen' = 1 => gen = 1,
         pc' \in Dead \/ (SameStage /\ UNCHANGED <<dry, index, shard, Handed>> /\ (drained => drained'))
  PROVE  LayoutInv'
  <1> SUFFICES ASSUME ToldInv, CutInv PROVE ToldInv' /\ CutInv'
    BY DEF LayoutInv
  <1>1. ToldInv'
    BY ToldFrame
  <1>2. CASE pc' \in Dead
    BY <1>1, <1>2 DEF CutInv, Dead, Reading, Shutting, Committing
  <1>3. CASE SameStage /\ UNCHANGED <<dry, index, shard, Handed>> /\ (drained => drained')
    <2>1. Now' = Now /\ HeaderBytes' = HeaderBytes /\ RowSizes' = RowSizes /\ N' = N
      BY <1>3, JobFrame DEF N
    <2>2. (Counted' <=> Counted) /\ (Shaped' <=> Shaped) /\ (Complete' <=> Complete)
      BY <2>1, JobFrame DEF Complete
    <2>3. Midway /\ (pc # "row" \/ pc' = "row") => Midway'
      BY <1>3, <2>1, <2>2 DEF Midway
    <2>4. Closing => Closing'
      BY <1>3, <2>1, <2>2 DEF Closing, Fits
    <2>5. Fresh => Fresh'
      BY <1>3, <2>1 DEF Fresh
    <2>6. pc' \notin Dead /\ shard'.st = "none" => shard'.rows = 0
      BY <1>3 DEF CutInv, SameStage, Dead, Reading, Shutting, Committing
    <2>7. CutInv'
      BY <1>3, <2>2, <2>3, <2>4, <2>5, <2>6 DEF CutInv, SameStage, Reading, Shutting, Committing
    <2> QED  BY <1>1, <2>7
  <1> QED  BY <1>2, <1>3

\* The limits are the same whether a shard or a plan is measured by them; where
\* bytes are not predicted they do not matter.
LEMMA FullIs ==
  ASSUME job \in Job, NEW rows \in Nat, NEW n, NEW b, n = b \/ job.bytes = 0
  PROVE  Full(rows, n) <=> Reached(job, rows, b)
  BY JobType DEF Full, Reached

\* buildManifestEntry gives an entry.
LEMMA EntryTyped ==
  ASSUME NEW i \in Nat, NEW r \in Nat, NEW b \in Nat, NEW f \in FileState \cup {None}
  PROVE  Entry(i, r, b, f) \in EntryType
  BY DEF Entry, EntryType

\* The header that was read is as long as the layout takes it to be.
LEMMA HeaderSized ==
  ASSUME IInv, gen = 1, Past
  PROVE  /\ Len(headerLine) = HeaderBytes /\ HeaderBytes \in Nat
         /\ headerLine = <<>> => HeaderBytes = 0
  <1>1. Len(headerLine) = HeaderBytes
    BY Reads DEF HeaderRead, HeaderBytes
  <1> QED  BY <1>1, Shapes, RowSizesAre, EmptySeq

\* The row in hand moves the layout by one.
LEMMA PlacingNow ==
  ASSUME IInv, gen = 1, pc = "row", pc' \in {"flush", AfterRow},
         UNCHANGED <<job, gen, offset, headerLine, pending, row, drained>>,
         NEW b, b = Heap(Now, Len(row), HeaderBytes)
  PROVE  /\ b \in Nat /\ Len(row) \in Nat /\ HeaderBytes \in Nat
         /\ Now.rows \in Nat
         /\ IF Reached(job, Now.rows + 1, b)
            THEN /\ Now'.rows = 0 /\ Len(Now'.done) = Len(Now.done) + 1
                 /\ Now'.done[Len(Now.done) + 1] = [rows |-> Now.rows + 1, bytes |-> b]
            ELSE Now' = [done |-> Now.done, rows |-> Now.rows + 1, bytes |-> b]
         /\ Begins(Now'.done, RangeLayout) /\ Len(Now'.done) \in Nat /\ Len(RangeLayout) \in Nat
  <1>1. /\ Past /\ Len(row) \in Nat /\ Handed \in Nat /\ Handed' = Handed + 1
        /\ Handed + 1 \in 1 .. Len(Body) /\ row = Body[Handed + 1] /\ job \in Job
    BY RowRead, Shapes
  <1>2. PICK h \in Nat : h = Handed
    BY <1>1
  <1>3. h < Len(RowSizes) /\ h + 1 \in 0 .. Len(RowSizes) /\ row = Body[h + 1] /\ Handed' = h + 1
    BY <1>1, <1>2, RowSizesAre
  <1>4. Now' = CutAt(h + 1) /\ Now = CutAt(h)
    <2>1. Now' = CutAt(h + 1)'
      BY <1>3 DEF Now
    <2> QED  BY <1>2, <2>1, JobFrame DEF Now
  <1>5. Now' = Placing(job, Now, Len(row), HeaderBytes)
    BY <1>1, <1>3, <1>4, CutAtNext
  <1>6. /\ Now \in CutType /\ (job.rows > 0 => Now.rows < job.rows)
        /\ job.rows \in Nat /\ job.bytes \in Nat /\ HeaderBytes \in Nat
    BY <1>1, NowIs, JobType, RowSizesAre
  <1>7. Now' = IF Reached(job, Now.rows + 1, b)
               THEN [done |-> Append(Now.done, [rows |-> Now.rows + 1, bytes |-> b]), rows |-> 0, bytes |-> 0]
               ELSE [done |-> Now.done, rows |-> Now.rows + 1, bytes |-> b]
    <2>1. PICK z \in Nat : z = Len(row)
      BY <1>1
    <2>2. b = Heap(Now, z, HeaderBytes) /\ Now' = Placing(job, Now, z, HeaderBytes)
      BY <1>5, <2>1
    <2> QED  BY <1>6, <2>2, PlacingIs
  <1>8. Now.done \in Seq(Span) /\ Now.rows \in Nat /\ Now.bytes \in Nat
    BY <1>6 DEF CutType
  <1>9. b \in Nat
    BY <1>1, <1>6, <1>8 DEF Heap
  <1>10. PICK s \in Span : s = [rows |-> Now.rows + 1, bytes |-> b]
    <2>1. [rows |-> Now.rows + 1, bytes |-> b] \in Span
      BY <1>8, <1>9 DEF Span
    <2> QED  BY <2>1
  <1>11. /\ Len(Append(Now.done, s)) = Len(Now.done) + 1
         /\ Append(Now.done, s)[Len(Now.done) + 1] = s
    BY <1>8, <1>10, AppendProperties
  <1>12. Begins(Now'.done, RangeLayout) /\ Len(Now'.done) \in Nat
    BY <1>1, <1>3, <1>4, CutAtBegins, CutAtType DEF CutType
  <1>13. Len(RangeLayout) \in Nat
    BY <1>1, LayoutEnd
  <1> QED  BY <1>1, <1>6, <1>7, <1>8, <1>9, <1>10, <1>11, <1>12, <1>13

\* Opening a shard takes the header's bytes into the count (writer.go:46-58).
LEMMA OpenShardLayout == IInv /\ LayoutInv /\ OpenShard => LayoutInv'
  <1> SUFFICES ASSUME IInv, LayoutInv, OpenShard, gen' = 1 PROVE LayoutInv'
    BY DEF LayoutInv
  <1>1. /\ pc = "row" /\ shard.st = "none" /\ ~job.dryRun /\ gen = 1 /\ Past
        /\ UNCHANGED <<job, result, dry, gen, offset, headerLine, pending, row, drained>>
    BY DEF OpenShard, NewShardWriter, readVars, Past, Dead
  <1>2. CASE pc' = "abort"
    BY <1>1, <1>2, Quiet DEF Dead
  <1>3. CASE pc' # "abort"
    <2>1. /\ pc' = "row" /\ shard'.rows = 0
          /\ shard'.n \in (IF headerLine # <<>> THEN CountAfter(0, Len(headerLine)) ELSE {0})
      BY <1>1, <1>3 DEF OpenShard, NewShardWriter
    <2>2. /\ Len(headerLine) = HeaderBytes /\ HeaderBytes \in Nat
          /\ headerLine = <<>> => HeaderBytes = 0
      BY <1>1, HeaderSized
    <2>3. Counted => shard'.n = HeaderBytes
      <3>1. Counted => ~job.gz
        BY <1>1 DEF Counted
      <3> QED  BY <2>1, <2>2, <3>1 DEF CountAfter
    <2>4. Handed' = Handed
      BY <1>1, <2>1, JobFrame DEF Put
    <2>5. Now' = Now /\ HeaderBytes' = HeaderBytes /\ N' = N /\ (Counted' <=> Counted) /\ (Shaped' <=> Shaped)
      BY <1>1, <2>4, JobFrame DEF N
    <2>6. ToldInv'
      BY <1>1, ToldFrame DEF LayoutInv
    <2>7. Shaped => Midway /\ Now.rows = 0
      <3>1. Now.rows \in Nat
        BY <1>1, NowIs DEF CutType
      <3>2. Shaped => Midway
        BY <1>1 DEF LayoutInv, CutInv, Reading
      <3>3. shard.rows = 0
        BY <1>1 DEF LayoutInv, CutInv, Past
      <3> QED  BY <1>1, <3>1, <3>2, <3>3 DEF Midway
    <2>8. Midway /\ Now.rows = 0 => Midway'
      BY <1>1, <2>1, <2>3, <2>5 DEF Midway
    <2> QED  BY <1>1, <2>1, <2>5, <2>6, <2>7, <2>8 DEF LayoutInv, CutInv, Reading, Shutting, Committing
  <1> QED  BY <1>2, <1>3

\* A row is written, and the shard closes exactly when greedy filling closes it.
LEMMA RowLayout == IInv /\ LayoutInv /\ Row => LayoutInv'
  <1> SUFFICES ASSUME IInv, LayoutInv, Row, gen' = 1 PROVE LayoutInv'
    BY DEF LayoutInv
  <1>1. /\ pc = "row" /\ shard.st = "open" /\ ~job.dryRun /\ gen = 1
        /\ shard \in [st : {"none", "open", "closed", "aborted"}, rows : Nat, n : Nat]
        /\ UNCHANGED <<job, result, dry, index, gen, offset, headerLine, pending, row, drained>>
        /\ job \in Job
    BY DEF Row, WriteRow, readVars, IInv, WriterInv, TypeOK
  <1>2. CASE WriteFails
    BY <1>1, <1>2, Quiet DEF Dead, WriteFails
  <1>3. CASE /\ WriteOk(row, Len(row), 1)
             /\ pc' = IF Full(shard'.rows, shard'.n) THEN "flush" ELSE AfterRow
    <2>1. PICK n \in CountAfter(shard.n, Len(row)) :
            shard' = [shard EXCEPT !.rows = @ + 1, !.n = n]
      BY <1>3 DEF WriteOk
    <2>2. shard'.rows = shard.rows + 1 /\ shard'.n = n /\ shard'.st = "open" /\ shard.rows \in Nat
      BY <1>1, <2>1
    <2>3. ToldInv' /\ (Shaped' <=> Shaped) /\ (Counted' <=> Counted) /\ N' = N /\ (Shaped => Midway)
      BY <1>1, ToldFrame, JobFrame DEF LayoutInv, CutInv, N, Reading
    <2>4. pc' \in {"flush", AfterRow} /\ AfterRow \in {"finish", "lines"}
      BY <1>3 DEF AfterRow
    <2> SUFFICES ASSUME Shaped
                 PROVE  /\ pc' = "flush" => Closing'
                        /\ pc' # "flush" => Midway'
      BY <1>1, <2>2, <2>3, <2>4 DEF LayoutInv, CutInv, Reading, Shutting, Committing
    <2>5. PICK b : b = Heap(Now, Len(row), HeaderBytes)
      OBVIOUS
    <2>6. /\ Len(Now.done) = N /\ shard.rows = Now.rows
          /\ Counted => shard.n = IF Now.rows = 0 THEN HeaderBytes ELSE Now.bytes
      BY <1>1, <2>3 DEF Midway
    <2>7. /\ b \in Nat /\ Len(row) \in Nat /\ HeaderBytes \in Nat /\ Now.rows \in Nat
          /\ IF Reached(job, Now.rows + 1, b)
             THEN /\ Now'.rows = 0 /\ Len(Now'.done) = Len(Now.done) + 1
                  /\ Now'.done[Len(Now.done) + 1] = [rows |-> Now.rows + 1, bytes |-> b]
             ELSE Now' = [done |-> Now.done, rows |-> Now.rows + 1, bytes |-> b]
      BY <1>1, <2>4, <2>5, PlacingNow
    <2>8. Counted => n = b
      <3>1. Counted => n = shard.n + Len(row)
        BY <1>1, <2>1 DEF CountAfter, Counted
      <3>2. b = Len(row) + (IF Now.rows > 0 THEN Now.bytes ELSE HeaderBytes)
        BY <2>5 DEF Heap
      <3>3. shard.n \in Nat
        BY <1>1
      <3> QED  BY <2>6, <2>7, <3>1, <3>2, <3>3
    <2>9. n = b \/ job.bytes = 0
      BY <2>8 DEF Shaped
    <2>10. Full(shard'.rows, shard'.n) <=> Reached(job, Now.rows + 1, b)
      <3>1. Full(shard.rows + 1, n) <=> Reached(job, shard.rows + 1, b)
        BY <1>1, <2>2, <2>9, FullIs
      <3>2. Full(shard'.rows, shard'.n) <=> Full(shard.rows + 1, n)
        BY <2>2
      <3> QED  BY <2>6, <3>1, <3>2
    <2>11. CASE Reached(job, Now.rows + 1, b)
      <3>1. Closing'
        BY <1>1, <2>2, <2>3, <2>6, <2>7, <2>8, <2>11 DEF Closing, Fits
      <3> QED  BY <1>3, <2>10, <2>11, <3>1
    <2>12. CASE ~Reached(job, Now.rows + 1, b)
      <3>1. Midway'
        BY <1>1, <2>2, <2>3, <2>6, <2>7, <2>8, <2>12 DEF Midway
      <3> QED  BY <1>3, <2>4, <2>10, <2>12, <3>1
    <2> QED  BY <2>11, <2>12
  <1> QED  BY <1>2, <1>3 DEF Row, WriteRow

\* A row is planned: the dry shard closes exactly when greedy filling closes it.
LEMMA PlanRowLayout == IInv /\ LayoutInv /\ PlanRow => LayoutInv'
  <1> SUFFICES ASSUME IInv, LayoutInv, PlanRow, gen' = 1 PROVE LayoutInv'
    BY DEF LayoutInv
  <1>1. /\ pc = "row" /\ job.dryRun /\ pc' = AfterRow /\ gen = 1
        /\ UNCHANGED <<job, shard, gen, offset, headerLine, pending, row, drained>>
        /\ job \in Job /\ dry \in [open : BOOLEAN, rows : Nat, bytes : Nat] /\ result \in Seq(EntryType)
        /\ N \in Nat /\ N = Len(result) /\ index \in Nat /\ shard.st = "none"
    BY DEF PlanRow, DryRow, readVars, IInv, TypeOK, WriterInv, N
  <1>2. Past /\ pc' \in {"lines", "finish"}
    BY <1>1 DEF Past, Dead, AfterRow
  <1>3. Len(headerLine) = HeaderBytes /\ HeaderBytes \in Nat
    BY <1>1, <1>2, HeaderSized
  <1>4. Counted /\ Shaped /\ Counted' /\ Shaped'
    BY <1>1 DEF Counted, Shaped
  <1>5. Midway /\ ToldInv /\ shard.rows = 0
    BY <1>1, <1>2, <1>4 DEF LayoutInv, CutInv, Reading, Past
  <1>6. /\ Len(Now.done) = N /\ dry.rows = Now.rows /\ (dry.open <=> Now.rows > 0)
        /\ dry.open => dry.bytes = Now.bytes
        /\ index = IF dry.open THEN N + 1 ELSE N
    BY <1>1, <1>5 DEF Midway
  <1>7. PICK b : b = Heap(Now, Len(row), HeaderBytes)
    OBVIOUS
  <1>8. /\ b \in Nat /\ Len(row) \in Nat /\ HeaderBytes \in Nat /\ Now.rows \in Nat
        /\ IF Reached(job, Now.rows + 1, b)
           THEN /\ Now'.rows = 0 /\ Len(Now'.done) = Len(Now.done) + 1
                /\ Now'.done[Len(Now.done) + 1] = [rows |-> Now.rows + 1, bytes |-> b]
           ELSE Now' = [done |-> Now.done, rows |-> Now.rows + 1, bytes |-> b]
        /\ Begins(Now'.done, RangeLayout) /\ Len(Now'.done) \in Nat /\ Len(RangeLayout) \in Nat
    BY <1>1, <1>7, PlacingNow
  <1>9. (IF dry.open THEN dry.bytes ELSE Len(headerLine)) + Len(row) = b
    <2>1. b = Len(row) + (IF Now.rows > 0 THEN Now.bytes ELSE HeaderBytes)
      BY <1>7 DEF Heap
    <2>2. dry.bytes \in Nat
      BY <1>1
    <2> QED  BY <1>3, <1>6, <1>8, <2>1, <2>2
  <1>10. (IF dry.open THEN index ELSE index + 1) = N + 1
    BY <1>1, <1>6
  <1>11. /\ index' = N + 1
         /\ IF Full(dry.rows + 1, b)
            THEN dry' = NoDry /\ result' = Append(result, Entry(N + 1, dry.rows + 1, b, None))
            ELSE dry' = [open |-> TRUE, rows |-> dry.rows + 1, bytes |-> b] /\ result' = result
    BY <1>9, <1>10 DEF PlanRow, DryRow
  <1>12. Full(dry.rows + 1, b) <=> Reached(job, Now.rows + 1, b)
    <2>1. dry.rows + 1 \in Nat
      BY <1>1
    <2>2. Full(dry.rows + 1, b) <=> Reached(job, dry.rows + 1, b)
      BY <1>1, <2>1, FullIs
    <2> QED  BY <1>6, <2>2
  <1>13. ToldInv' /\ Midway' => LayoutInv'
    BY <1>1, <1>2, <1>5 DEF LayoutInv, CutInv, Reading, Shutting, Committing
  <1>14. CASE Reached(job, Now.rows + 1, b)
    <2>1. PICK e : e = Entry(N + 1, dry.rows + 1, b, None)
      OBVIOUS
    <2>2. e \in EntryType /\ e.index = N + 1 /\ e.rows = Now.rows + 1 /\ e.bytes = b
      <3>1. N + 1 \in Nat /\ dry.rows + 1 \in Nat
        BY <1>1
      <3>2. e \in EntryType
        BY <1>8, <2>1, <3>1, EntryTyped
      <3> QED  BY <1>6, <2>1, <3>2 DEF Entry
    <2>3. result' = Append(result, e) /\ dry' = NoDry
      BY <1>11, <1>12, <1>14, <2>1
    <2>4. N' = N + 1
      BY <1>1, <2>2, <2>3, AppendProperties DEF N
    <2>5. /\ Now'.rows = 0 /\ Len(Now'.done) = N + 1
          /\ Now'.done[N + 1] = [rows |-> Now.rows + 1, bytes |-> b]
      BY <1>6, <1>8, <1>14
    <2>6. N + 1 <= Len(RangeLayout) /\ RangeLayout[N + 1] = [rows |-> Now.rows + 1, bytes |-> b]
      BY <1>1, <1>8, <2>5 DEF Begins
    <2>7. ToldInv'
      <3>1. Fits(RangeLayout[N + 1], e.rows, e.bytes)
        BY <2>2, <2>6 DEF Fits
      <3> QED  BY <1>1, <1>5, <2>2, <2>3, <2>6, <3>1, ToldAppend
    <2>8. Midway'
      <3>1. dry'.open = FALSE /\ dry'.rows = 0
        BY <2>3 DEF NoDry
      <3> QED  BY <1>1, <1>11, <2>4, <2>5, <3>1 DEF Midway
    <2> QED  BY <1>13, <2>7, <2>8
  <1>15. CASE ~Reached(job, Now.rows + 1, b)
    <2>1. dry' = [open |-> TRUE, rows |-> dry.rows + 1, bytes |-> b] /\ result' = result
      BY <1>11, <1>12, <1>15
    <2>2. Now' = [done |-> Now.done, rows |-> Now.rows + 1, bytes |-> b]
      BY <1>8, <1>15
    <2>3. ToldInv'
      BY <1>1, <1>5, <2>1, ToldFrame
    <2>4. Midway'
      BY <1>1, <1>6, <1>8, <1>11, <2>1, <2>2 DEF Midway, N
    <2> QED  BY <1>13, <2>3, <2>4
  <1> QED  BY <1>14, <1>15

\* The end of closeTextShard lists the next shard of the layout.
LEMMA RecordLayout == IInv /\ LayoutInv /\ Record => LayoutInv'
  <1> SUFFICES ASSUME IInv, LayoutInv, Record, gen' = 1 PROVE LayoutInv'
    BY DEF LayoutInv
  <1>1. /\ pc = "record" /\ Live /\ Past /\ gen = 1
        /\ UNCHANGED <<job, dry, index, gen, offset, headerLine, pending, row, drained>>
    BY DEF Record, RecordShard, readVars, IInv, WriterInv, Live, Past, Dead
  <1>2. CASE pc' = "abort"
    <2>1. result' = result
      BY <1>1, <1>2 DEF Record, RecordShard, AfterRow
    <2> QED  BY <1>1, <1>2, <2>1, Quiet DEF Dead
  <1>3. CASE pc' # "abort"
    <2>1. /\ M = N + 1 /\ M \in Nat /\ Published = 1 .. M /\ index = N + 1 /\ index \in Nat
          /\ N \in Nat /\ shard.rows \in Nat /\ shard.n \in Nat /\ result \in Seq(EntryType)
      BY <1>1, Shapes DEF IInv, TypeOK, WriterInv, ShardsInv, ProgressInv
    <2>2. shardFile[index] \in FileState
      <3>1. index \in Published
        BY <2>1
      <3> QED  BY <3>1 DEF IInv, ShardsInv
    <2>3. PICK e : e = Entry(index, shard.rows, shard.n, shardFile[index])
      OBVIOUS
    <2>4. e \in EntryType /\ e.index = N + 1 /\ e.rows = shard.rows /\ e.bytes = shard.n
      <3>1. e \in EntryType
        BY <2>1, <2>2, <2>3, EntryTyped
      <3> QED  BY <2>1, <2>3, <3>1 DEF Entry
    <2>5. /\ result' = Append(result, e) /\ shard'.st = "none" /\ shard'.rows = 0
          /\ pc' = IF drained THEN "finish" ELSE "lines"
      BY <1>3, <2>3 DEF Record, RecordShard, AfterRow, NoShard
    <2>6. Handed' = Handed
      BY <1>1, <2>5, JobFrame DEF Put
    <2>7. /\ Now' = Now /\ RangeLayout' = RangeLayout
          /\ (Counted' <=> Counted) /\ (Shaped' <=> Shaped)
      BY <1>1, <2>6, JobFrame
    <2>8. N' = N + 1
      BY <2>1, <2>4, <2>5, AppendProperties DEF N
    <2>9. /\ Now \in CutType /\ Begins(Now.done, RangeLayout) /\ job \in Job
      BY <1>1, NowIs
    <2>10. CASE ~Shaped
      <3>1. ToldInv'
        BY <2>7, <2>10 DEF ToldInv
      <3> QED  BY <2>5, <2>7, <2>10, <3>1 DEF LayoutInv, CutInv
    <2>11. CASE Shaped
      <3>1. Closing /\ ToldInv
        BY <1>1, <2>11 DEF LayoutInv, CutInv, Shutting
      <3>2. CASE Now.rows = 0 /\ Len(Now.done) = N + 1 /\ Fits(Now.done[N + 1], shard.rows, shard.n)
        <4>1. N + 1 <= Len(RangeLayout) /\ RangeLayout[N + 1] = Now.done[N + 1]
          BY <2>1, <2>9, <3>2 DEF Begins
        <4>2. Fits(RangeLayout[N + 1], e.rows, e.bytes)
          BY <2>4, <3>2, <4>1
        <4>3. ToldInv'
          BY <1>1, <2>1, <2>4, <2>5, <3>1, <4>1, <4>2, ToldAppend
        <4>4. Midway'
          BY <1>1, <2>5, <2>7, <2>8, <3>2 DEF Midway, Live
        <4> QED  BY <2>5, <4>3, <4>4 DEF LayoutInv, CutInv, Reading, Shutting, Committing
      <3>3. CASE /\ drained /\ Handed = Len(RowSizes) /\ Now.rows > 0 /\ Len(Now.done) = N
                 /\ Fits(Now, shard.rows, shard.n)
        <4>1. /\ Len(RangeLayout) = N + 1
              /\ RangeLayout[N + 1] = [rows |-> Now.rows, bytes |-> Now.bytes]
          <5>1. Now = CutAt(Len(RowSizes))
            BY <3>3 DEF Now
          <5>2. Now.rows # 0
            BY <2>9, <3>3 DEF CutType
          <5> QED  BY <2>9, <3>3, <5>1, <5>2, LayoutEnd
        <4>2. Fits(RangeLayout[N + 1], e.rows, e.bytes)
          BY <2>4, <3>3, <4>1 DEF Fits
        <4>3. ToldInv'
          BY <1>1, <2>1, <2>4, <2>5, <3>1, <4>1, <4>2, ToldAppend
        <4>4. Complete'
          BY <2>7, <2>8, <4>1 DEF Complete
        <4> QED  BY <1>1, <2>5, <3>3, <4>3, <4>4 DEF LayoutInv, CutInv, Live, Reading, Shutting, Committing
      <3> QED  BY <3>1, <3>2, <3>3 DEF Closing
    <2> QED  BY <2>10, <2>11
  <1> QED  BY <1>2, <1>3

\* Closing a shard leaves its counts, as far as they are predicted.
LEMMA FlushShardLayout == IInv /\ LayoutInv /\ FlushShard /\ UNCHANGED readVars => LayoutInv'
  <1> SUFFICES ASSUME IInv, LayoutInv, FlushShard, UNCHANGED readVars, gen' = 1 PROVE LayoutInv'
    BY DEF LayoutInv
  <1>1. /\ pc = "flush" /\ Past /\ gen = 1 /\ ~job.dryRun
        /\ UNCHANGED <<job, result, dry, index, gen, offset, headerLine, pending, row, drained>>
        /\ shard \in [st : {"none", "open", "closed", "aborted"}, rows : Nat, n : Nat]
        /\ pc' \in {"unlink", "rename", "abort"}
    BY DEF FlushShard, AfterFlush, readVars, IInv, TypeOK, WriterInv, Past, Dead
  <1>2. CASE pc' = "abort"
    BY <1>1, <1>2, Quiet DEF Dead
  <1>3. CASE pc' # "abort"
    <2>1. PICK n \in (IF job.gz THEN CountAfter(shard.n, 0) ELSE {shard.n}) :
            shard' = [shard EXCEPT !.st = "closed", !.n = n]
      BY <1>3 DEF FlushShard
    <2>2. shard'.rows = shard.rows /\ shard'.st = "closed" /\ (Counted => shard'.n = shard.n)
      BY <1>1, <2>1 DEF Counted
    <2>3. Handed' = Handed
      BY <1>1, JobFrame DEF Put
    <2>4. /\ Now' = Now /\ N' = N /\ RowSizes' = RowSizes /\ (Counted' <=> Counted) /\ (Shaped' <=> Shaped)
      BY <1>1, <2>3, JobFrame DEF N
    <2>5. ToldInv'
      BY <1>1, ToldFrame DEF LayoutInv
    <2>6. Closing => Closing'
      BY <1>1, <2>2, <2>3, <2>4 DEF Closing, Fits
    <2> QED  BY <1>1, <1>3, <2>2, <2>4, <2>5, <2>6 DEF LayoutInv, CutInv, Reading, Shutting, Committing
  <1> QED  BY <1>2, <1>3

\* The end of the object closes what is in progress, which is the last of the layout.
LEMMA FinishLayout == IInv /\ LayoutInv /\ Finish /\ UNCHANGED readVars => LayoutInv'
  <1> SUFFICES ASSUME IInv, LayoutInv, Finish, UNCHANGED readVars, gen' = 1 PROVE LayoutInv'
    BY DEF LayoutInv
  <1>1. /\ pc = "finish" /\ gen = 1 /\ Past
        /\ UNCHANGED <<job, shard, index, gen, offset, headerLine, pending, row, drained>>
        /\ shard.st \in {"none", "open"} /\ (job.dryRun => shard.st = "none")
        /\ dry \in [open : BOOLEAN, rows : Nat, bytes : Nat] /\ index \in Nat
        /\ result \in Seq(EntryType) /\ N \in Nat /\ drained
        /\ pc' = IF shard.st = "open" THEN "flush" ELSE "commit"
    BY Shapes DEF Finish, readVars, IInv, TypeOK, ReaderInv, WriterInv, Past, Dead, Ending
  <1>2. /\ Now \in CutType /\ Handed = Len(RowSizes) /\ job \in Job
        /\ Now.rows \in Nat /\ Now.bytes \in Nat
    BY <1>1, NowIs DEF CutType
  <1>3. Handed' = Handed
    BY <1>1, JobFrame DEF Put
  <1>4. /\ Now' = Now /\ RangeLayout' = RangeLayout /\ RowSizes' = RowSizes
        /\ (Counted' <=> Counted) /\ (Shaped' <=> Shaped)
    BY <1>1, <1>3, JobFrame
  <1>5. /\ Now.rows = 0 => Len(RangeLayout) = Len(Now.done)
        /\ Now.rows # 0 => /\ Len(RangeLayout) = Len(Now.done) + 1
                           /\ RangeLayout[Len(Now.done) + 1] = [rows |-> Now.rows, bytes |-> Now.bytes]
    <2>1. Now = CutAt(Len(RowSizes))
      BY <1>2 DEF Now
    <2> QED  BY <1>2, <2>1, LayoutEnd
  <1>6. /\ shard.st = "none" => shard'.rows = 0
        /\ pc' \in {"flush", "commit"} /\ (shard.st = "none" => pc' = "commit")
    BY <1>1 DEF LayoutInv, CutInv, Past
  <1>7. CASE ~Shaped
    <2>1. ToldInv'
      BY <1>4, <1>7 DEF ToldInv
    <2> QED  BY <1>1, <1>4, <1>6, <1>7, <2>1 DEF LayoutInv, CutInv
  <1>8. CASE Shaped /\ job.dryRun
    <2>1. Midway /\ ToldInv /\ Counted /\ pc' = "commit"
      BY <1>1, <1>8 DEF LayoutInv, CutInv, Counted
    <2>2. CASE ~dry.open
      <3>1. result' = result
        BY <2>2 DEF Finish
      <3>2. Complete'
        BY <1>2, <1>4, <1>5, <1>8, <2>1, <2>2, <3>1 DEF Complete, Midway, N
      <3>3. ToldInv'
        BY <1>1, <2>1, <3>1, ToldFrame
      <3> QED  BY <1>1, <1>6, <2>1, <3>2, <3>3 DEF LayoutInv, CutInv, Reading, Shutting, Committing
    <2>3. CASE dry.open
      <3>1. PICK e : e = Entry(index, dry.rows, dry.bytes, None)
        OBVIOUS
      <3>2. result' = Append(result, e)
        BY <1>8, <2>3, <3>1 DEF Finish
      <3>3. /\ Now.rows # 0 /\ Len(Now.done) = N /\ index = N + 1
            /\ dry.rows = Now.rows /\ dry.bytes = Now.bytes
        BY <1>2, <1>8, <2>1, <2>3 DEF Midway
      <3>4. e \in EntryType /\ e.index = N + 1 /\ e.rows = Now.rows /\ e.bytes = Now.bytes
        <4>1. e \in EntryType
          BY <1>1, <3>1, EntryTyped
        <4> QED  BY <3>1, <3>3, <4>1 DEF Entry
      <3>5. /\ Len(RangeLayout) = N + 1
            /\ Fits(RangeLayout[N + 1], e.rows, e.bytes)
        BY <1>5, <3>3, <3>4 DEF Fits
      <3>6. ToldInv'
        BY <1>1, <2>1, <3>2, <3>4, <3>5, ToldAppend
      <3>7. Complete'
        <4>1. N' = N + 1
          BY <1>1, <3>2, <3>4, AppendProperties DEF N
        <4> QED  BY <1>4, <3>5, <4>1 DEF Complete
      <3> QED  BY <1>1, <1>6, <2>1, <3>6, <3>7 DEF LayoutInv, CutInv, Reading, Shutting, Committing
    <2> QED  BY <2>2, <2>3
  <1>9. CASE Shaped /\ ~job.dryRun
    <2>1. /\ ToldInv /\ (Midway \/ (Complete /\ shard.st = "none"))
          /\ result' = result /\ dry' = dry /\ N' = N
      BY <1>1, <1>9 DEF LayoutInv, CutInv, Finish, N
    <2>2. ToldInv'
      BY <1>1, <2>1, ToldFrame
    <2>3. CASE shard.st = "none"
      <3>1. shard.rows = 0
        BY <1>1, <1>6, <2>3
      <3>2. Complete'
        BY <1>1, <1>4, <1>5, <1>9, <2>1, <2>3, <3>1 DEF Complete, Midway
      <3> QED  BY <1>1, <1>6, <2>2, <2>3, <3>2 DEF LayoutInv, CutInv, Reading, Shutting, Committing
    <2>4. CASE shard.st = "open"
      <3>1. Closing'
        BY <1>1, <1>2, <1>3, <1>4, <1>9, <2>1, <2>4 DEF Closing, Midway, Fits
      <3> QED  BY <1>1, <2>2, <2>4, <3>1 DEF LayoutInv, CutInv, Reading, Shutting, Committing
    <2> QED  BY <1>1, <2>3, <2>4
  <1> QED  BY <1>7, <1>8, <1>9

\* Every run starts before the layout.
LEMMA InitLayout == Init => LayoutInv
  <1> SUFFICES ASSUME Init PROVE LayoutInv
    OBVIOUS
  <1>1. /\ job \in Job /\ N = 0 /\ shard.rows = 0 /\ shard.st = "none" /\ index = 0
        /\ dry.open = FALSE /\ dry.rows = 0 /\ pc = "start"
    BY EmptySeq DEF Init, OutInit, NoShard, NoDry, N
  <1>2. Len(RangeLayout) \in Nat
    BY <1>1, LayoutEnd
  <1> QED  BY <1>1, <1>2 DEF LayoutInv, ToldInv, CutInv, Fresh, Reading, Shutting, Committing

\* When the loop is entered no row has been handed on.
LEMMA EnterLayout ==
  ASSUME IInv, LayoutInv, IInv', pc \in {"start", "header"}, pc' = "loop",
         UNCHANGED <<job, gen, result, dry, index, shard>>, pending' = <<>>, offset' = Len(headerLine')
  PROVE  LayoutInv'
  <1> SUFFICES ASSUME gen' = 1, ToldInv, CutInv PROVE ToldInv' /\ CutInv'
    BY DEF LayoutInv
  <1>1. job \in Job
    BY Shapes
  <1>2. Len(headerLine') = HeaderBytes
    <2>1. HeaderRead'
      BY DEF IInv, LineInv, Past, Dead
    <2>2. LineEnds' = LineEnds /\ (HasHeader' <=> HasHeader)
      BY Static
    <2> QED  BY <2>1, <2>2 DEF HeaderRead, HeaderBytes
  <1>3. HeaderBytes \in Nat
    BY <1>1, RowSizesAre
  <1>4. Put' = HeaderBytes
    <2>1. Len(pending') = 0
      BY EmptySeq
    <2> QED  BY <1>2, <1>3, <2>1 DEF Put
  <1>5. Rank(HeaderBytes) = Top
    <2>1. CASE HasHeader
      BY <1>1, <2>1, HeaderEnd DEF HasHeader, HeaderBytes, Top
    <2>2. CASE ~HasHeader
      BY <1>1, <2>2, RankBounds DEF HeaderBytes, Top
    <2> QED  BY <2>1, <2>2
  <1>6. Handed' = 0
    <2>1. Handed' = Rank(HeaderBytes) - Top
      BY <1>4, Static DEF Handed, Rank
    <2>2. Top \in {0, 1}
      BY DEF Top
    <2> QED  BY <1>5, <2>1, <2>2
  <1>7. Now' = Uncut
    <2>1. Now' = CutAt(0)'
      BY <1>6 DEF Now
    <2> QED  BY <1>1, <2>1, CutAtZero, JobFrame
  <1>8. Now'.rows = 0 /\ Len(Now'.done) = 0
    BY <1>7, EmptySeq DEF Uncut
  <1>9. Fresh /\ shard.rows = 0 /\ N' = N
    BY DEF CutInv, Dead, N, Fresh
  <1>10. Midway'
    BY <1>8, <1>9 DEF Midway, Fresh
  <1>11. ToldInv'
    BY ToldFrame
  <1> QED  BY <1>9, <1>10, <1>11 DEF CutInv, Reading, Shutting, Committing

\* Up to the loop nothing is placed.
LEMMA BeginLayout ==
  IInv /\ IInv' /\ LayoutInv /\ (Start \/ ProbeHeader \/ NoHeader \/ ReadFails) => LayoutInv'
  <1> SUFFICES ASSUME IInv, IInv', LayoutInv, Start \/ ProbeHeader \/ NoHeader \/ ReadFails,
                      gen' = 1
               PROVE  LayoutInv'
    BY DEF LayoutInv
  <1>1. UNCHANGED <<job, gen, result, dry, index, shard, pending, row, drained>>
    BY DEF Start, NewManifestWriter, ProbeHeader, NoHeader, ReadFails, readVars
  <1>2. CASE pc' \in Dead
    BY <1>1, <1>2, Quiet
  <1>3. CASE pc' \notin Dead
    <2>1. pc \in {"start", "header"} /\ pc' \in {"header", "loop"}
      BY <1>3 DEF Start, NewManifestWriter, ProbeHeader, NoHeader, ReadFails, Dead
    <2>2. pending = <<>> /\ offset = Len(headerLine)
      BY <2>1 DEF IInv, ReaderInv
    <2>3. CASE pc' = "header"
      <3>1. Fresh => Fresh'
        BY <1>1 DEF Fresh, N
      <3>2. gen = 1 /\ ToldInv' /\ CutInv
        BY <1>1, ToldFrame DEF LayoutInv
      <3>3. Fresh /\ shard.rows = 0
        BY <2>1, <3>2 DEF CutInv, Dead, Fresh
      <3> QED  BY <1>1, <2>3, <3>1, <3>2, <3>3 DEF LayoutInv, CutInv, Reading, Shutting, Committing
    <2>4. CASE pc' = "loop"
      <3>1. offset' = Len(headerLine')
        <4>1. CASE UNCHANGED <<offset, headerLine>>
          BY <2>2, <4>1
        <4>2. CASE ~UNCHANGED <<offset, headerLine>>
          <5>1. ProbeHeader
            BY <1>3, <4>2 DEF Start, NoHeader, ReadFails, readVars
          <5>2. CASE offset' = 0 /\ headerLine' = <<>>
            BY <5>2, EmptySeq
          <5>3. CASE ~(offset' = 0 /\ headerLine' = <<>>)
            <6>1. PICK part : headerLine' = headerLine \o part /\ offset' = offset + Len(part)
              BY <5>1, <5>3 DEF ProbeHeader
            <6> QED  BY <2>2, <6>1
          <5> QED  BY <5>2, <5>3
        <4> QED  BY <4>1, <4>2
      <3> QED  BY <1>1, <2>1, <2>2, <2>4, <3>1, EnterLayout
    <2> QED  BY <2>1, <2>3, <2>4
  <1> QED  BY <1>2, <1>3

\* A step of the reader between the rows moves no byte past the end of the last row.
LEMMA PutStays ==
  ASSUME IInv, ReadChunk \/ LoopEnds \/ TakeLine \/ TakeCarry
  PROVE  Put' = Put
  <1>1. pc # "row" /\ Past
    BY DEF ReadChunk, AfterEmpty, LoopEnds, TakeLine, TakeCarry, Past, Dead
  <1>2. PICK o, p, x \in Nat : o = offset /\ p = Len(pending) /\ x = Put /\ x = o - p
    BY <1>1, Shapes, Reads
  <1>3. Stretch(pending, Put, gen) /\ Put \in Nat /\ pending \in Seq(Bits)
    BY <1>1, Reads DEF Stretch
  <1>4. \A m \in 1 .. p : offset' = o /\ Len(row') = m /\ Len(pending') = p - m /\ pc' = "row" => Put' = Put
    <2> TAKE m \in 1 .. p
    <2>1. o - (p - m) - m = x
      BY <1>2
    <2> QED  BY <1>2, <2>1 DEF Put
  <1>5. CASE ReadChunk
    <2>1. PICK chunk : chunk = Bytes(offset, Length(Block))
      OBVIOUS
    <2>2. /\ offset' = offset + Len(chunk) /\ pc' # "row"
          /\ pending' = IF chunk = <<>> THEN pending ELSE pending \o chunk
      BY <1>5, <2>1 DEF ReadChunk, AfterEmpty, After, Combined
    <2>3. Stretch(chunk, offset, gen)
      <3>1. offset < Size /\ Block \in Nat /\ Block > 0
        BY <1>5, BlocksAssumption DEF ReadChunk, AfterEmpty
      <3>2. Length(Block) \in Nat
        BY <3>1, Shapes DEF Length
      <3> QED  BY <2>1, <3>2, Shapes, BytesAre
    <2>4. PICK c \in Nat : c = Len(chunk) /\ chunk \in Seq(Bits)
      BY <2>3, LenProperties DEF Stretch
    <2>5. Len(pending') = p + c
      <3>1. CASE chunk = <<>>
        BY <1>2, <2>2, <2>4, <3>1, EmptySeq
      <3>2. CASE chunk # <<>>
        BY <1>2, <1>3, <2>2, <2>4, <3>2, ConcatProperties
      <3> QED  BY <3>1, <3>2
    <2>6. (o + c) - (p + c) = x
      BY <1>2
    <2>7. Put' = (o + c) - (p + c) - 0
      BY <1>2, <2>2, <2>4, <2>5 DEF Put
    <2> QED  BY <1>2, <2>6, <2>7
  <1>6. CASE UNCHANGED <<offset, pending>> /\ pc' # "row"
    BY <1>1, <1>6 DEF Put
  <1>7. CASE TakeLine /\ LineOf(pending) # <<>>
    <2>1. row' = LineOf(pending) /\ pending' = RestOf(pending) /\ pc' = "row" /\ offset' = offset
      BY <1>7 DEF TakeLine
    <2>2. PICK m \in 1 .. Len(pending) :
            LineOf(pending) = SubSeq(pending, 1, m) /\ RestOf(pending) = SubSeq(pending, m + 1, Len(pending))
      BY <1>3, <1>7, LineOfIs
    <2>3. Len(row') = m /\ Len(pending') = Len(pending) - m
      <3>1. m \in 0 .. Len(pending)
        BY <1>2
      <3> QED  BY <1>3, <2>1, <2>2, <3>1, StretchCut
    <2> QED  BY <1>2, <1>4, <2>1, <2>2, <2>3
  <1>8. CASE offset' = offset /\ row' = pending /\ pending' = <<>> /\ pc' = "row" /\ pending # <<>>
    <2>1. p \in 1 .. p /\ Len(pending') = p - p /\ Len(row') = p
      BY <1>2, <1>3, <1>8, EmptySeq
    <2> QED  BY <1>2, <1>4, <1>8, <2>1
  <1>9. CASE LoopEnds
    BY <1>6, <1>9 DEF LoopEnds, readVars
  <1>10. CASE TakeLine
    BY <1>6, <1>7, <1>8, <1>10 DEF TakeLine
  <1>11. CASE TakeCarry
    BY <1>6, <1>8, <1>11 DEF TakeCarry
  <1> QED  BY <1>5, <1>9, <1>10, <1>11

\* Reading places no row.
LEMMA ReaderLayout ==
  IInv /\ LayoutInv /\ (ReadChunk \/ LoopEnds \/ TakeLine \/ TakeCarry) => LayoutInv'
  <1> SUFFICES ASSUME IInv, LayoutInv, ReadChunk \/ LoopEnds \/ TakeLine \/ TakeCarry
               PROVE  LayoutInv'
    OBVIOUS
  <1>1. UNCHANGED <<job, gen, result, dry, index, shard>> /\ (drained => drained')
    BY DEF ReadChunk, AfterEmpty, LoopEnds, TakeLine, TakeCarry, readVars
  <1>2. Handed' = Handed
    BY <1>1, PutStays, JobFrame
  <1>3. SameStage
    BY DEF ReadChunk, AfterEmpty, LoopEnds, TakeLine, TakeCarry, SameStage, Reading
  <1> QED  BY <1>1, <1>2, <1>3, Quiet

\* Renames, the manifest, the ways out and the environment place no row either.
LEMMA OutputLayout ==
  ASSUME IInv, LayoutInv,
         \/ /\ UnlinkShard \/ RenameShard \/ CloseManifest \/ UnlinkManifest \/ RenameManifest
            /\ UNCHANGED readVars
         \/ /\ AbortShard \/ AbortManifest
            /\ UNCHANGED readVars
         \/ (Cancel \/ Crash) /\ UNCHANGED readVars
         \/ UNCHANGED vars
  PROVE  LayoutInv'
  <1>1. UNCHANGED <<job, result, gen, offset, pending, row, drained>>
    BY DEF UnlinkShard, RenameShard, CloseManifest, UnlinkManifest, RenameManifest, AbortShard,
       AbortManifest, Cancel, Crash, vars, outVars, readVars
  <1>2. CASE pc' \in Dead
    BY <1>1, <1>2, Quiet
  <1>3. CASE pc' \notin Dead
    <2>1. UNCHANGED <<dry, index, shard>>
      BY <1>3 DEF UnlinkShard, RenameShard, CloseManifest, UnlinkManifest, RenameManifest, AbortShard,
         AbortManifest, Cancel, Crash, vars, outVars, Dead
    <2>2. SameStage /\ (pc' = pc \/ (pc # "row" /\ pc' # "row"))
      BY <1>3 DEF UnlinkShard, RenameShard, CloseManifest, UnlinkManifest, RenameManifest, AbortShard,
         AbortManifest, Cancel, Crash, vars, outVars, Dead, SameStage, Shutting, Committing
    <2>3. Put' = Put
      BY <1>1, <2>2 DEF Put
    <2> QED  BY <1>1, <2>1, <2>2, <2>3, JobFrame, Quiet
  <1> QED  BY <1>2, <1>3

\* Every step of a run follows the layout, and a replacement ends what it says.
LEMMA NextLayout == IInv /\ IInv' /\ LayoutInv /\ [Next]_vars => LayoutInv'
  <1> SUFFICES ASSUME IInv, IInv', LayoutInv, [Next]_vars PROVE LayoutInv'
    OBVIOUS
  <1>1. CASE Process
    <2>1. CASE Start \/ ProbeHeader \/ NoHeader \/ ReadFails
      BY <2>1, BeginLayout
    <2>2. CASE ReadChunk \/ LoopEnds \/ TakeLine \/ TakeCarry
      BY <2>2, ReaderLayout
    <2>3. CASE OpenShard \/ Row \/ PlanRow \/ Record
      BY <2>3, OpenShardLayout, RowLayout, PlanRowLayout, RecordLayout
    <2>4. CASE Output
      BY <2>4, FlushShardLayout, FinishLayout, OutputLayout DEF Output
    <2> QED  BY <1>1, <2>1, <2>2, <2>3, <2>4 DEF Process
  <1>2. CASE Replace
    <2>1. gen \in Nat /\ gen >= 1 /\ gen' = gen + 1
      BY <1>2, Shapes DEF Replace
    <2>2. gen' # 1
      BY <2>1
    <2> QED  BY <2>2 DEF LayoutInv
  <1>3. CASE (Cancel \/ Crash) /\ UNCHANGED readVars
    BY <1>3, OutputLayout
  <1>4. CASE UNCHANGED vars
    BY <1>4, OutputLayout
  <1> QED  BY <1>1, <1>2, <1>3, <1>4 DEF Next, Ended, Environment

\* The shards a range split produces or plans, of an object nobody replaces, are the
\* ones greedy filling cuts its lines into, for every object, every size of the
\* blocks and every pair of limits: where a block ends does not show in where a
\* shard ends (writeLine, rangesplit.go:121-146).
THEOREM GreedyLayout == Spec => []LayoutIsGreedy
  <1>1. LayoutInv => LayoutIsGreedy
    <2> SUFFICES ASSUME gen = 1, ToldInv, CutInv PROVE Greedy(RangeLayout)
      BY DEF LayoutInv, LayoutIsGreedy, RangeLayout, RowSizes, HeaderBytes
    <2>1. Shaped => AgreesWith(RangeLayout)
      BY DEF ToldInv, CutInv, Complete, Fits, AgreesWith, N, Committing
    <2>2. Counted => \A i \in 1 .. N : result[i].bytes = RangeLayout[i].bytes
      BY DEF ToldInv, Fits, Shaped
    <2> QED  BY <2>1, <2>2 DEF Greedy, Shaped, Counted, N
  <1>2. IInv /\ IInv' /\ LayoutInv /\ [Next]_vars => LayoutInv'
    BY NextLayout
  <1>3. Spec => []LayoutInv
    BY <1>2, InitLayout, Invariance, PTL DEF Spec
  <1> QED  BY <1>1, <1>3, PTL

==============================================================================
