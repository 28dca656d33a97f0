-------------------------- MODULE BinarySplit_proofs --------------------------
(***************************************************************************)
(* Theorems about BinarySplit, for every size of the source, of the shards *)
(* and of the buffer, every directory an earlier run may have left, and    *)
(* every interleaving of short reads, failures, a signal and a kill.       *)
(*                                                                         *)
(* What a shard holds is the concatenation of the pieces its reads         *)
(* delivered, a recursion over the pieces: what it computes is shown by    *)
(* induction first.  IInv then says, for every point of a run, where in    *)
(* the source the reader is (PlaceInv), what the shard in progress holds   *)
(* (CarrierInv) and what was published (ShardsInv).                        *)
(***************************************************************************)
EXTENDS BinarySplit, SequenceTheorems, WellFoundedInduction, TLAPS

Dead == {"abort", "abortManifest", "failed", "crashed"}
Live == ~job.dryRun /\ pc \notin Dead
Busy == pc \in {"start", "loop", "fill", "flush", "unlink", "rename", "record"}
Closing == pc \in {"commit", "unlinkManifest", "renameManifest", "done"}
N == Len(result)

\* How far into the source i full shards reach.
At(i) == i * job.bytes

\* The n positions after a.
Slice(a, n) == [k \in 1 .. n |-> a + k]

\* The file the open or closing shard is in.
Carrier == IF pc = "record" THEN shardFile[index] ELSE shardPart[index]

\* Where in its life the shard writer is at each point of the run.
WriterInv ==
  /\ job.dryRun => /\ shard.st = "none" /\ Published = {} /\ man = "none"
                   /\ pc \notin {"flush", "unlink", "rename", "record",
                                 "unlinkManifest", "renameManifest"}
  /\ pc \in {"start", "loop"} \/ Closing => shard.st = "none"
  /\ pc = "fill" => shard.st \in {"none", "open"}
  /\ pc = "flush" => shard.st = "open"
  /\ pc \in {"unlink", "rename", "record"} => shard.st = "closed"
  /\ shard.st = "none" => shard.n = 0
  /\ shard.st # "none" => index \in ShardId

\* Where in the source the reader is.
PlaceInv ==
  /\ Busy => taken = At(N) + Filled
  /\ pc \in {"start", "loop"} => Filled = 0 /\ ~eof
  /\ pc \in {"flush", "unlink", "rename", "record"} => Filled > 0 /\ (Filled = job.bytes \/ eof)
  /\ eof => taken = job.size
  /\ Closing => taken <= At(N) /\ (job.bytes > 0 => taken = job.size)

\* The published shards are those recorded, plus the one about to be.
PublishedInv ==
  Live => /\ Published = 1 .. (IF pc = "record" THEN N + 1 ELSE N)
          /\ Busy => index = IF shard.st = "none" THEN N ELSE N + 1

\* The shard in progress holds what was read since the last full one.
CarrierInv ==
  Live /\ shard.st \in {"open", "closed"} =>
    /\ Carrier \in FileState
    /\ Carrier.whole
    /\ FlattenSeq(Carrier.rows) = Slice(At(N), shard.n)

\* A published shard is its slice of the source, and not empty.
ShardsInv ==
  \A i \in Published :
    /\ i = 1 \/ i - 1 \in Published
    /\ shardFile[i] \in FileState
    /\ shardFile[i].whole
    /\ Content(i) = Slice(At(i - 1), ShardSize(i))
    /\ ShardSize(i) > 0

\* So is one that was entered in the result, written or planned.
ResultInv == \A i \in 1 .. N : result[i].bytes = ShardSize(i) /\ ShardSize(i) > 0

\* The manifest under construction is the result so far.
ManifestInv ==
  /\ pc = "start" => man = "none" /\ N = 0
  /\ Busy \/ pc = "commit" => man \in {"none", "open"}
  /\ man = "open" /\ pc \notin Dead => manPart = result
  /\ pc \in {"unlinkManifest", "renameManifest"} => man = "closed" /\ manPart = result
  /\ pc # "done" => ~New(manFile)

IInv ==
  /\ TypeOK
  /\ WriterInv
  /\ PlaceInv
  /\ PublishedInv
  /\ CarrierInv
  /\ ShardsInv
  /\ ResultInv
  /\ ManifestInv

------------------------------------------------------------------------------
(* The concatenation of a sequence of sequences.                             *)

\* The pairs of naturals in order.
Less == {p \in Nat \X Nat : p[1] < p[2]}

\* The order of the naturals is well founded.
LEMMA LessWF == IsWellFoundedOn(Less, Nat)
  BY NatLessThanWellFounded DEF OpToRel, Less

\* A set with 0 and with every successor of its members holds the naturals.
LEMMA Induct ==
  ASSUME NEW S, 0 \in S, \A n \in Nat : n \in S => n + 1 \in S
  PROVE  Nat \subseteq S
  <1> SUFFICES ASSUME Nat \ S # {} PROVE FALSE
    OBVIOUS
  <1>1. PICK x \in Nat \ S : \A y \in Nat \ S : <<y, x>> \notin Less
    BY LessWF, WFMin, (Nat \ S) \subseteq Nat
  <1>2. x # 0 /\ x - 1 \in Nat /\ x \in Nat
    OBVIOUS
  <1>3. <<x - 1, x>> \in Less
    BY <1>2 DEF Less
  <1>4. x - 1 \in S
    BY <1>1, <1>2, <1>3
  <1> QED  BY <1>2, <1>4

\* f holds the concatenations of the first i members of s, for each i up to n.
IsFlat(f, s, n) == f = [i \in 1 .. n |-> IF i = 1 THEN s[i] ELSE f[i - 1] \o s[i]]

\* The recursion that defines FlattenSeq has a solution.
LEMMA FlatExists ==
  ASSUME NEW s, NEW m \in Nat
  PROVE  \E f : IsFlat(f, s, m)
  <1> DEFINE Good(n) == \E f : IsFlat(f, s, n)
             S == {n \in Nat : Good(n)}
  <1>1. Good(0)
    <2> DEFINE z == [i \in 1 .. 0 |-> s[i]]
    <2>1. IsFlat(z, s, 0)
      BY DEF IsFlat
    <2> QED  BY <2>1
  <1>2. ASSUME NEW n \in Nat, Good(n) PROVE Good(n + 1)
    <2>1. PICK f : IsFlat(f, s, n)
      BY <1>2
    <2>0. PICK last : last = IF n = 0 THEN s[1] ELSE f[n] \o s[n + 1]
      OBVIOUS
    <2> DEFINE g == [i \in 1 .. n + 1 |-> IF i = n + 1 THEN last ELSE f[i]]
    <2>2. g[n + 1] = last /\ \A i \in 1 .. n : g[i] = f[i]
      OBVIOUS
    <2>3. \A i \in 1 .. n : f[i] = IF i = 1 THEN s[i] ELSE f[i - 1] \o s[i]
      BY <2>1 DEF IsFlat
    <2>4. \A i \in 1 .. n : g[i] = IF i = 1 THEN s[i] ELSE g[i - 1] \o s[i]
      BY <2>2, <2>3
    <2>5. g = [i \in 1 .. n + 1 |-> g[i]]
      OBVIOUS
    <2>6. g[n + 1] = IF n + 1 = 1 THEN s[n + 1] ELSE g[n] \o s[n + 1]
      <3>1. n # 0 => g[n] = f[n]
        BY <2>2
      <3> QED  BY <2>0, <2>2, <3>1
    <2> HIDE DEF g
    <2>7. \A i \in 1 .. n + 1 : g[i] = IF i = 1 THEN s[i] ELSE g[i - 1] \o s[i]
      BY <2>4, <2>6
    <2>8. IsFlat(g, s, n + 1)
      BY <2>5, <2>7 DEF IsFlat
    <2> QED  BY <2>8
  <1> HIDE DEF Good
  <1>3. Nat \subseteq S
    <2>1. 0 \in S
      BY <1>1
    <2>2. \A n \in Nat : n \in S => n + 1 \in S
      BY <1>2
    <2> HIDE DEF S
    <2> QED  BY <2>1, <2>2, Induct
  <1>4. Good(m)
    BY <1>3
  <1> QED  BY <1>4 DEF Good

\* FlattenSeq is the last of them.
LEMMA FlattenDef ==
  ASSUME NEW s, Len(s) \in Nat, Len(s) # 0
  PROVE  \E f : IsFlat(f, s, Len(s)) /\ FlattenSeq(s) = f[Len(s)]
  <1> DEFINE n == Len(s)
             g == CHOOSE f : f = [i \in 1 .. n |-> IF i = 1 THEN s[i] ELSE f[i - 1] \o s[i]]
  <1>1. \E f : IsFlat(f, s, n)
    BY FlatExists
  <1>2. IsFlat(g, s, n)
    BY <1>1, Zenon DEF IsFlat
  <1>3. FlattenSeq(s) = g[n]
    BY Zenon DEF FlattenSeq
  <1> QED  BY <1>2, <1>3

\* One more piece is added at the end.
LEMMA FlattenAppend ==
  ASSUME NEW T, NEW s \in Seq(T), NEW x \in T
  PROVE  FlattenSeq(Append(s, x)) = IF s = <<>> THEN x ELSE FlattenSeq(s) \o x
  <1> DEFINE n == Len(s)
             t == Append(s, x)
  <1>1. n \in Nat /\ Len(t) = n + 1 /\ t[n + 1] = x /\ \A i \in 1 .. n : t[i] = s[i]
    BY AppendProperties
  <1> HIDE DEF t
  <1>2. PICK g : IsFlat(g, t, n + 1) /\ FlattenSeq(t) = g[n + 1]
    BY <1>1, FlattenDef
  <1>3. \A i \in 1 .. n + 1 : g[i] = IF i = 1 THEN t[i] ELSE g[i - 1] \o t[i]
    BY <1>2 DEF IsFlat
  <1>4. CASE n = 0
    <2>1. s = <<>>
      BY <1>4, EmptySeq
    <2>2. g[1] = x
      BY <1>1, <1>3, <1>4
    <2> QED  BY <1>2, <1>4, <2>1, <2>2 DEF t
  <1>5. CASE n # 0
    <2>1. PICK f : IsFlat(f, s, n) /\ FlattenSeq(s) = f[n]
      BY <1>1, <1>5, FlattenDef
    <2>2. \A i \in 1 .. n : f[i] = IF i = 1 THEN s[i] ELSE f[i - 1] \o s[i]
      BY <2>1 DEF IsFlat
    <2> DEFINE S == {i \in Nat : i \in 1 .. n => f[i] = g[i]}
    <2>3. 0 \in S
      OBVIOUS
    <2>4. ASSUME NEW i \in Nat, i \in S PROVE i + 1 \in S
      <3> SUFFICES ASSUME i + 1 \in 1 .. n PROVE f[i + 1] = g[i + 1]
        OBVIOUS
      <3>1. t[i + 1] = s[i + 1] /\ i + 1 \in 1 .. n + 1 /\ (i + 1) - 1 = i
        BY <1>1
      <3>2. CASE i = 0
        BY <1>3, <2>2, <3>1, <3>2
      <3>3. CASE i # 0
        <4>1. f[i] = g[i]
          BY <2>4, <3>1, <3>3
        <4>0. i + 1 # 1
          BY <3>3
        <4>2. f[i + 1] = f[(i + 1) - 1] \o s[i + 1]
          BY <2>2, <4>0
        <4>3. g[i + 1] = g[(i + 1) - 1] \o t[i + 1]
          BY <1>3, <3>1, <4>0
        <4> QED  BY <3>1, <4>1, <4>2, <4>3
      <3> QED  BY <3>2, <3>3
    <2>5. Nat \subseteq S
      <3>1. \A i \in Nat : i \in S => i + 1 \in S
        BY <2>4
      <3> HIDE DEF S
      <3> QED  BY <2>3, <3>1, Induct
    <2>6. f[n] = g[n]
      BY <1>1, <1>5, <2>5
    <2>7. g[n + 1] = g[n] \o t[n + 1]
      <3>1. n + 1 \in 1 .. n + 1 /\ n + 1 # 1 /\ (n + 1) - 1 = n
        BY <1>1, <1>5
      <3>2. g[n + 1] = g[(n + 1) - 1] \o t[n + 1]
        BY <1>3, <3>1
      <3> QED  BY <3>1, <3>2
    <2>8. s # <<>>
      BY <1>5
    <2> QED  BY <1>1, <1>2, <2>1, <2>6, <2>7, <2>8 DEF t
  <1> QED  BY <1>4, <1>5

\* A slice is a sequence of positions.
LEMMA SliceType ==
  ASSUME NEW a \in Nat, NEW n \in Nat
  PROVE  Slice(a, n) \in Seq(Nat) /\ Len(Slice(a, n)) = n /\ \A k \in 1 .. n : Slice(a, n)[k] = a + k
  BY DEF Slice

\* Slices that meet are a slice.
LEMMA SliceJoin ==
  ASSUME NEW a \in Nat, NEW n \in Nat, NEW m \in Nat
  PROVE  Slice(a, n) \o Slice(a + n, m) = Slice(a, n + m)
  <1>1. /\ Slice(a, n) \in Seq(Nat) /\ Len(Slice(a, n)) = n
        /\ Slice(a + n, m) \in Seq(Nat) /\ Len(Slice(a + n, m)) = m
    <2>1. a + n \in Nat
      OBVIOUS
    <2> QED  BY <2>1, SliceType
  <1> DEFINE c == Slice(a, n) \o Slice(a + n, m)
  <1>2. c \in Seq(Nat) /\ Len(c) = n + m
    BY <1>1, ConcatProperties
  <1>3. \A k \in 1 .. n + m : c[k] = a + k
    <2>1. \A k \in 1 .. n + m : c[k] = IF k <= n THEN Slice(a, n)[k] ELSE Slice(a + n, m)[k - n]
      BY <1>1, ConcatProperties
    <2> TAKE k \in 1 .. n + m
    <2>2. CASE k <= n
      BY <2>1, <2>2, SliceType
    <2>3. CASE ~(k <= n)
      <3>1. k - n \in 1 .. m /\ (a + n) + (k - n) = a + k
        BY <2>3
      <3>2. Slice(a + n, m)[k - n] = (a + n) + (k - n)
        BY <3>1 DEF Slice
      <3> QED  BY <2>1, <2>3, <3>1, <3>2
    <2> QED  BY <2>2, <2>3
  <1> HIDE DEF c
  <1>4. c = [k \in 1 .. n + m |-> c[k]]
    BY <1>2, LenProperties
  <1>5. c = Slice(a, n + m)
    BY <1>3, <1>4 DEF Slice
  <1> QED  BY <1>5 DEF c

------------------------------------------------------------------------------
(* Sizes.                                                                    *)

\* The options of a run have the types its limits, flags and source give them.
LEMMA JobType ==
  ASSUME job \in Job
  PROVE  /\ job.bytes \in Nat /\ job.size \in Nat
         /\ job.dryRun \in BOOLEAN /\ job.manifest \in BOOLEAN /\ ~job.gz
  BY JobAssumption, SourceAssumption

\* Full shards follow each other.
LEMMA AtNext ==
  ASSUME job.bytes \in Nat, NEW i \in Nat
  PROVE  At(i) \in Nat /\ At(i + 1) = At(i) + job.bytes /\ At(0) = 0
  <1>1. \A b \in Nat : i * b \in Nat /\ (i + 1) * b = i * b + b /\ 0 * b = 0
    OBVIOUS
  <1> QED  BY <1>1 DEF At

\* More full shards reach at least as far.
LEMMA AtGrows ==
  ASSUME job.bytes \in Nat, NEW i \in Nat, NEW k \in Nat, i <= k
  PROVE  At(i) <= At(k)
  <1>1. PICK d \in Nat : k = i + d
    BY k - i \in Nat
  <1>2. \A b \in Nat : (i + d) * b = i * b + d * b /\ d * b \in Nat /\ i * b \in Nat
    OBVIOUS
  <1> QED  BY <1>1, <1>2 DEF At

\* What a job says of positions does not change while the job does not.
LEMMA Static ==
  ASSUME job' = job
  PROVE  \A i : At(i)' = At(i) /\ ShardSize(i)' = ShardSize(i)
  BY DEF At, ShardSize

\* The size of a shard that was filled, or ended with the source.
LEMMA SizeIs ==
  ASSUME job \in Job, NEW n \in Nat, NEW f \in Nat, f > 0, f <= job.bytes,
         At(n) + f <= job.size, f = job.bytes \/ At(n) + f = job.size
  PROVE  ShardSize(n + 1) = f
  <1>1. At(n) \in Nat /\ job.bytes \in Nat /\ job.size \in Nat
    BY JobType, AtNext
  <1>2. ((n + 1) - 1) * job.bytes = At(n)
    BY DEF At
  <1> QED  BY <1>1, <1>2 DEF ShardSize, Smaller

\* A shard before the last one is full.
LEMMA FullShard ==
  ASSUME job \in Job, NEW n \in Nat, n > 0, At(n) <= job.size
  PROVE  ShardSize(n) = job.bytes
  <1>1. n - 1 \in Nat /\ (n - 1) + 1 = n
    OBVIOUS
  <1>2. At(n - 1) \in Nat /\ At(n) = At(n - 1) + job.bytes /\ job.bytes \in Nat /\ job.size \in Nat
    BY <1>1, JobType, AtNext
  <1> QED  BY <1>2 DEF ShardSize, Smaller, At

\* The end of a shard that is not the last position of the source is a multiple of the
\* limit, and no shard reaches beyond the source.
LEMMA LastShard ==
  ASSUME job \in Job, NEW n \in Nat, n > 0, job.size <= At(n), ShardSize(n) > 0
  PROVE  At(n - 1) + ShardSize(n) = job.size
  <1>1. n - 1 \in Nat /\ (n - 1) + 1 = n
    OBVIOUS
  <1>2. At(n - 1) \in Nat /\ At(n) = At(n - 1) + job.bytes /\ job.bytes \in Nat /\ job.size \in Nat
    BY <1>1, JobType, AtNext
  <1> QED  BY <1>2 DEF ShardSize, Smaller, At

------------------------------------------------------------------------------
(* What the steps share.                                                     *)

\* The parts about a run in progress ask nothing of one on its way out.
LEMMA DeadFrame ==
  ASSUME pc' \in Dead
  PROVE  PublishedInv' /\ CarrierInv'
  BY DEF Live, PublishedInv, CarrierInv

\* Nor of a dry run.
LEMMA DryFrame ==
  ASSUME job.dryRun, job' = job
  PROVE  PublishedInv' /\ CarrierInv'
  BY DEF Live, PublishedInv, CarrierInv

\* Published shards that are left alone stay what they are.
LEMMA ShardsFrame ==
  ASSUME ShardsInv, UNCHANGED <<shardFile, job>>
  PROVE  ShardsInv'
  <1>1. Published' = Published /\ \A i : Content(i)' = Content(i)
    BY DEF Published, New, Content
  <1>2. \A i : At(i - 1)' = At(i - 1) /\ ShardSize(i)' = ShardSize(i)
    BY Static
  <1>3. \A i : Slice(At(i - 1), ShardSize(i))' = Slice(At(i - 1), ShardSize(i))
    BY <1>2 DEF Slice
  <1> QED  BY <1>1, <1>2, <1>3 DEF ShardsInv

\* So do the entries of the result.
LEMMA ResultFrame ==
  ASSUME ResultInv, UNCHANGED <<result, job>>
  PROVE  ResultInv'
  BY Static DEF ResultInv, N

\* The reader's place does not change with what is outside of it.
LEMMA PlaceFrame ==
  ASSUME PlaceInv, UNCHANGED <<job, result, shard, dry, taken, eof, pc>>
  PROVE  PlaceInv'
  <1>1. At(N)' = At(N) /\ Filled' = Filled
    BY DEF At, N, Filled
  <1> QED  BY <1>1 DEF PlaceInv, Busy, Closing

\* A file of this run is told apart from none and from an earlier one.
LEMMA NewFile ==
  ASSUME NEW f \in FileState
  PROVE  New(f) /\ f # None
  BY MarkersAreNotFiles DEF New

\* So is a manifest.
LEMMA NewManifest ==
  ASSUME NEW m \in Seq(EntryType)
  PROVE  New(m) /\ m # None
  BY MarkersAreNotFiles DEF New

\* A shard is only ever closed by a real run that has not failed.
LEMMA Lives ==
  ASSUME WriterInv, pc \in {"flush", "unlink", "rename", "record"}
  PROVE  Live /\ Busy /\ ~job.dryRun
  BY DEF WriterInv, Live, Dead, Busy

\* What the program knows of the shard it closes: its content is final.
LEMMA ClosingShard ==
  ASSUME IInv, pc \in {"flush", "unlink", "rename", "record"}
  PROVE  /\ Live /\ ~job.dryRun /\ index = N + 1 /\ index \in ShardId /\ N \in Nat /\ job \in Job
         /\ shard.n \in Nat /\ shard.n > 0 /\ shard.n <= job.bytes
         /\ taken = At(N) + shard.n /\ taken <= job.size
         /\ shard.n = job.bytes \/ (eof /\ taken = job.size)
         /\ ShardSize(N + 1) = shard.n
         /\ At(N) \in Nat /\ job.size \in Nat /\ job.bytes \in Nat
         /\ Carrier \in FileState /\ Carrier.whole /\ FlattenSeq(Carrier.rows) = Slice(At(N), shard.n)
  <1>1. Live /\ Busy /\ ~job.dryRun
    BY Lives DEF IInv
  <1>2. N \in Nat /\ job \in Job /\ shard.n \in 0 .. job.bytes /\ taken \in 0 .. job.size
    BY DEF IInv, TypeOK, N
  <1>3. job.bytes \in Nat /\ job.size \in Nat /\ At(N) \in Nat
    BY <1>2, JobType, AtNext
  <1>4. shard.st \in {"open", "closed"} /\ index \in ShardId /\ index = N + 1
    BY <1>1 DEF IInv, WriterInv, PublishedInv
  <1>5. Filled = shard.n
    BY <1>1 DEF Filled
  <1>6. taken = At(N) + shard.n /\ shard.n > 0 /\ (shard.n = job.bytes \/ (eof /\ taken = job.size))
    <2>1. taken = At(N) + Filled
      BY <1>1 DEF IInv, PlaceInv
    <2>2. Filled > 0 /\ (Filled = job.bytes \/ eof) /\ (eof => taken = job.size)
      BY DEF IInv, PlaceInv
    <2> QED  BY <1>5, <2>1, <2>2
  <1>7. ShardSize(N + 1) = shard.n
    BY <1>2, <1>3, <1>6, SizeIs
  <1> QED  BY <1>1, <1>2, <1>3, <1>4, <1>6, <1>7 DEF IInv, CarrierInv

------------------------------------------------------------------------------
(* One lemma per action, with one step per part of the invariant.            *)

\* newManifestWriter keeps the invariant: nothing is published or open yet.
LEMMA StartStep == IInv /\ Start => IInv'
  <1> SUFFICES ASSUME IInv, Start PROVE IInv'
    OBVIOUS
  <1> USE DEF IInv, Start, NewManifestWriter, Writes, disk, readVars
  <1>1. TypeOK'
    <2>1. manPart' \in Seq(EntryType) \cup {None, Old}
      <3>1. manPart' \in {manPart, <<>>, None} /\ manPart \in Seq(EntryType) \cup {None, Old}
        BY DEF TypeOK
      <3> QED  BY <3>1, EmptySeq
    <2> QED  BY <2>1 DEF TypeOK, Terminal
  <1>2. WriterInv'
    BY DEF TypeOK, WriterInv, ManifestInv, Published, Closing
  <1>3. PlaceInv'
    BY DEF PlaceInv, Filled, Busy, Closing, At, N
  <1>4. PublishedInv' /\ CarrierInv'
    <2>1. PublishedInv'
      BY DEF PublishedInv, WriterInv, Published, Live, Dead, Busy, N
    <2>2. CarrierInv'
      BY DEF CarrierInv, Carrier, Live, Dead, At, N
    <2> QED  BY <2>1, <2>2
  <1>5. ShardsInv'
    BY ShardsFrame
  <1>6. ResultInv'
    BY ResultFrame
  <1>7. ManifestInv'
    BY EmptySeq DEF ManifestInv, N, Busy, Dead
  <1> QED  BY <1>1, <1>2, <1>3, <1>4, <1>5, <1>6, <1>7

\* A context check or a reader that fails keeps the invariant.
LEMMA FailsStep == IInv /\ Fails => IInv'
  <1> SUFFICES ASSUME IInv, Fails PROVE IInv'
    OBVIOUS
  <1> USE DEF IInv, Fails, Filling, Reading, disk, readVars
  <1>1. TypeOK'
    BY DEF TypeOK, Terminal
  <1>2. WriterInv'
    BY DEF TypeOK, WriterInv, ManifestInv, Published, Closing
  <1>3. PlaceInv'
    BY DEF PlaceInv, Filled, Busy, Closing, At, N
  <1>4. PublishedInv' /\ CarrierInv'
    BY DeadFrame DEF Dead
  <1>5. ShardsInv'
    BY ShardsFrame
  <1>6. ResultInv'
    BY ResultFrame
  <1>7. ManifestInv'
    BY DEF ManifestInv, New, Dead, Busy, N
  <1> QED  BY <1>1, <1>2, <1>3, <1>4, <1>5, <1>6, <1>7

\* The top of the loop keeps the invariant.
LEMMA NextShardStep == IInv /\ NextShard => IInv'
  <1> SUFFICES ASSUME IInv, NextShard PROVE IInv'
    OBVIOUS
  <1> USE DEF IInv, NextShard, disk, readVars
  <1>1. TypeOK'
    BY DEF TypeOK, Terminal
  <1>2. WriterInv'
    BY DEF TypeOK, WriterInv, ManifestInv, Published, Closing
  <1>3. PlaceInv'
    BY DEF PlaceInv, Filled, Busy, Closing, At, N
  <1>4. PublishedInv' /\ CarrierInv'
    <2>1. PublishedInv'
      BY DEF PublishedInv, WriterInv, Published, Live, Dead, Busy, N
    <2>2. CarrierInv'
      BY DEF CarrierInv, Carrier, Live, Dead, At, N
    <2> QED  BY <2>1, <2>2
  <1>5. ShardsInv'
    BY ShardsFrame
  <1>6. ResultInv'
    BY ResultFrame
  <1>7. ManifestInv'
    BY DEF ManifestInv, New, Dead, Busy, N
  <1> QED  BY <1>1, <1>2, <1>3, <1>4, <1>5, <1>6, <1>7

\* Meeting the end of the source keeps the invariant.
LEMMA ReadEOFStep == IInv /\ ReadEOF => IInv'
  <1> SUFFICES ASSUME IInv, ReadEOF PROVE IInv'
    OBVIOUS
  <1> USE DEF IInv, ReadEOF, Filling, Reading, disk, readVars
  <1>1. TypeOK'
    BY DEF TypeOK, Terminal
  <1>2. WriterInv'
    BY DEF TypeOK, WriterInv, ManifestInv, Published, Closing
  <1>3. PlaceInv'
    BY DEF PlaceInv, Filled, Busy, Closing, At, N
  <1>4. PublishedInv' /\ CarrierInv'
    <2>1. PublishedInv'
      BY DEF PublishedInv, WriterInv, Published, Live, Dead, Busy, N
    <2>2. CarrierInv'
      BY DEF CarrierInv, Carrier, Live, Dead, At, N
    <2> QED  BY <2>1, <2>2
  <1>5. ShardsInv'
    BY ShardsFrame
  <1>6. ResultInv'
    BY ResultFrame
  <1>7. ManifestInv'
    BY DEF ManifestInv, New, Dead, Busy, N
  <1> QED  BY <1>1, <1>2, <1>3, <1>4, <1>5, <1>6, <1>7

\* The first half of manifestWriter.Close keeps the invariant.
LEMMA CloseManifestStep == IInv /\ CloseManifest /\ UNCHANGED readVars => IInv'
  <1> SUFFICES ASSUME IInv, CloseManifest, UNCHANGED readVars PROVE IInv'
    OBVIOUS
  <1> USE DEF IInv, CloseManifest, disk, readVars
  <1>1. TypeOK'
    BY DEF TypeOK, Terminal
  <1>2. WriterInv'
    BY DEF TypeOK, WriterInv, ManifestInv, Published, Closing
  <1>3. PlaceInv'
    BY DEF PlaceInv, Filled, Busy, Closing, At, N
  <1>4. PublishedInv' /\ CarrierInv'
    <2>1. PublishedInv'
      BY DEF PublishedInv, WriterInv, Published, Live, Dead, Busy, N
    <2>2. CarrierInv'
      BY DEF CarrierInv, Carrier, Live, Dead, At, N
    <2> QED  BY <2>1, <2>2
  <1>5. ShardsInv'
    BY ShardsFrame
  <1>6. ResultInv'
    BY ResultFrame
  <1>7. ManifestInv'
    BY DEF ManifestInv, New, Dead, Busy, N
  <1> QED  BY <1>1, <1>2, <1>3, <1>4, <1>5, <1>6, <1>7

\* Removing the old manifest keeps the invariant.
LEMMA UnlinkManifestStep == IInv /\ UnlinkManifest /\ UNCHANGED readVars => IInv'
  <1> SUFFICES ASSUME IInv, UnlinkManifest, UNCHANGED readVars PROVE IInv'
    OBVIOUS
  <1> USE DEF IInv, UnlinkManifest, disk, readVars
  <1>1. TypeOK'
    BY DEF TypeOK, Terminal
  <1>2. WriterInv'
    BY DEF TypeOK, WriterInv, ManifestInv, Published, Closing
  <1>3. PlaceInv'
    BY DEF PlaceInv, Filled, Busy, Closing, At, N
  <1>4. PublishedInv' /\ CarrierInv'
    <2>1. PublishedInv'
      BY DEF PublishedInv, WriterInv, Published, Live, Dead, Busy, N
    <2>2. CarrierInv'
      BY DEF CarrierInv, Carrier, Live, Dead, At, N
    <2> QED  BY <2>1, <2>2
  <1>5. ShardsInv'
    BY ShardsFrame
  <1>6. ResultInv'
    BY ResultFrame
  <1>7. ManifestInv'
    BY DEF ManifestInv, New, Dead, Busy, N
  <1> QED  BY <1>1, <1>2, <1>3, <1>4, <1>5, <1>6, <1>7

\* Publishing the manifest keeps the invariant.
LEMMA RenameManifestStep == IInv /\ RenameManifest /\ UNCHANGED readVars => IInv'
  <1> SUFFICES ASSUME IInv, RenameManifest, UNCHANGED readVars PROVE IInv'
    OBVIOUS
  <1> USE DEF IInv, RenameManifest, disk, readVars
  <1>1. TypeOK'
    BY DEF TypeOK, Terminal
  <1>2. WriterInv'
    BY DEF TypeOK, WriterInv, ManifestInv, Published, Closing
  <1>3. PlaceInv'
    BY DEF PlaceInv, Filled, Busy, Closing, At, N
  <1>4. PublishedInv' /\ CarrierInv'
    <2>1. PublishedInv'
      BY DEF PublishedInv, WriterInv, Published, Live, Dead, Busy, N
    <2>2. CarrierInv'
      BY DEF CarrierInv, Carrier, Live, Dead, At, N
    <2> QED  BY <2>1, <2>2
  <1>5. ShardsInv'
    BY ShardsFrame
  <1>6. ResultInv'
    BY ResultFrame
  <1>7. ManifestInv'
    BY DEF ManifestInv, New, Dead, Busy, N
  <1> QED  BY <1>1, <1>2, <1>3, <1>4, <1>5, <1>6, <1>7

\* shardWriter.Abort keeps the invariant.
LEMMA AbortShardStep == IInv /\ AbortShard /\ UNCHANGED readVars => IInv'
  <1> SUFFICES ASSUME IInv, AbortShard, UNCHANGED readVars PROVE IInv'
    OBVIOUS
  <1> USE DEF IInv, AbortShard, disk, readVars
  <1>1. TypeOK'
    BY DEF TypeOK, Terminal
  <1>2. WriterInv'
    BY DEF TypeOK, WriterInv, ManifestInv, Published, Closing
  <1>3. PlaceInv'
    BY DEF PlaceInv, Filled, Busy, Closing, At, N
  <1>4. PublishedInv' /\ CarrierInv'
    BY DeadFrame DEF Dead
  <1>5. ShardsInv'
    BY ShardsFrame
  <1>6. ResultInv'
    BY ResultFrame
  <1>7. ManifestInv'
    BY DEF ManifestInv, New, Dead, Busy, N
  <1> QED  BY <1>1, <1>2, <1>3, <1>4, <1>5, <1>6, <1>7

\* manifestWriter.Abort keeps the invariant.
LEMMA AbortManifestStep == IInv /\ AbortManifest /\ UNCHANGED readVars => IInv'
  <1> SUFFICES ASSUME IInv, AbortManifest, UNCHANGED readVars PROVE IInv'
    OBVIOUS
  <1> USE DEF IInv, AbortManifest, disk, readVars
  <1>1. TypeOK'
    BY DEF TypeOK, Terminal
  <1>2. WriterInv'
    BY DEF TypeOK, WriterInv, ManifestInv, Published, Closing
  <1>3. PlaceInv'
    BY DEF PlaceInv, Filled, Busy, Closing, At, N
  <1>4. PublishedInv' /\ CarrierInv'
    BY DeadFrame DEF Dead
  <1>5. ShardsInv'
    BY ShardsFrame
  <1>6. ResultInv'
    BY ResultFrame
  <1>7. ManifestInv'
    BY DEF ManifestInv, New, Dead, Busy, N
  <1> QED  BY <1>1, <1>2, <1>3, <1>4, <1>5, <1>6, <1>7

\* A signal keeps the invariant: it only sets the flag.
LEMMA CancelStep == IInv /\ Cancel /\ UNCHANGED readVars => IInv'
  <1> SUFFICES ASSUME IInv, Cancel, UNCHANGED readVars PROVE IInv'
    OBVIOUS
  <1> USE DEF IInv, Cancel, disk, readVars
  <1>1. TypeOK'
    BY DEF TypeOK, Terminal
  <1>2. WriterInv'
    BY DEF TypeOK, WriterInv, ManifestInv, Published, Closing
  <1>3. PlaceInv'
    BY DEF PlaceInv, Filled, Busy, Closing, At, N
  <1>4. PublishedInv' /\ CarrierInv'
    <2>1. PublishedInv'
      BY DEF PublishedInv, WriterInv, Published, Live, Dead, Busy, N
    <2>2. CarrierInv'
      BY DEF CarrierInv, Carrier, Live, Dead, At, N
    <2> QED  BY <2>1, <2>2
  <1>5. ShardsInv'
    BY ShardsFrame
  <1>6. ResultInv'
    BY ResultFrame
  <1>7. ManifestInv'
    BY DEF ManifestInv, New, Dead, Busy, N
  <1> QED  BY <1>1, <1>2, <1>3, <1>4, <1>5, <1>6, <1>7

\* A kill keeps the invariant: what is published stays as it is.
LEMMA CrashStep == IInv /\ Crash /\ UNCHANGED readVars => IInv'
  <1> SUFFICES ASSUME IInv, Crash, UNCHANGED readVars PROVE IInv'
    OBVIOUS
  <1> USE DEF IInv, Crash, disk, readVars
  <1>1. TypeOK'
    BY DEF TypeOK, Terminal
  <1>2. WriterInv'
    BY DEF TypeOK, WriterInv, ManifestInv, Published, Closing
  <1>3. PlaceInv'
    BY DEF PlaceInv, Filled, Busy, Closing, At, N
  <1>4. PublishedInv' /\ CarrierInv'
    BY DeadFrame DEF Dead
  <1>5. ShardsInv'
    BY ShardsFrame
  <1>6. ResultInv'
    BY ResultFrame
  <1>7. ManifestInv'
    BY DEF ManifestInv, Terminal, New, Dead, Busy, N
  <1> QED  BY <1>1, <1>2, <1>3, <1>4, <1>5, <1>6, <1>7

\* What newShardWriter creates: an empty file, whole as nothing is compressed.
LEMMA FreshFileType ==
  ASSUME job \in Job
  PROVE  /\ FreshFile(FALSE) \in FileState /\ FreshFile(FALSE).whole = TRUE
         /\ \A a : FlattenSeq(FreshFile(FALSE).rows) = Slice(a, 0)
  <1>1. <<>> \in Seq(Seq(Nat)) /\ FreshFile(FALSE).rows = <<>>
    BY EmptySeq DEF FreshFile
  <1>2. FlattenSeq(<<>>) = <<>>
    BY EmptySeq DEF FlattenSeq
  <1>3. \A a : Slice(a, 0) = <<>>
    BY DEF Slice
  <1> QED  BY <1>1, <1>2, <1>3 DEF FreshFile, FileState

\* newShardWriter keeps the invariant: the new .part is the next shard's, empty.
LEMMA OpenShardStep == IInv /\ OpenShard => IInv'
  <1> SUFFICES ASSUME IInv, OpenShard PROVE IInv'
    OBVIOUS
  <1> USE DEF IInv
  <1>a. /\ pc = "fill" /\ shard.st = "none" /\ Live /\ Busy /\ ~job.dryRun /\ job \in Job
        /\ index \in Nat /\ index + 1 \in ShardId /\ index' = index + 1 /\ index = N
        /\ shard.n = 0 /\ job.bytes \in Nat
        /\ shardPart \in [ShardId -> FileState \cup {None, Old}]
        /\ UNCHANGED <<job, cancelled, shardFile, manFile, manPart, man, dry, result, taken, eof>>
    BY JobType DEF OpenShard, NewShardWriter, readVars, Live, Dead, Busy, TypeOK, PublishedInv, WriterInv
  <1>b. \/ /\ shardPart' = [shardPart EXCEPT ![index + 1] = FreshFile(FALSE)]
           /\ shard' = [st |-> "open", rows |-> 0, n |-> 0]
           /\ pc' = "fill"
        \/ /\ \E f \in {None, shardPart[index + 1]} : shardPart' = [shardPart EXCEPT ![index + 1] = f]
           /\ pc' = "abort" /\ shard' = shard
    BY <1>a DEF OpenShard, NewShardWriter
  <1>s. \/ pc' = "fill" /\ shard' = [st |-> "open", rows |-> 0, n |-> 0]
        \/ pc' = "abort" /\ shard' = shard
    BY <1>b
  <1>c. PICK f \in FileState \cup {None, Old} : shardPart' = [shardPart EXCEPT ![index + 1] = f]
    <2>1. FreshFile(FALSE) \in FileState
      BY <1>a, FreshFileType
    <2>2. ASSUME NEW f \in {None, shardPart[index + 1]}
          PROVE  f \in FileState \cup {None, Old}
      BY <1>a
    <2> QED  BY <1>b, <2>1, <2>2, Zenon
  <1>d. shardPart' \in [ShardId -> FileState \cup {None, Old}] /\ shardPart'[index + 1] = f
    BY <1>a, <1>c
  <1>e. /\ shard' \in [st : {"none", "open", "closed", "aborted"}, rows : {0}, n : 0 .. job.bytes]
        /\ shard'.n = shard.n /\ (pc' = "fill" => shard'.st = "open")
    <2>1. [st |-> "open", rows |-> 0, n |-> 0] \in
            [st : {"none", "open", "closed", "aborted"}, rows : {0}, n : 0 .. job.bytes]
      BY <1>a
    <2>2. shard \in [st : {"none", "open", "closed", "aborted"}, rows : {0}, n : 0 .. job.bytes]
      BY DEF TypeOK
    <2> QED  BY <1>a, <1>s, <2>1, <2>2
  <1>1. TypeOK'
    BY <1>a, <1>s, <1>d, <1>e DEF TypeOK
  <1>2. WriterInv'
    BY <1>a, <1>s, <1>e DEF WriterInv, Published, Closing
  <1>3. PlaceInv'
    BY <1>a, <1>s, <1>e DEF PlaceInv, Filled, Busy, Closing, At, N
  <1>4. PublishedInv'
    BY <1>a, <1>s, <1>e DEF PublishedInv, Published, Live, Dead, Busy, N
  <1>5. CarrierInv'
    <2>1. CASE pc' = "abort"
      BY <2>1, DeadFrame DEF Dead
    <2>2. CASE pc' = "fill"
      <3>1. f = FreshFile(FALSE) /\ Carrier' = f
        BY <1>a, <1>b, <1>d, <2>2 DEF Carrier
      <3>2. f \in FileState /\ f.whole /\ FlattenSeq(f.rows) = Slice(At(N)', 0)
        BY <1>a, <3>1, FreshFileType
      <3>3. shard'.n = 0
        BY <1>a, <1>e
      <3>4. FlattenSeq(Carrier.rows)' = FlattenSeq(f.rows)
        BY <3>1
      <3>5. Slice(At(N), shard.n)' = Slice(At(N)', 0)
        BY <3>3 DEF Slice
      <3> QED  BY <3>1, <3>2, <3>4, <3>5 DEF CarrierInv
    <2> QED  BY <1>b, <2>1, <2>2, <1>a
  <1>6. ShardsInv'
    BY <1>a, ShardsFrame
  <1>7. ResultInv'
    BY <1>a, ResultFrame
  <1>8. ManifestInv'
    BY <1>a, <1>s DEF ManifestInv, New, Dead, Busy, N
  <1> QED  BY <1>1, <1>2, <1>3, <1>4, <1>5, <1>6, <1>7, <1>8

\* A file with one more piece holds what it held and the piece.
LEMMA WithPiece ==
  ASSUME job \in Job, NEW f \in FileState, f.whole, NEW a \in Nat, NEW m \in Nat, NEW n \in Nat, n > 0,
         FlattenSeq(f.rows) = Slice(a, m)
  PROVE  LET g == WithRow(f, Slice(a + m, n))
         IN g \in FileState /\ g.whole /\ FlattenSeq(g.rows) = Slice(a, m + n)
  <1> DEFINE x == Slice(a + m, n)
             g == WithRow(f, x)
  <1>1. f.rows \in Seq(Seq(Nat)) /\ f.hdr \in BOOLEAN /\ f.whole = TRUE
    BY DEF FileState
  <1>2. x \in Seq(Nat)
    <2>1. a + m \in Nat
      OBVIOUS
    <2> QED  BY <2>1, SliceType
  <1>3. Append(f.rows, x) \in Seq(Seq(Nat))
    BY <1>1, <1>2, AppendProperties
  <1>4. FlattenSeq(Append(f.rows, x)) = IF f.rows = <<>> THEN x ELSE FlattenSeq(f.rows) \o x
    BY <1>1, <1>2, FlattenAppend
  <1>5. Slice(a, m) \o x = Slice(a, m + n)
    BY SliceJoin
  <1>6. f.rows = <<>> => m = 0
    <2> SUFFICES ASSUME f.rows = <<>> PROVE m = 0
      OBVIOUS
    <2>1. FlattenSeq(f.rows) = <<>>
      BY EmptySeq DEF FlattenSeq
    <2>2. Len(Slice(a, m)) = m /\ Len(<<>>) = 0
      BY SliceType, EmptySeq
    <2> QED  BY <2>1, <2>2
  <1>7. m = 0 => x = Slice(a, m + n)
    BY DEF Slice
  <1>8. FlattenSeq(Append(f.rows, x)) = Slice(a, m + n)
    BY <1>4, <1>5, <1>6, <1>7
  <1>9. g.rows = Append(f.rows, x) /\ g.whole = TRUE /\ g \in FileState
    <2>1. ~job.gz
      BY JobType
    <2> QED  BY <1>1, <1>3, <2>1 DEF WithRow, FileState
  <1> QED  BY <1>8, <1>9

\* What a read may find: room in the shard and bytes in the source.
LEMMA RoomIs ==
  ASSUME IInv, ReadPiece
  PROVE  /\ pc = "fill" /\ Busy /\ job \in Job /\ ~eof
         /\ Filled \in Nat /\ job.bytes \in Nat /\ job.size \in Nat /\ taken \in Nat
         /\ \A n \in 1 .. Smaller(Room, job.size - taken) :
              /\ n \in Nat /\ n > 0 /\ Filled + n <= job.bytes /\ taken + n <= job.size
  <1>1. /\ pc = "fill" /\ job \in Job /\ ~eof /\ Remaining > 0
        /\ taken \in 0 .. job.size /\ job.bytes \in Nat /\ job.size \in Nat
    BY JobType DEF IInv, TypeOK, ReadPiece, Reading, Filling
  <1>2. Filled \in 0 .. job.bytes
    BY DEF IInv, TypeOK, Filled
  <1>3. \A n \in 1 .. Smaller(Room, job.size - taken) : n <= job.bytes - Filled /\ n <= job.size - taken
    BY <1>1, <1>2, BufferAssumption DEF Smaller, Room, Remaining
  <1> QED  BY <1>1, <1>2, <1>3 DEF Busy

\* The copy of one read keeps the invariant: the shard holds one more piece, or the
\* run is on its way out.
LEMMA ReadPieceStep == IInv /\ ReadPiece => IInv'
  <1> SUFFICES ASSUME IInv, ReadPiece PROVE IInv'
    OBVIOUS
  <1> USE DEF IInv
  <1>a. /\ pc = "fill" /\ Busy /\ job \in Job /\ ~eof
        /\ Filled \in Nat /\ job.bytes \in Nat /\ job.size \in Nat /\ taken \in Nat
        /\ UNCHANGED <<job, cancelled, shardFile, manFile, manPart, index, man, result>>
    BY RoomIs DEF ReadPiece
  <1>b. PICK n \in Nat :
          /\ n > 0 /\ Filled + n <= job.bytes /\ taken + n <= job.size
          /\ taken' = taken + n
          /\ eof' \in {FALSE, taken + n = job.size}
          /\ IF job.dryRun
             THEN /\ dry' = [dry EXCEPT !.open = TRUE, !.bytes = @ + n]
                  /\ UNCHANGED <<shardPart, shard, pc>>
             ELSE /\ \/ WriteOk([k \in 1 .. n |-> taken + k], n, 0) /\ UNCHANGED pc
                     \/ WriteFails
                  /\ UNCHANGED dry
    <2>1. PICK n \in 1 .. Smaller(Room, job.size - taken) :
            /\ taken' = taken + n
            /\ eof' \in {FALSE, taken + n = job.size}
            /\ IF job.dryRun
               THEN /\ dry' = [dry EXCEPT !.open = TRUE, !.bytes = @ + n]
                    /\ UNCHANGED <<shardPart, shard, pc>>
               ELSE /\ \/ WriteOk([k \in 1 .. n |-> taken + k], n, 0) /\ UNCHANGED pc
                       \/ WriteFails
                    /\ UNCHANGED dry
      BY DEF ReadPiece
    <2>2. n \in Nat /\ n > 0 /\ Filled + n <= job.bytes /\ taken + n <= job.size
      BY RoomIs
    <2> QED  BY <2>1, <2>2
  <1>c. /\ eof' \in BOOLEAN /\ taken' \in 0 .. job.size /\ (eof' => taken' = job.size)
        /\ taken' = taken + n /\ taken = At(N) + Filled /\ At(N) \in Nat
    <2>1. eof' \in BOOLEAN /\ (eof' => taken' = job.size)
      BY <1>b
    <2>2. taken' \in 0 .. job.size
      BY <1>a, <1>b
    <2>3. N \in Nat
      BY DEF TypeOK, N
    <2> QED  BY <1>a, <1>b, <2>1, <2>2, <2>3, AtNext DEF PlaceInv
  <1>6. ShardsInv'
    BY <1>a, ShardsFrame
  <1>7. ResultInv'
    BY <1>a, ResultFrame
  <1>d. CASE job.dryRun
    <2>1. /\ dry' = [dry EXCEPT !.open = TRUE, !.bytes = dry.bytes + n]
          /\ UNCHANGED <<shardPart, shard, pc>>
      BY <1>b, <1>d
    <2>2. /\ dry \in [open : BOOLEAN, rows : {0}, bytes : 0 .. job.bytes]
          /\ Filled = dry.bytes /\ dry.bytes + n \in 0 .. job.bytes
      BY <1>a, <1>b, <1>d DEF TypeOK, Filled
    <2>3. /\ dry' \in [open : BOOLEAN, rows : {0}, bytes : 0 .. job.bytes]
          /\ Filled' = Filled + n
      BY <1>a, <1>d, <2>1, <2>2 DEF Filled
    <2>4. TypeOK'
      BY <1>a, <1>c, <2>1, <2>3 DEF TypeOK
    <2>5. WriterInv'
      BY <1>a, <2>1 DEF WriterInv, Published, Closing
    <2>6. PlaceInv'
      <3>1. At(N)' = At(N)
        BY <1>a DEF At, N
      <3>2. taken' = At(N)' + Filled'
        BY <1>a, <1>b, <1>c, <2>3, <3>1
      <3> QED  BY <1>a, <1>c, <2>1, <3>2 DEF PlaceInv, Busy, Closing
    <2>7. PublishedInv' /\ CarrierInv'
      BY <1>a, <1>d, DryFrame
    <2>8. ManifestInv'
      BY <1>a, <2>1 DEF ManifestInv, New, Dead, Busy, N
    <2> QED  BY <1>6, <1>7, <2>4, <2>5, <2>6, <2>7, <2>8
  <1>e. CASE ~job.dryRun
    <2>a. /\ dry' = dry /\ Live /\ shard.st = "open" /\ index \in ShardId
          /\ shard \in [st : {"none", "open", "closed", "aborted"}, rows : {0}, n : 0 .. job.bytes]
          /\ Filled = shard.n
          /\ shardPart \in [ShardId -> FileState \cup {None, Old}]
          /\ shardPart[index] \in FileState /\ shardPart[index].whole
          /\ FlattenSeq(shardPart[index].rows) = Slice(At(N), shard.n)
      <3>1. dry' = dry /\ Live /\ shard.st = "open" /\ index \in ShardId
        BY <1>a, <1>b, <1>e DEF Live, Dead, ReadPiece, Reading, Filling, WriterInv
      <3>2. Carrier = shardPart[index]
        BY <1>a DEF Carrier
      <3> QED  BY <1>e, <3>1, <3>2 DEF TypeOK, Filled, CarrierInv
    <2> DEFINE f == shardPart[index]
    <2>b. PICK g \in FileState :
            /\ shardPart' = [shardPart EXCEPT ![index] = g]
            /\ \/ /\ pc' = "fill" /\ shard' = [shard EXCEPT !.rows = shard.rows + 0, !.n = shard.n + n]
                  /\ g.whole /\ FlattenSeq(g.rows) = Slice(At(N), shard.n + n)
               \/ pc' = "abort" /\ shard' = shard
      <3>1. CASE WriteOk([k \in 1 .. n |-> taken + k], n, 0) /\ UNCHANGED pc
        <4>1. [k \in 1 .. n |-> taken + k] = Slice(At(N) + shard.n, n)
          BY <1>c, <2>a DEF Slice
        <4>2. CountAfter(shard.n, n) = {shard.n + n}
          BY <1>a, JobType DEF CountAfter
        <4>3. /\ shardPart' = [shardPart EXCEPT ![index] = WithRow(f, Slice(At(N) + shard.n, n))]
              /\ shard' = [shard EXCEPT !.rows = shard.rows + 0, !.n = shard.n + n]
          BY <3>1, <4>1, <4>2 DEF WriteOk
        <4>4. PICK g : g = WithRow(f, Slice(At(N) + shard.n, n))
          OBVIOUS
        <4>5. g \in FileState /\ g.whole /\ FlattenSeq(g.rows) = Slice(At(N), shard.n + n)
          <5>1. shard.n \in Nat /\ At(N) \in Nat
            BY <1>a, <1>c, <2>a
          <5> QED  BY <1>a, <1>b, <2>a, <4>4, <5>1, WithPiece
        <4> QED  BY <1>a, <3>1, <4>3, <4>4, <4>5
      <3>2. CASE WriteFails
        <4>1. [f EXCEPT !.whole = FALSE] \in FileState
          BY <2>a DEF FileState
        <4> QED  BY <2>a, <3>2, <4>1 DEF WriteFails
      <3> QED  BY <1>b, <1>e, <3>1, <3>2
    <2>c. /\ shardPart' \in [ShardId -> FileState \cup {None, Old}]
          /\ shardPart'[index] = g
      BY <2>a, <2>b
    <2>d. /\ shard' \in [st : {"none", "open", "closed", "aborted"}, rows : {0}, n : 0 .. job.bytes]
          /\ shard'.st = "open"
          /\ pc' = "fill" => shard'.n = Filled + n
      <3>1. shard.rows + 0 \in {0} /\ shard.n + n \in 0 .. job.bytes
        BY <1>a, <1>b, <2>a
      <3> QED  BY <2>a, <2>b, <3>1
    <2>1. TypeOK'
      BY <1>a, <1>c, <2>a, <2>b, <2>c, <2>d DEF TypeOK
    <2>2. WriterInv'
      BY <1>a, <1>e, <2>a, <2>b, <2>d DEF WriterInv, Published, Closing
    <2>3. At(N)' = At(N)
      BY <1>a DEF At, N
    <2>4. PlaceInv'
      <3>1. pc' = "fill" => taken' = At(N)' + Filled'
        BY <1>a, <1>b, <1>c, <1>e, <2>3, <2>d DEF Filled
      <3>2. pc' \in {"fill", "abort"} /\ (eof' => taken' = job'.size)
        BY <1>a, <1>c, <2>b
      <3> QED  BY <3>1, <3>2 DEF PlaceInv, Busy, Closing
    <2>5. PublishedInv'
      BY <1>a, <1>e, <2>a, <2>b, <2>d DEF PublishedInv, Published, Live, Dead, Busy, N
    <2>6. CarrierInv'
      <3>1. CASE pc' = "abort"
        BY <3>1, DeadFrame DEF Dead
      <3>2. CASE pc' = "fill"
        <4>1. Carrier' = g
          BY <1>a, <2>c, <3>2 DEF Carrier
        <4>2. FlattenSeq(Carrier.rows)' = FlattenSeq(g.rows)
          BY <4>1
        <4>3. Slice(At(N), shard.n)' = Slice(At(N), shard.n + n)
          BY <2>3, <2>a, <2>d, <3>2 DEF Slice
        <4> QED  BY <2>b, <3>2, <4>1, <4>2, <4>3 DEF CarrierInv
      <3> QED  BY <2>b, <3>1, <3>2
    <2>7. ManifestInv'
      BY <1>a, <2>b DEF ManifestInv, New, Dead, Busy, N
    <2> QED  BY <1>6, <1>7, <2>1, <2>2, <2>4, <2>5, <2>6, <2>7
  <1> QED  BY <1>d, <1>e

\* Dropping an empty shard keeps the invariant: the whole source is out.
LEMMA EmptyShardStep == IInv /\ EmptyShard => IInv'
  <1> SUFFICES ASSUME IInv, EmptyShard PROVE IInv'
    OBVIOUS
  <1> USE DEF IInv
  <1>a. /\ pc = "fill" /\ pc' = "commit" /\ Busy /\ Filled = 0 /\ job \in Job
        /\ job.bytes \in Nat /\ job.size \in Nat /\ (job.bytes > 0 => eof)
        /\ UNCHANGED <<job, cancelled, shardFile, manFile, manPart, index, man, dry, result, taken, eof>>
        /\ IF job.dryRun THEN UNCHANGED <<shardPart, shard>>
           ELSE shardPart' = [shardPart EXCEPT ![index] = None] /\ shard' = NoShard
    BY JobType DEF EmptyShard, AfterDrop, DropsEmpty, ShardEnds, Filling, Reading, Remaining, readVars, Busy, TypeOK
  <1>b. shardPart' \in [ShardId -> FileState \cup {None, Old}]
    BY <1>a DEF TypeOK
  <1>c. /\ shard' \in [st : {"none", "open", "closed", "aborted"}, rows : {0}, n : 0 .. job.bytes]
        /\ shard'.st = "none" /\ shard'.n = 0
    <2>1. CASE job.dryRun
      BY <1>a, <2>1 DEF TypeOK, WriterInv
    <2>2. CASE ~job.dryRun
      <3>1. NoShard \in [st : {"none", "open", "closed", "aborted"}, rows : {0}, n : 0 .. job.bytes]
        BY <1>a DEF NoShard
      <3> QED  BY <1>a, <2>2, <3>1 DEF NoShard
    <2> QED  BY <2>1, <2>2
  <1>1. TypeOK'
    BY <1>a, <1>b, <1>c DEF TypeOK
  <1>2. WriterInv'
    BY <1>a, <1>c DEF WriterInv, Published, Closing
  <1>3. PlaceInv'
    <2>1. taken = At(N) /\ (eof => taken = job.size) /\ At(N) \in Nat
      BY <1>a, AtNext DEF PlaceInv, TypeOK, N
    <2>2. At(N)' = At(N)
      BY <1>a DEF At, N
    <2>3. taken' <= At(N)' /\ (job'.bytes > 0 => taken' = job'.size) /\ (eof' => taken' = job'.size)
      BY <1>a, <2>1, <2>2
    <2> QED  BY <1>a, <2>3 DEF PlaceInv, Busy, Closing
  <1>4. PublishedInv'
    BY <1>a DEF PublishedInv, Published, Live, Dead, Busy, N
  <1>5. CarrierInv'
    BY <1>c DEF CarrierInv
  <1>6. ShardsInv'
    BY <1>a, ShardsFrame
  <1>7. ResultInv'
    BY <1>a, ResultFrame
  <1>8. ManifestInv'
    BY <1>a DEF ManifestInv, New, Dead, Busy, N
  <1> QED  BY <1>1, <1>2, <1>3, <1>4, <1>5, <1>6, <1>7, <1>8

\* An entry more.
LEMMA OneMore ==
  ASSUME IInv, NEW i \in Nat, NEW f \in FileState \cup {None},
         shard.n \in Nat, dry.bytes \in Nat, NEW b \in Nat, b = ShardSize(N + 1), b > 0, job' = job,
         result' = Append(result, Entry(i, 0, b, f))
  PROVE  /\ result' \in Seq(EntryType) /\ N' = N + 1 /\ N \in Nat
         /\ Entry(i, 0, b, f) \in EntryType
         /\ ResultInv'
         /\ At(N)' = At(N) + job.bytes
  <1> DEFINE e == Entry(i, 0, b, f)
  <1>1. result \in Seq(EntryType) /\ e \in EntryType /\ e.bytes = b /\ N \in Nat /\ job.bytes \in Nat
    BY JobType DEF IInv, TypeOK, Entry, EntryType, N
  <1> HIDE DEF e
  <1>2. /\ result' \in Seq(EntryType) /\ N' = N + 1
        /\ \A k \in 1 .. N : result'[k] = result[k]
        /\ result'[N + 1] = e
    BY <1>1, AppendProperties DEF N, e
  <1>3. \A k \in 1 .. N + 1 : k \in 1 .. N \/ k = N + 1
    BY <1>1
  <1>4. \A k \in 1 .. N : result[k].bytes = ShardSize(k) /\ ShardSize(k) > 0
    BY DEF IInv, ResultInv
  <1>5. \A k \in 1 .. N + 1 : result'[k].bytes = ShardSize(k) /\ ShardSize(k) > 0
    BY <1>1, <1>2, <1>3, <1>4
  <1>6. \A k : ShardSize(k)' = ShardSize(k)
    BY Static
  <1>7. ResultInv'
    BY <1>2, <1>5, <1>6 DEF ResultInv
  <1>8. At(N)' = At(N) + job.bytes
    <2>1. At(N)' = At(N + 1)
      BY <1>2 DEF At
    <2> QED  BY <1>1, <2>1, AtNext
  <1> QED  BY <1>1, <1>2, <1>7, <1>8 DEF e

\* A shard that is full, or ends with the source, goes on to be closed; in a dry run
\* it enters the plan.
LEMMA ShardFilledStep == IInv /\ ShardFilled => IInv'
  <1> SUFFICES ASSUME IInv, ShardFilled PROVE IInv'
    OBVIOUS
  <1> USE DEF IInv
  <1>a. /\ pc = "fill" /\ Busy /\ Filled > 0 /\ job \in Job /\ N \in Nat /\ At(N) \in Nat
        /\ job.bytes \in Nat /\ job.size \in Nat
        /\ Filled \in 0 .. job.bytes /\ (Filled = job.bytes \/ eof)
        /\ taken = At(N) + Filled /\ taken <= job.size /\ (eof => taken = job.size)
        /\ UNCHANGED <<job, cancelled, shardFile, shardPart, manFile, manPart, shard, man, taken, eof>>
    <2>1. /\ pc = "fill" /\ Busy /\ job \in Job /\ N \in Nat
          /\ UNCHANGED <<job, cancelled, shardFile, shardPart, manFile, manPart, shard, man, taken, eof>>
      BY DEF ShardFilled, ShardEnds, Filling, disk, readVars, Busy, TypeOK, N
    <2>2. job.bytes \in Nat /\ job.size \in Nat /\ At(N) \in Nat
      BY <2>1, JobType, AtNext
    <2>3. Filled \in 0 .. job.bytes /\ taken \in 0 .. job.size
      BY DEF TypeOK, Filled
    <2>4. Filled # 0 /\ (Remaining <= 0 \/ eof)
      BY <2>2, <2>3 DEF ShardFilled, ShardEnds, DropsEmpty, Filling, Reading, Remaining
    <2>5. taken = At(N) + Filled /\ (eof => taken = job.size)
      BY <2>1 DEF PlaceInv
    <2> QED  BY <2>1, <2>2, <2>3, <2>4, <2>5 DEF Remaining
  <1>b. ShardSize(N + 1) = Filled
    BY <1>a, SizeIs
  <1>6. ShardsInv'
    BY <1>a, ShardsFrame
  <1>c. CASE job.dryRun
    <2>a. /\ index' = index + 1 /\ dry' = NoDry /\ pc' = AfterShard
          /\ result' = Append(result, Entry(index + 1, 0, dry.bytes, None))
          /\ Filled = dry.bytes /\ index + 1 \in Nat /\ shard.n \in Nat
      BY <1>a, <1>c DEF ShardFilled, Filled, TypeOK
    <2>b. /\ result' \in Seq(EntryType) /\ N' = N + 1 /\ ResultInv' /\ At(N)' = At(N) + job.bytes
      <3>1. dry.bytes \in Nat /\ ShardSize(N + 1) = dry.bytes /\ dry.bytes > 0 /\ job' = job
        BY <1>a, <1>b, <2>a
      <3>2. None \in FileState \cup {None}
        OBVIOUS
      <3>3. PICK i \in Nat : i = index + 1
        BY <2>a
      <3>4. result' = Append(result, Entry(i, 0, dry.bytes, None))
        BY <2>a, <3>3
      <3>5. PICK b \in Nat : b = dry.bytes
        BY <3>1
      <3>6. result' = Append(result, Entry(i, 0, b, None)) /\ b = ShardSize(N + 1) /\ b > 0
        BY <3>1, <3>4, <3>5
      <3> HIDE DEF IInv
      <3> QED  BY <2>a, <3>1, <3>2, <3>6, OneMore
    <2>c. /\ dry' \in [open : BOOLEAN, rows : {0}, bytes : 0 .. job.bytes] /\ dry'.bytes = 0
      BY <1>a, <2>a DEF NoDry
    <2>d. pc' = IF eof THEN "commit" ELSE "loop"
      BY <2>a DEF AfterShard
    <2>1. TypeOK'
      BY <1>a, <2>a, <2>b, <2>c, <2>d DEF TypeOK
    <2>2. WriterInv'
      BY <1>a, <1>c, <2>d DEF WriterInv, Published, Closing
    <2>3. PlaceInv'
      <3>1. Filled' = 0
        BY <1>a, <1>c, <2>c DEF Filled
      <3>2. ~eof => taken' = At(N)' + Filled'
        BY <1>a, <2>b, <3>1
      <3>3. eof => taken' <= At(N)' /\ taken' = job'.size
        BY <1>a, <2>b
      <3> QED  BY <1>a, <2>d, <3>1, <3>2, <3>3 DEF PlaceInv, Busy, Closing
    <2>4. PublishedInv' /\ CarrierInv'
      BY <1>a, <1>c, DryFrame
    <2>5. ManifestInv'
      BY <1>a, <1>c, <2>d DEF ManifestInv, WriterInv, New, Dead, Busy
    <2> QED  BY <1>6, <2>1, <2>2, <2>3, <2>4, <2>5, <2>b
  <1>d. CASE ~job.dryRun
    <2>a. pc' = "flush" /\ UNCHANGED <<index, result, dry>> /\ shard.st = "open"
      BY <1>d DEF ShardFilled, ShardEnds, Filling
    <2>1. TypeOK'
      BY <1>a, <2>a DEF TypeOK
    <2>2. WriterInv'
      BY <1>a, <1>d, <2>a DEF WriterInv, Published, Closing
    <2>3. PlaceInv'
      <3>1. Filled' = Filled /\ At(N)' = At(N)
        BY <1>a, <2>a DEF Filled, At, N
      <3> QED  BY <1>a, <2>a, <3>1 DEF PlaceInv, Busy, Closing
    <2>4. PublishedInv'
      BY <1>a, <2>a DEF PublishedInv, Published, Live, Dead, Busy, N
    <2>5. CarrierInv'
      BY <1>a, <2>a DEF CarrierInv, Carrier, Live, Dead, At, N
    <2>6. ManifestInv'
      BY <1>a, <2>a DEF ManifestInv, New, Dead, Busy, N
    <2>7. ResultInv'
      BY <1>a, <2>a, ResultFrame
    <2> QED  BY <1>6, <2>1, <2>2, <2>3, <2>4, <2>5, <2>6, <2>7
  <1> QED  BY <1>c, <1>d

\* The end of closeTextShard keeps the invariant: result and manifest gain the shard
\* that was just published, or the run is on its way out.
LEMMA RecordStep == IInv /\ Record => IInv'
  <1> SUFFICES ASSUME IInv, Record PROVE IInv'
    OBVIOUS
  <1> USE DEF IInv
  <1> DEFINE e == Entry(index, 0, shard.n, shardFile[index])
  <1>a. /\ pc = "record" /\ Live /\ ~job.dryRun /\ job \in Job
        /\ index \in ShardId /\ index \in Nat /\ index = N + 1 /\ N \in Nat
        /\ shard.n \in Nat /\ shard.n > 0 /\ shard.n <= job.bytes /\ ShardSize(N + 1) = shard.n
        /\ taken = At(N) + shard.n /\ (shard.n = job.bytes \/ eof) /\ (eof => taken = job.size)
        /\ At(N) \in Nat /\ job.bytes \in Nat /\ job.size \in Nat
        /\ shardFile[index] \in FileState
    BY ClosingShard DEF Record, RecordShard, TypeOK, Carrier, PlaceInv
  <1>b. /\ \/ /\ manPart' = IF man = "open" THEN Append(manPart, e) ELSE manPart
              /\ result' = Append(result, e)
              /\ shard' = NoShard
              /\ pc' = AfterShard
           \/ /\ man = "open" /\ pc' = "abort"
              /\ UNCHANGED <<manPart, result, shard>>
        /\ UNCHANGED <<job, cancelled, shardFile, shardPart, manFile, index, man, dry, taken, eof>>
    <2>1. shard.rows = 0
      BY DEF TypeOK
    <2> QED  BY <2>1 DEF Record, RecordShard, readVars
  <1>6. ShardsInv'
    BY <1>b, ShardsFrame
  <1>2. WriterInv'
    BY <1>a, <1>b DEF WriterInv, Published, Closing, AfterShard, NoShard
  <1>c. CASE pc' = "abort"
    <2>1. UNCHANGED <<manPart, result, shard>>
      BY <1>b, <1>c DEF AfterShard
    <2>2. TypeOK'
      BY <1>b, <1>c, <2>1 DEF TypeOK
    <2>3. PlaceInv'
      BY <1>b, <1>c DEF PlaceInv, Busy, Closing
    <2>4. PublishedInv' /\ CarrierInv'
      BY <1>c, DeadFrame DEF Dead
    <2>5. ManifestInv'
      BY <1>b, <1>c, <2>1 DEF ManifestInv, New, Dead, Busy, N, Record, RecordShard
    <2>6. ResultInv'
      BY <1>b, <2>1, ResultFrame
    <2> QED  BY <1>2, <1>6, <2>2, <2>3, <2>4, <2>5, <2>6
  <1>d. CASE pc' # "abort"
    <2>a. /\ manPart' = IF man = "open" THEN Append(manPart, e) ELSE manPart
          /\ result' = Append(result, e)
          /\ shard' = NoShard
          /\ pc' = IF eof THEN "commit" ELSE "loop"
      BY <1>b, <1>d DEF AfterShard
    <2>b. /\ result' \in Seq(EntryType) /\ N' = N + 1 /\ e \in EntryType /\ ResultInv'
          /\ At(N)' = At(N) + job.bytes
      <3>1. dry.bytes \in Nat
        BY <1>a DEF TypeOK
      <3> QED  BY <1>a, <1>b, <2>a, <3>1, OneMore
    <2> HIDE DEF e
    <2>c. /\ shard' \in [st : {"none", "open", "closed", "aborted"}, rows : {0}, n : 0 .. job.bytes]
          /\ shard'.st = "none" /\ shard'.n = 0
      BY <1>a, <2>a DEF NoShard
    <2>d. man = "open" => manPart = result
      BY <1>a DEF ManifestInv, Live
    <2>1. TypeOK'
      <3>1. manPart' \in Seq(EntryType) \cup {None, Old}
        <4>1. man = "open" => manPart' = result'
          BY <2>a, <2>d
        <4> QED  BY <2>a, <2>b, <4>1 DEF TypeOK
      <3> QED  BY <1>b, <2>a, <2>b, <2>c, <3>1 DEF TypeOK
    <2>2. PlaceInv'
      <3>1. Filled' = 0
        BY <1>a, <1>b, <2>c DEF Filled
      <3>2. ~eof => taken' = At(N)' + Filled'
        BY <1>a, <1>b, <2>b, <3>1
      <3>3. eof => taken' <= At(N)' /\ taken' = job'.size
        BY <1>a, <1>b, <2>b
      <3> QED  BY <1>b, <2>a, <3>1, <3>2, <3>3 DEF PlaceInv, Busy, Closing
    <2>3. PublishedInv'
      <3>1. Published' = 1 .. N + 1
        BY <1>a, <1>b DEF PublishedInv, Published
      <3> QED  BY <1>a, <1>b, <2>a, <2>b, <2>c, <3>1 DEF PublishedInv
    <2>4. CarrierInv'
      BY <2>c DEF CarrierInv
    <2>5. ManifestInv'
      BY <1>a, <1>b, <2>a, <2>d DEF ManifestInv, New, Dead, Busy
    <2> QED  BY <1>2, <1>6, <2>1, <2>2, <2>3, <2>4, <2>5, <2>b
  <1> QED  BY <1>c, <1>d

\* The first half of shardWriter.Close keeps the invariant: the .part is whole.
LEMMA FlushShardStep == IInv /\ FlushShard /\ UNCHANGED readVars => IInv'
  <1> SUFFICES ASSUME IInv, FlushShard, UNCHANGED readVars PROVE IInv'
    OBVIOUS
  <1> USE DEF IInv
  <1> DEFINE f == shardPart[index]
             g == [f EXCEPT !.whole = TRUE]
  <1>a. /\ pc = "flush" /\ shard.st = "open" /\ Live /\ Busy /\ ~job.dryRun
        /\ index \in ShardId /\ index = N + 1 /\ job \in Job
        /\ shard \in [st : {"none", "open", "closed", "aborted"}, rows : {0}, n : 0 .. job.bytes]
        /\ shardPart \in [ShardId -> FileState \cup {None, Old}]
        /\ f \in FileState /\ FlattenSeq(f.rows) = Slice(At(N), shard.n)
        /\ UNCHANGED <<job, cancelled, shardFile, manFile, manPart, index, man, dry, result, taken, eof>>
    BY ClosingShard DEF FlushShard, readVars, Busy, Carrier, TypeOK
  <1>b. g \in FileState /\ g.rows = f.rows /\ g.whole
    BY <1>a DEF FileState
  <1>c. /\ shard' = [shard EXCEPT !.st = "closed", !.n = shard.n]
        /\ \/ pc' \in {"unlink", "rename"} /\ shardPart' = [shardPart EXCEPT ![index] = g]
           \/ pc' = "abort" /\ shardPart' = shardPart
    <2>1. ~job.gz
      BY <1>a, JobType
    <2>2. [shard EXCEPT !.st = "closed"] = [shard EXCEPT !.st = "closed", !.n = shard.n]
      BY <1>a
    <2> QED  BY <2>1, <2>2 DEF FlushShard, AfterFlush
  <1>d. /\ shard'.st = "closed" /\ shard'.n = shard.n
        /\ shard' \in [st : {"none", "open", "closed", "aborted"}, rows : {0}, n : 0 .. job.bytes]
    BY <1>a, <1>c
  <1>e. /\ shardPart' \in [ShardId -> FileState \cup {None, Old}]
        /\ pc' # "abort" => shardPart'[index] = g
    BY <1>a, <1>b, <1>c
  <1>p. pc' \in {"unlink", "rename", "abort"}
    BY <1>c
  <1> HIDE DEF f, g
  <1>1. TypeOK'
    BY <1>a, <1>p, <1>d, <1>e DEF TypeOK
  <1>2. WriterInv'
    BY <1>a, <1>p, <1>d DEF WriterInv, Published, Closing
  <1>3. PlaceInv'
    <2>1. Filled' = Filled /\ At(N)' = At(N)
      BY <1>a, <1>d DEF Filled, At, N
    <2> QED  BY <1>a, <1>p, <2>1 DEF PlaceInv, Busy, Closing
  <1>4. PublishedInv'
    BY <1>a, <1>p, <1>d DEF PublishedInv, Published, Live, Dead, Busy, N
  <1>5. CarrierInv'
    <2>1. CASE pc' = "abort"
      BY <2>1, DeadFrame DEF Dead
    <2>2. CASE pc' # "abort"
      <3>1. Carrier' = g
        BY <1>a, <1>p, <1>e, <2>2 DEF Carrier
      <3>2. FlattenSeq(Carrier.rows)' = FlattenSeq(f.rows)
        BY <1>b, <3>1
      <3>3. Slice(At(N), shard.n)' = Slice(At(N), shard.n)
        BY <1>a, <1>d DEF Slice, At, N
      <3> QED  BY <1>a, <1>b, <3>1, <3>2, <3>3 DEF CarrierInv
    <2> QED  BY <2>1, <2>2
  <1>6. ShardsInv'
    BY <1>a, ShardsFrame
  <1>7. ResultInv'
    BY <1>a, ResultFrame
  <1>8. ManifestInv'
    BY <1>a, <1>p DEF ManifestInv, New, Dead, Busy, N
  <1> QED  BY <1>1, <1>2, <1>3, <1>4, <1>5, <1>6, <1>7, <1>8

\* Removing the target before a rename takes away no shard of this run.
LEMMA UnlinkShardStep == IInv /\ UnlinkShard /\ UNCHANGED readVars => IInv'
  <1> SUFFICES ASSUME IInv, UnlinkShard, UNCHANGED readVars PROVE IInv'
    OBVIOUS
  <1> USE DEF IInv
  <1>a. /\ pc = "unlink" /\ shard.st = "closed" /\ Live /\ Busy /\ ~job.dryRun
        /\ index \in ShardId /\ index = N + 1 /\ N \in Nat /\ Published = 1 .. N
        /\ shardFile \in [ShardId -> FileState \cup {None, Old}]
        /\ pc' \in {"rename", "abort"}
        /\ UNCHANGED <<job, cancelled, shardPart, manFile, manPart, index, shard, man, dry, result,
                        taken, eof>>
    BY ClosingShard DEF UnlinkShard, readVars, TypeOK, WriterInv, PublishedInv, Busy
  <1>c. /\ shardFile' \in [ShardId -> FileState \cup {None, Old}]
        /\ \A i \in ShardId : i # index => shardFile'[i] = shardFile[i]
        /\ ~New(shardFile[index]) /\ ~New(shardFile'[index])
    <2>1. ~New(shardFile[index])
      BY <1>a DEF Published
    <2> QED  BY <1>a, <2>1 DEF UnlinkShard, New
  <1>d. /\ Published' = Published
        /\ \A i \in Published : shardFile'[i] = shardFile[i]
    BY <1>a, <1>c DEF Published
  <1>1. TypeOK'
    BY <1>a, <1>c DEF TypeOK
  <1>2. WriterInv'
    BY <1>a DEF WriterInv, Closing
  <1>3. PlaceInv'
    <2>1. Filled' = Filled /\ At(N)' = At(N)
      BY <1>a DEF Filled, At, N
    <2> QED  BY <1>a, <2>1 DEF PlaceInv, Busy, Closing
  <1>4. PublishedInv'
    BY <1>a, <1>d DEF PublishedInv, Live, Dead, Busy, N
  <1>5. CarrierInv'
    BY <1>a DEF CarrierInv, Carrier, Live, Dead, Slice, At, N
  <1>6. ShardsInv'
    <2>1. \A i \in Published : /\ Content(i)' = Content(i) /\ shardFile'[i] = shardFile[i]
                              /\ Slice(At(i - 1), ShardSize(i))' = Slice(At(i - 1), ShardSize(i))
                              /\ ShardSize(i)' = ShardSize(i)
      BY <1>a, <1>d DEF Content, Slice, At, ShardSize
    <2> QED  BY <1>d, <2>1 DEF ShardsInv
  <1>7. ResultInv'
    BY <1>a, ResultFrame
  <1>8. ManifestInv'
    BY <1>a DEF ManifestInv, New, Dead, Busy, N
  <1> QED  BY <1>1, <1>2, <1>3, <1>4, <1>5, <1>6, <1>7, <1>8

\* Publishing a shard keeps the invariant: it is the next slice of the source.
LEMMA RenameShardStep == IInv /\ RenameShard /\ UNCHANGED readVars => IInv'
  <1> SUFFICES ASSUME IInv, RenameShard, UNCHANGED readVars PROVE IInv'
    OBVIOUS
  <1> USE DEF IInv
  <1> DEFINE f == shardPart[index]
  <1>a. /\ pc = "rename" /\ shard.st = "closed" /\ Live /\ Busy /\ ~job.dryRun
        /\ index \in ShardId /\ index = N + 1 /\ N \in Nat /\ Published = 1 .. N
        /\ shardFile \in [ShardId -> FileState \cup {None, Old}]
        /\ shardPart \in [ShardId -> FileState \cup {None, Old}]
        /\ \/ /\ pc' = "record"
              /\ shardFile' = [shardFile EXCEPT ![index] = f]
              /\ shardPart' = [shardPart EXCEPT ![index] = None]
           \/ pc' = "abort" /\ UNCHANGED <<shardFile, shardPart>>
        /\ UNCHANGED <<job, cancelled, manFile, manPart, index, shard, man, dry, result, taken, eof>>
    BY ClosingShard DEF RenameShard, readVars, TypeOK, WriterInv, PublishedInv, Busy
  <1>c. /\ f \in FileState /\ New(f) /\ f.whole
        /\ FlattenSeq(f.rows) = Slice(At(N), shard.n)
        /\ ShardSize(N + 1) = shard.n /\ shard.n > 0
    BY <1>a, ClosingShard, NewFile DEF Carrier
  <1>d. /\ shardFile' \in [ShardId -> FileState \cup {None, Old}]
        /\ shardPart' \in [ShardId -> FileState \cup {None, Old}]
        /\ \A i \in ShardId : i # index => shardFile'[i] = shardFile[i]
        /\ pc' = "record" => shardFile'[index] = f
    BY <1>a, <1>c
  <1>p. pc' \in {"record", "abort"} /\ (pc' = "abort" => UNCHANGED <<shardFile, shardPart>>)
    BY <1>a
  <1> HIDE DEF f
  <1>e. pc' = "record" => Published' = 1 .. N + 1
    <2>1. New(f)
      BY <1>c
    <2>2. pc' = "record" => Published' = Published \cup {index}
      <3>1. pc' = "record" => \A i \in ShardId : New(shardFile'[i]) <=> New(shardFile[i]) \/ i = index
        BY <1>d, <2>1
      <3>2. index \in ShardId
        BY <1>a
      <3> QED  BY <3>1, <3>2 DEF Published
    <2>3. 1 .. N + 1 = (1 .. N) \cup {N + 1}
      BY <1>a
    <2> QED  BY <1>a, <2>2, <2>3
  <1>f. \A i \in 1 .. N : i \in ShardId /\ i # index /\ shardFile'[i] = shardFile[i]
    BY <1>a, <1>d DEF Published
  <1>1. TypeOK'
    BY <1>a, <1>d, <1>p DEF TypeOK
  <1>2. WriterInv'
    BY <1>a, <1>p DEF WriterInv, Closing
  <1>3. PlaceInv'
    <2>1. Filled' = Filled /\ At(N)' = At(N)
      BY <1>a DEF Filled, At, N
    <2> QED  BY <1>a, <1>p, <2>1 DEF PlaceInv, Busy, Closing
  <1>4. PublishedInv'
    <2>1. CASE pc' = "abort"
      BY <2>1, DeadFrame DEF Dead
    <2>2. CASE pc' = "record"
      BY <1>a, <1>e, <2>2 DEF PublishedInv, N
    <2> QED  BY <1>p, <2>1, <2>2
  <1>5. CarrierInv'
    <2>1. CASE pc' = "abort"
      BY <2>1, DeadFrame DEF Dead
    <2>2. CASE pc' = "record"
      <3>1. Carrier' = f
        BY <1>a, <1>d, <2>2 DEF Carrier
      <3>2. Slice(At(N), shard.n)' = Slice(At(N), shard.n)
        BY <1>a DEF Slice, At, N
      <3> QED  BY <1>c, <3>1, <3>2 DEF CarrierInv
    <2> QED  BY <1>p, <2>1, <2>2
  <1>6. ShardsInv'
    <2>1. CASE pc' = "abort"
      BY <1>a, <1>p, <2>1, ShardsFrame
    <2>2. CASE pc' = "record"
      <3>1. \A i : At(i)' = At(i) /\ ShardSize(i)' = ShardSize(i)
        BY <1>a, Static
      <3>2. \A i \in 1 .. N :
              /\ i = 1 \/ i - 1 \in 1 .. N + 1
              /\ shardFile'[i] \in FileState
              /\ shardFile'[i].whole
              /\ FlattenSeq(shardFile'[i].rows) = Slice(At(i - 1), ShardSize(i))
              /\ ShardSize(i) > 0
        BY <1>a, <1>f DEF ShardsInv, Content
      <3>3. (N + 1) - 1 = N
        BY <1>a
      <3>4. /\ N + 1 = 1 \/ (N + 1) - 1 \in 1 .. N + 1
            /\ shardFile'[N + 1] = f
            /\ Slice(At((N + 1) - 1), ShardSize(N + 1)) = Slice(At(N), shard.n)
        BY <1>a, <1>c, <1>d, <2>2, <3>3
      <3>5. \A i \in 1 .. N + 1 : i \in 1 .. N \/ i = N + 1
        BY <1>a
      <3>6. \A i \in 1 .. N + 1 :
              /\ i = 1 \/ i - 1 \in 1 .. N + 1
              /\ shardFile'[i] \in FileState
              /\ shardFile'[i].whole
              /\ FlattenSeq(shardFile'[i].rows) = Slice(At(i - 1), ShardSize(i))
              /\ ShardSize(i) > 0
        BY <1>c, <3>2, <3>4, <3>5
      <3>7. \A i : Slice(At(i - 1), ShardSize(i))' = Slice(At(i - 1), ShardSize(i))
        BY <3>1 DEF Slice
      <3> QED  BY <1>e, <2>2, <3>1, <3>6, <3>7 DEF ShardsInv, Content
    <2> QED  BY <1>p, <2>1, <2>2
  <1>7. ResultInv'
    BY <1>a, ResultFrame
  <1>8. ManifestInv'
    BY <1>a, <1>p DEF ManifestInv, New, Dead, Busy, N
  <1> QED  BY <1>1, <1>2, <1>3, <1>4, <1>5, <1>6, <1>7, <1>8

------------------------------------------------------------------------------
(* The invariant and what follows from it.                                   *)

\* Every run starts in the invariant.
LEMMA InitInv == Init => IInv
  <1> SUFFICES ASSUME Init PROVE IInv
    OBVIOUS
  <1> USE DEF Init, OutInit
  <1>1. /\ \A i \in ShardId : shardFile[i] \in {None, Old} /\ shardPart[i] \in {None, Old}
        /\ shardFile \in [ShardId -> FileState \cup {None, Old}]
        /\ shardPart \in [ShardId -> FileState \cup {None, Old}]
        /\ manFile \in {None, Old} /\ manPart \in {None, Old}
    OBVIOUS
  <1>2. /\ job \in Job /\ job.bytes \in Nat /\ job.size \in Nat
        /\ result = <<>> /\ result \in Seq(EntryType) /\ N = 0
    BY JobType, EmptySeq DEF N
  <1>3. Published = {}
    BY <1>1 DEF Published, New
  <1>4. At(N) = 0 /\ Filled = 0
    BY <1>2, AtNext DEF Filled, NoShard, NoDry
  <1>5. TypeOK
    <2>1. /\ shard \in [st : {"none", "open", "closed", "aborted"}, rows : {0}, n : 0 .. job.bytes]
          /\ dry \in [open : BOOLEAN, rows : {0}, bytes : 0 .. job.bytes]
      BY <1>2 DEF NoShard, NoDry
    <2>2. taken \in 0 .. job.size /\ eof \in BOOLEAN /\ cancelled \in BOOLEAN /\ index \in Nat
      <3>1. taken \in 0 .. job.size /\ index \in Nat
        BY <1>2
      <3>2. eof = FALSE /\ cancelled = FALSE
        OBVIOUS
      <3> QED  BY <3>1, <3>2, Zenon
    <2>3. pc = "start" /\ man = "none"
      OBVIOUS
    <2> QED  BY <1>1, <1>2, <2>1, <2>2, <2>3 DEF TypeOK
  <1>6. WriterInv
    BY <1>3 DEF WriterInv, NoShard, Closing
  <1>7. PlaceInv
    BY <1>4 DEF PlaceInv, Busy, Closing
  <1>8. PublishedInv
    BY <1>2, <1>3 DEF PublishedInv, NoShard
  <1>9. CarrierInv /\ ResultInv
    BY <1>2 DEF CarrierInv, ResultInv, NoShard
  <1>10. ManifestInv
    BY <1>1, <1>2 DEF ManifestInv, New
  <1>11. ShardsInv
    BY <1>3 DEF ShardsInv
  <1> QED  BY <1>5, <1>6, <1>7, <1>8, <1>9, <1>10, <1>11 DEF IInv

\* A step of somebody else keeps the invariant.
LEMMA StutterStep == IInv /\ UNCHANGED vars => IInv'
  <1> SUFFICES ASSUME IInv, UNCHANGED vars PROVE IInv'
    OBVIOUS
  <1> USE DEF IInv, vars, outVars
  <1>1. TypeOK' /\ ManifestInv' /\ WriterInv'
    BY DEF TypeOK, ManifestInv, WriterInv, New, Dead, Busy, Closing, N, Published
  <1>2. PlaceInv' /\ ResultInv' /\ ShardsInv'
    BY PlaceFrame, ResultFrame, ShardsFrame
  <1>3. PublishedInv' /\ CarrierInv'
    BY DEF PublishedInv, CarrierInv, Published, New, Live, Dead, Busy, N, At, Slice, Carrier
  <1> QED  BY <1>1, <1>2, <1>3

\* Every step of a run keeps the invariant.
LEMMA NextInv == IInv /\ [Next]_vars => IInv'
  <1> SUFFICES ASSUME IInv, [Next]_vars PROVE IInv'
    OBVIOUS
  <1>1. CASE Process
    <2>1. CASE Start \/ Fails \/ NextShard \/ OpenShard \/ ReadPiece
      BY <2>1, StartStep, FailsStep, NextShardStep, OpenShardStep, ReadPieceStep
    <2>2. CASE ReadEOF \/ EmptyShard \/ ShardFilled \/ Record
      BY <2>2, ReadEOFStep, EmptyShardStep, ShardFilledStep, RecordStep
    <2>3. CASE Output
      BY <2>3, FlushShardStep, UnlinkShardStep, RenameShardStep, CloseManifestStep,
         UnlinkManifestStep, RenameManifestStep, AbortShardStep, AbortManifestStep DEF Output
    <2> QED  BY <1>1, <2>1, <2>2, <2>3 DEF Process
  <1>2. CASE Environment
    BY <1>2, CancelStep, CrashStep DEF Environment
  <1>3. CASE UNCHANGED vars
    BY <1>3, StutterStep
  <1> QED  BY <1>1, <1>2, <1>3 DEF Next, Ended

\* The invariant holds throughout every run.
THEOREM Invariance == Spec => []IInv
  BY InitInv, NextInv, PTL DEF Spec

\* The variables keep their shapes: no shard is ever filled beyond its limit, no read
\* goes beyond the source and no shard index leaves ShardId.
THEOREM TypeCorrect == Spec => []TypeOK
  <1>1. IInv => TypeOK
    BY DEF IInv
  <1> QED  BY <1>1, Invariance, PTL

\* Every published shard is its slice of the source, whatever pieces the reader
\* delivered it in, and a run that succeeds has, or plans, exactly the shards the
\* source fills (binary.go:44-132).
THEOREM ShardsAreExact == Spec => []ShardsExact
  <1>1. IInv => ShardsExact
    <2> SUFFICES ASSUME IInv PROVE ShardsExact
      OBVIOUS
    <2>0. job \in Job /\ job.bytes \in Nat /\ job.size \in Nat /\ N \in Nat /\ ShardId \subseteq Nat
      BY JobType, ShardIdAssumption DEF IInv, TypeOK, N
    <2>1. ASSUME NEW i \in Published
          PROVE  /\ i = 1 \/ i - 1 \in Published
                 /\ shardFile[i].whole
                 /\ Content(i) # <<>>
                 /\ Len(Content(i)) = ShardSize(i)
                 /\ \A k \in 1 .. Len(Content(i)) : Content(i)[k] = (i - 1) * job.bytes + k
      <3>1. /\ i = 1 \/ i - 1 \in Published
            /\ shardFile[i].whole
            /\ Content(i) = Slice(At(i - 1), ShardSize(i))
            /\ ShardSize(i) > 0
        BY DEF IInv, ShardsInv
      <3>2. i \in Nat /\ i - 1 \in Nat
        BY <2>0, ShardIdAssumption DEF Published
      <3>3. At(i - 1) \in Nat /\ At(i - 1) = (i - 1) * job.bytes
        BY <2>0, <3>2, AtNext DEF At
      <3>4. ShardSize(i) \in Nat
        BY <2>0, <3>1, <3>3 DEF ShardSize, Smaller
      <3>5. PICK n \in Nat : n = ShardSize(i)
        BY <3>4
      <3>6. PICK a \in Nat : a = At(i - 1)
        BY <3>3
      <3>7. Content(i) = Slice(a, n)
        BY <3>1, <3>5, <3>6
      <3>8. Len(Content(i)) = n /\ \A k \in 1 .. n : Content(i)[k] = a + k
        BY <3>7, SliceType
      <3>9. Content(i) # <<>>
        BY <3>1, <3>5, <3>8
      <3> QED  BY <3>1, <3>3, <3>5, <3>6, <3>8, <3>9
    <2>2. ASSUME pc = "done", job.bytes > 0
          PROVE  /\ job.size <= Len(result) * job.bytes
                 /\ \A i \in 1 .. Len(result) : result[i].bytes \in {ShardSize(i)} \ {0}
                 /\ Published = IF job.dryRun THEN {} ELSE 1 .. Len(result)
      <3>1. job.size <= At(N)
        BY <2>2 DEF IInv, PlaceInv, Closing
      <3>2. \A i \in 1 .. N : result[i].bytes = ShardSize(i) /\ ShardSize(i) > 0
        BY DEF IInv, ResultInv
      <3>3. Published = IF job.dryRun THEN {} ELSE 1 .. N
        BY <2>2 DEF IInv, WriterInv, PublishedInv, Live, Dead
      <3>4. \A i \in 1 .. N : ShardSize(i) # 0
        BY <3>2
      <3> QED  BY <3>1, <3>2, <3>3, <3>4 DEF At, N
    <2> QED  BY <2>1, <2>2 DEF ShardsExact
  <1> QED  BY <1>1, Invariance, PTL

------------------------------------------------------------------------------
(* The temporaries.                                                          *)

\* The shard writer holds the only .part of this run.
Holding == shard.st \in {"open", "closed"} /\ pc # "record"

PartsInv ==
  /\ \A i \in ShardId : New(shardPart[i]) => i = index /\ Holding
  /\ Live => /\ 1 .. index \subseteq ShardId
             /\ \A i \in 1 .. index : shardPart[i] = None \/ (i = index /\ Holding)
  /\ pc \in {"abortManifest", "failed"} => shard.st # "open"

ManPartInv ==
  /\ New(manPart) => man \in {"open", "closed"}
  /\ pc = "failed" => man # "open"
  /\ pc = "done" => ~New(manPart)

\* Neither marker is a file of this run.
LEMMA NotNew == ~New(None) /\ ~New(Old)
  BY DEF New

\* A dropped or finished shard writer holds nothing, whatever the index.
LEMMA PartsFrame ==
  ASSUME PartsInv, UNCHANGED <<job, shardPart>>,
         pc \notin Dead \/ pc' \in Dead,
         \/ UNCHANGED <<shard, index>> /\ (Holding => Holding')
         \/ UNCHANGED shard /\ job.dryRun /\ shard.st = "none",
         pc' \in {"abortManifest", "failed"} => shard'.st # "open"
  PROVE  PartsInv'
  BY DEF PartsInv, Live, New, Holding

\* A step that opens, closes or drops no shard keeps the temporaries of the shards.
LEMMA QuietStep ==
  ASSUME IInv, PartsInv,
         \/ Start \/ Fails \/ NextShard \/ ReadEOF \/ ShardFilled
         \/ CloseManifest \/ UnlinkManifest \/ RenameManifest \/ UnlinkShard
         \/ AbortManifest \/ Cancel \/ Crash \/ UNCHANGED vars
  PROVE  PartsInv'
  <1> USE DEF IInv, WriterInv, Closing, Dead, Holding
  <1>1. CASE Start
    BY <1>1, PartsFrame DEF Start, NewManifestWriter
  <1>2. CASE Fails \/ NextShard \/ ReadEOF
    BY <1>2, PartsFrame DEF Fails, NextShard, ReadEOF, Reading, Filling, disk
  <1>3. CASE ShardFilled
    BY <1>3, PartsFrame DEF ShardFilled, ShardEnds, Filling, AfterShard, disk
  <1>4. CASE CloseManifest \/ UnlinkManifest \/ RenameManifest
    BY <1>4, PartsFrame DEF CloseManifest, UnlinkManifest, RenameManifest, disk
  <1>5. CASE UnlinkShard
    BY <1>5, PartsFrame DEF UnlinkShard
  <1>6. CASE AbortManifest
    <2>1. shard.st # "open"
      BY <1>6 DEF AbortManifest, PartsInv
    <2> QED  BY <1>6, <2>1, PartsFrame DEF AbortManifest
  <1>7. CASE Cancel
    BY <1>7, PartsFrame DEF Cancel, Terminal, disk, PartsInv
  <1>8. CASE Crash
    BY <1>8, PartsFrame DEF Crash, disk
  <1>9. CASE UNCHANGED vars
    BY <1>9, PartsFrame DEF vars, outVars, disk, PartsInv
  <1> QED  BY <1>1, <1>2, <1>3, <1>4, <1>5, <1>6, <1>7, <1>8, <1>9

\* Nor does one that opens, fills, closes, renames, records or drops one.
LEMMA ShardStep ==
  ASSUME IInv, PartsInv,
         \/ OpenShard \/ ReadPiece \/ EmptyShard \/ Record
         \/ FlushShard \/ RenameShard \/ AbortShard
  PROVE  PartsInv'
  <1>0. /\ shardPart \in [ShardId -> FileState \cup {None, Old}] /\ index \in Nat
        /\ shard.st # "none" => index \in ShardId
    BY DEF IInv, TypeOK, WriterInv
  <1>1. CASE OpenShard
    <2>1. /\ shard.st = "none" /\ ~job.dryRun /\ job' = job /\ pc = "fill" /\ Live
          /\ index + 1 \in ShardId /\ index' = index + 1
      BY <1>1 DEF OpenShard, NewShardWriter, Live, Dead
    <2>2. /\ \A i \in ShardId : ~New(shardPart[i])
          /\ 1 .. index \subseteq ShardId /\ \A i \in 1 .. index : shardPart[i] = None
      BY <2>1 DEF PartsInv, Holding
    <2>3. /\ \A i \in ShardId : i # index + 1 => shardPart'[i] = shardPart[i]
          /\ \/ shard'.st = "open" /\ pc' = pc
             \/ shard' = shard /\ pc' = "abort" /\ shardPart'[index + 1] \in {None, shardPart[index + 1]}
      <3>1. NewShardWriter(FALSE, 0)
        BY <1>1 DEF OpenShard
      <3>2. CASE /\ shardPart' = [shardPart EXCEPT ![index + 1] = FreshFile(FALSE)]
                 /\ \E n \in {0} : shard' = [st |-> "open", rows |-> 0, n |-> n]
                 /\ UNCHANGED pc
        BY <1>0, <2>1, <3>2
      <3>3. CASE /\ \E f \in {None, shardPart[index + 1]} : shardPart' = [shardPart EXCEPT ![index + 1] = f]
                 /\ pc' = "abort" /\ UNCHANGED shard
        BY <1>0, <2>1, <3>3
      <3> QED  BY <3>1, <3>2, <3>3 DEF NewShardWriter
    <2>4. \A i \in 1 .. index' : i = index' \/ i \in 1 .. index
      BY <1>0, <2>1
    <2>5. \A i \in 1 .. index : i # index + 1
      BY <1>0
    <2>6. CASE shard'.st = "open" /\ pc' = pc
      BY <2>1, <2>2, <2>3, <2>4, <2>5, <2>6 DEF PartsInv, Holding, New
    <2>7. CASE shard' = shard /\ pc' = "abort" /\ shardPart'[index + 1] \in {None, shardPart[index + 1]}
      <3>1. \A i \in ShardId : ~New(shardPart'[i])
        BY <2>1, <2>2, <2>3, <2>7, NotNew
      <3> QED  BY <2>7, <3>1 DEF PartsInv, Live, Dead, New
    <2> QED  BY <2>3, <2>6, <2>7
  <1>2. CASE ReadPiece
    <2>1. pc = "fill" /\ UNCHANGED <<job, index>> /\ (job.dryRun \/ shard.st = "open")
      BY <1>2 DEF ReadPiece, Reading, Filling
    <2>2. CASE job.dryRun
      BY <1>2, <2>1, <2>2, PartsFrame DEF ReadPiece, IInv, WriterInv, Dead, Holding
    <2>3. CASE ~job.dryRun
      <3>1. /\ shard.st = "open" /\ shard'.st = "open" /\ pc' \in {"fill", "abort"}
            /\ \A i \in ShardId : i # index => shardPart'[i] = shardPart[i]
        BY <1>0, <1>2, <2>1, <2>3 DEF ReadPiece, WriteOk, WriteFails, IInv, TypeOK
      <3> QED  BY <2>1, <2>3, <3>1 DEF PartsInv, Live, Dead, Holding, New
    <2> QED  BY <2>2, <2>3
  <1>3. CASE EmptyShard
    <2>1. /\ pc = "fill" /\ pc' = "commit" /\ UNCHANGED <<job, index>>
          /\ IF job.dryRun THEN UNCHANGED <<shardPart, shard>>
             ELSE shardPart' = [shardPart EXCEPT ![index] = None] /\ shard' = NoShard
          /\ job.dryRun \/ shard.st = "open"
      BY <1>3 DEF EmptyShard, AfterDrop, ShardEnds, Filling
    <2>2. CASE job.dryRun
      BY <2>1, <2>2, PartsFrame DEF IInv, WriterInv, Dead, Holding
    <2>3. CASE ~job.dryRun
      <3>1. /\ shardPart'[index] = None /\ index \in ShardId
            /\ \A i \in ShardId : i # index => shardPart'[i] = shardPart[i]
        BY <1>0, <2>1, <2>3
      <3> QED  BY <2>1, <2>3, <3>1, NotNew DEF PartsInv, Live, Dead, Holding, New
    <2> QED  BY <2>2, <2>3
  <1>4. CASE Record
    <2>1. /\ pc = "record" /\ UNCHANGED <<job, index, shardPart>> /\ ~Holding
          /\ pc' \in {"abort", "commit", "loop"} /\ Live
      <3>1. Live
        BY <1>4, Lives DEF Record, RecordShard, IInv
      <3> QED  BY <1>4, <3>1 DEF Record, RecordShard, AfterShard, Holding
    <2> QED  BY <2>1 DEF PartsInv, New, Live, Dead
  <1>5. CASE FlushShard
    <2>1. /\ pc = "flush" /\ UNCHANGED <<job, index>> /\ pc' \in {"abort", "unlink", "rename"} /\ Live
          /\ \A i \in ShardId : i # index => shardPart'[i] = shardPart[i]
      <3>1. Live
        BY <1>5, Lives DEF FlushShard, IInv
      <3> QED  BY <1>0, <1>5, <3>1 DEF FlushShard, AfterFlush
    <2>2. shard.st = "open" /\ shard'.st = "closed"
      BY <1>5 DEF FlushShard, IInv, TypeOK
    <2> QED  BY <2>1, <2>2 DEF PartsInv, Live, Dead, Holding, New
  <1>6. CASE RenameShard
    <2>1. /\ pc = "rename" /\ UNCHANGED <<job, index, shard>> /\ Live /\ shard.st = "closed"
      BY <1>6, Lives DEF RenameShard, IInv, WriterInv
    <2>2. CASE pc' = "abort" /\ UNCHANGED shardPart
      BY <2>1, <2>2, PartsFrame DEF Dead, Holding
    <2>3. CASE pc' = "record" /\ shardPart' = [shardPart EXCEPT ![index] = None]
      <3>1. /\ shardPart'[index] = None /\ index \in ShardId
            /\ \A i \in ShardId : i # index => shardPart'[i] = shardPart[i]
        BY <1>0, <2>1, <2>3
      <3> QED  BY <2>1, <2>3, <3>1, NotNew DEF PartsInv, Live, Dead, Holding, New
    <2> QED  BY <1>6, <2>2, <2>3 DEF RenameShard
  <1>7. CASE AbortShard
    <2>1. pc = "abort" /\ pc' = "abortManifest" /\ UNCHANGED <<job, index>>
      BY <1>7 DEF AbortShard
    <2>2. CASE shard.st = "open"
      <3>1. /\ shardPart'[index] = None /\ index \in ShardId /\ shard'.st = "aborted"
            /\ \A i \in ShardId : i # index => shardPart'[i] = shardPart[i]
        BY <1>0, <1>7, <2>2 DEF AbortShard, IInv, TypeOK
      <3> QED  BY <2>1, <3>1, NotNew DEF PartsInv, Live, Dead, New
    <2>3. CASE shard.st # "open"
      BY <1>7, <2>1, <2>3, PartsFrame DEF AbortShard, Dead, Holding
    <2> QED  BY <2>2, <2>3
  <1> QED  BY <1>1, <1>2, <1>3, <1>4, <1>5, <1>6, <1>7

\* Every step keeps both parts.
LEMMA TempsStep == IInv /\ PartsInv /\ ManPartInv /\ [Next]_vars => PartsInv' /\ ManPartInv'
  <1> SUFFICES ASSUME IInv, PartsInv, ManPartInv, [Next]_vars PROVE PartsInv' /\ ManPartInv'
    OBVIOUS
  <1>1. PartsInv'
    BY QuietStep, ShardStep DEF Next, Process, Environment, Ended, Output
  <1>2. ManPartInv'
    <2>1. CASE Start
      BY <2>1, NotNew DEF Start, NewManifestWriter, ManPartInv, New, IInv, ManifestInv
    <2>2. CASE Fails \/ NextShard \/ ReadEOF \/ ReadPiece \/ EmptyShard \/ ShardFilled \/ OpenShard
      BY <2>2 DEF Fails, NextShard, ReadEOF, ReadPiece, EmptyShard, ShardFilled, OpenShard, NewShardWriter,
         WriteOk, WriteFails, AfterShard, disk, ManPartInv, New, IInv, ManifestInv
    <2>3. CASE Record
      BY <2>3 DEF Record, RecordShard, AfterShard, ManPartInv, New, IInv, ManifestInv
    <2>4. CASE FlushShard \/ UnlinkShard \/ RenameShard \/ AbortShard
      BY <2>4 DEF FlushShard, AfterFlush, UnlinkShard, RenameShard, AbortShard, ManPartInv, New
    <2>5. CASE CloseManifest \/ UnlinkManifest \/ RenameManifest \/ AbortManifest
      BY <2>5, NotNew DEF CloseManifest, UnlinkManifest, RenameManifest, AbortManifest, disk, ManPartInv, New
    <2>6. CASE Cancel \/ Crash \/ UNCHANGED vars
      BY <2>6 DEF Cancel, Crash, Terminal, vars, outVars, disk, ManPartInv, New
    <2> QED  BY <2>1, <2>2, <2>3, <2>4, <2>5, <2>6 DEF Next, Process, Environment, Ended, Output
  <1> QED  BY <1>1, <1>2

\* A run that ends other than by a kill leaves no .part of its own, except the one
\* whose Close failed; in particular not that of the empty last shard (binary.go:56-59).
THEOREM Cleanup == Spec => []TempsCleanedUp
  <1>1. Init => PartsInv /\ ManPartInv
    BY NotNew DEF Init, OutInit, PartsInv, ManPartInv, Live, New
  <1>2. IInv /\ PartsInv /\ ManPartInv => TempsCleanedUp
    <2> SUFFICES ASSUME IInv, PartsInv, ManPartInv PROVE TempsCleanedUp
      OBVIOUS
    <2>0. shard.st \in {"none", "open", "closed", "aborted"} /\ man \in {"none", "open", "closed", "aborted"}
      BY DEF IInv, TypeOK
    <2>1. CASE pc = "failed"
      BY <2>0, <2>1 DEF PartsInv, ManPartInv, Holding, TempsCleanedUp
    <2>2. CASE pc = "done"
      <3>1. shard.st = "none" /\ (~job.dryRun => Live)
        BY <2>2 DEF IInv, WriterInv, Closing, Live, Dead
      <3> QED  BY <2>2, <3>1 DEF PartsInv, ManPartInv, Holding, TempsCleanedUp
    <2>3. CASE pc \notin {"failed", "done"}
      BY <2>3 DEF TempsCleanedUp
    <2> QED  BY <2>1, <2>2, <2>3
  <1> QED  BY <1>1, <1>2, Invariance, TempsStep, PTL DEF Spec

------------------------------------------------------------------------------
(* What a step may never do, and the refinement.                             *)

\* Which actions touch the two final names.
LEMMA WhoPublishes ==
  ASSUME [Next]_vars
  PROVE  /\ job' = job
         /\ \/ UNCHANGED <<shardFile, manFile>>
            \/ UnlinkShard /\ UNCHANGED <<manFile, readVars>>
            \/ RenameShard /\ UNCHANGED <<manFile, readVars>>
            \/ UnlinkManifest /\ UNCHANGED <<shardFile, readVars>>
            \/ RenameManifest /\ UNCHANGED <<shardFile, readVars>>
  BY DEF Next, vars, outVars, disk, Process, Environment, Ended, Start, NewManifestWriter,
       Fails, NextShard, OpenShard, NewShardWriter, ReadPiece, ReadEOF, EmptyShard, ShardFilled,
       Record, RecordShard, Output, FlushShard, UnlinkShard, RenameShard, CloseManifest,
       UnlinkManifest, RenameManifest, AbortShard, AbortManifest, Cancel, Crash

\* The .part about to be renamed is a whole file of this run.
LEMMA ClosingPart ==
  ASSUME IInv, pc \in {"unlink", "rename"}
  PROVE  /\ shardPart[index] \in FileState /\ New(shardPart[index]) /\ shardPart[index] # None
         /\ shardPart[index].whole /\ index \in ShardId
  BY ClosingShard, NewFile DEF Carrier

\* The manifest .part about to be renamed lists exactly the published shards.
LEMMA ClosingManifest ==
  ASSUME IInv, pc \in {"unlinkManifest", "renameManifest"}
  PROVE  /\ manPart = result /\ New(manPart) /\ manPart # None /\ Live
         /\ Published = 1 .. Len(manPart)
  <1>1. Live
    BY DEF IInv, WriterInv, Live, Dead
  <1>2. manPart = result /\ result \in Seq(EntryType)
    BY DEF IInv, TypeOK, ManifestInv
  <1> QED  BY <1>1, <1>2, NewManifest DEF IInv, PublishedInv, N

\* Whatever the platform, an output is only ever removed when its complete
\* replacement is on disk under the .part name (fileutil/atomic.go:15-22).
THEOREM ReplacementReady == Spec => VanishesOnlyForReplacement
  <1> DEFINE Ready ==
        /\ \A i \in ShardId : shardFile[i] # None /\ shardFile'[i] = None =>
             New(shardPart[i]) /\ shardPart'[i] = shardPart[i] /\ shardPart[i].whole
        /\ manFile # None /\ manFile' = None =>
             New(manPart) /\ manPart' = manPart /\ Published = 1 .. Len(manPart)
  <1>1. IInv /\ [Next]_vars => [Ready]_outVars
    <2> SUFFICES ASSUME IInv, [Next]_vars PROVE Ready
      OBVIOUS
    <2>0. shardFile \in [ShardId -> FileState \cup {None, Old}]
      BY DEF IInv, TypeOK
    <2>1. CASE UNCHANGED <<shardFile, manFile>>
      BY <2>1
    <2>2. CASE UnlinkShard /\ UNCHANGED manFile
      <3>1. pc = "unlink" /\ shardPart' = shardPart
        BY <2>2 DEF UnlinkShard
      <3>2. \A i \in ShardId : i # index => shardFile'[i] = shardFile[i]
        BY <2>0, <2>2 DEF UnlinkShard
      <3> QED  BY <2>2, <3>1, <3>2, ClosingPart
    <2>3. CASE RenameShard /\ UNCHANGED manFile
      <3>1. shardPart[index] # None /\ index \in ShardId
        BY <2>3, ClosingPart DEF RenameShard
      <3>2. \A i \in ShardId : shardFile'[i] = None => shardFile[i] = None
        BY <2>0, <2>3, <3>1 DEF RenameShard
      <3> QED  BY <2>3, <3>2
    <2>4. CASE UnlinkManifest /\ UNCHANGED shardFile
      BY <2>4, ClosingManifest DEF UnlinkManifest
    <2>5. CASE RenameManifest /\ UNCHANGED shardFile
      <3>1. manPart # None
        BY <2>5, ClosingManifest DEF RenameManifest
      <3> QED  BY <2>5, <3>1 DEF RenameManifest
    <2> QED  BY <2>1, <2>2, <2>3, <2>4, <2>5, WhoPublishes
  <1> QED  BY <1>1, Invariance, PTL DEF Spec, VanishesOnlyForReplacement

Pieces == [i \in Published |-> Content(i)]

\* The shards of the contract are a sequence of slices.
LEMMA PiecesSeq ==
  ASSUME IInv, Live, pc # "record"
  PROVE  /\ N \in Nat /\ Published = 1 .. N
         /\ Pieces \in Seq(Seq(Nat)) /\ Len(Pieces) = N
         /\ \A i \in 1 .. N : /\ Pieces[i] = Slice(At(i - 1), ShardSize(i))
                              /\ At(i - 1) \in Nat /\ ShardSize(i) \in Nat \ {0}
  <1>1. N \in Nat /\ Published = 1 .. N /\ job \in Job
    BY DEF IInv, TypeOK, PublishedInv, N
  <1>2. \A i \in 1 .. N : /\ Pieces[i] = Slice(At(i - 1), ShardSize(i))
                         /\ At(i - 1) \in Nat /\ ShardSize(i) \in Nat \ {0}
    <2> TAKE i \in 1 .. N
    <2>1. Content(i) = Slice(At(i - 1), ShardSize(i)) /\ ShardSize(i) > 0 /\ Pieces[i] = Content(i)
      BY <1>1 DEF IInv, ShardsInv, Pieces
    <2>2. i - 1 \in Nat /\ job.bytes \in Nat /\ job.size \in Nat
      BY <1>1, JobType
    <2>3. At(i - 1) \in Nat
      BY <2>2, AtNext
    <2>4. ShardSize(i) \in Nat \ {0}
      BY <2>1, <2>2, <2>3 DEF ShardSize, Smaller, At
    <2> QED  BY <2>1, <2>3, <2>4
  <1>3. \A i \in 1 .. N : Pieces[i] \in Seq(Nat)
    BY <1>2, SliceType
  <1> QED  BY <1>1, <1>2, <1>3 DEF Pieces

\* What the contract counts as out: the shards before the last one are full.
LEMMA DoneIs ==
  ASSUME IInv, Live, pc # "record"
  PROVE  Contract!Done = IF N = 0 THEN 0 ELSE At(N - 1) + ShardSize(N)
  <1>1. CASE N = 0
    <2>1. Pieces = <<>>
      BY <1>1, PiecesSeq DEF Pieces
    <2> QED  BY <1>1, <2>1 DEF Contract!Done, Pieces
  <1>2. CASE N # 0
    <2>1. /\ N \in 1 .. N /\ Pieces # <<>> /\ Len(Pieces) = N
          /\ Pieces[N] = Slice(At(N - 1), ShardSize(N))
      BY <1>2, PiecesSeq, EmptySeq
    <2>2. PICK a \in Nat : a = At(N - 1)
      BY <2>1, PiecesSeq
    <2>3. PICK n \in Nat \ {0} : n = ShardSize(N)
      BY <2>1, PiecesSeq
    <2>4. Len(Slice(a, n)) = n /\ Slice(a, n)[n] = a + n
      BY SliceType
    <2>5. Contract!Done = Pieces[Len(Pieces)][Len(Pieces[Len(Pieces)])]
      BY <2>1 DEF Contract!Done, Pieces
    <2> QED  BY <1>2, <2>1, <2>2, <2>3, <2>4, <2>5
  <1> QED  BY <1>1, <1>2

\* RenameShard is the contract's Publish: the bytes that appear are the next ones.
LEMMA RenamePublishes ==
  ASSUME IInv, IInv', RenameShard, UNCHANGED <<manFile, readVars>>, pc' = "record"
  PROVE  Contract!Publish
  <1> DEFINE f == shardPart[index]
             n == shard.n
  <1>1. /\ pc = "rename" /\ Live /\ index = N + 1 /\ index \in ShardId /\ N \in Nat
        /\ job \in Job /\ job.bytes \in Nat /\ job.size \in Nat /\ At(N) \in Nat
        /\ n \in Nat /\ n > 0 /\ n <= job.bytes /\ At(N) + n <= job.size
        /\ f \in FileState /\ FlattenSeq(f.rows) = Slice(At(N), n)
        /\ UNCHANGED <<job, result, shard, dry, taken, eof>>
    BY ClosingShard DEF RenameShard, readVars, Carrier
  <1>2. Contract!Done = At(N)
    <2>1. CASE N = 0
      BY <1>1, <2>1, DoneIs, AtNext
    <2>2. CASE N # 0
      <3>1. ShardSize(N) = job.bytes
        BY <1>1, <2>2, FullShard
      <3>2. N - 1 \in Nat /\ (N - 1) + 1 = N
        BY <1>1, <2>2
      <3>3. At(N) = At(N - 1) + job.bytes
        BY <1>1, <3>2, AtNext
      <3> QED  BY <1>1, <2>2, <3>1, <3>3, DoneIs
    <2> QED  BY <2>1, <2>2
  <1>3. n \in 1 .. (job.size - Contract!Done) /\ job.bytes > 0
    BY <1>1, <1>2
  <1>4. FlattenSeq(f.rows) = [k \in 1 .. n |-> Contract!Done + k]
    BY <1>1, <1>2 DEF Slice
  <1>5. Pieces' = Append(Pieces, FlattenSeq(f.rows))
    <2>0. PICK x \in Seq(Nat) : x = FlattenSeq(f.rows)
      <3>1. Slice(At(N), n) \in Seq(Nat)
        BY <1>1, SliceType
      <3> QED  BY <1>1, <3>1
    <2>1. /\ N \in Nat /\ Published = 1 .. N
          /\ Pieces \in Seq(Seq(Nat)) /\ Len(Pieces) = N
      BY <1>1, PiecesSeq
    <2>2. Published' = 1 .. N + 1
      BY <1>1 DEF IInv, PublishedInv, Live, Dead, N
    <2>3. shardFile' = [shardFile EXCEPT ![index] = f] /\ shardFile \in [ShardId -> FileState \cup {None, Old}]
      BY <1>1 DEF RenameShard, IInv, TypeOK
    <2>4. /\ \A i \in 1 .. N : shardFile'[i] = shardFile[i]
          /\ shardFile'[N + 1] = f
      <3>1. \A i \in 1 .. N : i \in ShardId /\ i # index
        <4>1. \A i \in Published : i \in ShardId
          BY DEF Published
        <4>2. index = N + 1
          BY <1>1
        <4> QED  BY <2>1, <4>1, <4>2
      <3> QED  BY <1>1, <2>1, <2>3, <3>1
    <2>5. /\ Append(Pieces, x) \in Seq(Seq(Nat))
          /\ Len(Append(Pieces, x)) = N + 1
          /\ \A i \in 1 .. N : Append(Pieces, x)[i] = Pieces[i]
          /\ Append(Pieces, x)[N + 1] = x
      BY <2>1, AppendProperties
    <2>6. Append(Pieces, x) = [i \in 1 .. N + 1 |-> Append(Pieces, x)[i]]
      BY <2>5, LenProperties
    <2>7. \A i \in 1 .. N : Content(i)' = Pieces[i]
      BY <2>1, <2>4 DEF Content, Pieces
    <2>9. \A i \in 1 .. N + 1 : Content(i)' = Append(Pieces, x)[i]
      <3>1. \A i \in 1 .. N + 1 : i \in 1 .. N \/ i = N + 1
        BY <2>1
      <3>2. \A i : i = N + 1 => Content(i)' = x
        BY <2>0, <2>4 DEF Content
      <3> QED  BY <2>5, <2>7, <3>1, <3>2
    <2>10. Pieces' = [i \in 1 .. N + 1 |-> Content(i)']
      BY <2>2 DEF Pieces
    <2> QED  BY <2>0, <2>6, <2>9, <2>10
  <1>6. ~New(manFile) /\ UNCHANGED New(manFile)
    BY <1>1 DEF IInv, ManifestInv, New
  <1> QED  BY <1>1, <1>3, <1>4, <1>5, <1>6 DEF Contract!Publish, Pieces

\* RenameManifest is the contract's List: it happens when every byte is out.
LEMMA RenameLists ==
  ASSUME IInv, RenameManifest, UNCHANGED <<shardFile, readVars>>, pc' = "done"
  PROVE  Contract!List
  <1>1. /\ pc = "renameManifest" /\ Live /\ taken <= At(N) /\ (job.bytes > 0 => taken = job.size)
        /\ manFile' = manPart /\ New(manPart) /\ ~New(manFile) /\ UNCHANGED job
        /\ job \in Job /\ job.bytes \in Nat /\ job.size \in Nat /\ N \in Nat
    BY ClosingManifest, JobType
    DEF IInv, TypeOK, WriterInv, PlaceInv, Closing, ManifestInv, RenameManifest, N
  <1>2. Contract!Done >= IF job.bytes > 0 THEN job.size ELSE 0
    <2>1. CASE N = 0
      <3>1. At(N) = 0 /\ Contract!Done = 0
        BY <1>1, <2>1, AtNext, DoneIs
      <3> QED  BY <1>1, <3>1
    <2>2. CASE N # 0
      <3>1. /\ Contract!Done = At(N - 1) + ShardSize(N)
            /\ At(N - 1) \in Nat /\ ShardSize(N) \in Nat \ {0}
        BY <1>1, <2>2, DoneIs, PiecesSeq
      <3>2. job.bytes > 0 => At(N - 1) + ShardSize(N) = job.size
        BY <1>1, <2>2, <3>1, LastShard
      <3> QED  BY <1>1, <3>1, <3>2
    <2> QED  BY <2>1, <2>2
  <1>3. UNCHANGED Pieces /\ New(manFile')
    BY <1>1 DEF Pieces, Published, Content
  <1> QED  BY <1>1, <1>2, <1>3 DEF Contract!List, Pieces

\* A binary split implements SplitContract: every step of the program publishes the
\* next run of bytes, publishes the manifest when all are out, or changes nothing
\* the contract sees.
THEOREM Refinement == Spec => ImplementsContract
  <1>1. Init => Contract!Init
    <2> SUFFICES ASSUME Init PROVE Contract!Init
      OBVIOUS
    <2>1. Published = {} /\ ~New(manFile)
      BY DEF Init, OutInit, Published, New
    <2> QED  BY <2>1 DEF Contract!Init
  <1>2. IInv /\ IInv' /\ [Next]_vars => [Contract!Next]_(Contract!vars)
    <2> SUFFICES ASSUME IInv, IInv', [Next]_vars PROVE [Contract!Next]_(Contract!vars)
      OBVIOUS
    <2>1. UNCHANGED job
      BY WhoPublishes
    <2>2. ASSUME UNCHANGED <<Pieces, New(manFile)>> PROVE [Contract!Next]_(Contract!vars)
      BY <2>1, <2>2 DEF Contract!vars, Pieces
    <2>3. CASE UNCHANGED <<shardFile, manFile>>
      BY <2>2, <2>3 DEF Pieces, Published, New, Content
    <2>4. CASE UnlinkShard /\ UNCHANGED <<manFile, readVars>>
      <3>1. Live /\ pc = "unlink" /\ index = N + 1
        BY <2>4, ClosingShard DEF UnlinkShard
      <3>2. N \in Nat /\ Published = 1 .. N
        BY <3>1, PiecesSeq
      <3>3. /\ shardFile \in [ShardId -> FileState \cup {None, Old}]
            /\ index \notin Published
        BY <3>1, <3>2 DEF IInv, TypeOK
      <3>4. /\ \A i \in ShardId : i # index => shardFile'[i] = shardFile[i]
            /\ index \in ShardId => shardFile'[index] \in {None, shardFile[index]}
        BY <2>4, <3>3 DEF UnlinkShard
      <3>5. Published' = Published
        BY <3>3, <3>4 DEF Published, New
      <3>6. \A i \in Published : Content(i)' = Content(i)
        BY <3>3, <3>4 DEF Published, Content
      <3> QED  BY <2>2, <2>4, <3>5, <3>6 DEF Pieces, New
    <2>5. CASE RenameShard /\ UNCHANGED <<manFile, readVars>>
      <3>1. CASE pc' = "record"
        BY <2>5, <3>1, RenamePublishes DEF Contract!Next
      <3>2. CASE pc' # "record"
        <4>1. UNCHANGED shardFile
          BY <2>5, <3>2 DEF RenameShard
        <4> QED  BY <2>2, <2>5, <4>1 DEF Pieces, Published, New, Content
      <3> QED  BY <3>1, <3>2
    <2>6. CASE UnlinkManifest /\ UNCHANGED <<shardFile, readVars>>
      <3>1. ~New(manFile) /\ manFile' \in {None, manFile}
        BY <2>6 DEF IInv, ManifestInv, UnlinkManifest
      <3> QED  BY <2>2, <2>6, <3>1 DEF Pieces, Published, New, Content
    <2>7. CASE RenameManifest /\ UNCHANGED <<shardFile, readVars>>
      <3>1. CASE pc' = "done"
        BY <2>7, <3>1, RenameLists DEF Contract!Next
      <3>2. CASE pc' # "done"
        BY <2>2, <2>7, <3>2 DEF RenameManifest, Pieces, Published, New, Content
      <3> QED  BY <3>1, <3>2
    <2> QED  BY <2>3, <2>4, <2>5, <2>6, <2>7, WhoPublishes
  <1> QED  BY <1>1, <1>2, Invariance, PTL DEF Spec, ImplementsContract, Contract!Spec
==============================================================================
