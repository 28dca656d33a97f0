--------------------------- MODULE Download_proofs ---------------------------
(***************************************************************************)
(* Theorems about Download, for objects and ranges of any size, any number *)
(* of workers, every replacement of the object, and every order of         *)
(* requests, failures, a signal and a kill.                                *)
(*                                                                         *)
(* FilledInv says of each worker what it has put into the file; once all   *)
(* are back without an error, Covered makes the whole content of it.       *)
(* ReadyInv is what is known from then on of the .part, PlaceInv which     *)
(* file is under which name, and SlotInv how many requests are in flight.  *)
(***************************************************************************)
EXTENDS Download, FiniteSetTheorems, TLAPS

Fetching == {"fetch", "ranges", "stream"}
Publishing == {"close", "verify", "remove", "rename"}

WorkerState == [st : {"starting", "reading", "ok", "error"}, from : Nat, pos : Nat]

Shapes ==
  /\ pc \in Terminal \cup {"stat", "check", "open", "cleanup"} \cup Fetching \cup Publishing
  /\ opt \in Opt
  /\ version \in 1 .. Len(opt.versions)
  /\ meta \in 0 .. version
  /\ size \in {0} \cup {opt.versions[v] : v \in 1 .. version}
  /\ worker \in Seq(WorkerState)
  /\ {cancelled, failed} \subseteq BOOLEAN

\* Which file is where.
PlaceInv ==
  /\ pc \in {"stat", "check", "open"} => part \in {None, Old}
  /\ pc \in Fetching \cup Publishing => part \in FileState
  /\ New(part) => part \in FileState
  /\ pc = "failed" => ~New(part)
  /\ pc = "done" => part = None
  /\ New(dest) => pc = "done" /\ dest \in FileState /\ Faithful(dest)
  /\ pc \in {"open", "cleanup"} \cup Fetching \cup Publishing => (dest = Old => opt.overwrite)
  /\ pc = "remove" => opt.overwrite

\* What the workers are.
SlotInv ==
  /\ pc \in {"stat", "check", "open", "fetch"} => worker = <<>> /\ size = 0 /\ failed = FALSE
  /\ pc \in {"ranges", "stream"} => (Ranged <=> pc = "ranges")
  /\ Len(worker) <= IF Ranged THEN Blocks ELSE 1
  /\ pc = "stream" => Len(worker) = 1
  /\ pc \notin {"ranges", "stream", "crashed"} => \A b \in DOMAIN worker : ~Running(b)
  /\ Cardinality(RunningSet) <= opt.workers

\* What each worker has read, and of what; an error is remembered.
WorkersInv ==
  \A b \in DOMAIN worker :
    /\ worker[b].from <= version
    /\ worker[b].st = "starting" => worker[b].from = 0 /\ Ranged
    /\ worker[b].from = 0 => worker[b].pos = 0
    /\ worker[b].st \in {"reading", "ok"} => worker[b].from > 0
    /\ worker[b].from > 0 => worker[b].pos <= Length(b)
    /\ worker[b].st = "ok" => worker[b].pos = Length(b)
    /\ worker[b].st = "error" => failed

\* What the file holds while it is being filled.
FilledInv ==
  /\ pc = "fetch" => part = Fresh
  /\ pc = "ranges" =>
       /\ part.whole = TRUE
       /\ Len(part.bytes) = size
       /\ version = 1 => /\ size = opt.versions[1]
                         /\ \A b \in DOMAIN worker : \A k \in 1 .. worker[b].pos :
                              part.bytes[Offset(b) + k] = <<1, Offset(b) + k>>
  /\ pc = "stream" =>
       /\ opt.compress \/ part.whole = TRUE
       /\ worker[1].from > 0
       /\ part.bytes = [k \in 1 .. worker[1].pos |-> <<worker[1].from, k>>]
  /\ New(part) /\ Ranged => Len(part.bytes) <= size
  /\ New(dest) /\ Ranged => Len(dest.bytes) <= size

\* What is known of the .part after the fetch, and what verification adds.
Summed == opt.verify /\ opt.summed
ReadyInv ==
  /\ pc \in Publishing =>
       /\ part.whole = TRUE
       /\ version = 1 => part.bytes = Content(1)
       /\ opt.compress /\ Summed => part.bytes = Content(meta)
       /\ ~Ranged => \E v \in 1 .. version : part.bytes = Content(v)
  /\ pc \in {"remove", "rename"} => Faithful(part)

IInv == Shapes /\ PlaceInv /\ SlotInv /\ WorkersInv /\ FilledInv /\ ReadyInv

USE DEF Terminal, Fetching, Publishing

\* One byte more of a version.
LEMMA AppendNext ==
  ASSUME NEW v, NEW n \in Nat
  PROVE  Append([k \in 1 .. n |-> <<v, k>>], <<v, n + 1>>) = [k \in 1 .. n + 1 |-> <<v, k>>]
OBVIOUS

\* The lesser of a block, a and c is at most a.
LEMMA LesserOfThree ==
  ASSUME NEW a \in Int, NEW c \in Int
  PROVE  Lesser(Lesser(Block, a), c) \in Int /\ Lesser(Lesser(Block, a), c) <= a
  BY BlockAssumption DEF Lesser

\* One byte overwritten, a sequence is still one of bytes.
LEMMA Overwritten ==
  ASSUME NEW S, NEW s \in Seq(S), NEW i \in 1 .. Len(s), NEW e \in S
  PROVE  [s EXCEPT ![i] = e] \in Seq(S)
OBVIOUS

\* A sequence is the function that it is.
LEMMA AsFunction ==
  ASSUME NEW S, NEW s \in Seq(S)
  PROVE  s = [i \in 1 .. Len(s) |-> s[i]]
OBVIOUS

------------------------------------------------------------------------------
(* Blocks.                                                                   *)

\* More blocks end no earlier.
LEMMA Monotone == ASSUME NEW a \in Nat, NEW b \in Nat, a <= b
                  PROVE  a * Block <= b * Block
  BY BlockAssumption

\* A position lies in the block that division gives.
LEMMA Division ==
  ASSUME NEW a \in Nat
  PROVE  /\ a \div Block \in Nat
         /\ (a \div Block) * Block <= a /\ a < (a \div Block) * Block + Block
  BY BlockAssumption

\* A size makes a number of blocks.
LEMMA CeilingNat ==
  ASSUME NEW a \in Nat
  PROVE  (a + Block - 1) \div Block \in Nat
<1>1. a + Block - 1 \in Nat
  BY BlockAssumption
<1>. QED
  BY <1>1, Division

\* The number of blocks is a number.
LEMMA BlocksNat == ASSUME size \in Nat PROVE Blocks \in Nat
<1>1. size + Block - 1 \in Nat
  BY BlockAssumption
<1>. QED
  BY <1>1, Division DEF Blocks

\* Every block begins within the object.
LEMMA BeginsWithin ==
  ASSUME size \in Nat, NEW b \in 1 .. Blocks
  PROVE  (b - 1) * Block \in Nat /\ (b - 1) * Block < size
<1>1. size + Block - 1 \in Nat
  BY BlockAssumption
<1>2. Blocks \in Nat /\ Blocks * Block <= size + Block - 1
  BY <1>1, Division DEF Blocks
<1>3. b * Block <= Blocks * Block
  BY <1>2, Monotone
<1>4. (b - 1) * Block = b * Block - Block
  BY BlockAssumption
<1>5. b * Block \in Nat /\ b * Block >= Block
  BY BlockAssumption
<1>. QED
  BY <1>1, <1>2, <1>3, <1>4, <1>5, BlockAssumption

\* Every byte is in a block.
LEMMA Covered ==
  ASSUME size \in Nat, NEW i \in 1 .. size
  PROVE  \E b \in 1 .. Blocks : (b - 1) * Block < i /\ i <= (b - 1) * Block + Block
<1>. DEFINE q == (i - 1) \div Block
<1>1. q \in Nat /\ q * Block <= i - 1 /\ i - 1 < q * Block + Block
  BY Division
<1>2. size + Block - 1 \in Nat
  BY BlockAssumption
<1>3. Blocks \in Nat /\ size + Block - 1 < Blocks * Block + Block
  BY <1>2, Division DEF Blocks
<1>. HIDE DEF q
<1>4. q < Blocks
  <2>. SUFFICES ASSUME Blocks <= q PROVE FALSE
    BY <1>1, <1>3
  <2>1. Blocks * Block <= q * Block
    BY <1>1, <1>3, Monotone
  <2>2. q * Block \in Nat /\ Blocks * Block \in Nat
    BY <1>1, <1>3, BlockAssumption
  <2>. QED
    BY <1>1, <1>3, <2>1, <2>2, BlockAssumption
<1>5. q + 1 \in 1 .. Blocks /\ (q + 1) - 1 = q
  BY <1>1, <1>3, <1>4
<1>6. q * Block < i /\ i <= q * Block + Block
  <2>1. q * Block \in Nat
    BY <1>1, BlockAssumption
  <2>. QED
    BY <1>1, <2>1, BlockAssumption
<1>. QED
  BY <1>5, <1>6

------------------------------------------------------------------------------
(* The state.                                                                *)

\* The types of what the variables are made of.
LEMMA Basics ==
  ASSUME Shapes
  PROVE  /\ opt.versions \in Seq(Nat) /\ Len(opt.versions) \in Nat
         /\ \A v \in 1 .. Len(opt.versions) : opt.versions[v] \in Nat
         /\ version \in Nat /\ version >= 1 /\ version <= Len(opt.versions) /\ meta \in Nat
         /\ size \in Nat /\ opt.workers \in Nat /\ opt.workers >= 1
         /\ Len(worker) \in Nat /\ DOMAIN worker = 1 .. Len(worker)
         /\ \A b \in DOMAIN worker : /\ worker[b] \in WorkerState
                                     /\ worker[b].st \in {"starting", "reading", "ok", "error"}
                                     /\ worker[b].from \in Nat /\ worker[b].pos \in Nat
<1>1. opt \in Opt /\ version \in 1 .. Len(opt.versions)
  BY DEF Shapes
<1>2. /\ opt.versions \in Seq(Nat) /\ Len(opt.versions) \in Nat
      /\ \A v \in 1 .. Len(opt.versions) : opt.versions[v] \in Nat
      /\ opt.workers \in Nat /\ opt.workers >= 1
  BY <1>1, OptAssumption
<1>3. size \in Nat /\ meta \in Nat /\ version \in Nat /\ version >= 1 /\ version <= Len(opt.versions)
  BY <1>1, <1>2 DEF Shapes
<1>4. /\ Len(worker) \in Nat /\ DOMAIN worker = 1 .. Len(worker)
      /\ \A b \in DOMAIN worker : worker[b] \in WorkerState
  BY DEF Shapes
<1>5. \A w \in WorkerState : /\ w.st \in {"starting", "reading", "ok", "error"}
                            /\ w.from \in Nat /\ w.pos \in Nat
  BY DEF WorkerState
<1>. QED
  BY <1>2, <1>3, <1>4, <1>5

\* A version there has been has a size.
LEMMA VersionNat ==
  ASSUME Shapes, NEW v \in Nat, v > 0, v <= version
  PROVE  opt.versions[v] \in Nat
<1>1. Len(opt.versions) \in Nat /\ version \in Nat /\ version <= Len(opt.versions)
  BY Basics
<1>2. v \in 1 .. Len(opt.versions)
  BY <1>1
<1>. QED
  BY <1>2, Basics

\* What depends on the workers and the size alone.
LEMMA Frame ==
  ASSUME UNCHANGED <<opt, size, worker>>
  PROVE  /\ (Ranged' <=> Ranged) /\ Blocks' = Blocks /\ RunningSet' = RunningSet
         /\ (Summed' <=> Summed)
         /\ \A b : (Running(b)' <=> Running(b)) /\ Offset(b)' = Offset(b) /\ Length(b)' = Length(b)
         /\ \A v : Content(v)' = Content(v)
  BY DEF Ranged, Blocks, RunningSet, Running, Offset, Length, Content, Summed

\* A replacement of the object takes nothing away from a file.
LEMMA FaithfulStays ==
  ASSUME Shapes, version' \in {version, version + 1}, opt' = opt, meta' = meta,
         NEW f, Faithful(f)
  PROVE  Faithful(f)'
<1>1. version \in Nat /\ version >= 1
  BY Basics
<1>2. \A v : Content(v)' = Content(v)
  BY DEF Content
<1>3. version' = 1 => version = 1
  BY <1>1
<1>4. \A v \in 1 .. version : v \in 1 .. version'
  BY <1>1
<1>. QED
  BY <1>2, <1>3, <1>4 DEF Faithful, Ranged

\* IInv holds at first.
LEMMA InitInv == Init => IInv
<1>. SUFFICES ASSUME Init PROVE IInv
  OBVIOUS
<1>1. opt.versions \in Seq(Nat) /\ opt.versions # <<>> /\ opt.workers \in Nat /\ opt.workers >= 1
  BY OptAssumption DEF Init
<1>2. 1 \in 1 .. Len(opt.versions)
  BY <1>1
<1>b. {cancelled, failed} \subseteq BOOLEAN
  BY Zenon DEF Init
<1>3. Shapes
  BY <1>2, <1>b DEF Init, Shapes
<1>4. PlaceInv
  BY DEF Init, PlaceInv, New
<1>5. RunningSet = {}
  BY DEF Init, RunningSet
<1>6. Blocks \in Nat
  BY BlocksNat DEF Init
<1>7. SlotInv
  <2>1. Cardinality(RunningSet) = 0
    BY <1>5, FS_EmptySet
  <2>2. Len(worker) = 0 /\ \A b \in DOMAIN worker : FALSE
    BY DEF Init
  <2>. QED
    BY <1>1, <1>6, <2>1, <2>2 DEF Init, SlotInv
<1>8. WorkersInv /\ FilledInv /\ ReadyInv
  BY DEF Init, WorkersInv, FilledInv, ReadyInv, New
<1>. QED
  BY <1>3, <1>4, <1>7, <1>8 DEF IInv

------------------------------------------------------------------------------
(* Steps that touch neither the workers nor the .part.                       *)

\* When all requests have been answered, all of the object is there.
LEMMA FetchedWhole ==
  ASSUME IInv, pc = "ranges", AllBack, ~failed, version = 1
  PROVE  part.bytes = Content(1)
<1>. USE DEF IInv
<1>1. /\ size \in Nat /\ size = opt.versions[1] /\ Len(part.bytes) = size
      /\ part.bytes \in Seq(Byte) /\ Ranged
  BY Basics DEF FilledInv, PlaceInv, SlotInv, FileState
<1>2. DOMAIN worker = 1 .. Blocks
  BY Basics DEF AllBack
<1>3. ASSUME NEW i \in 1 .. size
      PROVE  part.bytes[i] = <<1, i>>
  <2>1. PICK b \in 1 .. Blocks : (b - 1) * Block < i /\ i <= (b - 1) * Block + Block
    BY <1>1, <1>3, Covered
  <2>2. (b - 1) * Block \in Nat /\ Offset(b) = (b - 1) * Block
    BY <1>1, <2>1, BeginsWithin DEF Offset
  <2>3. b \in DOMAIN worker /\ worker[b].st = "ok" /\ worker[b].from = 1
    <3>1. b \in DOMAIN worker /\ ~Running(b)
      BY <1>2 DEF AllBack, RunningSet
    <3>2. worker[b].st = "ok"
      BY <3>1, Basics DEF WorkersInv, Running
    <3>3. worker[b].from \in Nat /\ worker[b].from > 0 /\ worker[b].from <= 1
      BY <3>1, <3>2, Basics DEF WorkersInv
    <3>. QED
      BY <3>1, <3>2, <3>3
  <2>4. worker[b].pos = Length(b)
    BY <2>3 DEF WorkersInv
  <2>5. Length(b) = Lesser(Lesser(Block, size - Offset(b)), size - Offset(b))
    BY <1>1, <2>3 DEF Length
  <2>6. i - Offset(b) \in 1 .. Length(b)
    BY <1>1, <1>3, <2>1, <2>2, <2>5, BlockAssumption DEF Lesser
  <2>7. part.bytes[Offset(b) + (i - Offset(b))] = <<1, Offset(b) + (i - Offset(b))>>
    BY <2>3, <2>4, <2>6 DEF FilledInv
  <2>8. Offset(b) + (i - Offset(b)) = i
    BY <2>2
  <2>. QED
    BY <2>7, <2>8
<1>4. part.bytes = [i \in 1 .. Len(part.bytes) |-> part.bytes[i]]
  BY <1>1, AsFunction
<1>. QED
  BY <1>1, <1>3, <1>4 DEF Content

\* Wait, which joins the workers, keeps IInv.
LEMMA WaitStep == ASSUME IInv, Wait PROVE IInv'
<1>. USE DEF IInv
<1>0. /\ UNCHANGED <<opt, cancelled, version, meta, size, worker, failed, dest, part>>
      /\ pc = "ranges" /\ pc' = (IF failed THEN "cleanup" ELSE "close") /\ AllBack
  BY DEF Wait
<1>1. Shapes'
  BY <1>0 DEF Shapes
<1>2. PlaceInv'
  BY <1>0 DEF PlaceInv, New
<1>3. SlotInv'
  BY <1>0, Frame DEF SlotInv, AllBack, RunningSet
<1>4. WorkersInv'
  BY <1>0, Frame DEF WorkersInv
<1>5. FilledInv'
  BY <1>0, Frame DEF FilledInv, New
<1>6. ReadyInv'
  <2>1. part.whole = TRUE /\ Ranged
    BY <1>0 DEF FilledInv, SlotInv
  <2>2. ~failed /\ version = 1 => part.bytes = Content(1)
    BY <1>0, FetchedWhole
  <2>3. ~opt.compress
    BY <2>1 DEF Ranged
  <2>. QED
    BY <1>0, <2>1, <2>2, <2>3, Frame DEF ReadyInv
<1>. QED
  BY <1>1, <1>2, <1>3, <1>4, <1>5, <1>6

\* The steps before and after the fetch.
LEMMA MainStep ==
  ASSUME IInv, Stat \/ Check \/ Close \/ Verify \/ RemoveDest
  PROVE  IInv'
<1>. USE DEF IInv
<1>0. /\ UNCHANGED <<opt, cancelled, version, size, worker, failed, part>>
      /\ pc \in {"stat", "check", "close", "verify", "remove"}
      /\ pc' \in {"check", "open", "failed", "verify", "cleanup", "remove", "rename"}
  BY DEF Stat, Check, Close, Verify, RemoveDest
<1>1. Shapes'
  BY <1>0 DEF Shapes, Stat, Check, Close, Verify, RemoveDest
<1>2. PlaceInv'
  <2>1. CASE Stat
    BY <1>0, <2>1 DEF PlaceInv, Stat, New, NamesAssumption
  <2>2. CASE Check
    BY <1>0, <2>2, NamesAssumption DEF PlaceInv, Check, Taken, New
  <2>3. CASE Close
    BY <1>0, <2>3 DEF PlaceInv, Close, New
  <2>4. CASE Verify
    BY <1>0, <2>4 DEF PlaceInv, Verify, New
  <2>5. CASE RemoveDest
    BY <1>0, <2>5, NamesAssumption DEF PlaceInv, RemoveDest, New
  <2>. QED
    BY <2>1, <2>2, <2>3, <2>4, <2>5
<1>3. SlotInv'
  BY <1>0, Frame DEF SlotInv, Stat, Check, Close, Verify, RemoveDest
<1>4. WorkersInv'
  BY <1>0, Frame DEF WorkersInv
<1>5. FilledInv'
  BY <1>0, Frame DEF FilledInv, New, Stat, Check, Close, Verify, RemoveDest
<1>6. ReadyInv'
  <2>1. CASE Stat \/ Check
    BY <1>0, <2>1 DEF ReadyInv, Stat, Check
  <2>2. CASE Close
    BY <1>0, <2>2, Frame DEF ReadyInv, Close
  <2>3. CASE Verify
    <3>1. CASE pc' = "cleanup"
      BY <1>0, <3>1 DEF ReadyInv
    <3>2. CASE pc' # "cleanup"
      <4>1. Sound /\ meta' = meta /\ pc = "verify"
        BY <2>3, <3>2 DEF Verify
      <4>2. Faithful(part)
        BY <4>1 DEF ReadyInv, Faithful, Sound, Summed
      <4>3. Faithful(part)'
        BY <1>0, <4>1, <4>2, FaithfulStays
      <4>. QED
        BY <1>0, <4>1, <4>3, Frame DEF ReadyInv
    <3>. QED
      BY <3>1, <3>2
  <2>4. CASE RemoveDest
    <3>1. Faithful(part)'
      BY <1>0, <2>4, FaithfulStays DEF ReadyInv, RemoveDest
    <3>. QED
      BY <1>0, <2>4, <3>1, Frame DEF ReadyInv, RemoveDest
  <2>. QED
    BY <2>1, <2>2, <2>3, <2>4
<1>. QED
  BY <1>1, <1>2, <1>3, <1>4, <1>5, <1>6
------------------------------------------------------------------------------
(* The world.                                                                *)

\* A signal, a kill, another process at the destination, and stuttering.
LEMMA WorldStep ==
  ASSUME IInv, Cancel \/ Crash \/ Appear \/ UNCHANGED vars
  PROVE  IInv'
<1>. USE DEF IInv
<1>0. /\ UNCHANGED <<opt, version, meta, size, worker, failed, part>>
      /\ pc' = pc \/ (pc \notin Terminal /\ pc' = "crashed")
      /\ dest' = dest \/ (pc \notin Terminal /\ pc' = pc /\ dest = None /\ dest' = Foreign)
  BY DEF Cancel, Crash, Appear, vars
<1>1. Shapes'
  <2>1. {cancelled', failed'} \subseteq BOOLEAN
    BY Zenon DEF Shapes, Cancel, Crash, Appear, vars
  <2>. QED
    BY <1>0, <2>1 DEF Shapes
<1>2. PlaceInv'
  <2>1. ASSUME NEW f, Faithful(f) PROVE Faithful(f)'
    BY <1>0, <2>1, FaithfulStays
  <2>. QED
    BY <1>0, <2>1, NamesAssumption DEF PlaceInv, New
<1>3. SlotInv'
  BY <1>0, Frame DEF SlotInv
<1>4. WorkersInv'
  BY <1>0, Frame DEF WorkersInv
<1>5. FilledInv'
  BY <1>0, Frame DEF FilledInv, New, Fresh
<1>6. ReadyInv'
  <2>1. Faithful(part) => Faithful(part)'
    BY <1>0, FaithfulStays
  <2>. QED
    BY <1>0, <2>1, Frame DEF ReadyInv
<1>. QED
  BY <1>1, <1>2, <1>3, <1>4, <1>5, <1>6

\* Another version of the object.
LEMMA ReplaceStep == ASSUME IInv, Replace PROVE IInv'
<1>. USE DEF IInv
<1>0. /\ UNCHANGED <<pc, opt, cancelled, meta, size, worker, failed, dest, part>>
      /\ pc \notin Terminal /\ version' = version + 1 /\ version < Len(opt.versions)
  BY DEF Replace
<1>b. /\ version \in Nat /\ version >= 1 /\ Len(opt.versions) \in Nat /\ meta \in Nat
      /\ \A b \in DOMAIN worker : worker[b].from \in Nat
  BY Basics
<1>1. Shapes'
  <2>1. version' \in 1 .. Len(opt.versions) /\ meta \in 0 .. version'
    BY <1>0, <1>b DEF Shapes
  <2>2. 1 .. version \subseteq 1 .. version'
    BY <1>0, <1>b
  <2>3. size \in {0} \cup {opt.versions[v] : v \in 1 .. version'}
    BY <2>2 DEF Shapes
  <2>. QED
    BY <1>0, <2>1, <2>3 DEF Shapes
<1>2. PlaceInv'
  BY <1>0 DEF PlaceInv, New
<1>3. SlotInv'
  BY <1>0, Frame DEF SlotInv
<1>4. WorkersInv'
  BY <1>0, <1>b, Frame DEF WorkersInv
<1>5. FilledInv'
  BY <1>0, <1>b, Frame DEF FilledInv, New, Fresh
<1>6. ReadyInv'
  <2>1. Faithful(part) => Faithful(part)'
    BY <1>0, FaithfulStays
  <2>2. version' # 1 /\ 1 .. version \subseteq 1 .. version'
    BY <1>0, <1>b
  <2>. QED
    BY <1>0, <2>1, <2>2, Frame DEF ReadyInv
<1>. QED
  BY <1>1, <1>2, <1>3, <1>4, <1>5, <1>6

------------------------------------------------------------------------------
(* The life of the .part.                                                    *)

\* Opening the .part keeps IInv.
LEMMA OpenPartStep == ASSUME IInv, OpenPart PROVE IInv'
<1>. USE DEF IInv
<1>0. /\ UNCHANGED <<opt, cancelled, version, meta, size, worker, failed, dest>>
      /\ pc = "open"
      /\ (part' = Fresh /\ pc' = "fetch") \/ (part' \in {part, None} /\ pc' = "failed")
  BY DEF OpenPart
<1>f. Fresh \in FileState
  <2>1. <<>> \in Seq(Byte)
    OBVIOUS
  <2>2. (~opt.compress) \in BOOLEAN
    BY Zenon
  <2>. QED
    BY <2>1, <2>2, Zenon DEF Fresh, FileState
<1>1. Shapes'
  BY <1>0 DEF Shapes
<1>2. PlaceInv'
  BY <1>0, <1>f DEF PlaceInv, New
<1>3. SlotInv'
  BY <1>0, Frame DEF SlotInv
<1>4. WorkersInv'
  BY <1>0, Frame DEF WorkersInv
<1>5. FilledInv'
  <2>1. Fresh' = Fresh /\ Fresh.bytes = <<>> /\ Len(Fresh.bytes) = 0
    BY <1>0 DEF Fresh
  <2>2. size = 0
    BY <1>0 DEF SlotInv
  <2>. QED
    BY <1>0, <2>1, <2>2, Frame DEF FilledInv, New, PlaceInv
<1>6. ReadyInv'
  BY <1>0 DEF ReadyInv
<1>. QED
  BY <1>1, <1>2, <1>3, <1>4, <1>5, <1>6

\* The end of the single stream keeps IInv.
LEMMA StreamEndsStep == ASSUME IInv, StreamEnds PROVE IInv'
<1>. USE DEF IInv
<1>0. /\ UNCHANGED <<opt, cancelled, version, meta, size, worker, failed, dest>>
      /\ pc = "stream" /\ ~Running(1)
      /\ \/ /\ ~failed /\ (opt.compress => SumOf(worker[1].from))
            /\ part' = [part EXCEPT !.whole = TRUE] /\ pc' = "close"
         \/ pc' = "cleanup" /\ part' = part
  BY DEF StreamEnds
<1>b. /\ part \in FileState /\ ~Ranged /\ DOMAIN worker = {1}
      /\ part.bytes = [k \in 1 .. worker[1].pos |-> <<worker[1].from, k>>]
  BY <1>0, Basics DEF PlaceInv, SlotInv, FilledInv
<1>f. part' \in FileState /\ part'.bytes = part.bytes
  BY <1>0, <1>b DEF FileState
<1>1. Shapes'
  BY <1>0 DEF Shapes
<1>2. PlaceInv'
  BY <1>0, <1>f DEF PlaceInv, New
<1>3. SlotInv'
  <2>1. \A b \in DOMAIN worker : ~Running(b)
    BY <1>0, <1>b
  <2>. QED
    BY <1>0, <2>1, Frame DEF SlotInv
<1>4. WorkersInv'
  BY <1>0, Frame DEF WorkersInv
<1>5. FilledInv'
  BY <1>0, <1>b, <1>f, Frame DEF FilledInv, New
<1>6. ReadyInv'
  <2>1. CASE pc' = "cleanup"
    BY <2>1 DEF ReadyInv
  <2>2. CASE pc' = "close"
    <3>1. worker[1].st = "ok"
      BY <1>0, <1>b, <2>2, Basics DEF WorkersInv, Running
    <3>2. /\ worker[1].from \in 1 .. version /\ version \in Nat
          /\ worker[1].pos = Length(1)
      BY <1>b, <3>1, Basics DEF WorkersInv
    <3>3. opt.versions[worker[1].from] \in Nat
      BY <3>2, VersionNat
    <3>4. Length(1) = opt.versions[worker[1].from]
      BY <1>b, <3>3 DEF Length, Offset
    <3>5. part'.bytes = Content(worker[1].from)
      BY <1>b, <1>f, <3>2, <3>4 DEF Content
    <3>6. part'.whole = TRUE
      BY <1>0, <1>b, <2>2 DEF FileState
    <3>7. version = 1 => worker[1].from = 1
      BY <3>2
    <3>8. opt.compress /\ Summed => worker[1].from = meta
      BY <1>0, <2>2 DEF SumOf, Summed
    <3>. QED
      BY <1>0, <2>2, <3>2, <3>5, <3>6, <3>7, <3>8, Frame DEF ReadyInv
  <2>. QED
    BY <1>0, <2>1, <2>2
<1>. QED
  BY <1>1, <1>2, <1>3, <1>4, <1>5, <1>6

\* The rename and the clean-up keep IInv.
LEMMA EndStep == ASSUME IInv, Rename \/ Cleanup PROVE IInv'
<1>. USE DEF IInv
<1>0. /\ UNCHANGED <<opt, cancelled, version, meta, size, worker, failed>>
      /\ pc \in {"rename", "cleanup"} /\ pc' \in {"done", "cleanup", "failed"}
      /\ pc' = "done" => pc = "rename" /\ dest' = part /\ part' = None
      /\ pc' # "done" => dest' = dest
      /\ pc' = "cleanup" => part' = part
      /\ pc' = "failed" => part' = None
  BY DEF Rename, Cleanup
<1>1. Shapes'
  BY <1>0 DEF Shapes
<1>2. PlaceInv'
  <2>1. CASE pc' = "done"
    <3>1. part \in FileState
      BY <1>0, <2>1 DEF PlaceInv
    <3>2. Faithful(dest)'
      <4>1. Faithful(part)
        BY <1>0, <2>1 DEF ReadyInv
      <4>. QED
        BY <1>0, <2>1, <4>1, Zenon DEF Faithful, Content, Ranged
    <3>. QED
      BY <1>0, <2>1, <3>1, <3>2 DEF PlaceInv, New
  <2>2. CASE pc' # "done"
    BY <1>0, <2>2 DEF PlaceInv, New
  <2>. QED
    BY <2>1, <2>2
<1>3. SlotInv'
  BY <1>0, Frame DEF SlotInv
<1>4. WorkersInv'
  BY <1>0, Frame DEF WorkersInv
<1>5. FilledInv'
  BY <1>0, Frame DEF FilledInv, New
<1>6. ReadyInv'
  BY <1>0 DEF ReadyInv
<1>. QED
  BY <1>1, <1>2, <1>3, <1>4, <1>5, <1>6
------------------------------------------------------------------------------
(* The beginning of the fetch.                                               *)

\* Reading the attributes keeps IInv.
LEMMA AttrsStep == ASSUME IInv, Attrs PROVE IInv'
<1>. USE DEF IInv
<1>0. /\ UNCHANGED <<opt, cancelled, version, meta, worker, failed, dest>>
      /\ pc = "fetch" /\ Ranged
      /\ \/ /\ size' = opt.versions[version]
            /\ part' = [part EXCEPT !.bytes = Holes(size')]
            /\ pc' = "ranges"
         \/ pc' = "cleanup" /\ size' = size /\ part' = part
  BY DEF Attrs
<1>b. /\ worker = <<>> /\ size = 0 /\ part = Fresh /\ part \in FileState /\ ~opt.compress
      /\ version \in 1 .. version /\ opt.versions[version] \in Nat
  BY <1>0, Basics DEF SlotInv, FilledInv, PlaceInv, Ranged
<1>h. size' \in Nat
  BY <1>0, <1>b
<1>f. /\ part' \in FileState
      /\ pc' = "ranges" => part'.whole = TRUE /\ Len(part'.bytes) = size'
  <2>1. Holes(size') \in Seq(Byte) /\ Len(Holes(size')) = size'
    BY <1>h DEF Holes, Byte
  <2>2. part.whole = TRUE
    BY <1>b DEF Fresh
  <2>. QED
    BY <1>0, <1>b, <2>1, <2>2 DEF FileState
<1>r. (Ranged' <=> Ranged) /\ RunningSet' = {} /\ DOMAIN worker = {} /\ Len(worker) = 0
  BY <1>0, <1>b DEF Ranged, RunningSet
<1>1. Shapes'
  BY <1>0, <1>b DEF Shapes
<1>2. PlaceInv'
  BY <1>0, <1>f DEF PlaceInv, New
<1>3. SlotInv'
  <2>1. Blocks' \in Nat
    <3>1. (size' + Block - 1) \div Block \in Nat
      BY <1>h, CeilingNat
    <3>. QED
      BY <3>1 DEF Blocks
  <2>2. Cardinality(RunningSet)' = 0
    BY <1>r, FS_EmptySet
  <2>. QED
    BY <1>0, <1>b, <1>r, <2>1, <2>2, Basics DEF SlotInv
<1>4. WorkersInv'
  BY <1>0, <1>r DEF WorkersInv
<1>5. FilledInv'
  <2>1. pc' = "cleanup" => Len(part.bytes) = 0
    BY <1>b DEF Fresh
  <2>. QED
    BY <1>0, <1>b, <1>f, <1>h, <1>r, <2>1 DEF FilledInv
<1>6. ReadyInv'
  BY <1>0 DEF ReadyInv
<1>. QED
  BY <1>1, <1>2, <1>3, <1>4, <1>5, <1>6

\* Opening the single stream keeps IInv.
LEMMA OpenStreamStep == ASSUME IInv, OpenStream PROVE IInv'
<1>. USE DEF IInv
<1>0. /\ UNCHANGED <<opt, cancelled, version, meta, size, failed, dest, part>>
      /\ pc = "fetch" /\ ~Ranged
      /\ \/ /\ worker' = <<[st |-> "reading", from |-> version, pos |-> 0]>>
            /\ pc' = "stream"
         \/ pc' = "cleanup" /\ worker' = worker
  BY DEF OpenStream
<1>b. /\ worker = <<>> /\ size = 0 /\ part = Fresh /\ part \in FileState
      /\ version \in 1 .. version /\ version \in Nat /\ opt.versions[version] \in Nat
      /\ opt.workers \in Nat /\ opt.workers >= 1
  BY <1>0, Basics DEF SlotInv, FilledInv, PlaceInv
<1>r. /\ Ranged' <=> Ranged
      /\ pc' = "stream" => RunningSet' = {1} /\ DOMAIN worker' = {1} /\ Len(worker') = 1
      /\ pc' = "cleanup" => RunningSet' = {} /\ DOMAIN worker' = {} /\ Len(worker') = 0
  BY <1>0, <1>b DEF Ranged, RunningSet, Running
<1>1. Shapes'
  <2>1. [st |-> "reading", from |-> version, pos |-> 0] \in WorkerState
    BY <1>b DEF WorkerState
  <2>. DEFINE w == [st |-> "reading", from |-> version, pos |-> 0]
  <2>2. w \in WorkerState
    BY <2>1
  <2>3. worker' = <<w>> \/ worker' = worker
    BY <1>0
  <2>. HIDE DEF w
  <2>4. worker' \in Seq(WorkerState)
    <3>1. <<w>> \in Seq(WorkerState)
      BY <2>2
    <3>2. worker \in Seq(WorkerState)
      BY DEF Shapes
    <3>. QED
      BY <2>3, <3>1, <3>2
  <2>. QED
    BY <1>0, <2>4 DEF Shapes
<1>2. PlaceInv'
  BY <1>0 DEF PlaceInv, New
<1>3. SlotInv'
  <2>1. Cardinality(RunningSet)' \in {0, 1}
    BY <1>0, <1>r, FS_EmptySet, FS_Singleton
  <2>2. pc' = "cleanup" => \A b \in DOMAIN worker' : FALSE
    BY <1>r
  <2>3. Cardinality(RunningSet)' <= opt.workers' /\ Len(worker') <= 1
    <3>1. opt' = opt /\ (pc' = "stream" \/ pc' = "cleanup")
      BY <1>0
    <3>2. Len(worker') \in {0, 1}
      BY <1>r, <3>1, Zenon
    <3>3. Len(worker') <= 1
      BY <3>2
    <3>. QED
      BY <1>b, <2>1, <3>1, <3>3
  <2>4. CASE pc' = "stream"
    BY <1>0, <1>r, <2>3, <2>4 DEF SlotInv
  <2>5. CASE pc' = "cleanup"
    BY <1>0, <1>r, <2>2, <2>3, <2>5 DEF SlotInv
  <2>. QED
    BY <1>0, <2>4, <2>5
<1>4. WorkersInv'
  <2>1. pc' = "stream" => Length(1)' = opt.versions[version]
    BY <1>0, <1>b, <1>r DEF Length, Offset
  <2>. QED
    BY <1>0, <1>b, <1>r, <2>1 DEF WorkersInv
<1>5. FilledInv'
  <2>1. pc' = "stream" => /\ worker'[1].from = version /\ worker'[1].pos = 0
                          /\ version > 0
    BY <1>0, <1>b
  <2>2. part.bytes = <<>> /\ (opt.compress \/ part.whole = TRUE)
    BY <1>b DEF Fresh
  <2>3. [k \in 1 .. 0 |-> <<version, k>>] = <<>>
    OBVIOUS
  <2>4. pc' = "stream" => part.bytes = [k \in 1 .. worker'[1].pos |-> <<worker'[1].from, k>>]
    BY <2>1, <2>2, <2>3
  <2>. QED
    BY <1>0, <1>r, <2>1, <2>2, <2>4 DEF FilledInv
<1>6. ReadyInv'
  BY <1>0 DEF ReadyInv
<1>. QED
  BY <1>1, <1>2, <1>3, <1>4, <1>5, <1>6

------------------------------------------------------------------------------
(* The workers.                                                              *)

\* How many are running is a number, and more is more.
LEMMA RunningFinite ==
  ASSUME Shapes
  PROVE  IsFiniteSet(RunningSet) /\ Cardinality(RunningSet) \in Nat
<1>0. Len(worker) \in Nat /\ DOMAIN worker = 1 .. Len(worker)
  BY Basics
<1>1. RunningSet \subseteq 1 .. Len(worker)
  BY <1>0 DEF RunningSet
<1>2. IsFiniteSet(1 .. Len(worker))
  BY <1>0, FS_Interval
<1>. QED
  BY <1>1, <1>2, FS_Subset, FS_CardinalityType

\* Launching a worker keeps IInv.
LEMMA LaunchStep == ASSUME IInv, Launch PROVE IInv'
<1>. USE DEF IInv
<1>n. PICK n : n = Len(worker) + 1
  OBVIOUS
<1>. DEFINE w == [st |-> "starting", from |-> 0, pos |-> 0]
<1>0. /\ UNCHANGED <<pc, opt, cancelled, version, meta, size, failed, dest, part>>
      /\ pc = "ranges" /\ Len(worker) < Blocks /\ Slot
      /\ worker' = Append(worker, w)
  BY DEF Launch
<1>b. /\ Len(worker) \in Nat /\ DOMAIN worker = 1 .. Len(worker) /\ n \in Nat /\ Ranged
      /\ worker \in Seq(WorkerState) /\ size \in Nat /\ version \in Nat
      /\ opt.workers \in Nat
  BY <1>0, <1>n, Basics DEF SlotInv, Shapes
<1>w. w \in WorkerState
  BY DEF WorkerState
<1>a. /\ worker' \in Seq(WorkerState) /\ Len(worker') = n
      /\ DOMAIN worker' = 1 .. n /\ worker'[n] = w
      /\ \A b \in 1 .. Len(worker) : worker'[b] = worker[b]
  BY <1>0, <1>b, <1>n, <1>w
<1>c. \A b \in DOMAIN worker' : b = n \/ b \in DOMAIN worker
  BY <1>a, <1>b, <1>n
<1>. HIDE DEF w
<1>f. /\ Ranged' <=> Ranged
      /\ Blocks' = Blocks /\ (\A b : Offset(b)' = Offset(b))
      /\ \A b \in DOMAIN worker : (Running(b)' <=> Running(b)) /\ Length(b)' = Length(b)
  BY <1>0, <1>a, <1>b DEF Ranged, Blocks, Offset, Running, Length
<1>1. Shapes'
  BY <1>0, <1>a DEF Shapes
<1>2. PlaceInv'
  BY <1>0 DEF PlaceInv, New
<1>3. SlotInv'
  <2>1. Running(n)'
    <3>1. worker'[n].st = "starting"
      BY <1>a DEF w
    <3>. QED
      BY <3>1 DEF Running
  <2>2. RunningSet' = RunningSet \cup {n}
    <3>1. RunningSet' = {b \in DOMAIN worker' : Running(b)'}
      BY DEF RunningSet
    <3>2. DOMAIN worker' = DOMAIN worker \cup {n}
      BY <1>a, <1>b, <1>n
    <3>. QED
      BY <1>f, <2>1, <3>1, <3>2 DEF RunningSet
  <2>3. n \notin RunningSet
    BY <1>b, <1>n DEF RunningSet
  <2>4. Cardinality(RunningSet)' = Cardinality(RunningSet) + 1
    BY <2>2, <2>3, RunningFinite, FS_AddElement
  <2>5. Cardinality(RunningSet)' <= opt.workers
    BY <1>0, <1>b, <2>4, RunningFinite DEF Slot
  <2>6. n <= Blocks
    BY <1>0, <1>b, <1>n, BlocksNat
  <2>. QED
    BY <1>0, <1>a, <1>b, <1>f, <2>5, <2>6 DEF SlotInv
<1>4. WorkersInv'
  <2>1. worker'[n].st = "starting" /\ worker'[n].from = 0 /\ worker'[n].pos = 0
    BY <1>a DEF w
  <2>. QED
    BY <1>0, <1>a, <1>b, <1>c, <1>f, <2>1 DEF WorkersInv
<1>5. FilledInv'
  <2>1. 1 .. worker'[n].pos = {}
    BY <1>a DEF w
  <2>2. version' = 1 => \A b \in DOMAIN worker' : \A k \in 1 .. worker'[b].pos :
          part'.bytes[Offset(b)' + k] = <<1, Offset(b)' + k>>
    BY <1>0, <1>a, <1>b, <1>c, <1>f, <2>1 DEF FilledInv
  <2>. QED
    BY <1>0, <1>f, <2>2 DEF FilledInv, New
<1>6. ReadyInv'
  BY <1>0 DEF ReadyInv
<1>. QED
  BY <1>1, <1>2, <1>3, <1>4, <1>5, <1>6
\* A worker at work: where the run is, and which part of the file is its own.
LEMMA AtWork ==
  ASSUME IInv, pc \notin Terminal, NEW b \in DOMAIN worker, Running(b)
  PROVE  /\ pc \in {"ranges", "stream"} /\ (Ranged <=> pc = "ranges")
         /\ part \in FileState /\ New(part)
         /\ b \in Nat /\ size \in Nat
         /\ Offset(b) \in Nat
         /\ Ranged => Offset(b) < size
         /\ ~Ranged => b = 1 /\ Offset(b) = 0
<1>. USE DEF IInv
<1>1. pc \in {"ranges", "stream"}
  BY DEF SlotInv
<1>2. part \in FileState /\ New(part)
  BY <1>1, NamesAssumption DEF PlaceInv, New
<1>3. /\ b \in 1 .. Len(worker) /\ Len(worker) \in Nat /\ size \in Nat
  BY Basics
<1>4. CASE Ranged
  <2>1. b \in 1 .. Blocks
    BY <1>3, <1>4, BlocksNat DEF SlotInv
  <2>2. (b - 1) * Block \in Nat /\ (b - 1) * Block < size
    BY <1>3, <2>1, BeginsWithin
  <2>. QED
    BY <1>1, <1>2, <1>3, <1>4, <2>2 DEF SlotInv, Offset
<1>5. CASE ~Ranged
  BY <1>1, <1>2, <1>3, <1>5 DEF SlotInv, Offset
<1>. QED
  BY <1>4, <1>5

\* A step of one worker that was running: the others stay as they are, and no
\* more are running than before.
LEMMA OneWorker ==
  ASSUME Shapes, NEW b \in DOMAIN worker, Running(b), NEW w \in WorkerState,
         UNCHANGED <<opt, size>>, worker' = [worker EXCEPT ![b] = w]
  PROVE  /\ worker' \in Seq(WorkerState) /\ Len(worker') = Len(worker)
         /\ DOMAIN worker' = DOMAIN worker /\ worker'[b] = w
         /\ \A a \in DOMAIN worker : a # b => worker'[a] = worker[a] /\ Length(a)' = Length(a)
         /\ w.from = worker[b].from => Length(b)' = Length(b)
         /\ (Ranged' <=> Ranged) /\ Blocks' = Blocks /\ (\A a : Offset(a)' = Offset(a))
         /\ Cardinality(RunningSet)' <= Cardinality(RunningSet)
         /\ Cardinality(RunningSet)' \in Nat
<1>1. worker \in Seq(WorkerState)
  BY DEF Shapes
<1>2. /\ worker' \in Seq(WorkerState) /\ Len(worker') = Len(worker)
      /\ DOMAIN worker' = DOMAIN worker /\ worker'[b] = w
      /\ \A a \in DOMAIN worker : a # b => worker'[a] = worker[a]
  BY <1>1
<1>3. (Ranged' <=> Ranged) /\ Blocks' = Blocks /\ (\A a : Offset(a)' = Offset(a))
  BY DEF Ranged, Blocks, Offset
<1>4. /\ \A a \in DOMAIN worker : a # b => Length(a)' = Length(a)
      /\ w.from = worker[b].from => Length(b)' = Length(b)
  BY <1>2, <1>3 DEF Length
<1>5. RunningSet' \subseteq RunningSet
  BY <1>2 DEF RunningSet, Running
<1>6. Cardinality(RunningSet') <= Cardinality(RunningSet) /\ Cardinality(RunningSet') \in Nat
  BY <1>5, RunningFinite, FS_Subset, FS_CardinalityType
<1>. QED
  BY <1>2, <1>3, <1>4, <1>6

\* What remains of the invariant once the worker's own part is known.
LEMMA WorkFrame ==
  ASSUME IInv, pc \notin Terminal, NEW b \in DOMAIN worker, Running(b), NEW w \in WorkerState,
         UNCHANGED <<pc, opt, cancelled, version, meta, size, dest>>,
         worker' = [worker EXCEPT ![b] = w],
         failed' \in {failed, TRUE}, failed => failed',
         part' \in FileState,
         WorkersInv', FilledInv'
  PROVE  IInv'
<1>. USE DEF IInv
<1>1. pc \in {"ranges", "stream"}
  BY AtWork
<1>2. Shapes'
  <2>1. {cancelled', failed'} \subseteq BOOLEAN
    BY Zenon DEF Shapes
  <2>. QED
    BY <2>1, OneWorker DEF Shapes
<1>3. PlaceInv'
  BY <1>1 DEF PlaceInv, New
<1>4. SlotInv'
  <2>1. /\ Len(worker') = Len(worker) /\ (Ranged' <=> Ranged) /\ Blocks' = Blocks
        /\ Cardinality(RunningSet)' <= Cardinality(RunningSet)
        /\ Cardinality(RunningSet)' \in Nat
    BY OneWorker
  <2>2. Cardinality(RunningSet) \in Nat /\ opt.workers \in Nat
    BY RunningFinite, Basics
  <2>. QED
    BY <1>1, <2>1, <2>2 DEF SlotInv
<1>5. ReadyInv'
  BY <1>1 DEF ReadyInv
<1>. QED
  BY <1>2, <1>3, <1>4, <1>5

\* A worker's request keeps IInv.
LEMMA RequestStep ==
  ASSUME IInv, pc \notin Terminal, NEW b \in DOMAIN worker, Request(b)
  PROVE  IInv'
<1>. USE DEF IInv
<1>w. PICK w : w = [worker[b] EXCEPT !.st = "reading", !.from = version]
  OBVIOUS
<1>b. /\ worker[b] \in WorkerState /\ version \in Nat /\ version >= 1
      /\ opt.versions[version] \in Nat
  BY Basics
<1>0. /\ UNCHANGED <<pc, opt, cancelled, version, meta, size, failed, dest, part>>
      /\ worker[b].st = "starting" /\ Offset(b) < opt.versions[version]
      /\ worker' = [worker EXCEPT ![b] = w] /\ Running(b)
  BY <1>w DEF Request, Running
<1>1. /\ w \in WorkerState /\ w.st = "reading" /\ w.from = version /\ w.pos = worker[b].pos
  BY <1>w, <1>b DEF WorkerState
<1>2. worker[b].pos = 0 /\ Ranged
  BY <1>0 DEF WorkersInv
<1>a. /\ part \in FileState /\ pc = "ranges"
      /\ Offset(b) \in Nat /\ Offset(b) < size /\ size \in Nat
  BY <1>0, <1>2, AtWork
<1>o. /\ DOMAIN worker' = DOMAIN worker /\ worker'[b] = w
      /\ \A a \in DOMAIN worker : a # b => worker'[a] = worker[a] /\ Length(a)' = Length(a)
      /\ (Ranged' <=> Ranged) /\ (\A a : Offset(a)' = Offset(a))
  BY <1>0, <1>1, OneWorker
<1>3. 0 <= Length(b)'
  <2>1. Length(b)' = Lesser(Lesser(Block, size - Offset(b)), opt.versions[version] - Offset(b))
    BY <1>0, <1>1, <1>2, <1>o DEF Length
  <2>. QED
    BY <1>0, <1>a, <1>b, <2>1, BlockAssumption DEF Lesser
<1>4. WorkersInv'
  BY <1>0, <1>1, <1>2, <1>3, <1>b, <1>o DEF WorkersInv
<1>5. FilledInv'
  <2>1. \A a \in DOMAIN worker : worker'[a].pos = worker[a].pos
    BY <1>1, <1>o
  <2>. QED
    BY <1>0, <1>a, <1>o, <2>1 DEF FilledInv, New
<1>. QED
  BY <1>0, <1>1, <1>4, <1>5, <1>a, WorkFrame

\* A range has been read to its end, or something failed.
LEMMA ReadStep ==
  ASSUME IInv, pc \notin Terminal, NEW b \in DOMAIN worker, Read(b) \/ WorkerFails(b)
  PROVE  IInv'
<1>. USE DEF IInv
<1>w. PICK w : w = [worker[b] EXCEPT !.st = IF Read(b) THEN "ok" ELSE "error"]
  OBVIOUS
<1>b. worker[b] \in WorkerState /\ worker[b].from \in Nat
  BY Basics
<1>0. /\ UNCHANGED <<pc, opt, cancelled, version, meta, size, dest, part>>
      /\ worker' = [worker EXCEPT ![b] = w] /\ Running(b)
      /\ Read(b) => worker[b].st = "reading" /\ worker[b].pos = Length(b) /\ failed' = failed
      /\ ~Read(b) => failed' = TRUE
  BY <1>w DEF Read, WorkerFails, Running
<1>1. /\ w \in WorkerState /\ w.from = worker[b].from /\ w.pos = worker[b].pos
      /\ w.st = IF Read(b) THEN "ok" ELSE "error"
  BY <1>w, <1>b DEF WorkerState
<1>a. part \in FileState /\ pc \in {"ranges", "stream"} /\ (pc = "stream" => b = 1)
  BY <1>0, AtWork
<1>o. /\ DOMAIN worker' = DOMAIN worker /\ worker'[b] = w
      /\ \A a \in DOMAIN worker : a # b => worker'[a] = worker[a] /\ Length(a)' = Length(a)
      /\ Length(b)' = Length(b)
      /\ (Ranged' <=> Ranged) /\ (\A a : Offset(a)' = Offset(a))
  BY <1>0, <1>1, OneWorker
<1>f. failed' \in {failed, TRUE} /\ (failed => failed')
  <2>1. failed' = failed \/ failed' = TRUE
    BY <1>0, Zenon
  <2>2. failed' \in {failed, TRUE}
    BY <2>1
  <2>3. failed' = failed => (failed => failed')
    BY Zenon
  <2>4. failed' = TRUE => (failed => failed')
    OBVIOUS
  <2>. QED
    BY <2>1, <2>2, <2>3, <2>4
<1>4. WorkersInv'
  BY <1>0, <1>1, <1>b, <1>f, <1>o DEF WorkersInv
<1>5. FilledInv'
  <2>1. \A a \in DOMAIN worker : worker'[a].pos = worker[a].pos /\ worker'[a].from = worker[a].from
    BY <1>1, <1>o
  <2>2. pc = "stream" => worker'[1].pos = worker[1].pos /\ worker'[1].from = worker[1].from
    BY <1>a, <2>1
  <2>3. CASE pc = "stream"
    <3>1. /\ New(part') /\ Ranged' => Len(part'.bytes) <= size'
          /\ New(dest') /\ Ranged' => Len(dest'.bytes) <= size'
      BY <1>0, <1>o DEF FilledInv, New
    <3>. QED
      BY <1>0, <2>2, <2>3, <3>1 DEF FilledInv
  <2>4. CASE pc = "ranges"
    BY <1>0, <1>o, <2>1, <2>4 DEF FilledInv, New
  <2>. QED
    BY <1>a, <2>3, <2>4
<1>. QED
  BY <1>0, <1>1, <1>4, <1>5, <1>a, <1>f, WorkFrame

\* What a range request has read lies within the object.
LEMMA Within ==
  ASSUME IInv, pc = "ranges", NEW a \in DOMAIN worker, NEW k \in 1 .. worker[a].pos
  PROVE  Offset(a) + k \in 1 .. size
<1>. USE DEF IInv
<1>1. /\ a \in 1 .. Len(worker) /\ Len(worker) \in Nat /\ size \in Nat /\ Ranged
      /\ worker[a].from \in Nat /\ worker[a].pos \in Nat /\ version \in Nat
  BY Basics DEF SlotInv
<1>2. a \in 1 .. Blocks
  BY <1>1, BlocksNat DEF SlotInv
<1>3. Offset(a) \in Nat /\ Offset(a) < size
  BY <1>1, <1>2, BeginsWithin DEF Offset
<1>4. worker[a].from > 0 /\ worker[a].from <= version
  <2>1. worker[a].pos # 0
    BY <1>1
  <2>. QED
    BY <1>1, <2>1 DEF WorkersInv
<1>5. opt.versions[worker[a].from] \in Nat
  BY <1>1, <1>4, VersionNat
<1>6. worker[a].pos <= Length(a)
  BY <1>4 DEF WorkersInv
<1>7. Length(a) \in Int /\ Offset(a) + Length(a) <= size
  <2>1. Length(a) = Lesser(Lesser(Block, size - Offset(a)),
                           opt.versions[worker[a].from] - Offset(a))
    BY <1>1 DEF Length
  <2>2. size - Offset(a) \in Int /\ opt.versions[worker[a].from] - Offset(a) \in Int
    BY <1>1, <1>3, <1>5
  <2>3. Length(a) \in Int /\ Length(a) <= size - Offset(a)
    BY <2>1, <2>2, LesserOfThree
  <2>. QED
    BY <1>1, <1>3, <2>3
<1>. QED
  BY <1>1, <1>3, <1>6, <1>7

\* A byte takes its place.
LEMMA PieceStep ==
  ASSUME IInv, pc \notin Terminal, NEW b \in DOMAIN worker, Piece(b)
  PROVE  IInv'
<1>. USE DEF IInv
<1>w. PICK w : w = [worker[b] EXCEPT !.pos = @ + 1]
  OBVIOUS
<1>g. PICK g : g = At(b)
  OBVIOUS
<1>b. /\ worker[b] \in WorkerState /\ worker[b].from \in Nat /\ worker[b].pos \in Nat
      /\ version \in Nat
  BY Basics
<1>0. /\ UNCHANGED <<pc, opt, cancelled, version, meta, size, failed, dest>>
      /\ worker[b].st = "reading" /\ worker[b].pos < Length(b)
      /\ worker' = [worker EXCEPT ![b] = w] /\ Running(b)
  BY <1>w DEF Piece, Running
<1>1. /\ w \in WorkerState /\ w.st = "reading" /\ w.from = worker[b].from
      /\ w.pos = worker[b].pos + 1
  BY <1>0, <1>w, <1>b DEF WorkerState
<1>2. worker[b].from > 0 /\ worker[b].from <= version
  BY <1>0 DEF WorkersInv
<1>a. /\ part \in FileState /\ New(part) /\ pc \in {"ranges", "stream"}
      /\ (Ranged <=> pc = "ranges") /\ Offset(b) \in Nat /\ size \in Nat
      /\ (Ranged => Offset(b) < size) /\ (~Ranged => b = 1 /\ Offset(b) = 0)
  BY <1>0, AtWork
<1>o. /\ DOMAIN worker' = DOMAIN worker /\ worker'[b] = w
      /\ \A a \in DOMAIN worker : a # b => worker'[a] = worker[a] /\ Length(a)' = Length(a)
      /\ Length(b)' = Length(b)
      /\ (Ranged' <=> Ranged) /\ (\A a : Offset(a)' = Offset(a))
  BY <1>0, <1>1, OneWorker
<1>n. opt.versions[worker[b].from] \in Nat
  BY <1>2, <1>b, VersionNat
<1>l. Length(b) \in Int /\ (Ranged => Offset(b) + Length(b) <= size)
  BY <1>a, <1>n, BlockAssumption DEF Length, Lesser
<1>3. /\ g = Offset(b) + worker[b].pos + 1 /\ g \in Nat /\ g >= 1
      /\ Ranged => g <= size
  BY <1>0, <1>a, <1>b, <1>g, <1>l DEF At
<1>y. <<worker[b].from, g>> \in Byte
  BY <1>b, <1>3 DEF Byte
<1>p. /\ part.bytes \in Seq(Byte) /\ Len(part.bytes) \in Nat
      /\ part' = [part EXCEPT !.bytes =
                    IF g <= Len(part.bytes) THEN [part.bytes EXCEPT ![g] = <<worker[b].from, g>>]
                                            ELSE Append(part.bytes, <<worker[b].from, g>>)]
  BY <1>0, <1>a, <1>g, <1>3 DEF Piece, FileState
<1>q. /\ part' \in FileState /\ part'.whole = part.whole
      /\ part'.bytes = IF g <= Len(part.bytes) THEN [part.bytes EXCEPT ![g] = <<worker[b].from, g>>]
                                               ELSE Append(part.bytes, <<worker[b].from, g>>)
  <2>1. g <= Len(part.bytes) => [part.bytes EXCEPT ![g] = <<worker[b].from, g>>] \in Seq(Byte)
    BY <1>p, <1>y, <1>3, Overwritten
  <2>2. Append(part.bytes, <<worker[b].from, g>>) \in Seq(Byte)
    BY <1>p, <1>y
  <2>. QED
    BY <1>a, <1>p, <2>1, <2>2 DEF FileState
<1>4. WorkersInv'
  <2>1. w.pos <= Length(b)'
    BY <1>0, <1>1, <1>b, <1>l, <1>o
  <2>. QED
    BY <1>0, <1>1, <1>2, <1>o, <2>1 DEF WorkersInv
<1>5. FilledInv'
  <2>1. CASE pc = "ranges"
    <3>1. Len(part.bytes) = size /\ g <= Len(part.bytes) /\ part.whole = TRUE
      BY <1>3, <1>a, <2>1 DEF FilledInv
    <3>2. /\ Len(part'.bytes) = size
          /\ part'.bytes[g] = <<worker[b].from, g>>
          /\ \A i \in 1 .. size : i # g => part'.bytes[i] = part.bytes[i]
      BY <1>3, <1>p, <1>q, <3>1
    <3>3. ASSUME version = 1, NEW a \in DOMAIN worker, NEW k \in 1 .. worker'[a].pos
          PROVE  part'.bytes[Offset(a) + k] = <<1, Offset(a) + k>>
      <4>1. worker[b].from = 1
        BY <1>2, <1>b, <3>3
      <4>2. CASE Offset(a) + k = g
        BY <3>2, <4>1, <4>2
      <4>3. CASE Offset(a) + k # g
        <5>1. a = b => k # worker[b].pos + 1
          BY <1>3, <1>a, <1>b, <4>3
        <5>2. k \in 1 .. worker[a].pos
          BY <1>1, <1>b, <1>o, <3>3, <5>1
        <5>3. part.bytes[Offset(a) + k] = <<1, Offset(a) + k>>
          BY <2>1, <3>3, <5>2 DEF FilledInv
        <5>4. Offset(a) + k \in 1 .. size
          BY <2>1, <3>3, <5>2, Within
        <5>. QED
          BY <3>2, <4>3, <5>3, <5>4
      <4>. QED
        BY <4>2, <4>3
    <3>. QED
      BY <1>0, <1>o, <1>q, <2>1, <3>1, <3>2, <3>3 DEF FilledInv
  <2>2. CASE pc = "stream"
    <3>1. /\ b = 1 /\ Offset(b) = 0 /\ ~Ranged
          /\ part.bytes = [k \in 1 .. worker[1].pos |-> <<worker[1].from, k>>]
          /\ (opt.compress \/ part.whole = TRUE)
      BY <1>a, <2>2 DEF FilledInv
    <3>2. Len(part.bytes) = worker[1].pos /\ g = worker[1].pos + 1
      BY <1>3, <1>b, <3>1
    <3>3. part'.bytes = Append(part.bytes, <<worker[1].from, g>>)
      BY <1>b, <1>q, <3>1, <3>2
    <3>4. part'.bytes = [k \in 1 .. worker'[1].pos |-> <<worker'[1].from, k>>]
      <4>1. worker'[1].from = worker[1].from /\ worker'[1].pos = g
        BY <1>1, <1>o, <3>1, <3>2
      <4>2. part'.bytes = [k \in 1 .. worker[1].pos + 1 |-> <<worker[1].from, k>>]
        BY <1>b, <3>1, <3>2, <3>3, AppendNext
      <4>. QED
        BY <3>2, <4>1, <4>2
    <3>5. worker'[1].from > 0
      BY <1>1, <1>2, <1>o, <3>1
    <3>. QED
      BY <1>0, <1>o, <1>q, <2>2, <3>1, <3>4, <3>5 DEF FilledInv
  <2>. QED
    BY <1>a, <2>1, <2>2
<1>. QED
  BY <1>0, <1>1, <1>4, <1>5, <1>q, WorkFrame

------------------------------------------------------------------------------
(* Theorems.                                                                 *)

\* Every step keeps IInv.
LEMMA NextStep == ASSUME IInv, [Next]_vars PROVE IInv'
<1>1. CASE Main
  BY <1>1, MainStep, OpenPartStep, AttrsStep, LaunchStep, WaitStep, OpenStreamStep,
     StreamEndsStep, EndStep DEF Main
<1>2. CASE Workers
  BY <1>2, RequestStep, PieceStep, ReadStep DEF Workers, Work
<1>3. CASE Environment
  BY <1>3, WorldStep, ReplaceStep DEF Environment
<1>4. CASE Ended \/ UNCHANGED vars
  BY <1>4, WorldStep DEF Ended
<1>. QED
  BY <1>1, <1>2, <1>3, <1>4 DEF Next

\* The length of what a reader is bound to is a number.
LEMMA LengthInt ==
  ASSUME IInv, NEW b \in DOMAIN worker, worker[b].from > 0
  PROVE  Length(b) \in Int
<1>1. /\ worker[b].from \in Nat /\ version \in Nat /\ version <= Len(opt.versions)
      /\ Len(opt.versions) \in Nat /\ size \in Nat /\ b \in Nat
  BY Basics DEF IInv
<1>2. worker[b].from <= version
  BY DEF IInv, WorkersInv
<1>3. opt.versions[worker[b].from] \in Nat
  BY <1>1, <1>2, VersionNat DEF IInv
<1>4. Offset(b) \in Int
  BY <1>1, BlockAssumption DEF Offset
<1>. QED
  BY <1>1, <1>3, <1>4, BlockAssumption DEF Length, Lesser

\* Every download is where IInv says.
THEOREM Invariance == Spec => []IInv
<1>1. IInv /\ [Next]_vars => IInv'
  BY NextStep
<1>. QED
  BY InitInv, <1>1, PTL DEF Spec

\* The variables keep their shapes, no reader goes beyond its range, and the
\* file never outgrows the object.
THEOREM TypeCorrect == Spec => []TypeOK
<1>1. ASSUME IInv PROVE TypeOK
  <2>. USE DEF IInv
  <2>1. /\ pc \in Terminal \cup {"stat", "check", "open", "fetch", "ranges", "stream", "close",
                                 "verify", "remove", "rename", "cleanup"}
        /\ opt \in Opt /\ version \in 1 .. Len(opt.versions) /\ meta \in 0 .. version
        /\ size \in {0} \cup {opt.versions[v] : v \in 1 .. version}
        /\ {cancelled, failed} \subseteq BOOLEAN
    BY <1>1, Zenon DEF Shapes
  <2>2. Len(worker) <= IF Ranged THEN Blocks ELSE 1
    BY <1>1 DEF SlotInv
  <2>3. ASSUME NEW b \in DOMAIN worker
        PROVE  /\ worker[b].st \in {"starting", "reading", "ok", "error"}
               /\ worker[b].from \in 0 .. version
               /\ worker[b].from > 0 => worker[b].pos \in 0 .. Length(b)
    <3>1. /\ worker[b].st \in {"starting", "reading", "ok", "error"}
          /\ worker[b].from \in Nat /\ worker[b].pos \in Nat /\ version \in Nat
          /\ worker[b].from <= version
          /\ worker[b].from > 0 => worker[b].pos <= Length(b)
      BY <1>1, Basics DEF WorkersInv
    <3>2. worker[b].from > 0 => Length(b) \in Int
      BY <1>1, LengthInt
    <3>. QED
      BY <3>1, <3>2
  <2>4. ASSUME NEW f \in {dest, part}, New(f)
        PROVE  f \in FileState /\ (Ranged => Len(f.bytes) <= size)
    BY <1>1, <2>4 DEF PlaceInv, FilledInv
  <2>. QED
    BY <2>1, <2>2, <2>3, <2>4 DEF TypeOK
<1>. QED
  BY Invariance, <1>1, PTL

\* Never more requests in flight than --concurrency allows, and none that
\* outlives the fetch.
THEOREM Contained == Spec => []WorkersContained
<1>1. ASSUME IInv PROVE WorkersContained
  BY <1>1 DEF IInv, SlotInv, WorkersContained, RunningSet
<1>. QED
  BY Invariance, <1>1, PTL

\* No .part of this run outlives its failure, and none its success.
THEOREM CleanedUp == Spec => []TempsCleanedUp
<1>1. IInv => TempsCleanedUp
  BY DEF IInv, PlaceInv, TempsCleanedUp
<1>. QED
  BY Invariance, <1>1, PTL

\* The steps that change the destination: its removal, the rename, and the
\* appearance of somebody else's file.
LEMMA DestChanges ==
  ASSUME [Next]_vars, dest' # dest
  PROVE  RemoveDest \/ Rename \/ Appear
  BY DEF Next, Main, Workers, Work, Environment, Ended, vars, Stat, Check, OpenPart, Attrs,
         Launch, Wait, OpenStream, StreamEnds, Close, Verify, Cleanup, Request, Piece, Read,
         WorkerFails, Cancel, Crash, Replace

\* A run keeps its options.
LEMMA Frozen == [Next]_vars => opt' = opt
  BY DEF Next, Main, Workers, Work, Environment, Ended, vars, Stat, Check, OpenPart, Attrs,
         Launch, Wait, OpenStream, StreamEnds, Close, Verify, Cleanup, Request, Piece, Read,
         WorkerFails, Cancel, Crash, Replace, RemoveDest, Rename, Appear

\* An old file goes only when it may be replaced, and when its replacement is
\* there, complete and verified as asked.
THEOREM OldGoes == Spec => OldGoesForReplacement
<1>1. ASSUME IInv, [Next]_vars, dest = Old, dest' # Old
      PROVE  opt.overwrite /\ New(part) /\ Faithful(part)
  <2>. USE DEF IInv
  <2>1. RemoveDest \/ Rename
    BY <1>1, DestChanges, NamesAssumption DEF Appear
  <2>2. pc \in {"remove", "rename"}
    BY <2>1 DEF RemoveDest, Rename
  <2>3. part \in FileState /\ opt.overwrite
    BY <1>1, <2>2 DEF PlaceInv
  <2>4. New(part)
    BY <2>3, NamesAssumption DEF New
  <2>. QED
    BY <1>1, <2>2, <2>3, <2>4 DEF ReadyInv
<1>2. IInv /\ [Next]_vars => [dest = Old /\ dest' # Old => opt.overwrite /\ New(part) /\ Faithful(part)]_vars
  BY <1>1
<1>. QED
  BY Invariance, <1>2, PTL DEF Spec, OldGoesForReplacement

\* What the contract sees of the destination.
Target == IF dest \in {None, Foreign} THEN "absent"
          ELSE IF dest = Old THEN "old"
          ELSE IF Faithful(dest) THEN "new" ELSE "torn"

\* A download implements the contract of the destination path.
THEOREM Refinement == Spec => ImplementsContract
<1>1. Init => Contract!Init
  <2>. SUFFICES ASSUME Init PROVE Contract!Init
    OBVIOUS
  <2>1. opt.overwrite \in BOOLEAN
    BY OptAssumption, Zenon DEF Init
  <2>2. Target \in {"absent", "old"}
    BY DEF Init, Target
  <2>. QED
    BY <2>1, <2>2, Zenon DEF Contract!Init, Target
<1>2. ASSUME IInv, IInv', [Next]_vars PROVE [Contract!Next]_(Contract!vars)
  <2>. USE DEF IInv
  <2>1. opt' = opt
    BY <1>2, Frozen
  <2>2. CASE dest' = dest
    <3>1. CASE New(dest)
      <4>1. Target = "new" /\ Target' = "new"
        BY <1>2, <2>2, <3>1 DEF PlaceInv, New, Target
      <4>. QED
        BY <2>1, <4>1, Zenon DEF Contract!vars, Target
    <3>2. CASE ~New(dest)
      <4>1. Target' = Target
        BY <2>2, <3>2 DEF New, Target
      <4>. QED
        BY <2>1, <4>1, Zenon DEF Contract!vars, Target
    <3>. QED
      BY <3>1, <3>2
  <2>3. CASE dest' # dest
    <3>1. RemoveDest \/ Rename \/ Appear
      BY <1>2, <2>3, DestChanges
    <3>2. CASE Appear
      <4>1. Target = "absent" /\ Target' = "absent"
        BY <3>2 DEF Appear, Target
      <4>. QED
        BY <2>1, <4>1, Zenon DEF Contract!vars, Target
    <3>3. CASE RemoveDest
      <4>1. dest' = None /\ Target' = "absent" /\ opt.overwrite /\ ~New(dest)
        BY <1>2, <2>3, <3>3 DEF RemoveDest, Target, PlaceInv, New
      <4>2. Target \in {"absent", "old"}
        BY <4>1 DEF Target, New
      <4>3. CASE Target = "absent"
        BY <2>1, <4>1, <4>3, Zenon DEF Contract!vars, Target
      <4>4. CASE Target = "old"
        BY <2>1, <4>1, <4>4, Zenon DEF Contract!Next, Contract!Remove, Target
      <4>. QED
        BY <4>2, <4>3, <4>4
    <3>4. CASE Rename
      <4>1. pc = "rename" /\ pc' = "done" /\ dest' = part /\ part \in FileState
        BY <1>2, <2>3, <3>4 DEF Rename, PlaceInv
      <4>2. New(dest')
        BY <4>1, NamesAssumption DEF New
      <4>3. Target' = "new"
        BY <1>2, <4>2 DEF PlaceInv, New, Target
      <4>4. ~New(dest) /\ (dest = Old => opt.overwrite)
        BY <1>2, <4>1 DEF PlaceInv
      <4>5. Target = "absent" \/ (opt.overwrite /\ Target = "old")
        BY <4>4 DEF Target, New
      <4>. QED
        BY <2>1, <4>3, <4>5, Zenon DEF Contract!Next, Contract!Publish, Target
    <3>. QED
      BY <3>1, <3>2, <3>3, <3>4
  <2>. QED
    BY <2>2, <2>3
<1>. QED
  BY Invariance, <1>1, <1>2, PTL DEF Spec, ImplementsContract, Contract!Spec

==============================================================================
