----------------------- MODULE ProgressInspect_proofs -----------------------
(***************************************************************************)
(* Theorems about two components that share nothing, Progress and Inspect. *)
(*                                                                         *)
(* Progress, for any set of workers, however many pieces they move, and    *)
(* every order in which their reports overtake each other.  The heart of   *)
(* it is NewestInv: the sum of the last addition is either in current, or  *)
(* on its way there with a worker between Load and Swap, whom no smaller   *)
(* sum can beat.  So when all have returned it has arrived.                *)
(*                                                                         *)
(* inspect's samples, for a source of any length, newlines anywhere, and   *)
(* any size of a chunk.  The heart of it is ReadInv: a line kept has so    *)
(* many of the lines that are read before it, and no newline in it.  That  *)
(* locateTailStart finds where the last lines begin (TailFinds), whatever  *)
(* chunk it stops in, comes of counting: behind a newline there are as     *)
(* many lines as newlines.                                                 *)
(*                                                                         *)
(* inspect's detection, for rows, delimiters and texts of any number.  The *)
(* heart of it is RowsInv: the rows looked at are the evidence, one for    *)
(* one (EvidenceIs), dominant is the best of the numbers of fields met, in *)
(* any order, and best the winner of the delimiters behind that split all  *)
(* rows alike (BestOf).  The encoding follows from what the bytes of a     *)
(* character can be (Fits).                                                *)
(***************************************************************************)
EXTENDS Progress, Inspect, FiniteSetTheorems, SequenceTheorems, WellFoundedInduction, TLAPS

\* A worker between Load and Swap carries a sum to current.
Carries(w) == worker[w].at \in {"load", "swap"}

State == [at : {"move", "load", "swap", "returned"}, moved : Nat, sum : Nat, seen : Nat]

Printed == [status : {"progress", "done", "newline"}, bytes : Nat]

\* Shapes, without the bound on the total.
Shapes ==
  /\ interactive \in BOOLEAN
  /\ main \in {"transfer", "print", "finished"}
  /\ worker \in [Worker -> State]
  /\ total \in Nat /\ current \in Nat /\ shown \in Nat
  /\ loop \in {"select", "print", "returned"}
  /\ out \in Seq(Printed)

\* No sum is beyond the total, and a swap is only tried for a larger one.
SumsInv ==
  /\ current <= total
  /\ \A w \in Worker : worker[w].sum <= total
  /\ \A w \in Worker : worker[w].at = "swap" => worker[w].seen < worker[w].sum

NewestInv == current = total \/ \E w \in Worker : Carries(w) /\ worker[w].sum = total

\* Finish comes when nobody moves data any more.
FinishInv == main # "transfer" => AllReturned

\* What is printed is never ahead of current, nor of what is printed next; the
\* last line is not there before Finish prints it.
LinesInv ==
  /\ shown <= current
  /\ \A k \in DOMAIN out : out[k].status = "progress" => out[k].bytes <= shown
  /\ \A k \in DOMAIN out : out[k].status # "progress" => main = "finished"

IInv == Shapes /\ SumsInv /\ NewestInv /\ FinishInv /\ LinesInv /\ OutputConsistent

\* IInv holds at first.
LEMMA InitInv == Init => IInv
<1>. SUFFICES ASSUME Init PROVE IInv
  OBVIOUS
<1>1. Shapes
  BY DEF Init, Shapes, State
<1>2. SumsInv /\ NewestInv /\ FinishInv
  BY DEF Init, SumsInv, NewestInv, FinishInv
<1>3. LinesInv /\ OutputConsistent
  BY DEF Init, LinesInv, OutputConsistent
<1>. QED
  BY <1>1, <1>2, <1>3 DEF IInv

\* What the elements of the two collections are.
LEMMA Typed ==
  ASSUME Shapes
  PROVE  /\ \A k \in DOMAIN out : out[k].bytes \in Nat /\ out[k] \in Printed
         /\ \A w \in Worker : /\ worker[w].sum \in Nat /\ worker[w].seen \in Nat
                             /\ worker[w].moved \in Nat
                             /\ worker[w].at \in {"move", "load", "swap", "returned"}
<1>1. ASSUME NEW k \in DOMAIN out
      PROVE  out[k].bytes \in Nat /\ out[k] \in Printed
  <2>1. out[k] \in Printed
    BY <1>1 DEF Shapes
  <2>. QED
    BY <2>1 DEF Printed
<1>2. ASSUME NEW w \in Worker
      PROVE  worker[w] \in State
  BY <1>2 DEF Shapes
<1>. QED
  BY <1>1, <1>2 DEF State

------------------------------------------------------------------------------
(* The workers.                                                              *)

\* When all have returned, the newest sum has arrived.
LEMMA AllArrived == ASSUME NewestInv, AllReturned
                    PROVE  current = total
  BY DEF NewestInv, AllReturned, Carries

\* A worker that moves, returns or looks leaves current and the output alone.
LEMMA QuietStep ==
  ASSUME IInv, NEW w \in Worker, Move(w) \/ Return(w) \/ Load(w)
  PROVE  IInv'
<1>0. /\ UNCHANGED <<interactive, main, current, loop, shown, out>>
      /\ main = "transfer"
  BY DEF Move, Return, Load, IInv, FinishInv, AllReturned
<1>1. Shapes'
  <2>1. worker' \in [Worker -> State] /\ total' \in Nat
    <3>1. CASE Move(w)
      BY <3>1, Typed DEF IInv, Shapes, State, Move
    <3>2. CASE Return(w)
      BY <3>2, Typed DEF IInv, Shapes, State, Return, Goto
    <3>3. CASE Load(w)
      <4>. DEFINE place == IF worker[w].sum <= current THEN "move" ELSE "swap"
      <4>1. worker \in [Worker -> State] /\ worker[w] \in State /\ current \in Nat /\ total \in Nat
        BY DEF IInv, Shapes
      <4>2. worker' = [worker EXCEPT ![w].seen = current, ![w].at = place] /\ total' = total
        BY <3>3 DEF Load
      <4>3. place \in {"move", "load", "swap", "returned"}
        OBVIOUS
      <4>. HIDE DEF place
      <4>4. [worker[w] EXCEPT !.seen = current, !.at = place] \in State
        BY <4>1, <4>3 DEF State
      <4>5. worker' = [worker EXCEPT ![w] = [worker[w] EXCEPT !.seen = current, !.at = place]]
        BY <4>1, <4>2 DEF State
      <4>. QED
        BY <4>1, <4>2, <4>4, <4>5
    <3>. QED
      BY <3>1, <3>2, <3>3
  <2>. QED
    BY <1>0, <2>1 DEF IInv, Shapes
<1>2. total' \in {total, total + 1} /\ total \in Nat /\ current \in Nat
  BY DEF IInv, Shapes, Move, Return, Load
<1>3. SumsInv'
  <2>1. CASE Move(w)
    BY <2>1 DEF IInv, Shapes, State, SumsInv, Move
  <2>2. CASE Return(w)
    BY <2>2 DEF IInv, Shapes, State, SumsInv, Return, Goto
  <2>3. CASE Load(w)
    BY <2>3 DEF IInv, Shapes, State, SumsInv, Load
  <2>. QED
    BY <2>1, <2>2, <2>3
<1>4. NewestInv'
  <2>1. CASE Move(w)
    <3>1. Carries(w)' /\ worker'[w].sum = total'
      BY <2>1 DEF IInv, Shapes, Carries, Move
    <3>. QED
      BY <3>1 DEF NewestInv
  <2>2. CASE Return(w)
    <3>1. \A v \in Worker : Carries(v) => Carries(v)' /\ worker'[v].sum = worker[v].sum
      BY <2>2 DEF IInv, Shapes, Carries, Return, Goto
    <3>. QED
      BY <1>0, <2>2, <3>1 DEF IInv, NewestInv, Return
  <2>3. CASE Load(w)
    <3>1. \A v \in Worker \ {w} : worker'[v] = worker[v]
      BY <2>3 DEF IInv, Shapes, Load
    <3>2. /\ worker[w].sum <= current \/ worker'[w].at = "swap"
          /\ worker'[w].sum = worker[w].sum
      BY <2>3 DEF IInv, Shapes, State, Load
    <3>3. worker[w].sum <= current /\ worker[w].sum = total => current = total
      BY <1>2 DEF IInv, SumsInv
    <3>4. total' = total /\ current' = current
      BY <2>3 DEF Load
    <3>. QED
      BY <3>1, <3>2, <3>3, <3>4 DEF IInv, NewestInv, Carries
  <2>. QED
    BY <2>1, <2>2, <2>3
<1>5. FinishInv'
  BY <1>0 DEF FinishInv
<1>6. LinesInv'
  BY <1>0 DEF IInv, LinesInv
<1>7. OutputConsistent'
  <2>1. \A k \in DOMAIN out : out[k].status = "progress"
    BY <1>0 DEF IInv, LinesInv
  <2>. QED
    BY <1>0, <2>1 DEF IInv, OutputConsistent
<1>. QED
  BY <1>1, <1>3, <1>4, <1>5, <1>6, <1>7 DEF IInv

\* current only grows, and no sum overtakes a larger one.
LEMMA SwapStep ==
  ASSUME IInv, NEW w \in Worker, Swap(w)
  PROVE  IInv'
<1>0. /\ UNCHANGED <<interactive, main, total, loop, shown, out>>
      /\ main = "transfer"
      /\ worker[w].at = "swap"
  BY DEF Swap, IInv, FinishInv, AllReturned
<1>s. /\ worker \in [Worker -> State] /\ worker[w] \in State
      /\ current \in Nat /\ total \in Nat /\ worker[w].sum \in Nat
  BY Typed DEF IInv, Shapes
<1>g. PICK to \in {"move", "load"} : worker' = [worker EXCEPT ![w].at = to]
  BY DEF Swap, Goto, AfterMiss
<1>v. /\ worker' \in [Worker -> State]
      /\ worker'[w].at \in {"move", "load"} /\ worker'[w].sum = worker[w].sum
      /\ \A v \in Worker : v # w => worker'[v] = worker[v]
  <2>1. [worker[w] EXCEPT !.at = to] \in State
    BY <1>s, <1>g DEF State
  <2>2. worker' = [worker EXCEPT ![w] = [worker[w] EXCEPT !.at = to]]
    BY <1>s, <1>g DEF State
  <2>. QED
    BY <1>s, <1>g, <2>1, <2>2 DEF State
<1>1. Shapes'
  <2>1. current' \in Nat
    BY <1>s DEF Swap
  <2>. QED
    BY <1>0, <1>s, <1>v, <2>1 DEF IInv, Shapes
<1>2. current <= current' /\ current' <= total
  BY <1>0 DEF IInv, Shapes, State, SumsInv, Swap, Unchanged
<1>3. SumsInv'
  <2>1. \A v \in Worker : worker'[v].sum = worker[v].sum
    BY <1>v
  <2>2. \A v \in Worker : worker'[v].at = "swap" => worker'[v] = worker[v]
    BY <1>v
  <2>. QED
    BY <1>0, <1>2, <2>1, <2>2 DEF IInv, SumsInv
<1>4. NewestInv'
  <2>1. CASE Unchanged(w)
    <3>1. current' = worker[w].sum /\ current < worker[w].sum /\ worker[w].sum <= total
      BY <1>0, <2>1 DEF IInv, SumsInv, Swap, Unchanged
    <3>2. \A v \in Worker \ {w} : worker'[v] = worker[v]
      BY <2>1 DEF IInv, Shapes, Swap, Goto
    <3>3. current # total
      BY <3>1, Typed DEF IInv, Shapes
    <3>. QED
      BY <1>0, <3>1, <3>2, <3>3 DEF IInv, NewestInv, Carries
  <2>2. CASE ~Unchanged(w)
    <3>0. worker' = [worker EXCEPT ![w].at = "load"]
      BY <2>2 DEF Swap, Goto, AfterMiss
    <3>1. \A v \in Worker : Carries(v) => Carries(v)' /\ worker'[v].sum = worker[v].sum
      BY <3>0 DEF IInv, Shapes, State, Carries
    <3>2. current' = current
      BY <2>2 DEF Swap
    <3>. QED
      BY <1>0, <3>1, <3>2 DEF IInv, NewestInv
  <2>. QED
    BY <2>1, <2>2
<1>5. FinishInv'
  BY <1>0 DEF FinishInv
<1>6. LinesInv' /\ OutputConsistent'
  <2>1. shown' <= current'
    BY <1>0, <1>1, <1>2 DEF IInv, Shapes, LinesInv
  <2>. QED
    BY <1>0, <2>1 DEF IInv, LinesInv, OutputConsistent, LastLine
<1>. QED
  BY <1>1, <1>3, <1>4, <1>5, <1>6 DEF IInv

------------------------------------------------------------------------------
(* The transfer and the printing goroutine.                                  *)

\* A line that is appended is the last one.
LEMMA Appended ==
  ASSUME NEW line \in Printed,
         out \in Seq(Printed), out' = Append(out, line)
  PROVE  /\ out' \in Seq(Printed)
         /\ DOMAIN out' = 1 .. Len(out) + 1 /\ DOMAIN out = 1 .. Len(out) /\ Len(out) \in Nat
         /\ \A k \in DOMAIN out : out'[k] = out[k]
         /\ out'[Len(out) + 1] = line
  OBVIOUS

\* Closing done keeps IInv.
LEMMA CloseStep == ASSUME IInv, CloseDone PROVE IInv'
<1>1. Shapes' /\ SumsInv' /\ NewestInv'
  BY DEF CloseDone, IInv, Shapes, SumsInv, NewestInv, Carries
<1>2. FinishInv'
  BY DEF CloseDone, FinishInv, AllReturned
<1>3. LinesInv' /\ OutputConsistent'
  BY DEF CloseDone, IInv, LinesInv, OutputConsistent, LastLine
<1>. QED
  BY <1>1, <1>2, <1>3 DEF IInv

\* The last print keeps IInv.
LEMMA PrintDoneStep == ASSUME IInv, PrintDone PROVE IInv'
<1>0. /\ current = total /\ main = "print" /\ main' = "finished"
      /\ UNCHANGED <<interactive, worker, total, current, loop, shown>>
  BY AllArrived DEF PrintDone, IInv, FinishInv
<1>. DEFINE line == LastLine
<1>1. /\ line \in Printed /\ out' = Append(out, line)
      /\ line.status # "progress" /\ (line # NewLine => line.bytes = total)
  BY <1>0 DEF PrintDone, IInv, Shapes, Line, LastLine, NewLine, Printed
<1>l. LastLine' = line
  BY <1>0 DEF LastLine
<1>. HIDE DEF line
<1>2. /\ out' \in Seq(Printed)
      /\ DOMAIN out' = 1 .. Len(out) + 1 /\ DOMAIN out = 1 .. Len(out) /\ Len(out) \in Nat
      /\ \A k \in DOMAIN out : out'[k] = out[k]
      /\ out'[Len(out) + 1] = line
  BY <1>1, Appended DEF IInv, Shapes
<1>3. \A k \in DOMAIN out : out[k].status = "progress" /\ out[k].bytes <= total
  BY <1>0, Typed DEF IInv, Shapes, LinesInv
<1>4. Shapes' /\ SumsInv' /\ NewestInv' /\ FinishInv'
  BY <1>0, <1>2 DEF IInv, Shapes, SumsInv, NewestInv, Carries, FinishInv, AllReturned
<1>5. LinesInv'
  BY <1>0, <1>1, <1>2, <1>3 DEF IInv, LinesInv
<1>6. OutputConsistent'
  <2>1. ASSUME NEW j \in DOMAIN out', NEW k \in DOMAIN out', j < k
        PROVE  /\ out'[j].status = "progress"
               /\ out'[k] # NewLine => out'[j].bytes <= out'[k].bytes
    <3>1. j \in DOMAIN out /\ (k \in DOMAIN out \/ k = Len(out) + 1)
      BY <1>2, <2>1
    <3>2. CASE k \in DOMAIN out
      BY <1>2, <1>3, <2>1, <3>1, <3>2 DEF IInv, OutputConsistent
    <3>3. CASE k = Len(out) + 1
      BY <1>1, <1>2, <1>3, <3>1, <3>3
    <3>. QED
      BY <3>1, <3>2, <3>3
  <2>2. \A k \in DOMAIN out' : out'[k].status # "progress" => out'[k] = line
    BY <1>2, <1>3
  <2>3. \E k \in DOMAIN out' : out'[k] = line
    BY <1>2
  <2>. QED
    BY <1>l, <2>1, <2>2, <2>3 DEF OutputConsistent
<1>. QED
  BY <1>4, <1>5, <1>6 DEF IInv

\* A print of the loop keeps IInv.
LEMMA PrintLineStep == ASSUME IInv, PrintLine PROVE IInv'
<1>0. UNCHANGED <<interactive, main, worker, total, current, shown>>
  BY DEF PrintLine
<1>. DEFINE line == Line("progress", shown)
<1>1. line \in Printed /\ out' = Append(out, line) /\ line # NewLine
      /\ line.status = "progress" /\ line.bytes = shown
  BY <1>0 DEF PrintLine, IInv, Shapes, Line, NewLine, Printed
<1>. HIDE DEF line
<1>2. /\ out' \in Seq(Printed)
      /\ DOMAIN out' = 1 .. Len(out) + 1 /\ DOMAIN out = 1 .. Len(out) /\ Len(out) \in Nat
      /\ \A k \in DOMAIN out : out'[k] = out[k]
      /\ out'[Len(out) + 1] = line
  BY <1>1, Appended DEF IInv, Shapes
<1>3. Shapes' /\ SumsInv' /\ NewestInv' /\ FinishInv'
  BY <1>0, <1>2 DEF PrintLine, IInv, Shapes, SumsInv, NewestInv, Carries, FinishInv, AllReturned
<1>4. LinesInv'
  BY <1>0, <1>1, <1>2 DEF IInv, Shapes, LinesInv
<1>l. LastLine' = LastLine
  BY <1>0 DEF LastLine
<1>5. OutputConsistent'
  <2>1. ASSUME NEW j \in DOMAIN out', NEW k \in DOMAIN out', j < k
        PROVE  /\ out'[j].status = "progress" /\ out'[k] # NewLine => out'[j].bytes <= out'[k].bytes
               /\ out'[j].status # "progress" => out'[k].status = "progress"
    <3>1. j \in DOMAIN out /\ (k \in DOMAIN out \/ k = Len(out) + 1)
      BY <1>2, <2>1
    <3>2. CASE k \in DOMAIN out
      BY <1>2, <2>1, <3>1, <3>2 DEF IInv, OutputConsistent
    <3>3. CASE k = Len(out) + 1
      BY <1>1, <1>2, <3>1, <3>3 DEF IInv, LinesInv
    <3>. QED
      BY <3>1, <3>2, <3>3
  <2>2. \A k \in DOMAIN out' : out'[k].status # "progress" => out'[k] = LastLine
    BY <1>1, <1>2 DEF IInv, OutputConsistent
  <2>3. main = "finished" => \E k \in DOMAIN out' : out'[k] = LastLine
    BY <1>2 DEF IInv, OutputConsistent
  <2>. QED
    BY <1>0, <1>l, <2>1, <2>2, <2>3 DEF OutputConsistent
<1>. QED
  BY <1>3, <1>4, <1>5 DEF IInv

\* A tick loads what is current, which is no less than before.
LEMMA TickStep ==
  ASSUME IInv, TakeTick \/ TakeDone \/ Tick \/ Ended \/ UNCHANGED vars
  PROVE  IInv'
<1>0. /\ UNCHANGED <<interactive, main, worker, total, current, out>>
      /\ shown' \in {shown, current}
      /\ loop' \in {"select", "print", "returned"}
  BY DEF TakeTick, TakeDone, AfterDone, Tick, Ended, vars, IInv, Shapes
<1>1. Shapes' /\ SumsInv' /\ NewestInv' /\ FinishInv'
  BY <1>0 DEF IInv, Shapes, SumsInv, NewestInv, Carries, FinishInv, AllReturned
<1>2. LinesInv'
  <2>1. shown <= shown' /\ shown' <= current'
    BY <1>0 DEF IInv, Shapes, LinesInv
  <2>. QED
    BY <1>0, <1>1, <2>1, Typed DEF IInv, Shapes, LinesInv, TakeTick, TakeDone, Tick, Ended, vars
<1>3. OutputConsistent'
  BY <1>0 DEF IInv, OutputConsistent, LastLine
<1>. QED
  BY <1>1, <1>2, <1>3 DEF IInv

------------------------------------------------------------------------------
\* Every state is as IInv says.
THEOREM Invariance == Spec => []IInv
<1>1. IInv /\ [Next]_vars => IInv'
  BY QuietStep, SwapStep, CloseStep, PrintDoneStep, PrintLineStep, TickStep
     DEF Next, Work, Loop
<1>. QED
  BY InitInv, <1>1, PTL DEF Spec

\* The printed output never contradicts itself; it has a last line in the end,
\* which tells all that was moved unless a terminal is written to.
THEOREM Consistency == Spec => []OutputConsistent
<1>1. IInv => OutputConsistent
  BY DEF IInv
<1>. QED
  BY Invariance, <1>1, PTL

------------------------------------------------------------------------------
(* The bounds: the total is the number of pieces that were moved.            *)

\* The pieces that were moved, and all there are.
Moved == {p \in Worker \X (1 .. Pieces) : p[2] <= worker[p[1]].moved}

CountInv ==
  /\ \A w \in Worker : worker[w].moved <= Pieces /\ worker[w].seen <= current
  /\ total = Cardinality(Moved)
  /\ ticks \in 0 .. MaxTicks
  /\ done \in BOOLEAN /\ tick \in BOOLEAN

\* There are only so many pieces.
LEMMA MovedIsBounded == IsFiniteSet(Moved) /\ Cardinality(Moved) <= Pieces * Cardinality(Worker)
<1>. DEFINE P == 1 .. Pieces
<1>1. Pieces \in Int /\ 1 \in Int /\ Pieces \in Nat
  BY PiecesAssumption
<1>2. IsFiniteSet(P) /\ Cardinality(P) = Pieces
  <2>1. Cardinality(P) = IF 1 > Pieces THEN 0 ELSE Pieces - 1 + 1
    BY <1>1, FS_Interval
  <2>2. IsFiniteSet(P)
    BY <1>1, FS_Interval
  <2>. QED
    BY <1>1, <2>1, <2>2
<1>. HIDE DEF P
<1>3. /\ IsFiniteSet(Worker \X P)
      /\ Cardinality(Worker \X P) = Cardinality(Worker) * Cardinality(P)
  BY <1>2, WorkerAssumption, FS_Product
<1>4. Moved \in SUBSET (Worker \X P)
  BY DEF Moved, P
<1>5. Cardinality(Worker) \in Nat
  BY WorkerAssumption, FS_CardinalityType
<1>6. \A c \in Nat : c * Pieces = Pieces * c
  BY <1>1
<1>7. IsFiniteSet(Moved) /\ Cardinality(Moved) <= Cardinality(Worker \X P)
  BY <1>3, <1>4, FS_Subset
<1>. QED
  BY <1>2, <1>3, <1>5, <1>6, <1>7

\* A worker that moves a piece moves one that was not moved.
LEMMA OneMoved ==
  ASSUME IInv, NEW w \in Worker, Move(w)
  PROVE  /\ Cardinality(Moved)' = Cardinality(Moved) + 1
         /\ worker'[w].moved <= Pieces /\ worker'[w].seen = 0
         /\ \A v \in Worker : v # w => worker'[v] = worker[v]
<1>1. /\ worker \in [Worker -> State] /\ worker[w] \in State /\ worker[w].moved < Pieces
      /\ worker[w].moved \in Nat /\ Pieces \in Nat
  BY Typed, PiecesAssumption DEF IInv, Shapes, Move
<1>2. /\ worker'[w].moved = worker[w].moved + 1 /\ worker'[w].seen = 0
      /\ \A v \in Worker : v # w => worker'[v] = worker[v]
  BY <1>1 DEF Move
<1>. DEFINE new == <<w, worker[w].moved + 1>>
<1>3. new \in Worker \X (1 .. Pieces) /\ new \notin Moved
  BY <1>1 DEF Moved
<1>4. ASSUME NEW p \in Worker \X (1 .. Pieces)
      PROVE  p[2] <= worker'[p[1]].moved <=> p[2] <= worker[p[1]].moved \/ p = new
  <2>0. p[1] \in Worker /\ p[2] \in 1 .. Pieces /\ p = <<p[1], p[2]>>
    OBVIOUS
  <2>1. CASE p[1] = w
    <3>1. p = new <=> p[2] = worker[w].moved + 1
      BY <2>0, <2>1
    <3>. HIDE DEF new
    <3>. QED
      BY <1>1, <1>2, <2>0, <2>1, <3>1
  <2>2. CASE p[1] # w
    BY <1>2, <2>0, <2>2
  <2>. QED
    BY <2>1, <2>2
<1>. HIDE DEF new
<1>5. Moved' = Moved \cup {new}
  <2>1. Moved' = {p \in Worker \X (1 .. Pieces) : p[2] <= worker'[p[1]].moved}
    BY DEF Moved
  <2>. QED
    BY <1>3, <1>4, <2>1 DEF Moved
<1>6. Cardinality(Moved \cup {new}) = Cardinality(Moved) + 1
  BY <1>3, MovedIsBounded, FS_AddElement
<1>. QED
  BY <1>1, <1>2, <1>5, <1>6

\* The other steps of a worker move nothing.
LEMMA NoneMoved ==
  ASSUME IInv, CountInv, NEW w \in Worker, Return(w) \/ Load(w) \/ Swap(w)
  PROVE  CountInv'
<1>1. /\ worker \in [Worker -> State] /\ worker[w] \in State
      /\ current \in Nat /\ worker[w].sum \in Nat /\ worker[w].seen \in Nat
      /\ \A v \in Worker : worker[v].seen \in Nat
      /\ UNCHANGED <<ticks, done, tick, total>>
  BY Typed DEF IInv, Shapes, Return, Load, Swap
<1>2. current <= current' /\ current' \in Nat
  <2>1. CASE Swap(w) /\ Unchanged(w)
    BY <1>1, <2>1 DEF IInv, SumsInv, Swap, Unchanged
  <2>2. CASE ~(Swap(w) /\ Unchanged(w))
    BY <1>1, <2>2 DEF Return, Load, Swap
  <2>. QED
    BY <2>1, <2>2
<1>3. /\ \A v \in Worker : worker'[v].moved = worker[v].moved
      /\ \A v \in Worker : worker'[v].seen \in {worker[v].seen, current}
  BY <1>1 DEF State, Return, Load, Swap, Goto
<1>4. Moved' = Moved
  <2>1. \A p \in Worker \X (1 .. Pieces) : worker'[p[1]].moved = worker[p[1]].moved
    BY <1>3
  <2>. QED
    BY <2>1 DEF Moved
<1>5. \A v \in Worker : worker'[v].moved <= Pieces /\ worker'[v].seen <= current'
  BY <1>1, <1>2, <1>3 DEF CountInv
<1>. QED
  BY <1>1, <1>4, <1>5 DEF CountInv

\* Every step keeps the count.
LEMMA CountStep == IInv /\ CountInv /\ [Next]_vars => CountInv'
<1>. SUFFICES ASSUME IInv, CountInv, [Next]_vars PROVE CountInv'
  OBVIOUS
<1>1. ASSUME NEW w \in Worker, Move(w) PROVE CountInv'
  <2>1. total' = total + 1 /\ UNCHANGED <<ticks, done, tick, current>>
    BY <1>1 DEF Move
  <2>2. /\ Cardinality(Moved)' = Cardinality(Moved) + 1
        /\ worker'[w].moved <= Pieces /\ worker'[w].seen = 0
        /\ \A v \in Worker : v # w => worker'[v] = worker[v]
    BY <1>1, OneMoved
  <2>3. current \in Nat
    BY DEF IInv, Shapes
  <2>. QED
    BY <2>1, <2>2, <2>3 DEF CountInv
<1>2. ASSUME UNCHANGED <<worker, total, current>> PROVE CountInv'
  <2>1. Moved' = Moved
    BY <1>2 DEF Moved
  <2>2. ticks' \in 0 .. MaxTicks
    <3>1. ticks' = ticks \/ (ticks < MaxTicks /\ ticks' = ticks + 1)
      BY DEF Next, Work, Move, Return, Load, Swap, CloseDone, PrintDone, Loop, TakeTick,
        TakeDone, PrintLine, Tick, Ended, vars
    <3>. QED
      BY <3>1, PiecesAssumption DEF CountInv
  <2>3. done' \in {done, TRUE} /\ tick' \in {tick, TRUE, FALSE}
    BY DEF Next, Work, Move, Return, Load, Swap, CloseDone, PrintDone, Loop, TakeTick,
        TakeDone, PrintLine, Tick, Ended, vars
  <2>4. done' \in BOOLEAN /\ tick' \in BOOLEAN
    BY <2>3, Zenon DEF CountInv
  <2>. QED
    BY <1>2, <2>1, <2>2, <2>4 DEF CountInv
<1>3. \/ \E w \in Worker : Move(w) \/ Return(w) \/ Load(w) \/ Swap(w)
      \/ UNCHANGED <<worker, total, current>>
  BY DEF Next, Work, CloseDone, PrintDone, Loop, TakeTick, TakeDone, PrintLine, Tick, Ended, vars
<1>. QED
  BY <1>1, <1>2, <1>3, NoneMoved

\* Nothing has been moved at the start.
LEMMA CountInit == Init => CountInv
<1>. SUFFICES ASSUME Init PROVE CountInv
  OBVIOUS
<1>1. Moved = {}
  BY DEF Init, Moved
<1>2. Cardinality(Moved) = 0
  BY <1>1, FS_EmptySet
<1>3. total = 0 /\ ticks \in 0 .. MaxTicks
  BY PiecesAssumption DEF Init
<1>4. done \in BOOLEAN /\ tick \in BOOLEAN
  BY Zenon DEF Init
<1>5. \A w \in Worker : worker[w].moved <= Pieces /\ worker[w].seen <= current
  BY PiecesAssumption DEF Init
<1>. QED
  BY <1>2, <1>3, <1>4, <1>5 DEF CountInv

\* The total stays within what there is to move, and nothing that was not moved is
\* ever reported or printed: however the additions of the workers interleave with
\* Observe's loads and swaps, current and every printed count stay at or below it.
THEOREM TypeCorrect == Spec => []TypeOK
<1>1. IInv /\ CountInv => TypeOK
  <2>. SUFFICES ASSUME IInv, CountInv PROVE TypeOK
    OBVIOUS
  <2>1. total \in 0 .. Pieces * Cardinality(Worker)
    <3>1. Pieces * Cardinality(Worker) \in Nat
      <4>1. Cardinality(Worker) \in Nat /\ Pieces \in Nat
        BY WorkerAssumption, PiecesAssumption, FS_CardinalityType
      <4>. QED
        BY <4>1
    <3>2. total \in Nat /\ total <= Pieces * Cardinality(Worker)
      BY MovedIsBounded DEF IInv, Shapes, CountInv
    <3>. QED
      BY <3>1, <3>2
  <2>2. \A w \in Worker :
           /\ worker[w].at \in {"move", "load", "swap", "returned"}
           /\ worker[w].moved \in 0 .. Pieces
           /\ worker[w].sum \in 0 .. total /\ worker[w].seen \in 0 .. current
    BY Typed, PiecesAssumption DEF IInv, Shapes, SumsInv, CountInv
  <2>3. \A k \in DOMAIN out : out[k].bytes \in 0 .. current
    <3>. TAKE k \in DOMAIN out
    <3>1. /\ out[k].bytes \in Nat /\ out[k] \in Printed
          /\ current \in Nat /\ shown \in Nat /\ shown <= current
      BY Typed DEF IInv, Shapes, LinesInv
    <3>2. CASE out[k].status = "progress"
      BY <3>1, <3>2 DEF IInv, LinesInv
    <3>3. CASE out[k].status # "progress"
      <4>1. main = "finished" /\ out[k] = LastLine
        BY <3>3 DEF IInv, LinesInv, OutputConsistent
      <4>2. current = total
        BY <4>1, AllArrived DEF IInv, FinishInv
      <4>3. out[k].bytes \in {0, total}
        BY <4>1 DEF LastLine, NewLine, Line
      <4>. QED
        BY <3>1, <4>2, <4>3
    <3>. QED
      BY <3>1, <3>2, <3>3
  <2>4. /\ main \in {"transfer", "print", "finished"} /\ loop \in {"select", "print", "returned"}
        /\ current \in 0 .. total /\ shown \in 0 .. current /\ ticks \in 0 .. MaxTicks
    BY DEF IInv, Shapes, SumsInv, LinesInv, CountInv
  <2>5. {interactive, done, tick} \subseteq BOOLEAN
    BY Zenon DEF IInv, Shapes, CountInv
  <2>. QED
    BY <2>1, <2>2, <2>3, <2>4, <2>5 DEF TypeOK
<1>2. Spec => []CountInv
  BY CountInit, CountStep, Invariance, PTL DEF Spec
<1>. QED
  BY <1>1, <1>2, Invariance, PTL

------------------------------------------------------------------------------
(* Counting positions.                                                       *)

Less == {p \in Nat \X Nat : p[1] < p[2]}

\* Less is the order of the numbers, as the library has it.
LEMMA LessWF == IsWellFoundedOn(Less, Nat)
  BY NatLessThanWellFounded DEF OpToRel, Less

\* A set of numbers has a least one.
LEMMA Least ==
  ASSUME NEW S \in SUBSET Nat, S # {}
  PROVE  \E m \in S : \A s \in S : m <= s
<1>1. PICK m \in S : \A s \in S : <<s, m>> \notin Less
  BY LessWF, WFMin
<1>2. ASSUME NEW s \in S PROVE m <= s
  <2>1. s \in Nat /\ m \in Nat /\ <<s, m>> \in Nat \X Nat
    OBVIOUS
  <2>2. ~(s < m)
    BY <1>1, <2>1 DEF Less
  <2>. QED
    BY <2>1, <2>2
<1>. QED
  BY <1>2

\* Induction, over a set of numbers.
LEMMA Induct ==
  ASSUME NEW S, 0 \in S, \A n \in Nat : n \in S => n + 1 \in S
  PROVE  Nat \subseteq S
<1>. SUFFICES ASSUME Nat \ S # {} PROVE FALSE
  OBVIOUS
<1>1. PICK x \in Nat \ S : \A y \in Nat \ S : x <= y
  BY Least, (Nat \ S) \subseteq Nat
<1>2. x # 0 /\ x - 1 \in Nat /\ x \in Nat /\ x - 1 < x /\ (x - 1) + 1 = x
  OBVIOUS
<1>3. x - 1 \in S
  BY <1>1, <1>2
<1>. QED
  BY <1>2, <1>3

Below(S, x) == {s \in S : s < x}
From(S, x) == {s \in S : s >= x}

IsPositions(S) == S \subseteq Nat /\ IsFiniteSet(S)

\* What is counted is finite, and adds up.
LEMMA Parts ==
  ASSUME NEW S, IsPositions(S), NEW x \in Nat
  PROVE  /\ IsPositions(Below(S, x)) /\ IsPositions(From(S, x))
         /\ Cardinality(Below(S, x)) \in Nat /\ Cardinality(From(S, x)) \in Nat
         /\ Cardinality(S) \in Nat
         /\ Cardinality(S) = Cardinality(Below(S, x)) + Cardinality(From(S, x))
<1>1. S \subseteq Nat /\ IsFiniteSet(S) /\ Below(S, x) \in SUBSET S /\ From(S, x) \in SUBSET S
  BY DEF IsPositions, Below, From
<1>2. IsFiniteSet(Below(S, x)) /\ IsFiniteSet(From(S, x))
  BY <1>1, FS_Subset
<1>3. /\ Cardinality(Below(S, x)) \in Nat /\ Cardinality(From(S, x)) \in Nat
      /\ Cardinality(S) \in Nat
  BY <1>1, <1>2, FS_CardinalityType
<1>4. S = Below(S, x) \cup From(S, x) /\ Below(S, x) \cap From(S, x) = {}
  <2>1. \A s \in S : s < x \/ s >= x
    BY <1>1
  <2>2. \A s \in S : ~(s < x /\ s >= x)
    BY <1>1
  <2>. QED
    BY <2>1, <2>2, Zenon DEF Below, From
<1>5. Cardinality({}) = 0
  BY FS_EmptySet
<1>6. Cardinality(S) = Cardinality(Below(S, x)) + Cardinality(From(S, x)) - 0
  BY <1>2, <1>4, <1>5, FS_Union
<1>7. Below(S, x) \subseteq Nat /\ From(S, x) \subseteq Nat
  BY <1>1
<1>. QED
  BY <1>2, <1>3, <1>6, <1>7 DEF IsPositions

\* Fewer positions come from a later one on, and more before it.
LEMMA LaterIsFewer ==
  ASSUME NEW S, IsPositions(S), NEW x \in S, NEW y \in Nat, x < y
  PROVE  /\ Cardinality(From(S, y)) < Cardinality(From(S, x))
         /\ Cardinality(Below(S, x)) < Cardinality(Below(S, y))
<1>1. x \in Nat /\ S \subseteq Nat
  BY DEF IsPositions
<1>2. /\ From(S, y) \in SUBSET From(S, x) /\ x \in From(S, x) /\ x \notin From(S, y)
      /\ IsFiniteSet(From(S, x)) /\ Cardinality(From(S, x)) \in Nat /\ Cardinality(From(S, y)) \in Nat
  <2>1. \A s \in S : s >= y => s >= x
    BY <1>1
  <2>2. x >= x /\ ~(x >= y)
    BY <1>1
  <2>3. From(S, y) \in SUBSET From(S, x) /\ x \in From(S, x) /\ x \notin From(S, y)
    BY <2>1, <2>2 DEF From
  <2>. QED
    BY <1>1, <2>3, Parts DEF IsPositions
<1>3. Cardinality(From(S, y)) <= Cardinality(From(S, x)) /\ Cardinality(From(S, x)) # Cardinality(From(S, y))
  BY <1>2, FS_Subset
<1>4. /\ Cardinality(S) = Cardinality(Below(S, x)) + Cardinality(From(S, x))
      /\ Cardinality(S) = Cardinality(Below(S, y)) + Cardinality(From(S, y))
      /\ Cardinality(Below(S, x)) \in Nat /\ Cardinality(Below(S, y)) \in Nat /\ Cardinality(S) \in Nat
  BY <1>1, Parts
<1>. QED
  BY <1>2, <1>3, <1>4

\* The position with c from it on, counted from the back, is there and is one.
LEMMA RankIsOne ==
  ASSUME NEW S, IsPositions(S), NEW x \in S, NEW y \in S,
         Cardinality(From(S, x)) = Cardinality(From(S, y))
  PROVE  x = y
<1>1. x \in Nat /\ y \in Nat
  BY DEF IsPositions
<1>2. Cardinality(From(S, x)) \in Nat
  BY <1>1, Parts
<1>3. ~(x < y) /\ ~(y < x)
  BY <1>1, <1>2, LaterIsFewer
<1>. QED
  BY <1>1, <1>3

\* Of a finite set of positions each rank from behind is somebody's.
LEMMA RankExists ==
  ASSUME NEW S, IsPositions(S), NEW c \in 1 .. Cardinality(S)
  PROVE  \E x \in S : Cardinality(From(S, x)) = c
<1>. DEFINE Ranked(T) == \A d \in 1 .. Cardinality(T) : \E x \in T : Cardinality(From(T, x)) = d
            V == {n \in Nat : \A T : IsPositions(T) /\ Cardinality(T) = n => Ranked(T)}
<1>1. 0 \in V
  OBVIOUS
<1>2. ASSUME NEW n \in Nat, n \in V PROVE n + 1 \in V
  <2>. SUFFICES ASSUME NEW T, IsPositions(T), Cardinality(T) = n + 1, NEW d \in 1 .. n + 1
                PROVE  \E x \in T : Cardinality(From(T, x)) = d
    OBVIOUS
  <2>1. T \in SUBSET Nat /\ IsFiniteSet(T) /\ T # {}
    BY FS_EmptySet DEF IsPositions
  <2>2. PICK m \in T : \A t \in T : m <= t
    BY <2>1, Least
  <2>3. CASE d = n + 1
    <3>1. From(T, m) = T
      BY <2>2 DEF From
    <3>. QED
      BY <2>2, <2>3, <3>1
  <2>4. CASE d \in 1 .. n
    <3>1. IsPositions(T \ {m}) /\ Cardinality(T \ {m}) = n
      <4>1. Cardinality(T \ {m}) = (n + 1) - 1 /\ IsFiniteSet(T \ {m})
        BY <2>1, FS_RemoveElement
      <4>. QED
        BY <2>1, <4>1 DEF IsPositions
    <3>2. PICK x \in T \ {m} : Cardinality(From(T \ {m}, x)) = d
      BY <1>2, <2>4, <3>1
    <3>3. From(T, x) = From(T \ {m}, x)
      BY <2>1, <2>2 DEF From
    <3>. QED
      BY <3>2, <3>3
  <2>. QED
    BY <2>3, <2>4
<1>3. Nat \subseteq V
  <2>. HIDE DEF V
  <2>. QED
    BY <1>1, <1>2, Induct
<1>4. Cardinality(S) \in V
  BY <1>3, FS_CardinalityType DEF IsPositions
<1>. QED
  BY <1>4

\* One position more.
LEMMA OneMoreBelow ==
  ASSUME NEW S, IsPositions(S), NEW x \in S, NEW y \in Nat, x < y,
         \A s \in S : s < y => s <= x
  PROVE  Cardinality(Below(S, y)) = Cardinality(Below(S, x)) + 1
<1>1. x \in Nat /\ S \subseteq Nat /\ Below(S, y) = Below(S, x) \cup {x} /\ x \notin Below(S, x)
  <2>1. x \in Nat /\ S \subseteq Nat
    BY DEF IsPositions
  <2>2. \A s \in S : s < y <=> s < x \/ s = x
    BY <2>1
  <2>3. ~(x < x)
    BY <2>1
  <2>. QED
    BY <2>1, <2>2, <2>3 DEF Below
<1>2. IsFiniteSet(Below(S, x))
  BY <1>1, Parts DEF IsPositions
<1>. QED
  BY <1>1, <1>2, FS_AddElement

\* Moving all by one changes no number.
LEMMA Shifted ==
  ASSUME NEW S, IsPositions(S), NEW T, T = {s + 1 : s \in S}
  PROVE  IsPositions(T) /\ Cardinality(T) = Cardinality(S)
<1>. DEFINE f == [s \in S |-> s + 1]
<1>1. f \in Bijection(S, T)
  <2>1. f \in [S -> T] /\ \A t \in T : \E s \in S : f[s] = t
    OBVIOUS
  <2>2. ASSUME NEW a \in S, NEW b \in S, f[a] = f[b] PROVE a = b
    <3>1. a \in Nat /\ b \in Nat /\ a + 1 = b + 1
      BY <2>2 DEF IsPositions
    <3>. QED
      BY <3>1
  <2>. HIDE DEF f
  <2>3. f \in Injection(S, T) /\ f \in Surjection(S, T)
    BY <2>1, <2>2 DEF Injection, Surjection, IsInjective
  <2>. QED
    BY <2>3 DEF Bijection
<1>2. ExistsBijection(S, T)
  BY <1>1 DEF ExistsBijection
<1>3. T \subseteq Nat
  BY DEF IsPositions
<1>. QED
  BY <1>2, <1>3, FS_Bijection DEF IsPositions

------------------------------------------------------------------------------
(* Lines and where they begin.                                               *)

\* What is known of a source.
LEMMA SourceIs ==
  ASSUME job \in Job
  PROVE  /\ job.mode \in {"head", "tail", "ring", "mid", "wc"} /\ job.cloud \in BOOLEAN
         /\ job.count \in Nat /\ job.count >= 1
         /\ job.size \in Nat /\ job.length \in Nat /\ job.size <= job.length
         /\ IsPositions(job.nl) /\ (\A k \in job.nl : k \in Nat /\ k < job.length)
         /\ Chunk \in Nat /\ Chunk >= 1
<1>1. job.nl \subseteq 0 .. job.length - 1 /\ job.length \in Nat
  BY JobAssumption
<1>2. IsFiniteSet(0 .. job.length - 1)
  BY <1>1, FS_Interval
<1>3. IsFiniteSet(job.nl)
  BY <1>1, <1>2, FS_Subset
<1>4. \A k \in job.nl : k \in Nat /\ k < job.length
  BY <1>1
<1>5. IsPositions(job.nl)
  BY <1>3, <1>4 DEF IsPositions
<1>. QED
  BY <1>4, <1>5, JobAssumption, ChunkAssumption

\* Some of the newlines can be counted.
LEMMA NewlinesCount ==
  ASSUME job \in Job, NEW a \in Int, NEW b \in Int
  PROVE  /\ IsPositions(Newlines(a, b)) /\ Cardinality(Newlines(a, b)) \in Nat
         /\ \A k : k \in Newlines(a, b) <=> k \in job.nl /\ a <= k /\ k < b
<1>1. \A k : k \in Newlines(a, b) <=> k \in job.nl /\ a <= k /\ k < b
  BY DEF Newlines
<1>2. Newlines(a, b) \in SUBSET job.nl
  BY <1>1
<1>3. IsFiniteSet(Newlines(a, b)) /\ Newlines(a, b) \subseteq Nat
  BY <1>2, SourceIs, FS_Subset DEF IsPositions
<1>4. Cardinality(Newlines(a, b)) \in Nat
  BY <1>3, FS_CardinalityType
<1>. QED
  BY <1>1, <1>3, <1>4 DEF IsPositions

\* Those of two adjacent parts add up.
LEMMA NewlinesJoin ==
  ASSUME job \in Job, NEW a \in Int, NEW b \in Int, NEW c \in Int, a <= b, b <= c
  PROVE  Cardinality(Newlines(a, c)) = Cardinality(Newlines(a, b)) + Cardinality(Newlines(b, c))
<1>1. Newlines(a, c) = Newlines(a, b) \cup Newlines(b, c) /\ Newlines(a, b) \cap Newlines(b, c) = {}
  <2>1. ASSUME NEW k \in job.nl
        PROVE  /\ (a <= k /\ k < c) <=> (a <= k /\ k < b) \/ (b <= k /\ k < c)
               /\ ~((a <= k /\ k < b) /\ (b <= k /\ k < c))
    BY SourceIs
  <2>. QED
    BY <2>1, Zenon DEF Newlines
<1>2. /\ IsFiniteSet(Newlines(a, b)) /\ IsFiniteSet(Newlines(b, c))
      /\ Cardinality(Newlines(a, b)) \in Nat /\ Cardinality(Newlines(b, c)) \in Nat
  BY NewlinesCount DEF IsPositions
<1>3. Cardinality(Newlines(a, b) \cap Newlines(b, c)) = 0
  BY <1>1, FS_EmptySet
<1>4. Cardinality(Newlines(a, b) \cup Newlines(b, c))
        = Cardinality(Newlines(a, b)) + Cardinality(Newlines(b, c)) - 0
  BY <1>2, <1>3, FS_Union
<1>. QED
  BY <1>1, <1>2, <1>4

\* Where lines begin.
LEMMA StartsAre ==
  ASSUME job \in Job, NEW n \in Nat
  PROVE  /\ IsPositions(Starts(n)) /\ Cardinality(Starts(n)) \in Nat
         /\ \A s : s \in Starts(n) <=> s \in Nat /\ s < n /\ (s = 0 \/ s - 1 \in job.nl)
<1>1. \A s : s \in Starts(n) <=> s \in Nat /\ s < n /\ (s = 0 \/ s - 1 \in job.nl)
  BY DEF Starts
<1>2. Starts(n) \in SUBSET (0 .. n - 1) /\ IsFiniteSet(0 .. n - 1)
  BY FS_Interval DEF Starts
<1>3. IsFiniteSet(Starts(n)) /\ Starts(n) \subseteq Nat
  BY <1>1, <1>2, FS_Subset
<1>4. Cardinality(Starts(n)) \in Nat
  BY <1>3, FS_CardinalityType
<1>. QED
  BY <1>1, <1>3, <1>4 DEF IsPositions

\* Behind a newline, lines and newlines are as many.
LEMMA StartsBehind ==
  ASSUME job \in Job, NEW n \in Nat, NEW k \in job.nl, k < n - 1
  PROVE  /\ k + 1 \in Starts(n)
         /\ Cardinality(From(Starts(n), k + 1)) = Cardinality(Newlines(k, n - 1))
<1>1. k \in Nat /\ k + 1 \in Nat /\ k + 1 < n /\ (k + 1) - 1 = k
  BY SourceIs
<1>2. From(Starts(n), k + 1) = {h + 1 : h \in Newlines(k, n - 1)}
  <2>1. ASSUME NEW s \in From(Starts(n), k + 1)
        PROVE  s - 1 \in Newlines(k, n - 1) /\ s = (s - 1) + 1
    <3>1. s \in Nat /\ s < n /\ s >= k + 1 /\ (s = 0 \/ s - 1 \in job.nl)
      BY StartsAre DEF From
    <3>2. k <= s - 1 /\ s - 1 < n - 1 /\ s # 0
      BY <1>1, <3>1
    <3>3. \A j : j \in Newlines(k, n - 1) <=> j \in job.nl /\ k <= j /\ j < n - 1
      <4>1. n - 1 \in Int /\ k \in Int
        BY <1>1
      <4>. QED
        BY <4>1, NewlinesCount, Zenon
    <3>4. s = (s - 1) + 1
      BY <3>1
    <3>. QED
      BY <3>1, <3>2, <3>3, <3>4, Zenon
  <2>2. ASSUME NEW h \in Newlines(k, n - 1)
        PROVE  h + 1 \in From(Starts(n), k + 1)
    <3>1. h \in job.nl /\ k <= h /\ h < n - 1 /\ h \in Nat
      <4>1. h \in job.nl /\ k <= h /\ h < n - 1
        BY Zenon DEF Newlines
      <4>. QED
        BY <4>1, SourceIs
    <3>2. h + 1 \in Nat /\ h + 1 < n /\ (h + 1) - 1 = h /\ h + 1 >= k + 1
      BY <1>1, <3>1
    <3>. QED
      BY <3>1, <3>2, StartsAre DEF From
  <2>. QED
    BY <2>1, <2>2
<1>3. IsPositions(Newlines(k, n - 1))
  BY <1>1, NewlinesCount
<1>. QED
  BY <1>1, <1>2, <1>3, Shifted, StartsAre

\* The first line needs none.
LEMMA StartsCount ==
  ASSUME job \in Job, NEW n \in Nat, n > 0
  PROVE  0 \in Starts(n) /\ Cardinality(Starts(n)) = Cardinality(Newlines(0, n - 1)) + 1
<1>. DEFINE T == {h + 1 : h \in Newlines(0, n - 1)}
<1>1. IsPositions(Newlines(0, n - 1))
  BY NewlinesCount
<1>2. IsPositions(T) /\ Cardinality(T) = Cardinality(Newlines(0, n - 1))
  BY <1>1, Shifted
<1>3. 0 \in Starts(n)
  BY StartsAre
<1>4. Starts(n) = T \cup {0} /\ 0 \notin T
  <2>1. ASSUME NEW s \in Starts(n), s # 0
        PROVE  s \in T
    <3>1. s \in Nat /\ s < n /\ s - 1 \in job.nl
      BY <2>1, StartsAre
    <3>2. 0 <= s - 1 /\ s - 1 < n - 1 /\ s = (s - 1) + 1
      BY <2>1, <3>1
    <3>3. \A j : j \in Newlines(0, n - 1) <=> j \in job.nl /\ 0 <= j /\ j < n - 1
      <4>1. n - 1 \in Int /\ 0 \in Int
        OBVIOUS
      <4>. QED
        BY <4>1, NewlinesCount, Zenon
    <3>. QED
      BY <3>1, <3>2, <3>3, Zenon
  <2>2. ASSUME NEW h \in Newlines(0, n - 1)
        PROVE  h + 1 \in Starts(n) /\ h + 1 # 0
    <3>1. h \in job.nl /\ h < n - 1 /\ h \in Nat
      BY NewlinesCount, SourceIs
    <3>2. h + 1 \in Nat /\ h + 1 < n /\ (h + 1) - 1 = h /\ h + 1 # 0
      BY <3>1
    <3>. QED
      BY <3>1, <3>2, StartsAre
  <2>. QED
    BY <1>3, <2>1, <2>2
<1>. QED
  BY <1>2, <1>3, <1>4, FS_AddElement DEF IsPositions

\* LastStart is where it says.
LEMMA LastStartIs ==
  ASSUME job \in Job, NEW n \in Nat
  PROVE  /\ LastStart(n) \in Nat
         /\ Cardinality(Starts(n)) >= job.count =>
              LastStart(n) \in Starts(n) /\ Cardinality(From(Starts(n), LastStart(n))) = job.count
         /\ Cardinality(Starts(n)) < job.count => LastStart(n) = 0
<1>. DEFINE last == {s \in Starts(n) : Cardinality({t \in Starts(n) : t >= s}) = job.count}
<1>1. LastStart(n) = IF last = {} THEN 0 ELSE CHOOSE s \in last : TRUE
  BY DEF LastStart
<1>2. \A s : s \in last <=> s \in Starts(n) /\ Cardinality(From(Starts(n), s)) = job.count
  BY DEF From
<1>. HIDE DEF last
<1>3. IsPositions(Starts(n)) /\ Starts(n) \subseteq Nat /\ Cardinality(Starts(n)) \in Nat
  BY StartsAre DEF IsPositions
<1>4. job.count \in Nat /\ job.count >= 1
  BY SourceIs
<1>5. last # {} => LastStart(n) \in last
  BY <1>1
<1>6. ASSUME Cardinality(Starts(n)) >= job.count PROVE last # {}
  <2>1. job.count \in 1 .. Cardinality(Starts(n))
    BY <1>3, <1>4, <1>6
  <2>. QED
    BY <1>2, <1>3, <2>1, RankExists
<1>7. ASSUME Cardinality(Starts(n)) < job.count PROVE last = {}
  <2>1. ASSUME NEW s \in last PROVE FALSE
    <3>1. s \in Nat /\ Cardinality(From(Starts(n), s)) = job.count
      BY <1>2, <1>3
    <3>2. /\ Cardinality(Below(Starts(n), s)) \in Nat
          /\ Cardinality(Starts(n)) = Cardinality(Below(Starts(n), s)) + job.count
      BY <1>3, <3>1, Parts
    <3>. QED
      BY <1>3, <1>4, <1>7, <3>2
  <2>. QED
    BY <2>1
<1>. QED
  BY <1>1, <1>2, <1>3, <1>5, <1>6, <1>7

\* Where the search from the back stops is where the last lines begin.
LEMMA TailFinds ==
  ASSUME job \in Job, NEW base \in Nat, base <= job.size, Enough(base) \/ base = 0
  PROVE  TailStart(base) = LastStart(job.size)
<1>. DEFINE n == job.size
            c == job.count
            T == Starts(n)
            before == {k \in Separators(base) : Cardinality(Separators(k)) = c}
<1>1. /\ n \in Nat /\ n - 1 \in Int /\ c \in Nat /\ c >= 1 /\ base \in Int /\ n \in Int
      /\ IsPositions(T) /\ Cardinality(T) \in Nat /\ T \subseteq Nat
  BY SourceIs, StartsAre DEF IsPositions
<1>2. TailStart(base) = IF before = {} THEN base ELSE (CHOOSE k \in before : TRUE) + 1
  BY DEF TailStart
<1>3. \A k : k \in before <=> k \in Newlines(base, n - 1) /\ Cardinality(Newlines(k, n - 1)) = c
  BY DEF Separators
<1>4. \A k : k \in Newlines(base, n - 1) <=> k \in job.nl /\ base <= k /\ k < n - 1
  BY <1>1, NewlinesCount, Zenon
<1>. HIDE DEF before, n, c, T
<1>5. CASE before # {}
  <2>1. PICK k \in before : TailStart(base) = k + 1
    BY <1>2, <1>5
  <2>2. k \in job.nl /\ k < n - 1 /\ Cardinality(Newlines(k, n - 1)) = c
    BY <1>3, <1>4
  <2>3. k + 1 \in T /\ Cardinality(From(T, k + 1)) = c /\ k + 1 \in Nat
    BY <1>1, <2>2, StartsBehind DEF T
  <2>4. Cardinality(T) >= c
    <3>1. Cardinality(T) = Cardinality(Below(T, k + 1)) + c /\ Cardinality(Below(T, k + 1)) \in Nat
      BY <1>1, <2>3, Parts
    <3>. QED
      BY <1>1, <3>1
  <2>5. LastStart(n) \in T /\ Cardinality(From(T, LastStart(n))) = c
    BY <1>1, <2>4, LastStartIs DEF T, c
  <2>6. LastStart(n) = k + 1
    BY <1>1, <2>3, <2>5, RankIsOne
  <2>. QED
    BY <2>1, <2>6 DEF n
<1>6. CASE before = {}
  <2>1. Cardinality(Newlines(base, n - 1)) < c
    <3>1. /\ IsPositions(Newlines(base, n - 1)) /\ Cardinality(Newlines(base, n - 1)) \in Nat
      BY <1>1, NewlinesCount, Zenon
    <3>. SUFFICES ASSUME Cardinality(Newlines(base, n - 1)) >= c PROVE FALSE
      BY <1>1, <3>1
    <3>2. PICK k \in Newlines(base, n - 1) : Cardinality(From(Newlines(base, n - 1), k)) = c
      BY <1>1, <3>1, RankExists
    <3>3. k \in job.nl /\ base <= k /\ k < n - 1 /\ k \in Nat /\ k \in Int
      BY <1>4, SourceIs
    <3>4. \A h : h \in Newlines(k, n - 1) <=> h \in job.nl /\ k <= h /\ h < n - 1
      BY <1>1, <3>3, NewlinesCount, Zenon
    <3>5. ASSUME NEW h \in job.nl PROVE (base <= h /\ h >= k) <=> k <= h
      <4>1. h \in Nat
        BY SourceIs
      <4>. QED
        BY <1>1, <3>3, <4>1
    <3>6. From(Newlines(base, n - 1), k) = Newlines(k, n - 1)
      BY <1>4, <3>4, <3>5, Zenon DEF From
    <3>. QED
      BY <1>3, <1>6, <3>2, <3>6
  <2>2. base = 0
    <3>. SUFFICES ASSUME Enough(base) PROVE FALSE
      OBVIOUS
    <3>1. Cardinality(Newlines(base, n)) >= c + 1
      BY DEF Enough, n, c
    <3>2. CASE n > 0 /\ base <= n - 1
      <4>1. /\ Cardinality(Newlines(base, n)) = Cardinality(Newlines(base, n - 1)) + Cardinality(Newlines(n - 1, n))
        BY <1>1, <3>2, NewlinesJoin
      <4>2. Newlines(n - 1, n) \in SUBSET {n - 1}
        <5>1. ASSUME NEW h \in Newlines(n - 1, n) PROVE h = n - 1
          <6>1. h \in job.nl /\ n - 1 <= h /\ h < n
            BY <1>1, NewlinesCount
          <6>2. h \in Nat
            BY <6>1, SourceIs
          <6>. QED
            BY <1>1, <6>1, <6>2
        <5>. QED
          BY <5>1
      <4>3. Cardinality(Newlines(n - 1, n)) <= 1
        <5>1. IsFiniteSet({n - 1}) /\ Cardinality({n - 1}) = 1
          BY FS_Singleton, Zenon
        <5>2. Cardinality(Newlines(n - 1, n)) <= Cardinality({n - 1})
          BY <4>2, <5>1, FS_Subset, Zenon
        <5>. QED
          BY <5>1, <5>2
      <4>4. Cardinality(Newlines(base, n - 1)) \in Nat /\ Cardinality(Newlines(n - 1, n)) \in Nat
        BY <1>1, NewlinesCount
      <4>. QED
        BY <1>1, <2>1, <3>1, <4>1, <4>3, <4>4
    <3>3. CASE base >= n
      <4>1. Newlines(base, n) = {}
        <5>1. ASSUME NEW h \in Newlines(base, n) PROVE FALSE
          <6>1. h \in job.nl /\ base <= h /\ h < n
            BY <1>1, NewlinesCount
          <6>2. h \in Nat
            BY <6>1, SourceIs
          <6>. QED
            BY <1>1, <3>3, <6>1, <6>2
        <5>. QED
          BY <5>1
      <4>. QED
        BY <1>1, <3>1, <4>1, FS_EmptySet
    <3>. QED
      BY <1>1, <3>2, <3>3
  <2>3. LastStart(n) = 0
    <3>1. CASE Cardinality(T) < c
      BY <1>1, <3>1, LastStartIs DEF T, c
    <3>2. CASE Cardinality(T) >= c
      <4>1. n > 0
        <5>. SUFFICES ASSUME n = 0 PROVE FALSE
          BY <1>1
        <5>1. T = {}
          BY <1>1, StartsAre DEF T
        <5>. QED
          BY <1>1, <3>2, <5>1, FS_EmptySet
      <4>2. 0 \in T /\ Cardinality(T) = Cardinality(Newlines(0, n - 1)) + 1
        BY <1>1, <4>1, StartsCount DEF T
      <4>3. Cardinality(Newlines(0, n - 1)) \in Nat
        <5>1. n - 1 \in Int /\ 0 \in Int
          BY <1>1
        <5>. QED
          BY <5>1, NewlinesCount, Zenon
      <4>4. Cardinality(T) = c
        BY <1>1, <2>1, <2>2, <3>2, <4>2, <4>3
      <4>5. From(T, 0) = T
        <5>1. \A s \in T : s >= 0
          BY <1>1
        <5>. QED
          BY <5>1, Zenon DEF From
      <4>6. LastStart(n) \in T /\ Cardinality(From(T, LastStart(n))) = c
        BY <1>1, <3>2, LastStartIs DEF T, c
      <4>. QED
        BY <1>1, <4>2, <4>4, <4>5, <4>6, RankIsOne
    <3>. QED
      BY <1>1, <3>1, <3>2
  <2>. QED
    BY <1>2, <1>6, <2>2, <2>3 DEF n
<1>. QED
  BY <1>5, <1>6

\* A line ends at the first newline, or where the reader does.
LEMMA LineIs ==
  ASSUME job \in Job, limit \in Nat, NEW from \in Nat, from < limit
  PROVE  /\ LineEnd(from) \in Nat /\ from <= LineEnd(from) /\ LineEnd(from) <= limit
         /\ LineEnd(from) = limit \/ (LineEnd(from) \in job.nl /\ LineEnd(from) < limit)
         /\ Newlines(from, LineEnd(from)) = {}
         /\ AfterLine(from) \in Nat /\ from < AfterLine(from) /\ AfterLine(from) <= limit
         /\ AfterLine(from) = limit \/ AfterLine(from) = LineEnd(from) + 1
         /\ LineEnd(from) < limit => AfterLine(from) = LineEnd(from) + 1
<1>. DEFINE after == Newlines(from, limit)
<1>1. \A k : k \in after <=> k \in job.nl /\ from <= k /\ k < limit
  BY Zenon DEF Newlines
<1>2. after \in SUBSET Nat /\ \A k \in job.nl : k \in Nat
  BY <1>1, SourceIs
<1>3. LineEnd(from) = IF after = {} THEN limit ELSE CHOOSE k \in after : \A h \in after : k <= h
  BY DEF LineEnd
<1>. HIDE DEF after
<1>4. CASE after = {}
  <2>1. LineEnd(from) = limit /\ Newlines(from, limit) = {}
    BY <1>3, <1>4 DEF after
  <2>2. AfterLine(from) = limit
    BY <2>1 DEF AfterLine, Lesser
  <2>. QED
    BY <2>1, <2>2
<1>5. CASE after # {}
  <2>1. LineEnd(from) \in after /\ \A h \in after : LineEnd(from) <= h
    BY <1>2, <1>3, <1>5, Least
  <2>2. PICK e \in Nat : e = LineEnd(from) /\ e \in job.nl /\ from <= e /\ e < limit
    BY <1>1, <1>2, <2>1
  <2>3. Newlines(from, e) = {}
    <3>1. ASSUME NEW h \in Newlines(from, e) PROVE FALSE
      <4>1. h \in job.nl /\ from <= h /\ h < e
        BY Zenon DEF Newlines
      <4>2. h \in Nat /\ h < limit
        BY <1>2, <2>2, <4>1
      <4>3. h \in after
        BY <1>1, <4>1, <4>2
      <4>. QED
        BY <2>1, <2>2, <4>1, <4>2, <4>3
    <3>. QED
      BY <3>1
  <2>4. AfterLine(from) = e + 1
    BY <2>2 DEF AfterLine, Lesser
  <2>. QED
    BY <2>2, <2>3, <2>4
<1>. QED
  BY <1>4, <1>5

\* The next line begins behind it, and none between.
LEMMA NextLine ==
  ASSUME job \in Job, limit \in Nat, limit <= job.length, NEW from \in Nat, from < limit
  PROVE  /\ AfterLine(from) = limit \/ AfterLine(from) \in Starts(job.length)
         /\ \A s \in Starts(job.length) : s < AfterLine(from) => s <= from
<1>1. job.length \in Nat
  BY SourceIs
<1>2. ASSUME AfterLine(from) # limit PROVE AfterLine(from) \in Starts(job.length)
  <2>1. PICK e \in Nat : e \in job.nl /\ AfterLine(from) = e + 1 /\ e + 1 <= limit
    BY <1>2, LineIs
  <2>2. e + 1 \in Nat /\ (e + 1) - 1 = e /\ e + 1 < job.length
    BY <1>1, <1>2, <2>1
  <2>. QED
    BY <1>1, <2>1, <2>2, StartsAre
<1>3. ASSUME NEW s \in Starts(job.length), s < AfterLine(from), s > from
      PROVE  FALSE
  <2>1. PICK e \in Nat : e = LineEnd(from) /\ Newlines(from, e) = {} /\ AfterLine(from) <= e + 1
    BY LineIs
  <2>2. s \in Nat /\ s - 1 \in job.nl
    BY <1>1, <1>3, StartsAre
  <2>3. from <= s - 1 /\ s - 1 < e
    <3>1. AfterLine(from) \in Nat
      BY LineIs
    <3>. QED
      BY <1>3, <2>1, <2>2, <3>1
  <2>4. s - 1 \in Newlines(from, e)
    BY <2>2, <2>3, Zenon DEF Newlines
  <2>. QED
    BY <2>1, <2>4, Zenon
<1>4. \A s \in Starts(job.length) : s \in Nat
  BY <1>1, StartsAre
<1>. QED
  BY <1>2, <1>3, <1>4

------------------------------------------------------------------------------
(* The invariant of an inspection that reads.                                *)

SampleTyped ==
  /\ job \in Job
  /\ pc \in {"scan", "align", "discard", "read", "count", "done", "failed"}
  /\ end \in Nat /\ end <= job.size
  /\ at \in Nat /\ limit \in Nat /\ at <= limit /\ limit <= job.length
  /\ lines \in Seq(Nat \X Nat)
  /\ count \in Nat

\* What each mode goes through, and where its reader ends.
ModeInv ==
  /\ pc = "scan" => job.mode = "tail"
  /\ pc \in {"align", "discard"} => job.mode = "mid"
  /\ pc = "count" => job.mode = "wc"
  /\ pc = "read" => job.mode # "wc"
  /\ pc \in {"scan", "align", "discard", "count"} => lines = <<>>
  /\ job.mode # "mid" \/ ~job.cloud => limit = job.length
  /\ pc = "discard" => at = Middle /\ at < limit /\ ~Aligned(Middle)

\* Where the lines returned begin, but for a ring's, which reads them all.
First == CASE job.mode = "tail" -> LastStart(job.size)
           [] job.mode = "mid" -> Middle
           [] OTHER -> 0

\* The lines that are read.
Wanted == From(Starts(job.length), First)

AlreadyRead == Cardinality(Below(Wanted, at))

\* The k-th line of those kept is whole up to what has been read, and only
\* the lines a ring has let go of and those kept before it come before it.
KeptInv ==
  \A k \in DOMAIN lines :
    /\ lines[k][1] \in Wanted
    /\ Newlines(lines[k][1], lines[k][2]) = {}
    /\ (lines[k][2] \in job.nl /\ lines[k][2] < at) \/ (lines[k][2] = limit /\ at = limit)
    /\ Cardinality(Below(Wanted, lines[k][1])) = AlreadyRead - Len(lines) + k - 1

\* What has been read so far is a run of lines without a gap.
ReadInv ==
  pc \in {"read", "done"} /\ job.mode # "wc" =>
    /\ at < limit => at \in Wanted
    /\ Len(lines) = Lesser(job.count, AlreadyRead)
    /\ job.mode # "ring" => AlreadyRead <= job.count
    /\ KeptInv
    /\ pc = "done" => (job.mode # "ring" /\ Len(lines) = job.count) \/ at = limit

\* wc has counted the newlines up to where it is.
SliceInv ==
  /\ pc = "count" => count = Cardinality(Newlines(0, at))
  /\ pc = "done" /\ job.mode = "wc" => count = Cardinality(Starts(job.length))

SampleInv == SampleTyped /\ ModeInv /\ ReadInv /\ SliceInv

\* Nothing but the state is looked at by what is known of the source.
LEMMA SameSource ==
  ASSUME job' = job
  PROVE  /\ Wanted' = Wanted /\ First' = First /\ Middle' = Middle
         /\ \A a, b : Newlines(a, b)' = Newlines(a, b)
         /\ \A n : Starts(n)' = Starts(n) /\ LastStart(n)' = LastStart(n)
         /\ \A o : Aligned(o)' = Aligned(o)
  BY DEF Wanted, First, Middle, Newlines, Starts, LastStart, Aligned, From

\* Where the lines begin that are read.
LEMMA WantedIs ==
  ASSUME job \in Job
  PROVE  /\ IsPositions(Wanted) /\ First \in Nat /\ First <= job.length
         /\ \A s : s \in Wanted <=> s \in Starts(job.length) /\ s >= First
         /\ \A s \in Wanted : s \in Nat /\ s < job.length
         /\ First < job.length /\ ~(job.mode = "mid" /\ ~Aligned(Middle)) => First \in Wanted
         /\ Middle \in Nat /\ Middle <= job.size
         /\ ~Aligned(Middle) => Middle < job.size /\ Middle \notin Starts(job.length)
<1>1. /\ job.size \in Nat /\ job.length \in Nat /\ job.size <= job.length
      /\ job.mode \in {"head", "tail", "ring", "mid", "wc"}
  BY SourceIs
<1>2. Middle \in Nat /\ Middle <= job.size /\ (Middle = job.size => Middle = 0)
  BY <1>1 DEF Middle
<1>3. LastStart(job.size) \in Nat /\ (LastStart(job.size) = 0 \/ LastStart(job.size) \in Starts(job.size))
  BY <1>1, LastStartIs, SourceIs, StartsAre
<1>4. \A s \in Starts(job.size) : s < job.size /\ s \in Starts(job.length)
  <2>1. ASSUME NEW s \in Starts(job.size) PROVE s < job.size /\ s \in Starts(job.length)
    <3>1. s \in Nat /\ s < job.size /\ (s = 0 \/ s - 1 \in job.nl)
      BY <1>1, <2>1, StartsAre
    <3>2. s < job.length
      BY <1>1, <3>1
    <3>. QED
      BY <1>1, <3>1, <3>2, StartsAre
  <2>. QED
    BY <2>1
<1>5. ASSUME 0 < job.length PROVE 0 \in Starts(job.length)
  BY <1>1, <1>5, StartsAre
<1>6. First \in Nat /\ First <= job.length
  <2>1. CASE job.mode = "tail"
    <3>1. First = LastStart(job.size)
      BY <2>1 DEF First
    <3>. QED
      BY <1>1, <1>3, <1>4, <3>1
  <2>2. CASE job.mode = "mid"
    <3>1. First = Middle
      BY <2>2 DEF First
    <3>. QED
      BY <1>1, <1>2, <3>1
  <2>3. CASE job.mode \notin {"tail", "mid"}
    <3>1. First = 0
      BY <1>1, <2>3 DEF First
    <3>. QED
      BY <1>1, <3>1
  <2>. QED
    BY <2>1, <2>2, <2>3
<1>7. \A s : s \in Wanted <=> s \in Starts(job.length) /\ s >= First
  BY DEF Wanted, From
<1>8. IsPositions(Wanted) /\ \A s \in Wanted : s \in Nat /\ s < job.length
  <2>1. IsPositions(Starts(job.length)) /\ \A s \in Starts(job.length) : s \in Nat /\ s < job.length
    BY <1>1, StartsAre
  <2>. QED
    BY <1>6, <1>7, <2>1, Parts DEF Wanted
<1>9. ASSUME First < job.length, ~(job.mode = "mid" /\ ~Aligned(Middle))
      PROVE  First \in Starts(job.length)
  <2>1. CASE job.mode = "tail"
    <3>1. First = LastStart(job.size)
      BY <2>1 DEF First
    <3>. QED
      BY <1>1, <1>3, <1>4, <1>5, <1>9, <3>1
  <2>2. CASE job.mode = "mid"
    <3>1. First = Middle
      BY <2>2 DEF First
    <3>2. Middle = 0 \/ Middle - 1 \in job.nl
      BY <1>9, <2>2, Zenon DEF Aligned
    <3>. QED
      BY <1>1, <1>2, <1>9, <3>1, <3>2, StartsAre
  <2>3. CASE job.mode \notin {"tail", "mid"}
    <3>1. First = 0
      BY <1>1, <2>3 DEF First
    <3>. QED
      BY <1>5, <1>9, <3>1
  <2>. QED
    BY <2>1, <2>2, <2>3
<1>10. ASSUME ~Aligned(Middle) PROVE Middle < job.size /\ Middle \notin Starts(job.length)
  <2>1. Middle # 0 /\ Middle - 1 \notin job.nl
    BY <1>10, Zenon DEF Aligned
  <2>2. Middle \notin Starts(job.length)
    BY <1>1, <2>1, StartsAre
  <2>. QED
    BY <1>1, <1>2, <2>1, <2>2
<1>11. First < job.length /\ ~(job.mode = "mid" /\ ~Aligned(Middle)) => First \in Wanted
  <2>1. First >= First
    BY <1>6
  <2>. QED
    BY <1>7, <1>9, <2>1, Zenon
<1>. QED
  BY <1>2, <1>6, <1>7, <1>8, <1>10, <1>11

------------------------------------------------------------------------------
(* The steps.                                                                *)

\* An inspection starts.
LEMMA SampleStarts == SampleInit => SampleInv
<1>. SUFFICES ASSUME SampleInit PROVE SampleInv
  OBVIOUS
<1>1. /\ job \in Job /\ job.mode \in {"head", "tail", "ring", "mid", "wc"}
      /\ job.size \in Nat /\ job.length \in Nat /\ job.size <= job.length /\ job.count \in Nat
      /\ job.count >= 1
  BY SourceIs DEF SampleInit
<1>2. /\ end = job.size /\ at = 0 /\ limit = job.length /\ lines = <<>> /\ count = 0
      /\ pc = CASE job.mode = "tail" -> "scan"
                [] job.mode = "mid" -> "align"
                [] job.mode = "wc" -> "count"
                [] OTHER -> "read"
  BY DEF SampleInit
<1>3. /\ pc = "scan" => job.mode = "tail"
      /\ pc = "align" => job.mode = "mid"
      /\ pc = "count" => job.mode = "wc"
      /\ pc = "read" => job.mode \in {"head", "ring"}
      /\ pc \in {"scan", "align", "read", "count"}
  BY <1>1, <1>2
<1>4. lines \in Seq(Nat \X Nat)
  BY <1>2, EmptySeq
<1>5. SampleTyped /\ ModeInv
  BY <1>1, <1>2, <1>3, <1>4 DEF SampleTyped, ModeInv
<1>6. \A a, b \in Int : a >= b => Newlines(a, b) = {} /\ Cardinality(Newlines(a, b)) = 0
  <2>1. ASSUME NEW a \in Int, NEW b \in Int, a >= b, NEW k \in Newlines(a, b) PROVE FALSE
    <3>1. k \in job.nl /\ a <= k /\ k < b
      BY Zenon DEF Newlines
    <3>2. k \in Nat
      BY <1>1, <3>1, SourceIs
    <3>. QED
      BY <2>1, <3>1, <3>2
  <2>. QED
    BY <2>1, FS_EmptySet
<1>7. ReadInv
  <2>. SUFFICES ASSUME pc = "read" PROVE ReadInv
    BY <1>3 DEF ReadInv
  <2>1. First = 0 /\ job.mode \in {"head", "ring"}
    BY <1>3 DEF First
  <2>2. at < limit => at \in Wanted
    BY <1>1, <1>2, <2>1, WantedIs
  <2>3. AlreadyRead = 0
    <3>1. Below(Wanted, at) = {}
      <4>1. \A s \in Wanted : ~(s < 0)
        BY <1>1, WantedIs
      <4>. QED
        BY <1>2, <4>1 DEF Below
    <3>. QED
      BY <3>1, FS_EmptySet DEF AlreadyRead
  <2>4. Len(lines) = 0 /\ DOMAIN lines = {} /\ KeptInv
    BY <1>2 DEF KeptInv
  <2>5. Len(lines) = Lesser(job.count, AlreadyRead) /\ AlreadyRead <= job.count
    BY <1>1, <2>3, <2>4 DEF Lesser
  <2>. QED
    BY <2>2, <2>4, <2>5, Zenon DEF ReadInv
<1>8. SliceInv
  <2>1. at = 0 /\ count = 0 /\ 0 \in Int /\ 0 >= 0
    BY <1>2
  <2>2. Cardinality(Newlines(0, 0)) = 0
    BY <1>6, <2>1, Zenon
  <2>3. pc # "done"
    BY <1>3
  <2>. QED
    BY <2>1, <2>2, <2>3, Zenon DEF SliceInv
<1>. QED
  BY <1>5, <1>7, <1>8 DEF SampleInv

\* One chunk more is fetched, and if that does, the last lines begin there.
LEMMA ScanStep == SampleInv /\ Scan => SampleInv'
<1>. SUFFICES ASSUME SampleInv, Scan PROVE SampleInv'
  OBVIOUS
<1>. DEFINE start == IF end > Chunk THEN end - Chunk ELSE 0
<1>1. /\ job \in Job /\ job.mode = "tail" /\ pc = "scan" /\ lines = <<>> /\ lines \in Seq(Nat \X Nat)
      /\ end \in Nat /\ end <= job.size /\ limit = job.length /\ limit \in Nat /\ count \in Nat
      /\ at \in Nat /\ at <= limit
  BY DEF SampleInv, SampleTyped, ModeInv, Scan
<1>2. /\ job.size \in Nat /\ job.length \in Nat /\ job.size <= job.length /\ job.count \in Nat
      /\ Chunk \in Nat /\ Chunk >= 1 /\ job.count >= 1
  BY <1>1, SourceIs
<1>3. /\ start \in Nat /\ start <= end
      /\ start + Chunk = end \/ start + Chunk >= end
      /\ end > Chunk => start + Chunk = end
      /\ ~(end > 0) => start = 0
  BY <1>1, <1>2
<1>4. /\ job' = job /\ limit' = limit /\ lines' = lines /\ count' = count /\ end' = start
      /\ \/ pc' = pc /\ at' = at /\ ~Enough(start)
         \/ pc' = "read" /\ at' = TailStart(start) /\ (Enough(start) \/ start = 0)
  <2>1. /\ job' = job /\ limit' = limit /\ lines' = lines /\ count' = count
        /\ IF end > 0 /\ ~Enough(start) /\ start > 0
           THEN end' = start /\ UNCHANGED <<pc, at>>
           ELSE end' = start /\ at' = TailStart(start) /\ pc' = "read"
    BY Zenon DEF Scan
  <2>2. ~(start > 0) => start = 0
    BY <1>3
  <2>. HIDE DEF start
  <2>. QED
    BY <1>3, <2>1, <2>2
<1>. HIDE DEF start
<1>5. /\ \A a, b : Newlines(a, b)' = Newlines(a, b)
      /\ Wanted' = Wanted /\ First' = First
  BY <1>4, SameSource
<1>6. CASE pc' = pc /\ at' = at /\ ~Enough(start)
  <2>3. SampleTyped' /\ ModeInv'
    BY <1>1, <1>2, <1>3, <1>4, <1>6 DEF SampleTyped, ModeInv
  <2>4. ReadInv' /\ SliceInv'
    BY <1>1, <1>6 DEF ReadInv, SliceInv
  <2>. QED
    BY <2>3, <2>4 DEF SampleInv
<1>7. CASE pc' = "read" /\ at' = TailStart(start) /\ (Enough(start) \/ start = 0)
  <2>1. at' = First /\ First \in Nat /\ First <= job.length
    <3>1. start <= job.size
      BY <1>1, <1>2, <1>3
    <3>2. TailStart(start) = LastStart(job.size)
      BY <1>1, <1>3, <1>7, <3>1, TailFinds
    <3>. QED
      BY <1>1, <1>7, <3>2, WantedIs DEF First
  <2>2. SampleTyped' /\ ModeInv'
    BY <1>1, <1>2, <1>3, <1>4, <1>7, <2>1 DEF SampleTyped, ModeInv
  <2>3. ReadInv'
    <3>1. First < job.length => First \in Wanted
      BY <1>1, WantedIs
    <3>2. AlreadyRead' = 0
      <4>1. Below(Wanted, First) = {}
        <5>1. \A s \in Wanted : ~(s < First)
          BY <1>1, WantedIs
        <5>. QED
          BY <5>1 DEF Below
      <4>2. AlreadyRead' = Cardinality(Below(Wanted, First))
        BY <1>5, <2>1 DEF AlreadyRead, Below
      <4>. QED
        BY <4>1, <4>2, FS_EmptySet
    <3>. QED
      BY <1>1, <1>2, <1>4, <1>5, <1>7, <2>1, <3>1, <3>2 DEF ReadInv, KeptInv, Lesser
  <2>4. SliceInv'
    BY <1>1, <1>4, <1>7 DEF SliceInv
  <2>. QED
    BY <2>2, <2>3, <2>4 DEF SampleInv
<1>. QED
  BY <1>4, <1>6, <1>7

\* The reader of the middle is opened.
LEMMA AlignStep == SampleInv /\ Align => SampleInv'
<1>. SUFFICES ASSUME SampleInv, Align PROVE SampleInv'
  OBVIOUS
<1>1. /\ job \in Job /\ job.mode = "mid" /\ pc = "align" /\ lines = <<>> /\ lines \in Seq(Nat \X Nat)
      /\ end \in Nat /\ end <= job.size /\ count \in Nat
  BY DEF SampleInv, SampleTyped, ModeInv, Align
<1>2. /\ job.size \in Nat /\ job.length \in Nat /\ job.size <= job.length /\ job.count \in Nat
      /\ Chunk \in Nat /\ Chunk >= 1 /\ job.count >= 1 /\ job.cloud \in BOOLEAN
  BY <1>1, SourceIs
<1>3. /\ Middle \in Nat /\ Middle <= job.size /\ First = Middle
      /\ ~Aligned(Middle) => Middle < job.size
  BY <1>1, WantedIs DEF First
<1>4. /\ job' = job /\ end' = end /\ lines' = lines /\ count' = count /\ at' = Middle
      /\ limit' = IF job.cloud THEN Lesser(Middle + Chunk, job.length) ELSE job.length
      /\ \/ Aligned(Middle) /\ pc' = "read"
         \/ ~Aligned(Middle) /\ pc' = "discard"
  BY Zenon DEF Align
<1>5. /\ limit' \in Nat /\ Middle <= limit' /\ limit' <= job.length
      /\ ~job.cloud => limit' = job.length
      /\ ~Aligned(Middle) => Middle < limit'
  <2>1. CASE job.cloud
    BY <1>2, <1>3, <1>4, <2>1 DEF Lesser
  <2>2. CASE ~job.cloud
    BY <1>2, <1>3, <1>4, <2>2
  <2>. QED
    BY <2>1, <2>2
<1>6. /\ Wanted' = Wanted /\ First' = First /\ Middle' = Middle
      /\ Aligned(Middle)' = Aligned(Middle)
  BY <1>4, SameSource DEF Aligned
<1>7. SampleTyped'
  BY <1>1, <1>3, <1>4, <1>5 DEF SampleTyped
<1>8. ModeInv'
  <2>1. pc' \in {"read", "discard"} /\ (pc' = "discard" => ~Aligned(Middle)' /\ Middle < limit')
    BY <1>4, <1>5, <1>6, Zenon
  <2>2. job'.mode # "mid" \/ ~job'.cloud => limit' = job'.length
    BY <1>1, <1>4, <1>5
  <2>. QED
    BY <1>1, <1>4, <1>6, <2>1, <2>2 DEF ModeInv
<1>9. ReadInv'
  <2>. SUFFICES ASSUME Aligned(Middle), pc' = "read" PROVE ReadInv'
    BY <1>4 DEF ReadInv
  <2>1. First < job.length => First \in Wanted
    BY <1>1, WantedIs
  <2>2. AlreadyRead' = 0
    <3>1. Below(Wanted, First) = {}
      <4>1. \A s \in Wanted : ~(s < First)
        BY <1>1, WantedIs
      <4>. QED
        BY <4>1 DEF Below
    <3>2. AlreadyRead' = Cardinality(Below(Wanted, First))
      BY <1>3, <1>4, <1>6 DEF AlreadyRead, Below
    <3>. QED
      BY <3>1, <3>2, FS_EmptySet
  <2>3. at' < limit' => at' \in Wanted'
    BY <1>2, <1>3, <1>4, <1>5, <1>6, <2>1
  <2>. QED
    BY <1>1, <1>2, <1>4, <2>2, <2>3 DEF ReadInv, KeptInv, Lesser
<1>10. SliceInv'
  BY <1>1, <1>4 DEF SliceInv
<1>. QED
  BY <1>7, <1>8, <1>9, <1>10 DEF SampleInv

\* The rest of the line that holds the middle is left out.
LEMMA DiscardStep == SampleInv /\ Discard => SampleInv'
<1>. SUFFICES ASSUME SampleInv, Discard PROVE SampleInv'
  OBVIOUS
<1>1. /\ job \in Job /\ job.mode = "mid" /\ pc = "discard" /\ lines = <<>> /\ lines \in Seq(Nat \X Nat)
      /\ end \in Nat /\ end <= job.size /\ count \in Nat
      /\ limit \in Nat /\ limit <= job.length /\ at <= limit
      /\ job.mode # "mid" \/ ~job.cloud => limit = job.length
      /\ at = Middle /\ at < limit /\ ~Aligned(Middle)
  BY DEF SampleInv, SampleTyped, ModeInv, Discard
<1>2. /\ job.size \in Nat /\ job.length \in Nat /\ job.size <= job.length /\ job.count \in Nat
      /\ Chunk \in Nat /\ Chunk >= 1 /\ job.count >= 1
  BY <1>1, SourceIs
<1>3. /\ Middle \in Nat /\ First = Middle /\ Middle < job.size /\ Middle \notin Starts(job.length)
  BY <1>1, WantedIs DEF First
<1>4. /\ job' = job /\ end' = end /\ lines' = lines /\ count' = count /\ limit' = limit
      /\ at' = AfterLine(at) /\ pc' = "read"
  BY DEF Discard
<1>5. /\ at' \in Nat /\ Middle < at' /\ at' <= limit
  BY <1>1, <1>3, <1>4, LineIs
<1>6. /\ at' = limit \/ at' \in Starts(job.length)
      /\ \A s \in Starts(job.length) : s < at' => s <= Middle
  BY <1>1, <1>3, <1>4, NextLine
<1>7. Wanted' = Wanted /\ \A s : s \in Wanted <=> s \in Starts(job.length) /\ s >= First
  BY <1>1, <1>4, SameSource, WantedIs
<1>8. at' < limit' => at' \in Wanted'
  BY <1>1, <1>3, <1>4, <1>5, <1>6, <1>7
<1>9. AlreadyRead' = 0
  <2>1. ASSUME NEW s \in Wanted PROVE ~(s < at')
    <3>1. s \in Nat /\ s \in Starts(job.length) /\ s >= Middle /\ s # Middle
      BY <1>1, <1>3, <2>1, WantedIs
    <3>. QED
      BY <1>3, <1>6, <3>1
  <2>2. Below(Wanted', at') = {}
    BY <1>7, <2>1 DEF Below
  <2>3. AlreadyRead' = Cardinality(Below(Wanted', at'))
    BY DEF AlreadyRead, Below
  <2>. QED
    BY <2>2, <2>3, FS_EmptySet
<1>10. SampleTyped' /\ ModeInv'
  BY <1>1, <1>4, <1>5 DEF SampleTyped, ModeInv
<1>11. ReadInv'
  BY <1>1, <1>2, <1>4, <1>8, <1>9 DEF ReadInv, KeptInv, Lesser
<1>12. SliceInv'
  BY <1>1, <1>4 DEF SliceInv
<1>. QED
  BY <1>10, <1>11, <1>12 DEF SampleInv

\* A line is kept, and another given up for it if a ring is full.
LEMMA ReadLineStep == SampleInv /\ ReadLine => SampleInv'
<1>. SUFFICES ASSUME SampleInv, ReadLine PROVE SampleInv'
  OBVIOUS
<1>. DEFINE line == <<at, LineEnd(at)>>
            len == Len(lines)
            n == AlreadyRead
<1>1. /\ job \in Job /\ job.mode # "wc" /\ pc = "read" /\ lines \in Seq(Nat \X Nat)
      /\ end \in Nat /\ end <= job.size /\ count \in Nat /\ at \in Nat
      /\ limit \in Nat /\ limit <= job.length /\ at < limit
      /\ job.mode # "mid" \/ ~job.cloud => limit = job.length
      /\ job.mode = "ring" \/ Len(lines) < job.count
  BY DEF SampleInv, SampleTyped, ModeInv, ReadLine, HasLine
<1>2. /\ job.size \in Nat /\ job.length \in Nat /\ job.count \in Nat /\ job.count >= 1
  BY <1>1, SourceIs
<1>3. /\ at \in Wanted /\ len = Lesser(job.count, n) /\ KeptInv
      /\ job.mode # "ring" => n <= job.count
  BY <1>1 DEF SampleInv, ReadInv
<1>4. /\ job' = job /\ end' = end /\ count' = count /\ limit' = limit /\ pc' = pc
      /\ at' = AfterLine(at) /\ lines' = Kept(line)
  BY DEF ReadLine
<1>5. /\ LineEnd(at) \in Nat /\ Newlines(at, LineEnd(at)) = {}
      /\ (LineEnd(at) \in job.nl /\ LineEnd(at) < at') \/ (LineEnd(at) = limit /\ at' = limit)
      /\ at' \in Nat /\ at < at' /\ at' <= limit
  <2>1. /\ LineEnd(at) \in Nat /\ at <= LineEnd(at) /\ LineEnd(at) <= limit
        /\ LineEnd(at) = limit \/ (LineEnd(at) \in job.nl /\ LineEnd(at) < limit)
        /\ Newlines(at, LineEnd(at)) = {}
        /\ at' \in Nat /\ at < at' /\ at' <= limit
        /\ at' = limit \/ at' = LineEnd(at) + 1
        /\ LineEnd(at) < limit => at' = LineEnd(at) + 1
    BY <1>1, <1>4, LineIs
  <2>2. CASE LineEnd(at) < limit
    BY <1>1, <2>1, <2>2
  <2>3. CASE LineEnd(at) = limit
    BY <1>1, <2>1, <2>3
  <2>. QED
    BY <2>1, <2>2, <2>3
<1>6. /\ at' = limit \/ at' \in Starts(job.length)
      /\ \A s \in Starts(job.length) : s < at' => s <= at
  BY <1>1, <1>4, NextLine
<1>7. /\ Wanted' = Wanted /\ IsPositions(Wanted) /\ First \in Nat
      /\ \A s : s \in Wanted <=> s \in Starts(job.length) /\ s >= First
  BY <1>1, <1>4, SameSource, WantedIs
<1>8. /\ at' < limit' => at' \in Wanted'
      /\ AlreadyRead' = n + 1 /\ n \in Nat
  <2>1. \A s \in Wanted : s < at' => s <= at
    BY <1>6, <1>7
  <2>2. Cardinality(Below(Wanted, at')) = Cardinality(Below(Wanted, at)) + 1
    BY <1>3, <1>5, <1>7, <2>1, OneMoreBelow
  <2>3. Cardinality(Below(Wanted, at)) \in Nat
    BY <1>1, <1>7, Parts
  <2>4. AlreadyRead' = Cardinality(Below(Wanted', at'))
    BY DEF AlreadyRead, Below
  <2>. QED
    BY <1>1, <1>3, <1>4, <1>5, <1>6, <1>7, <2>2, <2>3, <2>4 DEF AlreadyRead
<1>9. line \in Nat \X Nat /\ line[1] = at /\ line[2] = LineEnd(at)
  BY <1>1, <1>5
<1>10. len \in Nat /\ DOMAIN lines = 1 .. len
  BY <1>1, LenProperties
<1>. DEFINE whole(l, r) ==
       /\ l[1] \in Wanted
       /\ Newlines(l[1], l[2]) = {}
       /\ (l[2] \in job.nl /\ l[2] < at') \/ (l[2] = limit /\ at' = limit)
       /\ Cardinality(Below(Wanted, l[1])) = r
<1>11. ASSUME NEW k \in 1 .. len PROVE whole(lines[k], n - len + k - 1)
  <2>1. lines[k] \in Nat \X Nat
    BY <1>1, <1>10, ElementOfSeq
  <2>2. /\ lines[k][1] \in Wanted
        /\ Newlines(lines[k][1], lines[k][2]) = {}
        /\ (lines[k][2] \in job.nl /\ lines[k][2] < at) \/ (lines[k][2] = limit /\ at = limit)
        /\ Cardinality(Below(Wanted, lines[k][1])) = n - len + k - 1
    BY <1>3, <1>10 DEF KeptInv
  <2>3. lines[k][2] \in Nat
    BY <2>1
  <2>4. lines[k][2] \in job.nl /\ lines[k][2] < at'
    BY <1>1, <1>5, <2>2, <2>3
  <2>. QED
    BY <2>2, <2>4
<1>12. whole(line, n)
  BY <1>3, <1>5, <1>9, Zenon DEF AlreadyRead
<1>. HIDE DEF whole, line, len, n
<1>13. /\ lines' \in Seq(Nat \X Nat) /\ Len(lines') = Lesser(job.count, n + 1)
       /\ \A k \in 1 .. Len(lines') : whole(lines'[k], (n + 1) - Len(lines') + k - 1)
  <2>1. CASE len < job.count
    <3>1. lines' = Append(lines, line)
      BY <1>4, <2>1 DEF Kept, len
    <3>2. /\ lines' \in Seq(Nat \X Nat) /\ Len(lines') = len + 1
          /\ \A k \in 1 .. len : lines'[k] = lines[k]
          /\ lines'[len + 1] = line
      BY <1>1, <1>9, <3>1, AppendProperties DEF len
    <3>3. n = len
      BY <1>2, <1>3, <1>8, <2>1 DEF Lesser, n
    <3>4. Len(lines') = Lesser(job.count, n + 1)
      BY <1>2, <1>8, <2>1, <3>2, <3>3 DEF Lesser
    <3>5. ASSUME NEW k \in 1 .. Len(lines')
          PROVE  whole(lines'[k], (n + 1) - Len(lines') + k - 1)
      <4>1. CASE k = len + 1
        <5>1. (n + 1) - Len(lines') + k - 1 = n
          BY <1>8, <1>10, <3>2, <3>3, <4>1 DEF n
        <5>. QED
          BY <1>12, <3>2, <4>1, <5>1
      <4>2. CASE k # len + 1
        <5>1. k \in 1 .. len /\ (n + 1) - Len(lines') + k - 1 = n - len + k - 1
          BY <1>8, <1>10, <3>2, <3>3, <4>2 DEF n
        <5>. QED
          BY <1>11, <3>2, <5>1
      <4>. QED
        BY <4>1, <4>2
    <3>. QED
      BY <3>2, <3>4, <3>5
  <2>2. CASE ~(len < job.count)
    <3>1. lines' = Append(Tail(lines), line) /\ len = job.count /\ n >= job.count
      <4>1. len = job.count /\ n >= job.count
        BY <1>2, <1>3, <1>8, <1>10, <2>2 DEF Lesser, n
      <4>. QED
        BY <1>4, <2>2, <4>1 DEF Kept, len
    <3>2. lines # <<>>
      BY <1>2, <3>1 DEF len
    <3>3. /\ Tail(lines) \in Seq(Nat \X Nat) /\ Len(Tail(lines)) = len - 1
          /\ \A k \in 1 .. len - 1 : Tail(lines)[k] = lines[k + 1]
      BY <1>1, <3>2, HeadTailProperties DEF len
    <3>4. /\ lines' \in Seq(Nat \X Nat) /\ Len(lines') = Len(Tail(lines)) + 1
          /\ \A k \in 1 .. Len(Tail(lines)) : lines'[k] = Tail(lines)[k]
          /\ lines'[Len(Tail(lines)) + 1] = line
      BY <1>9, <3>1, <3>3, AppendProperties
    <3>5. /\ Len(lines') = len /\ lines'[len] = line
          /\ \A k \in 1 .. len - 1 : lines'[k] = lines[k + 1]
      BY <1>10, <3>3, <3>4
    <3>6. Len(lines') = Lesser(job.count, n + 1)
      BY <1>2, <1>8, <3>1, <3>5 DEF Lesser, n
    <3>7. ASSUME NEW k \in 1 .. Len(lines')
          PROVE  whole(lines'[k], (n + 1) - Len(lines') + k - 1)
      <4>1. CASE k = len
        <5>1. (n + 1) - Len(lines') + k - 1 = n
          BY <1>8, <1>10, <3>5, <4>1 DEF n
        <5>. QED
          BY <1>12, <3>5, <4>1, <5>1
      <4>2. CASE k # len
        <5>1. /\ k \in 1 .. len - 1 /\ k + 1 \in 1 .. len
              /\ (n + 1) - Len(lines') + k - 1 = n - len + (k + 1) - 1
          BY <1>8, <1>10, <3>5, <4>2 DEF n
        <5>2. whole(lines[k + 1], n - len + (k + 1) - 1)
          BY <1>11, <5>1
        <5>. QED
          BY <3>5, <5>1, <5>2
      <4>. QED
        BY <4>1, <4>2
    <3>. QED
      BY <3>4, <3>6, <3>7
  <2>. QED
    BY <2>1, <2>2
<1>14. SampleTyped' /\ ModeInv'
  BY <1>1, <1>4, <1>5, <1>13 DEF SampleTyped, ModeInv
<1>15. KeptInv'
  <2>. SUFFICES ASSUME NEW k \in DOMAIN lines'
                PROVE  whole(lines'[k], (n + 1) - Len(lines') + k - 1)
    BY <1>4, <1>7, <1>8 DEF KeptInv, whole, Newlines, Below, n
  <2>. QED
    BY <1>13, LenProperties
<1>16. job.mode # "ring" => AlreadyRead' <= job.count
  BY <1>1, <1>2, <1>3, <1>8, <1>10 DEF Lesser, n, len
<1>17. ReadInv'
  BY <1>1, <1>4, <1>8, <1>13, <1>15, <1>16 DEF ReadInv, Lesser, n
<1>18. SliceInv'
  BY <1>1, <1>4 DEF SliceInv
<1>. QED
  BY <1>14, <1>17, <1>18 DEF SampleInv

\* Enough lines are there, or no more.
LEMMA ReadEndsStep == SampleInv /\ ReadEnds => SampleInv'
<1>. SUFFICES ASSUME SampleInv, ReadEnds PROVE SampleInv'
  OBVIOUS
<1>1. /\ job \in Job /\ job.mode # "wc" /\ pc = "read" /\ lines \in Seq(Nat \X Nat)
      /\ at \in Nat /\ limit \in Nat /\ at <= limit
      /\ (job.mode # "ring" /\ Len(lines) = job.count) \/ ~(at < limit)
  BY DEF SampleInv, SampleTyped, ModeInv, ReadEnds, HasLine
<1>2. /\ job' = job /\ end' = end /\ count' = count /\ limit' = limit /\ pc' = "done"
      /\ at' = at /\ lines' = lines
  BY DEF ReadEnds
<1>3. (job.mode # "ring" /\ Len(lines) = job.count) \/ at = limit
  BY <1>1
<1>4. Wanted' = Wanted /\ AlreadyRead' = AlreadyRead
  BY <1>2, SameSource DEF AlreadyRead, Below
<1>5. KeptInv' = KeptInv
  BY <1>2, <1>4, Zenon DEF KeptInv, Newlines, Below
<1>6. SampleTyped' /\ ModeInv'
  BY <1>1, <1>2 DEF SampleInv, SampleTyped, ModeInv
<1>7. ReadInv'
  BY <1>1, <1>2, <1>3, <1>4, <1>5 DEF SampleInv, ReadInv, Lesser
<1>8. SliceInv'
  BY <1>1, <1>2 DEF SampleInv, SliceInv, Newlines
<1>. QED
  BY <1>6, <1>7, <1>8 DEF SampleInv

\* The newlines of one slice more are counted.
LEMMA CountSliceStep == SampleInv /\ CountSlice => SampleInv'
<1>. SUFFICES ASSUME SampleInv, CountSlice PROVE SampleInv'
  OBVIOUS
<1>. DEFINE to == Lesser(AfterLine(at), at + Chunk)
<1>1. /\ job \in Job /\ pc = "count" /\ job.mode = "wc" /\ lines = <<>> /\ count \in Nat
      /\ end \in Nat /\ end <= job.size /\ lines \in Seq(Nat \X Nat)
      /\ at \in Nat /\ limit \in Nat /\ at < limit /\ limit <= job.length
      /\ job.mode # "mid" \/ ~job.cloud => limit = job.length
      /\ count = Cardinality(Newlines(0, at))
  BY DEF SampleInv, SampleTyped, ModeInv, SliceInv, CountSlice
<1>2. /\ job' = job /\ end' = end /\ limit' = limit /\ pc' = pc /\ lines' = lines
      /\ count' = count + Cardinality(Newlines(at, to)) /\ at' = to
  BY DEF CountSlice
<1>3. to \in Nat /\ at < to /\ to <= limit
  <2>1. AfterLine(at) \in Nat /\ at < AfterLine(at) /\ AfterLine(at) <= limit
    BY <1>1, LineIs
  <2>2. Chunk \in Nat /\ Chunk >= 1
    BY <1>1, SourceIs
  <2>. QED
    BY <1>1, <2>1, <2>2 DEF Lesser
<1>. HIDE DEF to
<1>4. /\ Cardinality(Newlines(0, to)) = Cardinality(Newlines(0, at)) + Cardinality(Newlines(at, to))
      /\ Cardinality(Newlines(at, to)) \in Nat
  <2>1. 0 \in Int /\ at \in Int /\ to \in Int /\ 0 <= at /\ at <= to
    BY <1>1, <1>3
  <2>. QED
    BY <1>1, <2>1, NewlinesJoin, NewlinesCount, Zenon
<1>5. SampleTyped' /\ ModeInv'
  BY <1>1, <1>2, <1>3, <1>4 DEF SampleTyped, ModeInv
<1>6. SliceInv'
  <2>1. Newlines(0, at)' = Newlines(0, to)
    BY <1>2 DEF Newlines
  <2>. QED
    BY <1>1, <1>2, <1>4, <2>1 DEF SliceInv
<1>7. ReadInv'
  BY <1>1, <1>2 DEF ReadInv
<1>. QED
  BY <1>5, <1>6, <1>7 DEF SampleInv

\* A last line without its newline counts.
LEMMA CountEndsStep == SampleInv /\ CountEnds => SampleInv'
<1>. SUFFICES ASSUME SampleInv, CountEnds PROVE SampleInv'
  OBVIOUS
<1>1. /\ job \in Job /\ pc = "count" /\ job.mode = "wc" /\ lines = <<>> /\ count \in Nat
      /\ end \in Nat /\ end <= job.size /\ lines \in Seq(Nat \X Nat)
      /\ at \in Nat /\ limit \in Nat /\ at = limit /\ limit = job.length
      /\ count = Cardinality(Newlines(0, at))
  BY DEF SampleInv, SampleTyped, ModeInv, SliceInv, CountEnds
<1>2. /\ job' = job /\ end' = end /\ limit' = limit /\ pc' = "done" /\ lines' = lines
      /\ count' = count + LastCounts /\ at' = at
  BY DEF CountEnds
<1>3. LastCounts \in {0, 1}
  BY DEF LastCounts
<1>4. count + LastCounts = Cardinality(Starts(job.length))
  <2>1. CASE limit = 0
    <3>1. Newlines(0, at) = {}
      <4>1. ASSUME NEW k \in job.nl PROVE ~(0 <= k /\ k < at)
        BY <1>1, <2>1, SourceIs
      <4>. QED
        BY <4>1, Zenon DEF Newlines
    <3>2. Starts(job.length) = {}
      <4>1. \A s \in Nat : ~(s < job.length)
        BY <1>1, <2>1
      <4>. QED
        BY <1>1, <4>1, StartsAre
    <3>3. LastCounts = 0
      BY <2>1 DEF LastCounts
    <3>4. count = 0 /\ Cardinality(Starts(job.length)) = 0
      BY <1>1, <3>1, <3>2, FS_EmptySet, Zenon
    <3>. QED
      BY <3>3, <3>4
  <2>2. CASE limit # 0
    <3>0. count = Cardinality(Newlines(0, limit)) /\ Starts(job.length) = Starts(limit)
      BY <1>1, Zenon
    <3>1. /\ 0 \in Int /\ limit - 1 \in Int /\ limit \in Int /\ 0 <= limit - 1 /\ limit - 1 <= limit
          /\ limit > 0
      BY <1>1, <2>2
    <3>2. /\ Cardinality(Newlines(0, limit))
               = Cardinality(Newlines(0, limit - 1)) + Cardinality(Newlines(limit - 1, limit))
          /\ Cardinality(Newlines(0, limit - 1)) \in Nat
      BY <1>1, <3>1, NewlinesJoin, NewlinesCount, Zenon
    <3>3. Cardinality(Starts(limit)) = Cardinality(Newlines(0, limit - 1)) + 1
      BY <1>1, <3>1, StartsCount
    <3>4. \A k : k \in Newlines(limit - 1, limit) <=> k \in job.nl /\ k = limit - 1
      <4>1. ASSUME NEW k \in job.nl PROVE (limit - 1 <= k /\ k < limit) <=> k = limit - 1
        <5>1. k \in Nat
          BY <1>1, SourceIs
        <5>. QED
          BY <3>1, <5>1
      <4>. QED
        BY <4>1, Zenon DEF Newlines
    <3>5. CASE limit - 1 \in job.nl
      <4>1. Newlines(limit - 1, limit) = {limit - 1}
        BY <3>4, <3>5
      <4>2. Cardinality(Newlines(limit - 1, limit)) = 1
        BY <4>1, FS_Singleton, Zenon
      <4>3. LastCounts = 0
        BY <3>5 DEF LastCounts
      <4>. QED
        BY <1>1, <3>0, <3>2, <3>3, <4>2, <4>3
    <3>6. CASE limit - 1 \notin job.nl
      <4>1. Newlines(limit - 1, limit) = {}
        BY <3>4, <3>6
      <4>2. LastCounts = 1
        BY <3>1, <3>6 DEF LastCounts
      <4>. QED
        BY <3>0, <3>2, <3>3, <4>1, <4>2, FS_EmptySet
    <3>. QED
      BY <3>5, <3>6
  <2>. QED
    BY <2>1, <2>2
<1>5. SampleTyped' /\ ModeInv'
  BY <1>1, <1>2, <1>3 DEF SampleTyped, ModeInv
<1>6. SliceInv'
  BY <1>1, <1>2, <1>4 DEF SliceInv, Starts
<1>7. ReadInv'
  BY <1>1, <1>2 DEF ReadInv
<1>. QED
  BY <1>5, <1>6, <1>7 DEF SampleInv

\* What has failed returns nothing, and what has ended stays.
LEMMA QuietSampleStep ==
  ASSUME SampleInv, Fails \/ SampleEnded \/ UNCHANGED sampleVars
  PROVE  SampleInv'
<1>1. CASE Fails
  <2>1. /\ job' = job /\ end' = end /\ limit' = limit /\ at' = at /\ count' = count
        /\ pc' = "failed" /\ lines' = <<>> /\ lines' \in Seq(Nat \X Nat)
    BY <1>1, EmptySeq DEF Fails
  <2>2. SampleTyped' /\ ModeInv'
    BY <1>1, <2>1 DEF SampleInv, SampleTyped, ModeInv, Fails
  <2>3. ReadInv' /\ SliceInv'
    BY <2>1 DEF ReadInv, SliceInv
  <2>. QED
    BY <2>2, <2>3 DEF SampleInv
<1>2. CASE UNCHANGED sampleVars
  <2>1. /\ job' = job /\ end' = end /\ limit' = limit /\ at' = at /\ count' = count
        /\ pc' = pc /\ lines' = lines
    BY <1>2 DEF sampleVars
  <2>2. SampleTyped' /\ ModeInv' /\ SliceInv'
    BY <2>1 DEF SampleInv, SampleTyped, ModeInv, SliceInv,
                Middle, Aligned, Newlines, Starts
  <2>3. Wanted' = Wanted /\ AlreadyRead' = AlreadyRead
    BY <2>1, SameSource DEF AlreadyRead, Below
  <2>4. KeptInv' = KeptInv
    BY <2>1, <2>3, Zenon DEF KeptInv, Newlines, Below
  <2>5. ReadInv'
    BY <2>1, <2>3, <2>4 DEF SampleInv, ReadInv, Lesser
  <2>. QED
    BY <2>2, <2>5 DEF SampleInv
<1>. QED
  BY <1>1, <1>2 DEF SampleEnded

------------------------------------------------------------------------------
(* What has been read is what was asked for.                                 *)

\* From somewhere on, the lines that are counted are the lines that are left.
LEMMA FromBelow ==
  ASSUME NEW S, IsPositions(S), NEW x \in Nat, NEW y \in Nat, x <= y
  PROVE  Cardinality(Below(From(S, x), y)) = Cardinality(Below(S, y)) - Cardinality(Below(S, x))
<1>1. IsPositions(Below(S, y)) /\ S \subseteq Nat
  BY Parts DEF IsPositions
<1>2. /\ Cardinality(Below(S, y))
           = Cardinality(Below(Below(S, y), x)) + Cardinality(From(Below(S, y), x))
      /\ Cardinality(Below(Below(S, y), x)) \in Nat /\ Cardinality(From(Below(S, y), x)) \in Nat
      /\ Cardinality(Below(S, y)) \in Nat
  BY <1>1, Parts
<1>3. Below(Below(S, y), x) = Below(S, x)
  <2>1. \A s \in S : s < x => s < y
    BY <1>1
  <2>. QED
    BY <2>1, Zenon DEF Below
<1>4. From(Below(S, y), x) = Below(From(S, x), y)
  BY Zenon DEF Below, From
<1>. QED
  BY <1>2, <1>3, <1>4

\* Those of a source that is read up to a byte.
LEMMA StartsBelow ==
  ASSUME job \in Job, NEW n \in Nat, n <= job.length
  PROVE  Starts(n) = Below(Starts(job.length), n)
<1>1. job.length \in Nat
  BY SourceIs
<1>2. ASSUME NEW s PROVE s \in Starts(n) <=> s \in Starts(job.length) /\ s < n
  <2>1. ASSUME s \in Nat, s < n PROVE s < job.length
    BY <1>1, <2>1
  <2>. QED
    BY <1>1, <2>1, StartsAre, Zenon
<1>. QED
  BY <1>2, Zenon DEF Below

\* The state of an inspection that has ended.
LEMMA AtEnd ==
  ASSUME SampleInv, pc = "done", job.mode # "wc"
  PROVE  /\ job \in Job /\ job.count \in Nat /\ job.count >= 1 /\ job.length \in Nat
         /\ at \in Nat /\ limit \in Nat /\ at <= limit /\ limit <= job.length
         /\ job.mode # "mid" \/ ~job.cloud => limit = job.length
         /\ AlreadyRead \in Nat /\ Len(lines) = Lesser(job.count, AlreadyRead)
         /\ job.mode # "ring" => AlreadyRead <= job.count
         /\ (job.mode # "ring" /\ Len(lines) = job.count) \/ at = limit
         /\ Cardinality(Wanted) \in Nat /\ AlreadyRead <= Cardinality(Wanted)
         /\ at = job.length => AlreadyRead = Cardinality(Wanted)
         /\ DOMAIN lines = 1 .. Len(lines)
         /\ KeptInv
<1>1. /\ job \in Job /\ at \in Nat /\ limit \in Nat /\ at <= limit /\ limit <= job.length
      /\ job.mode # "mid" \/ ~job.cloud => limit = job.length
      /\ lines \in Seq(Nat \X Nat)
      /\ Len(lines) = Lesser(job.count, AlreadyRead)
      /\ job.mode # "ring" => AlreadyRead <= job.count
      /\ (job.mode # "ring" /\ Len(lines) = job.count) \/ at = limit
      /\ KeptInv
  BY DEF SampleInv, SampleTyped, ModeInv, ReadInv
<1>2. job.count \in Nat /\ job.count >= 1 /\ job.length \in Nat
  BY <1>1, SourceIs
<1>3. IsPositions(Wanted) /\ \A s \in Wanted : s < job.length
  BY <1>1, WantedIs
<1>4. /\ AlreadyRead \in Nat /\ Cardinality(Wanted) \in Nat
      /\ Cardinality(Wanted) = AlreadyRead + Cardinality(From(Wanted, at))
      /\ Cardinality(From(Wanted, at)) \in Nat
  BY <1>1, <1>3, Parts DEF AlreadyRead
<1>5. ASSUME at = job.length PROVE AlreadyRead = Cardinality(Wanted)
  <2>1. Below(Wanted, at) = Wanted
    BY <1>3, <1>5, Zenon DEF Below
  <2>. QED
    BY <2>1 DEF AlreadyRead
<1>6. DOMAIN lines = 1 .. Len(lines)
  BY <1>1, LenProperties
<1>. QED
  BY <1>1, <1>2, <1>4, <1>5, <1>6

\* Whoever does not keep a ring has read the lines from the first one wanted on,
\* if all ended with a newline or where the source ends.
LEMMA RunIsRead ==
  ASSUME SampleInv, pc = "done", job.mode \notin {"wc", "ring"},
         limit = job.length \/ at # limit
  PROVE  IsRun(First)
<1>1. /\ job \in Job /\ job.count \in Nat /\ job.count >= 1 /\ job.length \in Nat
      /\ at \in Nat /\ limit \in Nat /\ at <= limit /\ limit <= job.length
      /\ AlreadyRead \in Nat /\ Len(lines) = Lesser(job.count, AlreadyRead)
      /\ AlreadyRead <= job.count
      /\ Len(lines) = job.count \/ at = limit
      /\ Cardinality(Wanted) \in Nat /\ AlreadyRead <= Cardinality(Wanted)
      /\ at = job.length => AlreadyRead = Cardinality(Wanted)
      /\ DOMAIN lines = 1 .. Len(lines)
      /\ KeptInv
  BY AtEnd
<1>2. Len(lines) = AlreadyRead
  BY <1>1 DEF Lesser
<1>3. Len(lines) = Lesser(job.count, Cardinality(Wanted))
  <2>1. CASE Len(lines) = job.count
    BY <1>1, <1>2, <2>1 DEF Lesser
  <2>2. CASE Len(lines) # job.count
    BY <1>1, <1>2, <2>2 DEF Lesser
  <2>. QED
    BY <2>1, <2>2
<1>4. ASSUME NEW k \in DOMAIN lines
      PROVE  /\ WholeLine(lines[k])
             /\ Cardinality(Below(Wanted, lines[k][1])) = k - 1
  <2>1. /\ lines[k][1] \in Wanted
        /\ Newlines(lines[k][1], lines[k][2]) = {}
        /\ lines[k][2] \in job.nl \/ (lines[k][2] = limit /\ at = limit)
        /\ Cardinality(Below(Wanted, lines[k][1])) = AlreadyRead - Len(lines) + k - 1
    BY <1>1 DEF KeptInv
  <2>2. lines[k][1] \in Starts(job.length)
    BY <1>1, <2>1, WantedIs
  <2>3. AlreadyRead - Len(lines) + k - 1 = k - 1
    BY <1>1, <1>2
  <2>. QED
    BY <2>1, <2>2, <2>3 DEF WholeLine
<1>5. {s \in Starts(job.length) : s >= First} = Wanted
  BY DEF Wanted, From
<1>. QED
  BY <1>3, <1>4, <1>5 DEF IsRun, Below

\* A ring holds the last lines.
LEMMA RingIsKept ==
  ASSUME SampleInv, pc = "done", job.mode = "ring"
  PROVE  IsRun(LastStart(job.length))
<1>. DEFINE S == Starts(job.length)
            F == LastStart(job.length)
            c == job.count
            n == Cardinality(S)
<1>1. /\ job \in Job /\ c \in Nat /\ c >= 1 /\ job.length \in Nat
      /\ at = job.length
      /\ Len(lines) = Lesser(c, Cardinality(Wanted)) /\ AlreadyRead = Cardinality(Wanted)
      /\ DOMAIN lines = 1 .. Len(lines)
      /\ KeptInv
  BY AtEnd
<1>2. First = 0 /\ IsPositions(S) /\ S \subseteq Nat /\ n \in Nat
  BY <1>1, StartsAre DEF First, IsPositions
<1>3. Wanted = S
  <2>1. \A s \in S : s >= 0
    BY <1>2
  <2>. QED
    BY <1>2, <2>1 DEF Wanted, From
<1>4. /\ F \in Nat
      /\ n >= c => F \in S /\ Cardinality(From(S, F)) = c
      /\ n < c => F = 0
  BY <1>1, LastStartIs
<1>5. ASSUME NEW k \in DOMAIN lines
      PROVE  /\ lines[k][1] \in S /\ Newlines(lines[k][1], lines[k][2]) = {}
             /\ lines[k][2] = job.length \/ lines[k][2] \in job.nl
             /\ Cardinality(Below(S, lines[k][1])) = n - Len(lines) + k - 1
             /\ k \in Nat /\ k >= 1
  <2>1. limit = job.length
    BY AtEnd
  <2>. HIDE DEF S, n
  <2>2. /\ lines[k][1] \in S /\ Newlines(lines[k][1], lines[k][2]) = {}
        /\ lines[k][2] = limit \/ lines[k][2] \in job.nl
        /\ Cardinality(Below(S, lines[k][1])) = Cardinality(S) - Len(lines) + k - 1
    BY <1>1, <1>3 DEF KeptInv
  <2>3. k \in Nat /\ k >= 1
    BY <1>1
  <2>. QED
    BY <2>1, <2>2, <2>3 DEF n
<1>. HIDE DEF S, F, c, n
<1>6. /\ Cardinality(Below(S, F)) \in Nat /\ Cardinality(From(S, F)) \in Nat
      /\ n = Cardinality(Below(S, F)) + Cardinality(From(S, F))
  BY <1>2, <1>4, Parts DEF n
<1>7. Cardinality(From(S, F)) = Lesser(c, n) /\ Len(lines) = Lesser(c, n)
  <2>1. CASE n >= c
    BY <1>1, <1>2, <1>3, <1>4, <2>1 DEF Lesser, n
  <2>2. CASE n < c
    <3>1. From(S, F) = S
      <4>1. \A s \in S : s >= 0
        BY <1>2
      <4>. QED
        BY <1>4, <2>2, <4>1 DEF From
    <3>. QED
      BY <1>1, <1>2, <1>3, <2>2, <3>1 DEF Lesser, n
  <2>. QED
    BY <1>1, <1>2, <2>1, <2>2
<1>8. Lesser(c, n) \in Nat /\ Lesser(c, Lesser(c, n)) = Lesser(c, n)
  BY <1>1, <1>2 DEF Lesser
<1>9. ASSUME NEW k \in DOMAIN lines
      PROVE  Cardinality(Below(From(S, F), lines[k][1])) = k - 1
  <2>1. PICK x \in S : x = lines[k][1]
    BY <1>5, <1>9
  <2>2. Cardinality(Below(S, x)) = Cardinality(Below(S, F)) + k - 1 /\ k \in Nat /\ k >= 1
    BY <1>2, <1>5, <1>6, <1>7, <1>8, <1>9, <2>1
  <2>3. x \in Nat
    BY <1>2, <2>1
  <2>4. F <= x
    <3>. SUFFICES ASSUME x < F PROVE FALSE
      BY <1>4, <2>3
    <3>1. Cardinality(Below(S, x)) < Cardinality(Below(S, F))
      BY <1>2, <1>4, <2>1, LaterIsFewer
    <3>. QED
      BY <1>6, <2>2, <3>1
  <2>5. Cardinality(Below(From(S, F), x)) = Cardinality(Below(S, x)) - Cardinality(Below(S, F))
    BY <1>2, <1>4, <2>3, <2>4, FromBelow
  <2>. QED
    BY <1>6, <2>1, <2>2, <2>5
<1>10. {s \in Starts(job.length) : s >= LastStart(job.length)} = From(S, F)
  BY DEF S, F, From
<1>. QED
  BY <1>5, <1>7, <1>8, <1>9, <1>10 DEF IsRun, WholeLine, Below, S, F, c

\* What the window of a cloud object holds more lines than asked for of, is read
\* before its end.
LEMMA WindowIsEnough ==
  ASSUME SampleInv, pc = "done", job.mode = "mid",
         Cardinality({s \in Starts(limit) : s >= Middle}) > job.count
  PROVE  at # limit
<1>. SUFFICES ASSUME at = limit PROVE FALSE
  OBVIOUS
<1>1. /\ job \in Job /\ job.count \in Nat /\ job.length \in Nat /\ limit \in Nat /\ limit <= job.length
      /\ AlreadyRead \in Nat /\ AlreadyRead <= job.count
  BY AtEnd
<1>2. First = Middle
  BY DEF First
<1>3. {s \in Starts(limit) : s >= Middle} = Below(Wanted, at)
  <2>1. Starts(limit) = Below(Starts(job.length), limit)
    BY <1>1, StartsBelow
  <2>. QED
    BY <1>2, <2>1, Zenon DEF Wanted, Below, From
<1>. QED
  BY <1>1, <1>3 DEF AlreadyRead

\* So it is with every mode.
LEMMA ReadIsRight == SampleInv => SamplesAreRight
<1>. SUFFICES ASSUME SampleInv PROVE SamplesAreRight
  OBVIOUS
<1>1. EndsAreRight
  <2>. SUFFICES ASSUME pc = "done"
                PROVE  /\ job.mode = "head" => IsRun(0)
                       /\ job.mode = "tail" => IsRun(LastStart(job.size))
                       /\ job.mode = "ring" => IsRun(LastStart(job.length))
                       /\ job.mode = "wc" => count = Cardinality(Starts(job.length))
    BY DEF EndsAreRight
  <2>1. ASSUME job.mode \in {"head", "tail"} PROVE IsRun(First)
    <3>1. limit = job.length
      BY <2>1, AtEnd
    <3>. QED
      BY <2>1, <3>1, RunIsRead
  <2>2. /\ job.mode = "head" => First = 0
        /\ job.mode = "tail" => First = LastStart(job.size)
    BY DEF First
  <2>3. job.mode = "wc" => count = Cardinality(Starts(job.length))
    BY DEF SampleInv, SliceInv
  <2>. QED
    BY <2>1, <2>2, <2>3, RingIsKept
<1>2. MidIsWhole
  <2>. SUFFICES ASSUME pc = "done", job.mode = "mid",
                       \/ ~job.cloud
                       \/ limit = job.length
                       \/ Cardinality({s \in Starts(limit) : s >= Middle}) > job.count
                PROVE  IsRun(Middle)
    BY Zenon DEF MidIsWhole
  <2>1. ~job.cloud => limit = job.length
    BY DEF SampleInv, ModeInv
  <2>2. limit = job.length \/ at # limit
    BY <2>1, WindowIsEnough, Zenon
  <2>3. IsRun(First) /\ First = Middle
    BY <2>2, RunIsRead DEF First
  <2>. QED
    BY <2>3
<1>. QED
  BY <1>1, <1>2 DEF SamplesAreRight

------------------------------------------------------------------------------
(* inspect, of which one part at most runs.                                  *)

InspectInv == SampleIdle \/ SampleInv

\* Every step keeps it.
LEMMA InspectKeeps == InspectInv /\ [InspectNext]_<<sampleVars, detectVars>> => InspectInv'
<1>. SUFFICES ASSUME InspectInv, SampleNext \/ UNCHANGED sampleVars PROVE InspectInv'
  BY DEF InspectNext
<1>1. CASE SampleIdle
  <2>1. pc = "idle"
    BY <1>1 DEF SampleIdle
  <2>2. ~SampleNext
    BY <2>1 DEF SampleNext, Scan, Align, Discard, ReadLine, ReadEnds, CountSlice, CountEnds,
                Fails, SampleEnded
  <2>3. SampleIdle'
    BY <1>1, <2>2 DEF SampleIdle, sampleVars
  <2>. QED
    BY <2>3 DEF InspectInv
<1>2. CASE SampleInv
  <2>1. CASE SampleNext
    <3>1. CASE Scan
      BY <1>2, <3>1, ScanStep DEF InspectInv
    <3>2. CASE Align
      BY <1>2, <3>2, AlignStep DEF InspectInv
    <3>3. CASE Discard
      BY <1>2, <3>3, DiscardStep DEF InspectInv
    <3>4. CASE ReadLine
      BY <1>2, <3>4, ReadLineStep DEF InspectInv
    <3>5. CASE ReadEnds
      BY <1>2, <3>5, ReadEndsStep DEF InspectInv
    <3>6. CASE CountSlice
      BY <1>2, <3>6, CountSliceStep DEF InspectInv
    <3>7. CASE CountEnds
      BY <1>2, <3>7, CountEndsStep DEF InspectInv
    <3>8. CASE Fails \/ SampleEnded
      BY <1>2, <3>8, QuietSampleStep DEF InspectInv
    <3>. QED
      BY <2>1, <3>1, <3>2, <3>3, <3>4, <3>5, <3>6, <3>7, <3>8 DEF SampleNext
  <2>2. CASE UNCHANGED sampleVars
    BY <1>2, <2>2, QuietSampleStep DEF InspectInv
  <2>. QED
    BY <2>1, <2>2
<1>. QED
  BY <1>1, <1>2 DEF InspectInv

\* At any state of an inspection, what has been read so far is a run of whole
\* lines, the newlines passed have been counted, and no chunk was fetched in vain.
THEOREM InspectInvariance == InspectSpec => []InspectInv
<1>1. InspectInit => InspectInv
  BY SampleStarts DEF InspectInit, InspectInv
<1>. QED
  BY <1>1, InspectKeeps, PTL DEF InspectSpec

\* --head, --tail, --mid and --wc return exactly the lines they promise, and their
\* number, wherever lines, newlines, chunks and the window end, of a source of
\* any length with newlines anywhere, that may have grown since Stat.
THEOREM SamplesRight == InspectSpec => []SamplesAreRight
<1>1. InspectInv => SamplesAreRight
  <2>1. SampleIdle => SamplesAreRight
    BY DEF SampleIdle, SamplesAreRight, EndsAreRight, MidIsWhole
  <2>. QED
    BY <2>1, ReadIsRight DEF InspectInv
<1>. QED
  BY <1>1, InspectInvariance, PTL

------------------------------------------------------------------------------
(* Folding a sequence.                                                       *)

\* The largest number up to k is k.
LEMMA LargestIs ==
  ASSUME NEW k \in Nat \ {0} PROVE Max(1 .. k) = k /\ (1 .. k) \ {k} = 1 .. k - 1
<1>1. k \in 1 .. k /\ \A y \in 1 .. k : k >= y
  OBVIOUS
<1>2. \A x \in 1 .. k : (\A y \in 1 .. k : x >= y) => x = k
  OBVIOUS
<1>3. Max(1 .. k) = k
  BY <1>1, <1>2 DEF Max
<1>4. (1 .. k) \ {k} = 1 .. k - 1
  OBVIOUS
<1>. QED
  BY <1>3, <1>4

\* A set of numbers up to n has a largest one, without which it is smaller.
LEMMA LargestIn ==
  ASSUME NEW n \in Nat, NEW t \in SUBSET (1 .. n), t # {}
  PROVE  /\ Max(t) \in t /\ t \ {Max(t)} \in SUBSET (1 .. n)
         /\ Cardinality(t \ {Max(t)}) = Cardinality(t) - 1 /\ Cardinality(t) \in Nat \ {0}
<1>1. DEFINE far == {n - y : y \in t}
<1>2. far \in SUBSET Nat /\ far # {}
  <2>1. \A y \in t : n - y \in Nat
    OBVIOUS
  <2>. QED
    BY <2>1
<1>3. PICK m \in far : \A z \in far : m <= z
  BY <1>2, Least
<1>4. PICK x \in t : m = n - x
  OBVIOUS
<1>5. \A y \in t : x >= y
  <2>. SUFFICES ASSUME NEW y \in t PROVE x >= y
    OBVIOUS
  <2>1. n - y \in far /\ x \in Int /\ y \in Int
    OBVIOUS
  <2>2. n - x <= n - y
    BY <1>3, <1>4, <2>1
  <2>. QED
    BY <2>1, <2>2
<1>6. Max(t) \in t
  BY <1>5 DEF Max
<1>7. IsFiniteSet(t)
  BY FS_Interval, FS_Subset, 1 \in Int, n \in Int
<1>8. Cardinality(t) \in Nat /\ Cardinality(t) # 0
  BY <1>7, FS_CardinalityType, FS_EmptySet
<1>. QED
  BY <1>6, <1>7, <1>8, FS_RemoveElement

IsFold(g, n, s, base, turn) ==
  \A t \in SUBSET (1 .. n) : g[t] = IF t = {} THEN base ELSE turn[<<g[t \ {Max(t)}], s[Max(t)]>>]

\* What MapThenFoldSet computes over the positions of a sequence exists.
LEMMA FoldRuns ==
  ASSUME NEW n \in Nat, NEW V, NEW X, NEW s \in [1 .. n -> V], NEW base \in X,
         NEW turn \in [X \X V -> X]
  PROVE  \E g \in [SUBSET (1 .. n) -> X] : IsFold(g, n, s, base, turn)
<1>. DEFINE T == SUBSET (1 .. n)
            Next1(g, t) == IF t = {} THEN base ELSE turn[<<g[t \ {Max(t)}], s[Max(t)]>>]
            Good(m) == \E g \in [T -> X] : \A t \in T : Cardinality(t) <= m => g[t] = Next1(g, t)
            Ms == {m \in Nat : Good(m)}
<1>1. 0 \in Ms
  <2>1. [t \in T |-> base] \in [T -> X]
    OBVIOUS
  <2>2. ASSUME NEW t \in T, t # {} PROVE ~(Cardinality(t) <= 0)
    <3>1. Cardinality(t) \in Nat \ {0}
      BY <2>2, LargestIn
    <3>. QED
      BY <3>1
  <2>. QED
    BY <2>1, <2>2
<1>2. ASSUME NEW m \in Nat, m \in Ms PROVE m + 1 \in Ms
  <2>1. PICK g \in [T -> X] : \A t \in T : Cardinality(t) <= m => g[t] = Next1(g, t)
    BY <1>2
  <2>2. \A t \in T : Next1(g, t) \in X
    <3>. SUFFICES ASSUME NEW t \in T, t # {} PROVE Next1(g, t) \in X
      OBVIOUS
    <3>1. Max(t) \in 1 .. n /\ t \ {Max(t)} \in T
      BY LargestIn
    <3>2. <<g[t \ {Max(t)}], s[Max(t)]>> \in X \X V
      BY <3>1
    <3>. QED
      BY <3>2
  <2>. DEFINE h == [t \in T |-> Next1(g, t)]
  <2>3. h \in [T -> X]
    BY <2>2
  <2>4. ASSUME NEW t \in T, Cardinality(t) <= m + 1 PROVE h[t] = Next1(h, t)
    <3>1. CASE t = {}
      BY <3>1
    <3>2. CASE t # {}
      <4>. DEFINE u == t \ {Max(t)}
      <4>1. u \in T /\ Cardinality(u) <= m
        BY <2>4, <3>2, LargestIn
      <4>2. g[u] = h[u]
        BY <2>1, <4>1
      <4>. QED
        BY <4>2, <3>2
    <3>. QED
      BY <3>1, <3>2
  <2>5. \A t \in T : Cardinality(t) <= m + 1 => h[t] = Next1(h, t)
    BY <2>4
  <2>6. Good(m + 1)
    <3>. HIDE DEF h, Next1, T
    <3>. QED
      BY <2>3, <2>5
  <2>. HIDE DEF Good
  <2>. QED
    BY <2>6
<1>3. n \in Ms
  <2>. HIDE DEF Ms
  <2>. QED
    BY <1>1, <1>2, Induct
<1>4. \A t \in T : Cardinality(t) <= n
  <2>. SUFFICES ASSUME NEW t \in T PROVE Cardinality(t) <= n
    OBVIOUS
  <2>1. IsFiniteSet(1 .. n) /\ Cardinality(1 .. n) = n
    BY FS_Interval
  <2>2. Cardinality(t) <= Cardinality(1 .. n)
    BY <2>1, FS_Subset, Zenon
  <2>. QED
    BY <2>1, <2>2
<1>. QED
  BY <1>3, <1>4 DEF IsFold

\* Sum adds up from the front.
LEMMA SumRuns ==
  ASSUME NEW s \in Seq(Int)
  PROVE  \E g \in [0 .. Len(s) -> Int] :
           /\ g[0] = 0 /\ g[Len(s)] = Sum(s)
           /\ \A k \in 1 .. Len(s) : g[k] = g[k - 1] + s[k]
<1>. PICK n \in Nat : n = Len(s)
  OBVIOUS
<1>. DEFINE T == SUBSET (1 .. n)
            Body(h) == [t \in T |-> IF t = {} THEN 0 ELSE h[t \ {Max(t)}] + s[Max(t)]]
            it == CHOOSE h : h = Body(h)
<1>1. n \in Nat /\ s \in [1 .. n -> Int] /\ DOMAIN s = 1 .. n
  OBVIOUS
<1>2. \E h : h = Body(h)
  <2>1. PICK turn \in [Int \X Int -> Int] : \A a, b \in Int : turn[<<a, b>>] = a + b
    <3>1. [p \in Int \X Int |-> p[1] + p[2]] \in [Int \X Int -> Int]
      OBVIOUS
    <3>. QED
      BY <3>1
  <2>2. PICK g \in [T -> Int] : IsFold(g, n, s, 0, turn)
    BY <1>1, 0 \in Int, FoldRuns, Zenon
  <2>3. ASSUME NEW t \in T PROVE g[t] = IF t = {} THEN 0 ELSE g[t \ {Max(t)}] + s[Max(t)]
    <3>1. CASE t = {}
      BY <2>2, <3>1 DEF IsFold
    <3>2. CASE t # {}
      <4>1. Max(t) \in 1 .. n /\ t \ {Max(t)} \in T
        BY <1>1, <3>2, LargestIn
      <4>2. PICK a \in Int, b \in Int : a = g[t \ {Max(t)}] /\ b = s[Max(t)]
        BY <1>1, <4>1
      <4>. QED
        BY <2>1, <2>2, <3>2, <4>2 DEF IsFold
    <3>. QED
      BY <3>1, <3>2
  <2>. QED
    BY <2>3
<1>3. it = Body(it)
  <2>. HIDE DEF Body
  <2>. QED
    BY <1>2
<1>4. Sum(s) = it[1 .. n]
  BY <1>1, Zenon DEF Sum, FoldLeft, MapThenFoldSet
<1>. HIDE DEF it
<1>5. it[1 .. 0] = 0
  <2>1. 1 .. 0 = {} /\ {} \in T
    OBVIOUS
  <2>. QED
    BY <1>3, <2>1
<1>6. ASSUME NEW k \in 1 .. n PROVE it[1 .. k] = it[1 .. k - 1] + s[k]
  <2>1. 1 .. k \in T /\ 1 .. k # {} /\ k \in Nat \ {0}
    <3>1. k \in Nat \ {0} /\ k \in 1 .. k /\ \A j \in 1 .. k : j \in 1 .. n
      BY <1>1
    <3>. QED
      BY <3>1
  <2>2. it[1 .. k] = it[(1 .. k) \ {Max(1 .. k)}] + s[Max(1 .. k)]
    <3>. HIDE DEF T
    <3>. QED
      BY <1>3, <2>1
  <2>. QED
    BY <2>1, <2>2, LargestIs
<1>. DEFINE Ks == {k \in Nat : k <= n => it[1 .. k] \in Int}
<1>7. \A k \in Nat : k \in Ks
  <2>1. 0 \in Ks
    BY <1>5
  <2>2. ASSUME NEW k \in Nat, k \in Ks PROVE k + 1 \in Ks
    <3>. SUFFICES ASSUME k + 1 <= n PROVE it[1 .. k + 1] \in Int
      OBVIOUS
    <3>1. k + 1 \in 1 .. n /\ (k + 1) - 1 = k /\ it[1 .. k] \in Int
      BY <1>1, <2>2
    <3>2. it[1 .. k + 1] = it[1 .. k] + s[k + 1] /\ s[k + 1] \in Int
      BY <1>1, <1>6, <3>1
    <3>. QED
      BY <3>1, <3>2
  <2>. HIDE DEF Ks
  <2>. QED
    BY <2>1, <2>2, Induct
<1>. DEFINE G == [k \in 0 .. n |-> it[1 .. k]]
<1>8. G \in [0 .. n -> Int]
  BY <1>1, <1>7
<1>9. G[0] = 0 /\ G[n] = Sum(s)
  BY <1>1, <1>4, <1>5
<1>10. ASSUME NEW k \in 1 .. n PROVE G[k] = G[k - 1] + s[k]
  <2>1. k \in 0 .. n /\ k - 1 \in 0 .. n
    BY <1>1
  <2>. QED
    BY <1>6, <2>1
<1>. HIDE DEF G
<1>. QED
  BY <1>8, <1>9, <1>10

KeepRow(kept, r) == IF r.blank \/ Len(kept) = RowLimit THEN kept ELSE Append(kept, r)

\* sampledLines keeps rows from the front.
LEMMA KeptRuns ==
  ASSUME NEW V, NEW s \in Seq(V)
  PROVE  \E g \in [0 .. Len(s) -> Seq(V)] :
           /\ g[0] = <<>> /\ g[Len(s)] = FirstRows(s)
           /\ \A k \in 1 .. Len(s) : g[k] = KeepRow(g[k - 1], s[k])
<1>. PICK n \in Nat : n = Len(s)
  OBVIOUS
<1>. DEFINE T == SUBSET (1 .. n)
            Body(h) == [t \in T |-> IF t = {} THEN <<>> ELSE KeepRow(h[t \ {Max(t)}], s[Max(t)])]
            it == CHOOSE h : h = Body(h)
<1>1. n \in Nat /\ s \in [1 .. n -> V] /\ DOMAIN s = 1 .. n
  OBVIOUS
<1>2. <<>> \in Seq(V)
  BY EmptySeq
<1>3. \A q \in Seq(V), r \in V : KeepRow(q, r) \in Seq(V)
  BY AppendProperties DEF KeepRow
<1>4. \E h : h = Body(h)
  <2>1. PICK turn \in [Seq(V) \X V -> Seq(V)] :
          \A q \in Seq(V), r \in V : turn[<<q, r>>] = KeepRow(q, r)
    <3>. DEFINE f == [p \in Seq(V) \X V |-> KeepRow(p[1], p[2])]
    <3>1. f \in [Seq(V) \X V -> Seq(V)]
      BY <1>3
    <3>2. \A q \in Seq(V), r \in V : f[<<q, r>>] = KeepRow(q, r)
      OBVIOUS
    <3>. HIDE DEF f
    <3>. QED
      BY <3>1, <3>2
  <2>2. PICK g \in [T -> Seq(V)] : IsFold(g, n, s, <<>>, turn)
    BY <1>1, <1>2, FoldRuns, Zenon
  <2>3. ASSUME NEW t \in T PROVE g[t] = IF t = {} THEN <<>> ELSE KeepRow(g[t \ {Max(t)}], s[Max(t)])
    <3>1. CASE t = {}
      BY <2>2, <3>1 DEF IsFold
    <3>2. CASE t # {}
      <4>1. Max(t) \in 1 .. n /\ t \ {Max(t)} \in T
        BY <1>1, <3>2, LargestIn
      <4>2. g[t \ {Max(t)}] \in Seq(V) /\ s[Max(t)] \in V
        BY <1>1, <4>1
      <4>. QED
        BY <2>1, <2>2, <3>2, <4>2 DEF IsFold
    <3>. QED
      BY <3>1, <3>2
  <2>. QED
    BY <2>3
<1>5. it = Body(it)
  <2>. HIDE DEF Body
  <2>. QED
    BY <1>4
<1>6. FirstRows(s) = it[1 .. n]
  BY <1>1, Zenon DEF FirstRows, FoldLeft, MapThenFoldSet, KeepRow
<1>. HIDE DEF it
<1>7. it[1 .. 0] = <<>>
  <2>1. 1 .. 0 = {} /\ {} \in T
    OBVIOUS
  <2>. QED
    BY <1>5, <2>1
<1>8. ASSUME NEW k \in 1 .. n PROVE it[1 .. k] = KeepRow(it[1 .. k - 1], s[k])
  <2>1. 1 .. k \in T /\ 1 .. k # {} /\ k \in Nat \ {0}
    <3>1. k \in Nat \ {0} /\ k \in 1 .. k /\ \A j \in 1 .. k : j \in 1 .. n
      BY <1>1
    <3>. QED
      BY <3>1
  <2>2. it[1 .. k] = KeepRow(it[(1 .. k) \ {Max(1 .. k)}], s[Max(1 .. k)])
    <3>. HIDE DEF T
    <3>. QED
      BY <1>5, <2>1
  <2>. QED
    BY <2>1, <2>2, LargestIs
<1>. DEFINE Ks == {k \in Nat : k <= n => it[1 .. k] \in Seq(V)}
<1>9. \A k \in Nat : k \in Ks
  <2>1. 0 \in Ks
    BY <1>2, <1>7
  <2>2. ASSUME NEW k \in Nat, k \in Ks PROVE k + 1 \in Ks
    <3>. SUFFICES ASSUME k + 1 <= n PROVE it[1 .. k + 1] \in Seq(V)
      OBVIOUS
    <3>1. k + 1 \in 1 .. n /\ (k + 1) - 1 = k /\ it[1 .. k] \in Seq(V)
      BY <1>1, <2>2
    <3>2. it[1 .. k + 1] = KeepRow(it[1 .. k], s[k + 1]) /\ s[k + 1] \in V
      BY <1>1, <1>8, <3>1
    <3>. QED
      BY <1>3, <3>1, <3>2
  <2>. HIDE DEF Ks
  <2>. QED
    BY <2>1, <2>2, Induct
<1>. DEFINE G == [k \in 0 .. n |-> it[1 .. k]]
<1>10. G \in [0 .. n -> Seq(V)]
  BY <1>1, <1>9
<1>11. G[0] = <<>> /\ G[n] = FirstRows(s)
  BY <1>1, <1>6, <1>7
<1>12. ASSUME NEW k \in 1 .. n PROVE G[k] = KeepRow(G[k - 1], s[k])
  <2>1. k \in 0 .. n /\ k - 1 \in 0 .. n
    BY <1>1
  <2>. QED
    BY <1>8, <2>1
<1>. HIDE DEF G
<1>. QED
  BY <1>10, <1>11, <1>12

Filled(s, k) == {m \in 1 .. k : ~s[m].blank}
Judged(s, k) == ~s[k].blank /\ Cardinality(Filled(s, k)) <= RowLimit

\* q is the rows of s up to k that are judged, e says where they are.
Takes(e, q, s, k) ==
  /\ e \in [1 .. Len(q) -> 1 .. k]
  /\ \A i, j \in 1 .. Len(q) : e[i] = e[j] => i = j
  /\ \A j \in 1 .. k : Judged(s, j) => \E i \in 1 .. Len(q) : e[i] = j
  /\ \A i \in 1 .. Len(q) : Judged(s, e[i]) /\ q[i] = s[e[i]]

\* One row more, blank or not.
LEMMA FilledGrows ==
  ASSUME NEW s, NEW k \in Nat
  PROVE  /\ IsFiniteSet(Filled(s, k)) /\ Cardinality(Filled(s, k)) \in Nat
         /\ Cardinality(Filled(s, k + 1)) =
              Cardinality(Filled(s, k)) + (IF s[k + 1].blank THEN 0 ELSE 1)
         /\ Cardinality(Filled(s, 0)) = 0
<1>1. IsFiniteSet(1 .. k) /\ Filled(s, k) \in SUBSET (1 .. k)
  BY FS_Interval DEF Filled
<1>2. IsFiniteSet(Filled(s, k)) /\ Cardinality(Filled(s, k)) \in Nat
  BY <1>1, FS_Subset, FS_CardinalityType, Zenon
<1>3. Filled(s, 0) = {}
  BY DEF Filled
<1>4. \A m : m \in 1 .. k + 1 <=> m \in 1 .. k \/ m = k + 1
  OBVIOUS
<1>5. k + 1 \notin 1 .. k
  OBVIOUS
<1>6. Filled(s, k + 1) = IF s[k + 1].blank THEN Filled(s, k) ELSE Filled(s, k) \cup {k + 1}
  BY <1>4, Zenon DEF Filled
<1>7. k + 1 \notin Filled(s, k)
  BY <1>5 DEF Filled
<1>8. Cardinality(Filled(s, k) \cup {k + 1}) = Cardinality(Filled(s, k)) + 1
  BY <1>2, <1>7, FS_AddElement
<1>9. Cardinality(Filled(s, 0)) = 0
  BY <1>3, FS_EmptySet
<1>. QED
  BY <1>2, <1>6, <1>8, <1>9

\* What sampledLines takes are the rows that are judged, each once.
LEMMA TakenAre ==
  ASSUME NEW V, NEW s \in Seq(V), RowLimit \in Nat
  PROVE  \E e : FirstRows(s) \in Seq(V) /\ Takes(e, FirstRows(s), s, Len(s))
<1>. PICK n \in Nat : n = Len(s)
  OBVIOUS
<1>1. PICK g \in [0 .. n -> Seq(V)] :
        /\ g[0] = <<>> /\ g[n] = FirstRows(s)
        /\ \A k \in 1 .. n : g[k] = KeepRow(g[k - 1], s[k])
  BY KeptRuns, Zenon
<1>. DEFINE C(k) == Cardinality(Filled(s, k))
            Least1(k) == Len(g[k]) = IF C(k) <= RowLimit THEN C(k) ELSE RowLimit
            Ks == {k \in Nat : k <= n => Least1(k) /\ \E e : Takes(e, g[k], s, k)}
<1>2. 0 \in Ks
  <2>1. Len(g[0]) = 0 /\ C(0) = 0
    BY <1>1, FilledGrows, 0 \in Nat
  <2>2. Takes(<<>>, g[0], s, 0)
    BY <2>1 DEF Takes
  <2>. QED
    BY <2>1, <2>2
<1>3. ASSUME NEW k \in Nat, k \in Ks PROVE k + 1 \in Ks
  <2>. SUFFICES ASSUME k + 1 <= n PROVE Least1(k + 1) /\ \E e : Takes(e, g[k + 1], s, k + 1)
    OBVIOUS
  <2>1. k \in 0 .. n /\ k + 1 \in 1 .. n /\ k + 1 \in 0 .. n /\ (k + 1) - 1 = k
    OBVIOUS
  <2>2. PICK e : Takes(e, g[k], s, k)
    BY <1>3, <2>1
  <2>3. Least1(k)
    BY <1>3, <2>1
  <2>4. PICK q \in Seq(V), r \in V : q = g[k] /\ r = s[k + 1] /\ g[k + 1] = KeepRow(q, r)
    BY <1>1, <2>1
  <2>5. PICK c \in Nat : c = C(k)
    BY FilledGrows
  <2>6. C(k + 1) = c + (IF r.blank THEN 0 ELSE 1)
    BY <2>4, <2>5, FilledGrows
  <2>7. Len(q) = IF c <= RowLimit THEN c ELSE RowLimit
    BY <2>3, <2>4, <2>5
  <2>8. \A j : j \in 1 .. k + 1 <=> j \in 1 .. k \/ j = k + 1
    OBVIOUS
  <2>. HIDE DEF C
  <2>9. Judged(s, k + 1) <=> ~r.blank /\ Len(q) # RowLimit
    BY <2>4, <2>6, <2>7 DEF Judged, C
  <2>10. CASE r.blank \/ Len(q) = RowLimit
    <3>1. g[k + 1] = q /\ ~Judged(s, k + 1)
      BY <2>4, <2>9, <2>10 DEF KeepRow
    <3>2. Takes(e, q, s, k + 1)
      BY <2>2, <2>4, <2>8, <3>1 DEF Takes
    <3>3. Least1(k + 1)
      BY <2>4, <2>6, <2>7, <2>10, <3>1
    <3>. QED
      BY <3>1, <3>2, <3>3
  <2>11. CASE ~(r.blank \/ Len(q) = RowLimit)
    <3>. PICK m \in Nat : m = Len(q)
      OBVIOUS
    <3>1. PICK p \in Seq(V) : p = g[k + 1]
      BY <1>1, <2>1
    <3>2. p = Append(q, r) /\ Judged(s, k + 1)
      BY <2>4, <2>9, <2>11, <3>1 DEF KeepRow
    <3>3. Len(p) = m + 1 /\ p[m + 1] = r /\ \A i \in 1 .. m : p[i] = q[i]
      BY <3>2, AppendProperties
    <3>. DEFINE f == [i \in 1 .. m + 1 |-> IF i = m + 1 THEN k + 1 ELSE e[i]]
    <3>4. /\ e \in [1 .. m -> 1 .. k]
          /\ \A i, j \in 1 .. m : e[i] = e[j] => i = j
          /\ \A j \in 1 .. k : Judged(s, j) => \E i \in 1 .. m : e[i] = j
          /\ \A i \in 1 .. m : Judged(s, e[i]) /\ q[i] = s[e[i]]
      BY <2>2, <2>4 DEF Takes
    <3>5. /\ \A i : i \in 1 .. m + 1 <=> i \in 1 .. m \/ i = m + 1
          /\ m + 1 \notin 1 .. m /\ k + 1 \notin 1 .. k
      OBVIOUS
    <3>6. f[m + 1] = k + 1 /\ \A i \in 1 .. m : f[i] = e[i] /\ f[i] \in 1 .. k
      BY <3>4, <3>5
    <3>7. f \in [1 .. m + 1 -> 1 .. k + 1]
      BY <2>8, <3>4, <3>5
    <3>. HIDE DEF f
    <3>8. ASSUME NEW i \in 1 .. m + 1, NEW j \in 1 .. m + 1, f[i] = f[j] PROVE i = j
      <4>1. CASE i \in 1 .. m /\ j \in 1 .. m
        BY <3>4, <3>6, <3>8, <4>1
      <4>2. CASE i \in 1 .. m /\ j = m + 1
        BY <3>5, <3>6, <3>8, <4>2
      <4>3. CASE i = m + 1 /\ j \in 1 .. m
        BY <3>5, <3>6, <3>8, <4>3
      <4>. QED
        BY <3>5, <4>1, <4>2, <4>3
    <3>9. ASSUME NEW j \in 1 .. k + 1, Judged(s, j) PROVE \E i \in 1 .. m + 1 : f[i] = j
      <4>1. CASE j = k + 1
        BY <3>5, <3>6, <4>1
      <4>2. CASE j \in 1 .. k
        <5>1. PICK i \in 1 .. m : e[i] = j
          BY <3>4, <3>9, <4>2
        <5>. QED
          BY <3>5, <3>6, <5>1
      <4>. QED
        BY <2>8, <4>1, <4>2
    <3>10. \A i \in 1 .. m + 1 : Judged(s, f[i]) /\ p[i] = s[f[i]]
      BY <2>4, <3>2, <3>3, <3>4, <3>5, <3>6
    <3>11. Takes(f, p, s, k + 1)
      BY <3>3, <3>7, <3>8, <3>9, <3>10 DEF Takes
    <3>12. Least1(k + 1)
      BY <2>6, <2>7, <2>11, <3>1, <3>3
    <3>. QED
      BY <3>1, <3>11, <3>12
  <2>. QED
    BY <2>10, <2>11
<1>4. n \in Ks
  <2>. HIDE DEF Ks
  <2>. QED
    BY <1>2, <1>3, Induct
<1>5. FirstRows(s) \in Seq(V)
  BY <1>1
<1>. QED
  BY <1>1, <1>4, <1>5

\* A sum of numbers is a number.
LEMMA SumIsInt ==
  ASSUME NEW s \in Seq(Int)
  PROVE  Sum(s) \in Int
<1>1. PICK g \in [0 .. Len(s) -> Int] :
        /\ g[0] = 0 /\ g[Len(s)] = Sum(s)
        /\ \A k \in 1 .. Len(s) : g[k] = g[k - 1] + s[k]
  BY SumRuns
<1>2. Len(s) \in 0 .. Len(s)
  OBVIOUS
<1>. QED
  BY <1>1, <1>2

\* The sum of numbers that are all the same.
LEMMA SumOfSame ==
  ASSUME NEW s \in Seq(Int), NEW c \in Int, \A k \in 1 .. Len(s) : s[k] = c
  PROVE  Sum(s) = Len(s) * c
<1>. PICK n \in Nat : n = Len(s)
  OBVIOUS
<1>1. PICK g \in [0 .. n -> Int] :
        g[0] = 0 /\ g[n] = Sum(s) /\ \A k \in 1 .. n : g[k] = g[k - 1] + s[k]
  BY SumRuns
<1>. DEFINE Ks == {k \in Nat : k <= n => g[k] = k * c}
<1>2. 0 \in Ks
  BY <1>1
<1>3. ASSUME NEW k \in Nat, k \in Ks PROVE k + 1 \in Ks
  <2>. SUFFICES ASSUME k + 1 <= n PROVE g[k + 1] = (k + 1) * c
    OBVIOUS
  <2>1. k + 1 \in 1 .. n /\ (k + 1) - 1 = k /\ g[k] = k * c /\ s[k + 1] = c
    BY <1>3
  <2>2. g[k + 1] = k * c + c
    BY <1>1, <2>1
  <2>3. \A x, y \in Int : x * y + y = (x + 1) * y
    OBVIOUS
  <2>. QED
    BY <2>2, <2>3
<1>4. n \in Ks
  <2>. HIDE DEF Ks
  <2>. QED
    BY <1>2, <1>3, Induct
<1>. QED
  BY <1>1, <1>4

\* Numbers from 1 on add up to at least their number, and more if many are large.
LEMMA SumIsAtLeast ==
  ASSUME NEW s \in Seq(Nat \ {0}), NEW v \in Nat \ {0}
  PROVE  /\ Sum(s) \in Nat /\ Frequency(s, v) \in 0 .. Len(s)
         /\ Sum(s) >= Len(s) + (v - 1) * Frequency(s, v)
<1>. PICK n \in Nat : n = Len(s)
  OBVIOUS
<1>0. s \in Seq(Int) /\ DOMAIN s = 1 .. n /\ \A k \in 1 .. n : s[k] \in Nat \ {0}
  OBVIOUS
<1>1. PICK g \in [0 .. n -> Int] :
        g[0] = 0 /\ g[n] = Sum(s) /\ \A k \in 1 .. n : g[k] = g[k - 1] + s[k]
  BY <1>0, SumRuns
<1>. DEFINE Hits(k) == {m \in 1 .. k : s[m] = v}
            Fits(k) == /\ IsFiniteSet(Hits(k)) /\ Cardinality(Hits(k)) \in 0 .. k
                       /\ g[k] >= k + (v - 1) * Cardinality(Hits(k))
            Ks == {k \in Nat : k <= n => Fits(k)}
<1>2. 0 \in Ks
  <2>1. Hits(0) = {}
    OBVIOUS
  <2>2. IsFiniteSet(Hits(0)) /\ Cardinality(Hits(0)) = 0
    BY <2>1, FS_EmptySet
  <2>. HIDE DEF Hits
  <2>. QED
    BY <1>1, <2>2
<1>3. ASSUME NEW k \in Nat, k \in Ks PROVE k + 1 \in Ks
  <2>. SUFFICES ASSUME k + 1 <= n PROVE Fits(k + 1)
    OBVIOUS
  <2>1. k + 1 \in 1 .. n /\ (k + 1) - 1 = k /\ Fits(k)
    BY <1>3
  <2>01. PICK x \in Nat \ {0}, a \in Int : x = s[k + 1] /\ a = g[k] /\ g[k + 1] = a + x
    <3>1. k \in 0 .. n /\ k + 1 \in 1 .. n /\ (k + 1) - 1 = k
      OBVIOUS
    <3>2. s[k + 1] \in Nat \ {0} /\ g[k] \in Int /\ g[k + 1] = g[k] + s[k + 1]
      BY <1>0, <1>1, <3>1
    <3>. QED
      BY <3>2, Zenon
  <2>02. PICK h \in 0 .. k : h = Cardinality(Hits(k))
    <3>. HIDE DEF Hits
    <3>. QED
      BY <2>1
  <2>2. x = s[k + 1] /\ a = g[k] /\ g[k + 1] = a + x /\ h = Cardinality(Hits(k))
    BY <2>01, <2>02, Zenon
  <2>3. a >= k + (v - 1) * h
    BY <2>1, <2>2
  <2>4. k + 1 \notin Hits(k) /\ \A j : j \in 1 .. k + 1 <=> j \in 1 .. k \/ j = k + 1
    OBVIOUS
  <2>5. CASE x = v
    <3>1. Hits(k + 1) = Hits(k) \cup {k + 1}
      BY <2>2, <2>4, <2>5
    <3>2. IsFiniteSet(Hits(k + 1)) /\ Cardinality(Hits(k + 1)) = h + 1
      <4>1. IsFiniteSet(Hits(k)) /\ h = Cardinality(Hits(k)) /\ k + 1 \notin Hits(k)
        BY <2>1, <2>2, <2>4
      <4>. HIDE DEF Hits, Fits
      <4>. QED
        BY <3>1, <4>1, FS_AddElement
    <3>3. (v - 1) * (h + 1) = (v - 1) * h + (v - 1)
      OBVIOUS
    <3>. PICK w \in Int : w = (v - 1) * h
      OBVIOUS
    <3>4. a + x >= (k + 1) + (v - 1) * (h + 1)
      BY <2>3, <2>5, <3>3
    <3>5. h + 1 \in 0 .. k + 1
      OBVIOUS
    <3>. HIDE DEF Hits
    <3>. QED
      BY <2>2, <3>2, <3>4, <3>5, Zenon
  <2>6. CASE x # v
    <3>1. Hits(k + 1) = Hits(k)
      BY <2>2, <2>4, <2>6
    <3>2. a + x >= (k + 1) + (v - 1) * h
      <4>. PICK w \in Int : w = (v - 1) * h
        OBVIOUS
      <4>. QED
        BY <2>3
    <3>. HIDE DEF Hits
    <3>. QED
      BY <2>1, <2>2, <3>1, <3>2
  <2>. QED
    BY <2>5, <2>6
<1>4. n \in Ks
  <2>. HIDE DEF Ks
  <2>. QED
    BY <1>2, <1>3, Induct
<1>5. Frequency(s, v) = Cardinality(Hits(n))
  BY <1>0 DEF Frequency
<1>6. PICK h \in 0 .. n : h = Cardinality(Hits(n)) /\ g[n] >= n + (v - 1) * h
  <2>1. Fits(n)
    BY <1>4
  <2>. HIDE DEF Hits
  <2>. QED
    BY <2>1
<1>7. (v - 1) * h >= 0
  BY v - 1 \in Nat, h \in Nat
<1>8. PICK w \in Nat, a \in Int : w = (v - 1) * h /\ a = g[n]
  <2>1. (v - 1) * h \in Nat /\ g[n] \in Int
    BY <1>7
  <2>. QED
    BY <2>1, Zenon
<1>9. a \in Nat /\ a >= n + w
  BY <1>6, <1>8
<1>. HIDE DEF Hits
<1>. QED
  BY <1>1, <1>5, <1>6, <1>8, <1>9, Zenon

\* The squares of numbers, times their number, are no less than the square of the sum.
LEMMA SpreadIsNatural ==
  ASSUME NEW s \in Seq(Int), NEW q \in Seq(Int), Len(q) = Len(s),
         \A k \in 1 .. Len(s) : q[k] = s[k] * s[k]
  PROVE  Len(s) * Sum(q) - Sum(s) * Sum(s) >= 0
<1>. PICK n \in Nat : n = Len(s)
  OBVIOUS
<1>0. \A k \in 1 .. n : s[k] \in Int /\ q[k] = s[k] * s[k]
  OBVIOUS
<1>1. PICK g \in [0 .. n -> Int] :
        g[0] = 0 /\ g[n] = Sum(s) /\ \A k \in 1 .. n : g[k] = g[k - 1] + s[k]
  BY SumRuns
<1>2. PICK r \in [0 .. n -> Int] :
        r[0] = 0 /\ r[n] = Sum(q) /\ \A k \in 1 .. n : r[k] = r[k - 1] + q[k]
  BY SumRuns
<1>3. ASSUME NEW a \in Int, NEW m \in 0 .. n PROVE r[m] + m * (a * a) - 2 * (a * g[m]) >= 0
  <2>. DEFINE Ks == {k \in Nat : k <= n => r[k] + k * (a * a) - 2 * (a * g[k]) >= 0}
  <2>1. 0 \in Ks
    BY <1>1, <1>2
  <2>2. ASSUME NEW k \in Nat, k \in Ks PROVE k + 1 \in Ks
    <3>. SUFFICES ASSUME k + 1 <= n PROVE r[k + 1] + (k + 1) * (a * a) - 2 * (a * g[k + 1]) >= 0
      OBVIOUS
    <3>1. k + 1 \in 1 .. n /\ (k + 1) - 1 = k /\ k \in 0 .. n
      OBVIOUS
    <3>02. PICK x \in Int, b \in Int, c \in Int : x = s[k + 1] /\ b = g[k] /\ c = r[k]
      <4>1. k \in 0 .. n /\ s[k + 1] \in Int /\ g[k] \in Int /\ r[k] \in Int
        BY <1>0, <3>1
      <4>. QED
        BY <4>1, Zenon
    <3>2. /\ x = s[k + 1] /\ b = g[k] /\ c = r[k]
          /\ g[k + 1] = b + x /\ r[k + 1] = c + x * x
      BY <1>0, <1>1, <1>2, <3>1, <3>02, Zenon
    <3>3. c + k * (a * a) - 2 * (a * b) >= 0
      BY <2>2, <3>2
    <3>4. (c + x * x) + (k + 1) * (a * a) - 2 * (a * (b + x))
            = (c + k * (a * a) - 2 * (a * b)) + (x - a) * (x - a)
      OBVIOUS
    <3>5. (x - a) * (x - a) >= 0
      <4>1. \A y \in Int : y * y >= 0
        OBVIOUS
      <4>. QED
        BY <4>1, x - a \in Int
    <3>6. \A y, z \in Int : y >= 0 /\ z >= 0 => y + z >= 0
      OBVIOUS
    <3>7. c + k * (a * a) - 2 * (a * b) \in Int /\ (x - a) * (x - a) \in Int
      OBVIOUS
    <3>. QED
      BY <3>2, <3>3, <3>4, <3>5, <3>6, <3>7
  <2>3. m \in Ks
    <3>1. m \in Nat
      OBVIOUS
    <3>. HIDE DEF Ks
    <3>. QED
      BY <2>1, <2>2, <3>1, Induct
  <2>. QED
    BY <2>3
<1>. DEFINE Ks == {k \in Nat : k <= n => k * r[k] - g[k] * g[k] >= 0}
<1>4. 0 \in Ks
  BY <1>1, <1>2
<1>5. ASSUME NEW k \in Nat, k \in Ks PROVE k + 1 \in Ks
  <2>. SUFFICES ASSUME k + 1 <= n PROVE (k + 1) * r[k + 1] - g[k + 1] * g[k + 1] >= 0
    OBVIOUS
  <2>1. k + 1 \in 1 .. n /\ (k + 1) - 1 = k /\ k \in 0 .. n
    OBVIOUS
  <2>02. PICK x \in Int, b \in Int, c \in Int : x = s[k + 1] /\ b = g[k] /\ c = r[k]
    <3>1. k \in 0 .. n /\ s[k + 1] \in Int /\ g[k] \in Int /\ r[k] \in Int
      BY <1>0, <2>1
    <3>. QED
      BY <3>1, Zenon
  <2>2. /\ x = s[k + 1] /\ b = g[k] /\ c = r[k]
        /\ g[k + 1] = b + x /\ r[k + 1] = c + x * x
    BY <1>0, <1>1, <1>2, <2>1, <2>02, Zenon
  <2>3. k * c - b * b >= 0
    BY <1>5, <2>1, <2>2
  <2>4. c + k * (x * x) - 2 * (x * b) >= 0
    BY <1>3, <2>1, <2>2
  <2>5. (k + 1) * (c + x * x) - (b + x) * (b + x)
          = (k * c - b * b) + (c + k * (x * x) - 2 * (x * b))
    OBVIOUS
  <2>6. \A y, z \in Int : y >= 0 /\ z >= 0 => y + z >= 0
    OBVIOUS
  <2>7. k * c - b * b \in Int /\ c + k * (x * x) - 2 * (x * b) \in Int
    OBVIOUS
  <2>. QED
    BY <2>2, <2>3, <2>4, <2>5, <2>6, <2>7
<1>6. n \in Ks
  <2>. HIDE DEF Ks
  <2>. QED
    BY <1>4, <1>5, Induct
<1>. QED
  BY <1>1, <1>2, <1>6

------------------------------------------------------------------------------
(* Scores.                                                                   *)

Products(s, n) ==
  s.count \in 1 .. n /\ s.sum \in Nat \ {0} /\ s.spread \in Nat

\* Rows that all agree are more confident than any that do not.
LEMMA PerfectWins ==
  ASSUME NEW n \in Nat, NEW p, NEW o, Products(p, n), Products(o, n),
         p.count = n, p.spread = 0, o.count # n
  PROVE  MoreConfident(p, o) /\ ~MoreConfident(o, p)
<1>1. PICK u \in Nat \ {0}, v \in Nat \ {0}, c \in 1 .. n, z \in Nat :
        u = p.sum /\ v = o.sum /\ c = o.count /\ z = o.spread
  BY Zenon DEF Products
<1>2. u = p.sum /\ v = o.sum /\ c = o.count /\ z = o.spread /\ n = p.count /\ p.spread = 0
  BY <1>1
<1>3. c < n /\ n - c \in Nat \ {0}
  BY <1>2
<1>4. \A i, j \in Nat \ {0} : i * j \in Nat \ {0}
  <2>1. \A i, j \in Nat : i > 0 /\ j > 0 => i * j > 0 /\ i * j \in Nat
    OBVIOUS
  <2>. QED
    BY <2>1
<1>5. \A i, j \in Nat : i * j \in Nat
  OBVIOUS
<1>6. PICK a \in Nat \ {0} : a = u * v * (n - c)
  BY <1>3, <1>4
<1>7. PICK x \in Nat : x = n * u * n * u * z
  BY <1>5
<1>8. v * u * (c - n) = -a /\ u * v * (n - c) = a
  <2>1. \A i, j, k, l \in Int : j * i * (l - k) = -(i * j * (k - l))
    OBVIOUS
  <2>. QED
    BY <1>6, <2>1
<1>9. c * v * c * v * 0 = 0
  OBVIOUS
<1>10. a * a \in Nat \ {0} /\ a * a = (-(-a)) * (-(-a)) /\ a >= 0 /\ ~(-a >= 0)
  BY <1>4
<1>11. MoreConfident(p, o) <=> RootsAbove(a, x, 0)
  BY <1>2, <1>7, <1>8, <1>9, <1>10 DEF MoreConfident
<1>12. MoreConfident(o, p) <=> ~RootsReach(-(-a), x, 0)
  BY <1>2, <1>7, <1>8, <1>9, <1>10 DEF MoreConfident
<1>13. RootsAbove(a, x, 0)
  BY <1>10 DEF RootsAbove
<1>14. RootsReach(-(-a), x, 0)
  BY <1>10 DEF RootsReach
<1>. QED
  BY <1>11, <1>12, <1>13, <1>14

\* None of two such is more confident.
LEMMA PerfectTie ==
  ASSUME NEW n \in Nat, NEW p, NEW o, Products(p, n), Products(o, n),
         p.count = n, p.spread = 0, o.count = n, o.spread = 0
  PROVE  ~MoreConfident(p, o)
<1>1. PICK u \in Nat, v \in Nat : u = p.sum /\ v = o.sum
  BY Zenon DEF Products
<1>2. u * v * (n - n) = 0 /\ n * u * n * u * 0 = 0 /\ n * v * n * v * 0 = 0
  OBVIOUS
<1>3. MoreConfident(p, o) <=> RootsAbove(0, 0, 0)
  BY <1>1, <1>2 DEF MoreConfident
<1>4. ~RootsAbove(0, 0, 0)
  BY DEF RootsAbove
<1>. QED
  BY <1>3, <1>4

\* How many have a number of fields.
LEMMA FrequencyIs ==
  ASSUME NEW s \in Seq(Nat \ {0}), NEW v \in Nat \ {0}
  PROVE  /\ Frequency(s, v) \in 0 .. Len(s)
         /\ Frequency(s, v) = Len(s) <=> \A k \in 1 .. Len(s) : s[k] = v
         /\ Frequency(s, v) # 0 => v \in Among(s)
         /\ \A w \in Nat \ {0} : w # v => Frequency(s, v) + Frequency(s, w) <= Len(s)
<1>. PICK n \in Nat : n = Len(s)
  OBVIOUS
<1>. DEFINE H(w) == {k \in 1 .. n : s[k] = w}
<1>1. DOMAIN s = 1 .. n /\ IsFiniteSet(1 .. n) /\ Cardinality(1 .. n) = n
  <2>1. IsFiniteSet(1 .. n) /\ Cardinality(1 .. n) = IF 1 > n THEN 0 ELSE n - 1 + 1
    BY FS_Interval, 1 \in Int, n \in Int, Zenon
  <2>2. (IF 1 > n THEN 0 ELSE n - 1 + 1) = n
    OBVIOUS
  <2>. QED
    BY <2>1, <2>2
<1>2. \A w : Frequency(s, w) = Cardinality(H(w))
  BY <1>1 DEF Frequency
<1>3. ASSUME NEW w PROVE /\ IsFiniteSet(H(w)) /\ Cardinality(H(w)) \in Nat /\ Cardinality(H(w)) <= n
                         /\ Cardinality(H(w)) = n => H(w) = 1 .. n
  <2>1. H(w) \in SUBSET (1 .. n)
    OBVIOUS
  <2>2. IsFiniteSet(H(w)) /\ Cardinality(H(w)) <= Cardinality(1 .. n)
        /\ (Cardinality(1 .. n) = Cardinality(H(w)) => 1 .. n = H(w))
    <3>. HIDE DEF H
    <3>. QED
      BY <1>1, <2>1, FS_Subset, Zenon
  <2>. HIDE DEF H
  <2>. QED
    BY <1>1, <2>2, FS_CardinalityType
<1>4. Frequency(s, v) \in 0 .. n
  <2>. HIDE DEF H
  <2>. QED
    BY <1>2, <1>3
<1>5. Frequency(s, v) = n <=> \A k \in 1 .. n : s[k] = v
  <2>1. H(v) = 1 .. n <=> \A k \in 1 .. n : s[k] = v
    OBVIOUS
  <2>. HIDE DEF H
  <2>. QED
    BY <1>1, <1>2, <1>3, <2>1
<1>6. Frequency(s, v) # 0 => v \in Among(s)
  <2>. SUFFICES ASSUME Frequency(s, v) # 0 PROVE v \in Among(s)
    OBVIOUS
  <2>1. H(v) # {}
    <3>. HIDE DEF H
    <3>. QED
      BY <1>2, FS_EmptySet
  <2>. QED
    BY <1>1, <2>1 DEF Among
<1>7. ASSUME NEW w \in Nat \ {0}, w # v PROVE Frequency(s, v) + Frequency(s, w) <= n
  <2>1. H(v) \cap H(w) = {} /\ H(v) \cup H(w) \in SUBSET (1 .. n)
    BY <1>7
  <2>2. Cardinality(H(v) \cup H(w)) <= n
    <3>. HIDE DEF H
    <3>. QED
      BY <1>1, <2>1, FS_Subset
  <2>3. Cardinality(H(v) \cup H(w)) = Cardinality(H(v)) + Cardinality(H(w))
                                        - Cardinality(H(v) \cap H(w))
    <3>. HIDE DEF H
    <3>. QED
      BY <1>3, FS_Union
  <2>4. Cardinality(H(v) \cap H(w)) = 0
    BY <2>1, FS_EmptySet
  <2>. HIDE DEF H
  <2>. QED
    BY <1>2, <1>3, <2>2, <2>3, <2>4
<1>. QED
  BY <1>4, <1>5, <1>6, <1>7

\* The rows looked at, as the proofs need them.
Countable ==
  /\ rows \in Seq({rows[k] : k \in DOMAIN rows}) /\ rows # <<>>
  /\ \A k \in DOMAIN rows, i \in DOMAIN Delims : rows[k].fields[Delims[i]] \in Nat \ {0}

\* Their fields are a sequence of numbers.
LEMMA FieldsAre ==
  ASSUME Countable, NEW i \in DOMAIN Delims
  PROVE  /\ Fields(Delims[i]) \in Seq(Nat \ {0}) /\ Len(Fields(Delims[i])) = Len(rows)
         /\ \A k \in 1 .. Len(rows) : Fields(Delims[i])[k] = rows[k].fields[Delims[i]]
         /\ Len(rows) \in Nat \ {0}
<1>. PICK n \in Nat : n = Len(rows) /\ DOMAIN rows = 1 .. n
  BY DEF Countable
<1>. PICK V : rows \in Seq(V) /\ rows # <<>>
  BY DEF Countable
<1>1. n # 0
  BY EmptySeq
<1>2. \A k \in 1 .. n : rows[k].fields[Delims[i]] \in Nat \ {0}
  BY DEF Countable
<1>3. Fields(Delims[i]) = [k \in 1 .. n |-> rows[k].fields[Delims[i]]]
  BY DEF Fields
<1>. QED
  BY <1>1, <1>2, <1>3

AllAgree(d, v) == \A k \in DOMAIN rows : rows[k].fields[d] = v
Counts(d) == Among(Fields(d))

\* A score is that of one of the first m delimiters, and four rows in five agree.
ScoreOf(s, m) ==
  /\ s.valid = TRUE /\ Products(s, Len(rows)) /\ s.fields \in Nat /\ s.fields >= 2
  /\ \E i \in DOMAIN Delims : i <= m /\ s.delim = Delims[i]
  /\ s.count = Frequency(Fields(s.delim), s.fields)
  /\ 5 * s.count >= 4 * Len(rows)
  /\ s.count = Len(rows) => s.spread = 0

\* The best of the numbers of fields met so far, among fields.
DominantOf(dom, met, fields) ==
  /\ dom.fields \in Nat /\ dom.count \in Nat
  /\ dom = NoDominant \/ (dom.fields >= 2 /\ dom.count = Frequency(fields, dom.fields))
  /\ \A v \in met :
       v >= 2 => \/ Frequency(fields, v) < dom.count
                 \/ Frequency(fields, v) = dom.count /\ v <= dom.fields

\* The loop over the map.
DominantInv == DominantOf(dominant, Counts(Delim) \ left, Fields(Delim))

\* b beats or is every one of the first m delimiters that splits all rows alike,
\* and there is one if any is good enough.
BestOf(b, m) ==
  /\ b = NoScore \/ ScoreOf(b, m)
  /\ \A i \in DOMAIN Delims, v \in Nat :
       i <= m /\ v >= 2 /\ AllAgree(Delims[i], v) =>
         /\ b.valid /\ b.count = Len(rows)
         /\ \/ b.fields > v
            \/ b.fields = v /\ ByteOf[b.delim] <= ByteOf[Delims[i]]
  /\ \A i \in DOMAIN Delims, v \in Nat :
       i <= m /\ v >= 3 /\ 5 * Frequency(Fields(Delims[i]), v) >= 4 * Len(rows) => b.valid

\* What scoreDelimiter returns when the loop has met every number of fields.
LEMMA ScoreIs ==
  ASSUME Countable, DominantInv, left = {}, next \in DOMAIN Delims
  PROVE  /\ Score = NoScore \/ (ScoreOf(Score, next) /\ Score.delim = Delim)
         /\ \A v \in Nat : v >= 2 /\ AllAgree(Delim, v) =>
              Score.valid /\ Score.count = Len(rows) /\ Score.fields = v
         /\ \A v \in Nat : v >= 3 /\ 5 * Frequency(Fields(Delim), v) >= 4 * Len(rows) => Score.valid
<1>. DEFINE G == Fields(Delim)
<1>. PICK n \in Nat \ {0} : n = Len(rows)
  BY FieldsAre DEF Delim
<1>. PICK s \in Seq(Nat \ {0}) : s = G
  BY FieldsAre DEF Delim
<1>1. Len(s) = n /\ \A k \in 1 .. n : s[k] = rows[k].fields[Delim] /\ s[k] \in Nat \ {0}
  <2>1. Len(G) = n /\ \A k \in 1 .. n : G[k] = rows[k].fields[Delim]
    BY FieldsAre DEF Delim
  <2>. QED
    BY <2>1
<1>2. DOMAIN rows = 1 .. n /\ DOMAIN s = 1 .. n
  BY <1>1 DEF Countable
<1>3. PICK f \in Nat, c \in Nat : f = dominant.fields /\ c = dominant.count
  BY Zenon DEF DominantInv, DominantOf
<1>4. PICK sum \in Nat : sum = Sum(s) /\ \A v \in Nat \ {0} : sum >= n + (v - 1) * Frequency(s, v)
  <2>1. Sum(s) \in Nat
    BY SumIsAtLeast, 1 \in Nat \ {0}
  <2>2. \A v \in Nat \ {0} : Sum(s) >= n + (v - 1) * Frequency(s, v)
    BY <1>1, SumIsAtLeast
  <2>. QED
    BY <2>1, <2>2, Zenon
<1>. DEFINE q == [k \in DOMAIN rows |-> G[k] * G[k]]
<1>5. q \in Seq(Int) /\ Len(q) = n /\ \A k \in 1 .. n : q[k] = s[k] * s[k]
  <2>1. q = [k \in 1 .. n |-> s[k] * s[k]]
    BY <1>2
  <2>2. \A k \in 1 .. n : s[k] * s[k] \in Int
    BY <1>1
  <2>. QED
    BY <2>1, <2>2
<1>6. PICK z \in Nat : z = n * Sum(q) - sum * sum
  <2>. HIDE DEF q
  <2>1. s \in Seq(Int)
    BY <1>1
  <2>2. n * Sum(q) - sum * sum >= 0
    <3>1. Len(q) = Len(s) /\ \A k \in 1 .. Len(s) : q[k] = s[k] * s[k]
      BY <1>1, <1>5
    <3>2. Len(s) * Sum(q) - Sum(s) * Sum(s) >= 0
      BY <1>5, <2>1, <3>1, SpreadIsNatural, Zenon
    <3>. QED
      BY <1>1, <1>4, <3>2, Zenon
  <2>3. Sum(q) \in Int
    BY <1>5, SumIsInt, Zenon
  <2>4. n * Sum(q) - sum * sum \in Nat
    BY <2>2, <2>3
  <2>. QED
    BY <2>4, Zenon
<1>7. Acceptable(sum) <=> f >= 2 /\ 5 * c >= 4 * n /\ sum >= 2 * n
  BY <1>3 DEF Acceptable
<1>8. /\ Acceptable(sum) =>
           Score = [valid |-> TRUE, delim |-> Delim, count |-> c, sum |-> sum, spread |-> z, fields |-> f]
      /\ ~Acceptable(sum) => Score = NoScore
  BY <1>3, <1>4, <1>6, Zenon DEF Score
<1>. DEFINE F(v) == Frequency(s, v)
<1>9. \A v \in Nat \ {0} :
        /\ F(v) \in 0 .. n /\ (F(v) = n <=> \A k \in 1 .. n : s[k] = v)
        /\ F(v) # 0 => v \in Counts(Delim)
        /\ \A w \in Nat \ {0} : w # v => F(v) + F(w) <= n
  <2>. HIDE DEF G
  <2>1. \A v \in Nat \ {0} :
          /\ Frequency(s, v) \in 0 .. Len(s)
          /\ Frequency(s, v) = Len(s) <=> \A k \in 1 .. Len(s) : s[k] = v
          /\ Frequency(s, v) # 0 => v \in Among(s)
          /\ \A w \in Nat \ {0} : w # v => Frequency(s, v) + Frequency(s, w) <= Len(s)
    BY FrequencyIs, Zenon
  <2>2. Counts(Delim) = Among(s)
    BY DEF Counts, G
  <2>. QED
    BY <1>1, <2>1, <2>2
<1>10. /\ (f = 0 /\ c = 0) \/ (f >= 2 /\ c = F(f))
       /\ \A v \in Counts(Delim) : v >= 2 => F(v) < c \/ (F(v) = c /\ v <= f)
  <2>1. dominant = NoDominant \/ (f >= 2 /\ c = F(f))
    <3>1. \/ dominant = NoDominant
          \/ /\ dominant.fields >= 2
             /\ dominant.count = Frequency(Fields(Delim), dominant.fields)
      BY Zenon DEF DominantInv, DominantOf
    <3>2. dominant.fields = f /\ dominant.count = c /\ Fields(Delim) = s
      BY <1>3
    <3>3. CASE dominant = NoDominant
      BY <3>3, Zenon
    <3>4. CASE dominant # NoDominant
      <4>1. f >= 2 /\ c = Frequency(Fields(Delim), dominant.fields)
        BY <3>1, <3>2, <3>4
      <4>2. Frequency(Fields(Delim), dominant.fields) = Frequency(s, f)
        BY <3>2
      <4>. QED
        BY <4>1, <4>2
    <3>. QED
      BY <3>3, <3>4
  <2>2. \A v \in Counts(Delim) : v >= 2 => F(v) < c \/ (F(v) = c /\ v <= f)
    BY <1>3, Zenon DEF DominantInv, DominantOf
  <2>3. dominant = NoDominant => f = 0 /\ c = 0
    <3>1. NoDominant.fields = 0 /\ NoDominant.count = 0
      BY DEF NoDominant
    <3>. QED
      BY <1>3, <3>1, Zenon
  <2>. QED
    BY <2>1, <2>2, <2>3, Zenon
<1>11. ASSUME NEW v \in Nat, v >= 2, F(v) # 0 PROVE F(v) < c \/ (F(v) = c /\ v <= f)
  BY <1>9, <1>10, <1>11
<1>. HIDE DEF F, q
<1>12. ASSUME NEW v \in Nat, v >= 2, 5 * F(v) >= 4 * n PROVE c >= F(v) /\ f = v
  <2>1. F(v) \in 0 .. n
    <3>1. v \in Nat \ {0}
      BY <1>12
    <3>. QED
      BY <1>9, <3>1, Zenon
  <2>2. F(v) # 0
    BY <1>12, <2>1
  <2>3. c >= F(v) /\ c # 0
    <3>1. F(v) < c \/ (F(v) = c /\ v <= f)
      BY <1>11, <1>12, <2>2, Zenon
    <3>. QED
      BY <2>1, <2>2, <3>1
  <2>4. f >= 2 /\ c = F(f)
    BY <1>10, <2>3
  <2>5. f # v => F(v) + F(f) <= n
    BY <1>9, <1>12, <2>4
  <2>. QED
    BY <1>12, <2>1, <2>3, <2>4, <2>5
<1>13. \A v \in Nat : AllAgree(Delim, v) /\ v >= 2 => F(v) = n
  <2>. SUFFICES ASSUME NEW v \in Nat, AllAgree(Delim, v), v >= 2 PROVE F(v) = n
    OBVIOUS
  <2>1. v \in Nat \ {0} /\ \A k \in 1 .. n : s[k] = v
    BY <1>1, <1>2 DEF AllAgree
  <2>. QED
    BY <1>9, <2>1
<1>14. ASSUME NEW v \in Nat, v >= 2, AllAgree(Delim, v)
       PROVE  Score.valid /\ Score.count = n /\ Score.fields = v
  <2>1. F(v) = n
    BY <1>13, <1>14
  <2>2. f = v /\ c = n
    <3>1. f = v /\ c >= n
      BY <1>12, <1>14, <2>1
    <3>2. c = F(f)
      BY <1>10, <1>14, <3>1
    <3>. QED
      BY <2>1, <3>1, <3>2
  <2>3. sum = n * v
    <3>1. \A k \in 1 .. n : s[k] = v
      BY <1>9, <1>14, <2>1
    <3>2. s \in Seq(Int) /\ v \in Int /\ Len(s) = n
      BY <1>1
    <3>3. Sum(s) = Len(s) * v
      <4>1. \A k \in 1 .. Len(s) : s[k] = v
        BY <3>1, <3>2, Zenon
      <4>. QED
        BY <3>2, <4>1, SumOfSame, Zenon
    <3>. QED
      BY <1>4, <3>2, <3>3
  <2>4. n * v >= 2 * n
    <3>1. PICK k \in Nat : v = k + 2
      BY <1>14, v - 2 \in Nat, v = (v - 2) + 2
    <3>2. n * k \in Nat /\ n * (k + 2) = n * k + 2 * n
      OBVIOUS
    <3>. QED
      BY <3>1, <3>2
  <2>5. Acceptable(sum)
    BY <1>7, <1>14, <2>2, <2>3, <2>4
  <2>. QED
    BY <1>8, <2>2, <2>5
<1>15. ASSUME NEW v \in Nat, v >= 3, 5 * F(v) >= 4 * n PROVE Score.valid
  <2>1. f = v /\ c = F(v) /\ c \in 0 .. n
    <3>1. f = v /\ c >= F(v)
      BY <1>12, <1>15
    <3>2. c = F(f) /\ F(f) \in 0 .. n
      BY <1>9, <1>10, <1>15, <3>1
    <3>. QED
      BY <3>1, <3>2
  <2>2. sum >= n + (v - 1) * c
    BY <1>4, <1>15, <2>1 DEF F
  <2>3. (v - 1) * c >= 2 * c
    <3>1. \A i, j, k \in Nat : i >= k => i * j >= k * j
      OBVIOUS
    <3>. QED
      BY <1>15, <3>1, v - 1 \in Nat, 2 \in Nat
  <2>4. PICK w \in Int : w = (v - 1) * c
    OBVIOUS
  <2>5. sum >= 2 * n
    BY <1>15, <2>1, <2>2, <2>3, <2>4
  <2>6. Acceptable(sum)
    BY <1>7, <1>15, <2>1, <2>5
  <2>. QED
    BY <1>8, <2>6
<1>16. ASSUME Acceptable(sum) PROVE ScoreOf(Score, next) /\ Score.delim = Delim
  <2>1. f >= 2 /\ 5 * c >= 4 * n /\ sum >= 2 * n
    BY <1>7, <1>16
  <2>2. c = F(f) /\ F(f) \in 0 .. n /\ (F(f) = n <=> \A k \in 1 .. n : s[k] = f)
    <3>1. f \in Nat \ {0} /\ f # 0
      BY <2>1
    <3>. QED
      BY <1>9, <1>10, <3>1, Zenon
  <2>3. c \in 1 .. n /\ sum \in Nat \ {0}
    BY <2>1, <2>2
  <2>4. c = n => z = 0
    <3>. SUFFICES ASSUME c = n PROVE z = 0
      OBVIOUS
    <3>1. \A k \in 1 .. n : s[k] = f
      BY <2>2
    <3>2. sum = n * f
      <4>1. s \in Seq(Int) /\ f \in Int /\ Len(s) = n
        BY <1>1
      <4>2. Sum(s) = Len(s) * f
        BY <3>1, <4>1, SumOfSame
      <4>. QED
        BY <1>4, <4>1, <4>2
    <3>3. \A k \in 1 .. Len(q) : q[k] = f * f
      BY <1>5, <3>1
    <3>4. Sum(q) = n * (f * f)
      BY <1>5, <3>3, f * f \in Int, SumOfSame
    <3>5. n * (n * (f * f)) - (n * f) * (n * f) = 0
      OBVIOUS
    <3>. QED
      BY <1>6, <3>2, <3>4, <3>5
  <2>5. /\ Score.valid = TRUE /\ Score.delim = Delim /\ Score.count = c /\ Score.sum = sum
        /\ Score.spread = z /\ Score.fields = f
    BY <1>8, <1>16
  <2>6. Products(Score, n)
    BY <2>3, <2>5 DEF Products
  <2>7. \E i \in DOMAIN Delims : i <= next /\ Delim = Delims[i]
    BY DEF Delim, DetectAssumption
  <2>. QED
    BY <2>1, <2>2, <2>4, <2>5, <2>6, <2>7 DEF ScoreOf, F
<1>. QED
  BY <1>8, <1>14, <1>15, <1>16 DEF F

\* betterThan against the best so far.
LEMMA BestAfter ==
  ASSUME Countable, DominantInv, left = {}, next \in DOMAIN Delims, BestOf(best, next - 1)
  PROVE  BestOf(IF BetterThan(Score, best) THEN Score ELSE best, next)
<1>. PICK n \in Nat \ {0} : n = Len(rows)
  BY FieldsAre
<1>. PICK s : s = Score
  OBVIOUS
<1>. PICK m \in Nat : m = next
  BY DetectAssumption
<1>. DEFINE b == IF BetterThan(s, best) THEN s ELSE best
            Beats(t, v, i) == \/ t.fields > v
                              \/ t.fields = v /\ ByteOf[t.delim] <= ByteOf[Delims[i]]
<1>1. /\ s = NoScore \/ (ScoreOf(s, m) /\ s.delim = Delim)
      /\ \A v \in Nat : v >= 2 /\ AllAgree(Delim, v) => s.valid /\ s.count = n /\ s.fields = v
      /\ \A v \in Nat : v >= 3 /\ 5 * Frequency(Fields(Delim), v) >= 4 * n => s.valid
  BY ScoreIs
<1>2. /\ best = NoScore \/ ScoreOf(best, m - 1)
      /\ \A i \in DOMAIN Delims, v \in Nat :
           i <= m - 1 /\ v >= 2 /\ AllAgree(Delims[i], v) =>
             best.valid /\ best.count = n /\ Beats(best, v, i)
      /\ \A i \in DOMAIN Delims, v \in Nat :
           i <= m - 1 /\ v >= 3 /\ 5 * Frequency(Fields(Delims[i]), v) >= 4 * n => best.valid
  BY DEF BestOf
<1>3. \A i \in DOMAIN Delims : i <= m => i <= m - 1 \/ i = m
  BY DetectAssumption
<1>4. ~NoScore.valid
  BY DEF NoScore
<1>5. BetterThan(s, best) => s.valid
  BY Zenon DEF BetterThan
<1>6. ~BetterThan(s, best) /\ s.valid => best.valid
  BY Zenon DEF BetterThan
<1>7. Delim = Delims[m]
  BY DEF Delim
<1>8. ASSUME NEW t, t = NoScore \/ ScoreOf(t, m), t.valid
      PROVE  /\ Products(t, n) /\ t.fields \in Nat /\ ByteOf[t.delim] \in Nat
             /\ t.count = n => t.spread = 0
  <2>1. ScoreOf(t, m)
    BY <1>4, <1>8
  <2>. QED
    BY <2>1, DetectAssumption DEF ScoreOf
<1>9. best = NoScore \/ ScoreOf(best, m)
  <2>1. ScoreOf(best, m - 1) => ScoreOf(best, m)
    <3>1. \A i \in DOMAIN Delims : i <= m - 1 => i <= m
      BY DetectAssumption
    <3>. QED
      BY <3>1, Zenon DEF ScoreOf
  <2>. QED
    BY <1>2, <2>1
<1>10. b = NoScore \/ ScoreOf(b, m)
  BY <1>1, <1>9
<1>11. ASSUME NEW i \in DOMAIN Delims, NEW v \in Nat, i <= m, v >= 3,
              5 * Frequency(Fields(Delims[i]), v) >= 4 * n
       PROVE  b.valid
  <2>1. CASE i <= m - 1
    <3>1. best.valid
      BY <1>2, <1>11, <2>1
    <3>. QED
      BY <1>5, <3>1
  <2>2. CASE i = m
    <3>1. s.valid
      BY <1>1, <1>7, <1>11, <2>2
    <3>. QED
      BY <1>6, <3>1
  <2>. QED
    BY <1>3, <1>11, <2>1, <2>2
<1>12. ASSUME NEW i \in DOMAIN Delims, NEW v \in Nat, i <= m, v >= 2, AllAgree(Delims[i], v)
       PROVE  b.valid /\ b.count = n /\ Beats(b, v, i)
  <2>0. PICK e \in Nat : e = ByteOf[Delims[i]]
    BY DetectAssumption
  <2>1. CASE i <= m - 1
    <3>1. best.valid /\ best.count = n /\ Beats(best, v, i)
      BY <1>2, <1>12, <2>1
    <3>2. CASE BetterThan(s, best)
      <4>1. s.valid
        BY <1>5, <3>2
      <4>2. /\ Products(s, n) /\ s.fields \in Nat /\ ByteOf[s.delim] \in Nat
            /\ s.count = n => s.spread = 0
        BY <1>1, <1>8, <4>1
      <4>3. /\ Products(best, n) /\ best.fields \in Nat /\ ByteOf[best.delim] \in Nat
            /\ best.spread = 0
        BY <1>8, <1>9, <3>1
      <4>4. s.count = n
        <5>. SUFFICES ASSUME s.count # n PROVE FALSE
          OBVIOUS
        <5>1. MoreConfident(best, s) /\ ~MoreConfident(s, best)
          BY <3>1, <4>2, <4>3, PerfectWins, Zenon
        <5>. QED
          BY <3>1, <3>2, <5>1, Zenon DEF BetterThan
      <4>5. ~MoreConfident(s, best)
        BY <3>1, <4>2, <4>3, <4>4, PerfectTie, Zenon
      <4>6. \/ s.fields > best.fields
            \/ s.fields = best.fields /\ ByteOf[s.delim] < ByteOf[best.delim]
        BY <3>1, <3>2, <4>5, Zenon DEF BetterThan
      <4>7. Beats(s, v, i)
        BY <2>0, <3>1, <4>2, <4>3, <4>6
      <4>. QED
        BY <3>2, <4>1, <4>4, <4>7
    <3>3. CASE ~BetterThan(s, best)
      BY <3>1, <3>3
    <3>. QED
      BY <3>2, <3>3
  <2>2. CASE i = m
    <3>1. s.valid /\ s.count = n /\ s.fields = v
      BY <1>1, <1>7, <1>12, <2>2
    <3>2. s.delim = Delims[i]
      BY <1>1, <1>4, <1>7, <2>2, <3>1
    <3>3. CASE BetterThan(s, best)
      BY <2>0, <3>1, <3>2, <3>3
    <3>4. CASE ~BetterThan(s, best)
      <4>1. best.valid
        BY <1>6, <3>1, <3>4
      <4>2. Products(s, n) /\ s.spread = 0
        BY <1>1, <1>8, <3>1
      <4>3. /\ Products(best, n) /\ best.fields \in Nat /\ ByteOf[best.delim] \in Nat
            /\ best.count = n => best.spread = 0
        BY <1>8, <1>9, <4>1
      <4>4. best.count = n
        <5>. SUFFICES ASSUME best.count # n PROVE FALSE
          OBVIOUS
        <5>1. MoreConfident(s, best)
          BY <3>1, <4>2, <4>3, PerfectWins, Zenon
        <5>. QED
          BY <3>1, <3>4, <5>1, Zenon DEF BetterThan
      <4>5. ~MoreConfident(best, s)
        BY <3>1, <4>2, <4>3, <4>4, PerfectTie, Zenon
      <4>6. ~(s.fields > best.fields)
            /\ ~(s.fields = best.fields /\ ByteOf[s.delim] < ByteOf[best.delim])
        BY <3>1, <3>4, <4>5, Zenon DEF BetterThan
      <4>7. Beats(best, v, i)
        BY <2>0, <3>1, <3>2, <4>3, <4>6
      <4>. QED
        BY <3>4, <4>1, <4>4, <4>7
    <3>. QED
      BY <3>3, <3>4
  <2>. QED
    BY <1>3, <1>12, <2>1, <2>2
<1>13. BestOf(b, m)
  <2>. HIDE DEF b
  <2>. QED
    BY <1>10, <1>11, <1>12, Zenon DEF BestOf
<1>. QED
  BY <1>13

------------------------------------------------------------------------------
(* Detection of the delimiter.                                               *)

RowsInv ==
  /\ query \in DetectJob /\ step \in {"rows", "score", "verdict", "failed"}
  /\ next \in DOMAIN Delims
  /\ step = "rows" => next = 1 /\ dominant = NoDominant /\ best = NoScore
  /\ step # "rows" => rows = SampledLines
  /\ step = "score" =>
       rows # <<>> /\ left \subseteq Counts(Delim) /\ DominantInv /\ BestOf(best, next - 1)
  /\ step \in {"verdict", "failed"} /\ rows # <<>> => BestOf(best, Len(Delims))
  /\ step = "verdict" => rows # <<>> /\ best.valid
  /\ step = "failed" => rows = <<>> \/ ~best.valid

DetectInv == query # Nothing /\ query.kind = "rows" => RowsInv

\* However the sample is cut, the rows it is taken from are the whole ones.
LEMMA SampledIs ==
  ASSUME query \in DetectJob, query.kind = "rows"
  PROVE  /\ Whole \in Seq(RowsOf(query)) /\ SampledLines = FirstRows(Whole)
         /\ \A r \in RowsOf(query), i \in DOMAIN Delims : r.fields[Delims[i]] \in Nat \ {0}
<1>1. /\ query.rows \in Seq(RowsOf(query))
      /\ \A r \in RowsOf(query) :
           r.blank \in BOOLEAN /\ \A i \in DOMAIN Delims : r.fields[Delims[i]] \in Nat \ {0}
      /\ query.cut # Nothing => query.cut.after \in 0 .. Len(query.rows)
  BY DetectAssumption
<1>2. CASE query.cut = Nothing
  BY <1>1, <1>2 DEF Whole, SampledLines, SampleRows, Truncated
<1>3. CASE query.cut # Nothing
  <2>. PICK V : V = RowsOf(query)
    OBVIOUS
  <2>. PICK all \in Seq(V) : all = query.rows
    BY <1>1
  <2>. PICK m \in 0 .. Len(all) : m = query.cut.after
    BY <1>1, <1>3
  <2>0. SubSeq(all, 1, m) \in Seq(V) /\ Len(SubSeq(all, 1, m)) = m
    <3>1. 1 \in Int /\ m \in Int /\ \A i \in 1 .. m : all[i] \in V
      OBVIOUS
    <3>2. /\ SubSeq(all, 1, m) \in Seq(V)
          /\ Len(SubSeq(all, 1, m)) = IF 1 <= m THEN m - 1 + 1 ELSE 0
      BY <3>1, SubSeqProperties
    <3>. QED
      BY <3>2
  <2>. PICK u \in Seq(V) : u = SubSeq(all, 1, m)
    BY <2>0
  <2>1. Whole = u /\ Len(u) = m
        /\ SampleRows = u \o (IF query.cut.rest = Nothing THEN <<>> ELSE <<query.cut.rest>>)
    BY <1>3, <2>0 DEF Whole, SampleRows, Truncated
  <2>2. SampledLines = FirstRows(u)
    <3>1. CASE query.cut.rest = Nothing
      <4>1. SampleRows = u
        BY <2>1, <3>1, ConcatEmptySeq
      <4>. QED
        BY <1>3, <3>1, <4>1 DEF SampledLines, SampleEndsInNewline, Truncated
    <3>2. CASE query.cut.rest # Nothing
      <4>1. query.cut.rest \in V
        BY <1>3, <3>2 DEF RowsOf
      <4>2. Front(u \o <<query.cut.rest>>) = u
        <5>. PICK r \in V : r = query.cut.rest
          BY <4>1
        <5>1. Len(u \o <<r>>) = m + 1
          BY <2>1
        <5>2. SubSeq(u \o <<r>>, 1, (m + 1) - 1) = u
          BY <2>1
        <5>. QED
          BY <5>1, <5>2 DEF Front
      <4>. QED
        BY <1>3, <2>1, <3>2, <4>2 DEF SampledLines, SampleEndsInNewline, Truncated
    <3>. QED
      BY <3>1, <3>2
  <2>. QED
    BY <1>1, <2>1, <2>2
<1>. QED
  BY <1>2, <1>3

\* They can be counted.
LEMMA RowsAre ==
  ASSUME query \in DetectJob, query.kind = "rows", rows = SampledLines, rows # <<>>
  PROVE  Countable
<1>. PICK V : V = RowsOf(query)
  OBVIOUS
<1>. PICK s \in Seq(V) : s = Whole
  BY SampledIs
<1>1. RowLimit \in Nat
  BY DetectAssumption
<1>2. FirstRows(s) \in Seq(V)
  BY <1>1, TakenAre, Zenon
<1>3. rows \in Seq(V)
  BY <1>2, SampledIs
<1>4. \A k \in DOMAIN rows : rows[k] \in V
  BY <1>3
<1>5. rows \in Seq({rows[k] : k \in DOMAIN rows})
  <2>. PICK n \in Nat : n = Len(rows)
    BY <1>3
  <2>1. rows \in [1 .. n -> V] /\ DOMAIN rows = 1 .. n
    BY <1>3
  <2>2. rows \in [1 .. n -> {rows[k] : k \in DOMAIN rows}]
    BY <2>1
  <2>. QED
    BY <2>2
<1>. QED
  BY <1>4, <1>5, SampledIs DEF Countable

\* Rows that stay, and a best that stays or is b.
LEMMA BestSame ==
  ASSUME rows' = rows, NEW b, NEW m, best' = b, BestOf(b, m)
  PROVE  BestOf(best, m)'
<1>1. /\ b = NoScore \/ ScoreOf(b, m)
      /\ \A i \in DOMAIN Delims, v \in Nat :
           i <= m /\ v >= 2 /\ AllAgree(Delims[i], v) =>
             /\ b.valid /\ b.count = Len(rows)
             /\ \/ b.fields > v
                \/ b.fields = v /\ ByteOf[b.delim] <= ByteOf[Delims[i]]
      /\ \A i \in DOMAIN Delims, v \in Nat :
           i <= m /\ v >= 3 /\ 5 * Frequency(Fields(Delims[i]), v) >= 4 * Len(rows) => b.valid
  BY Zenon DEF BestOf
<1>2. \A d : Fields(d)' = Fields(d)
  BY DEF Fields
<1>3. \A d, v : AllAgree(d, v)' <=> AllAgree(d, v)
  BY DEF AllAgree
<1>. QED
  BY <1>1, <1>2, <1>3 DEF BestOf, ScoreOf

\* A state that starts.
LEMMA DetectStarts == DetectInit => DetectInv
<1>. SUFFICES ASSUME DetectInit, query.kind = "rows" PROVE RowsInv
  BY DEF DetectInv
<1>1. 1 \in DOMAIN Delims
  <2>. PICK V : Delims \in Seq(V) /\ Delims # <<>>
    BY DetectAssumption
  <2>1. Len(Delims) \in Nat \ {0}
    BY EmptySeq
  <2>. QED
    BY <2>1
<1>. QED
  BY <1>1 DEF DetectInit, RowsInv

\* What is sampled depends on what was asked.
LEMMA SampledSame == query' = query => SampledLines' = SampledLines
  BY DEF SampledLines, Truncated, SampleEndsInNewline, SampleRows

\* sampledLines.
LEMMA TakeRowsStep == RowsInv /\ query.kind = "rows" /\ TakeRows => RowsInv'
<1>. SUFFICES ASSUME RowsInv, query.kind = "rows", TakeRows PROVE RowsInv'
  OBVIOUS
<1>1. /\ query \in DetectJob /\ step = "rows" /\ next \in DOMAIN Delims
      /\ next = 1 /\ dominant = NoDominant /\ best = NoScore
      /\ query' = query /\ next' = next /\ dominant' = dominant /\ best' = best
      /\ rows' = SampledLines
  BY DEF RowsInv, TakeRows
<1>2. rows' = SampledLines'
  BY <1>1, SampledSame
<1>3. ~best'.valid
  BY <1>1 DEF NoScore
<1>4. CASE SampledLines = <<>>
  <2>1. step' = "failed"
    BY <1>4 DEF TakeRows
  <2>. QED
    BY <1>1, <1>2, <1>4, <2>1 DEF RowsInv
<1>5. CASE SampledLines # <<>>
  <2>1. /\ step' = "score" /\ left' = {SampledLines[k].fields[Delim] : k \in DOMAIN SampledLines}
    BY <1>5 DEF TakeRows
  <2>2. Counts(Delim)' = left'
    BY <1>1, <2>1 DEF Counts, Among, Fields, Delim
  <2>3. DominantInv'
    <3>1. DominantOf(NoDominant, {}, Fields(Delim)')
      BY DEF DominantOf, NoDominant
    <3>2. (Counts(Delim) \ left)' = {}
      BY <2>2
    <3>. QED
      BY <1>1, <3>1, <3>2, Zenon DEF DominantInv
  <2>4. BestOf(best, next - 1)'
    <3>1. \A i \in DOMAIN Delims : ~(i <= 1 - 1)
      BY DetectAssumption
    <3>. QED
      BY <1>1, <3>1 DEF BestOf
  <2>. QED
    BY <1>1, <1>2, <1>5, <2>1, <2>2, <2>3, <2>4 DEF RowsInv
<1>. QED
  BY <1>4, <1>5

\* One more number of fields is met.
LEMMA MeetStep == RowsInv /\ query.kind = "rows" /\ Meet => RowsInv'
<1>. SUFFICES ASSUME RowsInv, query.kind = "rows", Meet PROVE RowsInv'
  OBVIOUS
<1>1. /\ query \in DetectJob /\ step = "score" /\ next \in DOMAIN Delims
      /\ rows = SampledLines /\ rows # <<>> /\ left \subseteq Counts(Delim)
      /\ DominantInv /\ BestOf(best, next - 1)
      /\ step' = step /\ query' = query /\ rows' = rows /\ next' = next /\ best' = best
  BY DEF RowsInv, Meet
<1>2. Countable
  BY <1>1, RowsAre
<1>. PICK G \in Seq(Nat \ {0}) : G = Fields(Delim)
  BY <1>1, <1>2, FieldsAre DEF Delim
<1>3. Counts(Delim) = Among(G) /\ Among(G) \subseteq Nat \ {0}
  BY DEF Counts, Among
<1>4. PICK n \in left :
        /\ left' = left \ {n}
        /\ dominant' = IF n >= 2 /\ Dominates(n, Frequency(G, n))
                       THEN [fields |-> n, count |-> Frequency(G, n)] ELSE dominant
  BY DEF Meet
<1>. PICK v \in Nat \ {0} : v = n
  BY <1>1, <1>3
<1>. PICK c \in Nat : c = Frequency(G, v)
  BY FrequencyIs
<1>5. DominantOf(dominant, Among(G) \ left, G)
  BY <1>3, <1>1 DEF DominantInv
<1>. PICK f \in Nat, o \in Nat : f = dominant.fields /\ o = dominant.count
  BY <1>5, Zenon DEF DominantOf
<1>6. Among(G) \ left' = (Among(G) \ left) \cup {v}
  BY <1>1, <1>3, <1>4
<1>7. \A w \in Among(G) : Frequency(G, w) \in Nat /\ w \in Nat
  BY <1>3, FrequencyIs
<1>8. \A w \in Among(G) \ left : w >= 2 => Frequency(G, w) < o \/ (Frequency(G, w) = o /\ w <= f)
  BY <1>5, Zenon DEF DominantOf
<1>9. DominantOf(dominant', Among(G) \ left', G)
  <2>1. CASE v >= 2 /\ (c > o \/ (c = o /\ v > f))
    <3>1. dominant' = [fields |-> v, count |-> c]
      BY <1>4, <2>1 DEF Dominates
    <3>2. dominant'.fields = v /\ dominant'.count = c
      BY <3>1
    <3>3. \A w \in Among(G) \ left' : w >= 2 => Frequency(G, w) < c \/ (Frequency(G, w) = c /\ w <= v)
      BY <1>6, <1>7, <1>8, <2>1
    <3>. QED
      BY <2>1, <3>2, <3>3, Zenon DEF DominantOf
  <2>2. CASE ~(v >= 2 /\ (c > o \/ (c = o /\ v > f)))
    <3>1. dominant' = dominant
      BY <1>4, <2>2 DEF Dominates
    <3>2. \A w \in Among(G) \ left' : w >= 2 => Frequency(G, w) < o \/ (Frequency(G, w) = o /\ w <= f)
      BY <1>6, <1>7, <1>8, <2>2
    <3>. QED
      BY <1>5, <3>1, <3>2, Zenon DEF DominantOf
  <2>. QED
    BY <2>1, <2>2
<1>10. Fields(Delim)' = G
  BY <1>1 DEF Fields, Delim
<1>11. Counts(Delim)' = Among(G)
  BY <1>1 DEF Counts, Among, Fields, Delim
<1>12. DominantInv'
  BY <1>9, <1>10, <1>11 DEF DominantInv
<1>13. BestOf(best, next - 1)'
  <2>. PICK b, m : b = best /\ m = next - 1
    OBVIOUS
  <2>1. BestOf(best, m)'
    BY <1>1, BestSame
  <2>. QED
    BY <1>1, <2>1
<1>14. rows' = SampledLines' /\ left' \subseteq Counts(Delim)'
  BY <1>1, <1>3, <1>4, <1>11, SampledSame
<1>. QED
  BY <1>1, <1>12, <1>13, <1>14 DEF RowsInv

\* The score is compared, and the next delimiter begun.
LEMMA CompareStep == RowsInv /\ query.kind = "rows" /\ Compare => RowsInv'
<1>. SUFFICES ASSUME RowsInv, query.kind = "rows", Compare PROVE RowsInv'
  OBVIOUS
<1>1. /\ query \in DetectJob /\ step = "score" /\ next \in DOMAIN Delims
      /\ rows = SampledLines /\ rows # <<>> /\ left = {}
      /\ DominantInv /\ BestOf(best, next - 1)
      /\ query' = query /\ rows' = rows /\ dominant' = NoDominant
      /\ best' = IF BetterThan(Score, best) THEN Score ELSE best
  BY DEF RowsInv, Compare
<1>2. Countable
  BY <1>1, RowsAre
<1>. PICK b : b = IF BetterThan(Score, best) THEN Score ELSE best
  OBVIOUS
<1>. PICK m \in Nat : m = next
  BY <1>1, DetectAssumption
<1>3. BestOf(b, m)
  BY <1>1, <1>2, BestAfter
<1>4. BestOf(best, m)'
  BY <1>1, <1>3, BestSame
<1>5. best'.valid \in BOOLEAN
  <2>1. b = NoScore \/ b.valid = TRUE
    BY <1>3, Zenon DEF BestOf, ScoreOf
  <2>2. NoScore.valid = FALSE
    BY DEF NoScore
  <2>3. b.valid \in BOOLEAN
    BY <2>1, <2>2, Zenon
  <2>. QED
    BY <1>1, <2>3
<1>6. rows' = SampledLines'
  BY <1>1, SampledSame
<1>7. CASE next < Len(Delims)
  <2>1. /\ next' = next + 1 /\ step' = step /\ left' = Among(Fields(Delims[next + 1]))
    BY <1>7 DEF Compare
  <2>2. next' \in DOMAIN Delims /\ next' - 1 = m
    BY <1>1, <1>7, <2>1, DetectAssumption
  <2>3. Counts(Delim)' = left'
    BY <1>1, <2>1 DEF Counts, Among, Fields, Delim
  <2>4. DominantInv'
    <3>1. DominantOf(NoDominant, {}, Fields(Delim)')
      BY DEF DominantOf, NoDominant
    <3>2. (Counts(Delim) \ left)' = {}
      BY <2>3
    <3>. QED
      BY <1>1, <3>1, <3>2, Zenon DEF DominantInv
  <2>5. BestOf(best, next - 1)'
    BY <1>4, <2>2
  <2>. QED
    BY <1>1, <1>6, <2>1, <2>2, <2>3, <2>4, <2>5 DEF RowsInv
<1>8. CASE ~(next < Len(Delims))
  <2>1. /\ next' = next /\ step' = IF best'.valid THEN "verdict" ELSE "failed"
    BY <1>8 DEF Compare
  <2>2. m = Len(Delims)
    BY <1>1, <1>8, DetectAssumption
  <2>3. BestOf(best, Len(Delims))'
    BY <1>4, <2>2
  <2>4. /\ step' \in {"verdict", "failed"} /\ (step' = "verdict" => best'.valid)
        /\ (step' = "failed" => ~best'.valid)
    BY <1>5, <2>1
  <2>. QED
    BY <1>1, <1>6, <2>1, <2>3, <2>4 DEF RowsInv
<1>. QED
  BY <1>7, <1>8

\* Nothing changes.
LEMMA QuietDetectStep == DetectInv /\ UNCHANGED detectVars => DetectInv'
<1>. SUFFICES ASSUME DetectInv, UNCHANGED detectVars, query # Nothing, query.kind = "rows"
              PROVE  RowsInv'
  BY DEF DetectInv, detectVars
<1>1. RowsInv /\ step' = step /\ query' = query /\ rows' = rows /\ next' = next /\ left' = left
      /\ dominant' = dominant /\ best' = best
  BY DEF DetectInv, detectVars
<1>2. rows' = rows /\ SampledLines' = SampledLines
  BY <1>1, SampledSame
<1>3. \A m : BestOf(best, m) => BestOf(best, m)'
  <2>. SUFFICES ASSUME NEW m, BestOf(best, m) PROVE BestOf(best, m)'
    OBVIOUS
  <2>. PICK b : b = best
    OBVIOUS
  <2>. QED
    BY <1>1, BestSame
<1>4. Fields(Delim)' = Fields(Delim) /\ Counts(Delim)' = Counts(Delim)
  BY <1>1 DEF Fields, Counts, Among, Delim
<1>5. DominantInv => DominantInv'
  BY <1>1, <1>4 DEF DominantInv
<1>6. /\ BestOf(best, next - 1) => BestOf(best, next - 1)'
      /\ BestOf(best, Len(Delims)) => BestOf(best, Len(Delims))'
  <2>. PICK m : m = next - 1
    OBVIOUS
  <2>1. BestOf(best, m) => BestOf(best, m)'
    BY <1>3
  <2>. QED
    BY <1>1, <1>3, <2>1
<1>. QED
  BY <1>1, <1>2, <1>4, <1>5, <1>6 DEF RowsInv

\* Every step keeps it.
LEMMA DetectKeeps == DetectInv /\ [InspectNext]_<<sampleVars, detectVars>> => DetectInv'
<1>. SUFFICES ASSUME DetectInv, DetectNext \/ UNCHANGED detectVars PROVE DetectInv'
  BY DEF InspectNext
<1>1. CASE UNCHANGED detectVars
  BY <1>1, QuietDetectStep
<1>2. CASE DetectNext /\ ~UNCHANGED detectVars
  <2>1. TellEncoding \/ TakeRows \/ Meet \/ Compare
    BY <1>2 DEF DetectNext, DetectEnded
  <2>2. query' = query
    BY <2>1 DEF TellEncoding, TakeRows, Meet, Compare
  <2>. SUFFICES ASSUME query # Nothing, query.kind = "rows" PROVE RowsInv'
    BY <2>2 DEF DetectInv
  <2>3. RowsInv
    BY DEF DetectInv
  <2>4. ~TellEncoding
    BY <2>3 DEF RowsInv, TellEncoding
  <2>. QED
    BY <2>1, <2>3, <2>4, TakeRowsStep, MeetStep, CompareStep
<1>. QED
  BY <1>1, <1>2

\* The rows looked at are the evidence, each at its place.
LEMMA EvidenceIs ==
  ASSUME query \in DetectJob, query.kind = "rows", rows = SampledLines
  PROVE  \E e \in Bijection(1 .. Len(rows), Evidence) :
           /\ Len(rows) \in Nat /\ DOMAIN rows = 1 .. Len(rows)
           /\ \A i \in 1 .. Len(rows) : rows[i] = Whole[e[i]]
<1>. PICK V : V = RowsOf(query)
  OBVIOUS
<1>. PICK s \in Seq(V) : s = Whole
  BY SampledIs
<1>1. rows = FirstRows(s) /\ RowLimit \in Nat
  BY SampledIs, DetectAssumption
<1>2. PICK e : FirstRows(s) \in Seq(V) /\ Takes(e, FirstRows(s), s, Len(s))
  BY <1>1, TakenAre, Zenon
<1>3. rows \in Seq(V)
  BY <1>1, <1>2
<1>. PICK n \in Nat : n = Len(rows) /\ DOMAIN rows = 1 .. n
  BY <1>3
<1>. PICK k \in Nat : k = Len(s) /\ DOMAIN s = 1 .. k
  OBVIOUS
<1>4. /\ e \in [1 .. n -> 1 .. k]
      /\ \A i, j \in 1 .. n : e[i] = e[j] => i = j
      /\ \A j \in 1 .. k : Judged(s, j) => \E i \in 1 .. n : e[i] = j
      /\ \A i \in 1 .. n : Judged(s, e[i]) /\ rows[i] = s[e[i]]
  BY <1>1, <1>2 DEF Takes
<1>5. Evidence = {j \in 1 .. k : Judged(s, j)}
  BY DEF Evidence, Judged, Filled
<1>6. e \in [1 .. n -> Evidence]
  BY <1>4, <1>5
<1>7. \A j \in Evidence : \E i \in 1 .. n : e[i] = j
  BY <1>4, <1>5
<1>8. e \in Bijection(1 .. n, Evidence)
  BY <1>4, <1>6, <1>7 DEF Bijection, Injection, Surjection, IsInjective
<1>. QED
  BY <1>4, <1>8

\* So what they show is what the evidence shows.
LEMMA EvidenceShows ==
  ASSUME query \in DetectJob, query.kind = "rows", rows = SampledLines
  PROVE  /\ Cardinality(Evidence) = Len(rows) /\ IsFiniteSet(Evidence)
         /\ \A d, v : Cardinality(Agree(d, v)) = Frequency(Fields(d), v)
         /\ \A d, v : Agree(d, v) = Evidence <=> AllAgree(d, v)
<1>. PICK n : n = Len(rows)
  OBVIOUS
<1>1. PICK e \in Bijection(1 .. n, Evidence) :
        /\ n \in Nat /\ DOMAIN rows = 1 .. n
        /\ \A i \in 1 .. n : rows[i] = Whole[e[i]]
  BY EvidenceIs
<1>2. /\ e \in [1 .. n -> Evidence] /\ \A i, j \in 1 .. n : e[i] = e[j] => i = j
      /\ \A j \in Evidence : \E i \in 1 .. n : e[i] = j
  BY DEF Bijection, Injection, Surjection, IsInjective
<1>3. Cardinality(Evidence) = n
  <2>1. ExistsBijection(1 .. n, Evidence)
    BY Zenon DEF ExistsBijection
  <2>. QED
    BY <1>1, <2>1, FS_CountingElements
<1>4. IsFiniteSet(Evidence) /\ IsFiniteSet(1 .. n)
  <2>1. IsFiniteSet(1 .. n)
    BY <1>1, FS_Interval, 1 \in Int
  <2>2. ExistsBijection(1 .. n, Evidence)
    BY Zenon DEF ExistsBijection
  <2>. QED
    BY <2>1, <2>2, FS_Bijection, Zenon
<1>5. ASSUME NEW d, NEW v
      PROVE  /\ Cardinality(Agree(d, v)) = Frequency(Fields(d), v)
             /\ Agree(d, v) = Evidence <=> AllAgree(d, v)
  <2>. DEFINE H == {k \in 1 .. n : rows[k].fields[d] = v}
              A == {k \in Evidence : Whole[k].fields[d] = v}
              f == [k \in H |-> e[k]]
  <2>1. Frequency(Fields(d), v) = Cardinality(H)
    <3>1. DOMAIN Fields(d) = 1 .. n /\ \A k \in 1 .. n : Fields(d)[k] = rows[k].fields[d]
      BY <1>1 DEF Fields
    <3>. QED
      BY <3>1 DEF Frequency
  <2>2. Agree(d, v) = A
    BY DEF Agree
  <2>3. f \in [H -> A]
    BY <1>1, <1>2
  <2>4. \A i, j \in H : f[i] = f[j] => i = j
    BY <1>2
  <2>5. \A j \in A : \E i \in H : f[i] = j
    BY <1>1, <1>2
  <2>6. f \in Bijection(H, A)
    <3>. HIDE DEF f, H, A
    <3>. QED
      BY <2>3, <2>4, <2>5 DEF Bijection, Injection, Surjection, IsInjective
  <2>7. H \in SUBSET (1 .. n)
    OBVIOUS
  <2>8. Cardinality(A) = Cardinality(H)
    <3>. HIDE DEF f, H, A
    <3>1. IsFiniteSet(H)
      BY <1>4, <2>7, FS_Subset
    <3>2. ExistsBijection(H, A)
      BY <2>6, Zenon DEF ExistsBijection
    <3>. QED
      BY <3>1, <3>2, FS_Bijection
  <2>9. A = Evidence <=> AllAgree(d, v)
    BY <1>1, <1>2 DEF AllAgree
  <2>. QED
    BY <2>1, <2>2, <2>8, <2>9
<1>. QED
  BY <1>3, <1>4, <1>5

\* At the end, the verdict is right.
LEMMA VerdictFollows == DetectInv => VerdictIsRight
<1>. SUFFICES ASSUME DetectInv, query # Nothing, query.kind = "rows" PROVE VerdictIsRight
  BY DEF VerdictIsRight
<1>. DEFINE all == Cardinality(Evidence)
            Options == {<<d, n>> : d \in Among(Delims),
                                   n \in {Whole[k].fields[e] : k \in Evidence, e \in Among(Delims)}}
            perfect == {o \in Options : Splits(o[1], o[2])}
<1>1. RowsInv
  BY DEF DetectInv
<1>. SUFFICES
       /\ step = "verdict" =>
            /\ Len(rows) = all
            /\ best.fields >= 2
            /\ 5 * Cardinality(Agree(best.delim, best.fields)) >= 4 * all
            /\ perfect # {} => <<best.delim, best.fields>> \in perfect
            /\ \A o \in perfect :
                 \/ best.fields > o[2]
                 \/ best.fields = o[2] /\ ByteOf[best.delim] <= ByteOf[o[1]]
       /\ step = "failed" =>
            all = 0 \/ \A o \in Options :
                        /\ ~Splits(o[1], o[2])
                        /\ 5 * Cardinality(Agree(o[1], o[2])) >= 4 * all => o[2] <= 2
  BY DEF VerdictIsRight
<1>2. CASE step \in {"verdict", "failed"}
  <2>1. /\ query \in DetectJob /\ rows = SampledLines
        /\ rows # <<>> => BestOf(best, Len(Delims))
        /\ step = "verdict" => rows # <<>> /\ best.valid
        /\ step = "failed" => rows = <<>> \/ ~best.valid
    BY <1>1, <1>2 DEF RowsInv
  <2>2. /\ all = Len(rows) /\ IsFiniteSet(Evidence)
        /\ \A d, v : Cardinality(Agree(d, v)) = Frequency(Fields(d), v)
        /\ \A d, v : Agree(d, v) = Evidence <=> AllAgree(d, v)
    BY <2>1, EvidenceShows
  <2>3. CASE rows = <<>>
    <3>1. Len(<<>>) = 0
      BY EmptySeq
    <3>. QED
      BY <1>2, <2>1, <2>2, <2>3, <3>1
  <2>4. CASE rows # <<>>
    <3>1. Countable /\ BestOf(best, Len(Delims))
      BY <2>1, <2>4, RowsAre
    <3>. PICK n \in Nat \ {0} : n = Len(rows)
      <4>1. 1 \in DOMAIN Delims
        <5>. PICK V : Delims \in Seq(V) /\ Delims # <<>>
          BY DetectAssumption
        <5>1. Len(Delims) \in Nat \ {0}
          BY EmptySeq
        <5>. QED
          BY <5>1
      <4>. QED
        BY <3>1, <4>1, FieldsAre
    <3>2. \A i \in DOMAIN Delims : i <= Len(Delims)
      BY DetectAssumption
    <3>3. ASSUME NEW o \in Options
          PROVE  \E i \in DOMAIN Delims, v \in Nat \ {0} : o = <<Delims[i], v>>
      <4>1. PICK d \in Among(Delims), k \in Evidence, x \in Among(Delims) :
              o = <<d, Whole[k].fields[x]>>
        OBVIOUS
      <4>2. PICK i \in DOMAIN Delims, j \in DOMAIN Delims : d = Delims[i] /\ x = Delims[j]
        BY DEF Among
      <4>3. k \in DOMAIN Whole
        BY DEF Evidence
      <4>4. Whole[k] \in RowsOf(query)
        BY <2>1, <4>3, SampledIs
      <4>5. Whole[k].fields[x] \in Nat \ {0}
        BY <2>1, <4>2, <4>4, SampledIs
      <4>. QED
        BY <4>1, <4>2, <4>5
    <3>. HIDE DEF Options
    <3>4. ASSUME NEW i \in DOMAIN Delims, NEW v \in Nat, Splits(Delims[i], v)
          PROVE  /\ best.valid /\ best.count = n
                 /\ \/ best.fields > v
                    \/ best.fields = v /\ ByteOf[best.delim] <= ByteOf[Delims[i]]
      <4>1. v >= 2 /\ AllAgree(Delims[i], v)
        BY <2>2, <3>4 DEF Splits
      <4>. QED
        BY <3>1, <3>2, <4>1 DEF BestOf
    <3>5. CASE step = "verdict"
      <4>1. ScoreOf(best, Len(Delims))
        BY <2>1, <3>1, <3>5 DEF BestOf, NoScore
      <4>2. PICK i \in DOMAIN Delims : best.delim = Delims[i]
        BY <4>1 DEF ScoreOf
      <4>3. PICK v \in Nat : v = best.fields /\ v >= 2
        BY <4>1 DEF ScoreOf
      <4>4. /\ best.count = Frequency(Fields(best.delim), best.fields)
            /\ 5 * best.count >= 4 * n
        BY <4>1 DEF ScoreOf
      <4>5. perfect # {} => <<best.delim, best.fields>> \in perfect
        <5>. SUFFICES ASSUME NEW o \in perfect PROVE <<best.delim, best.fields>> \in perfect
          OBVIOUS
        <5>1. PICK j \in DOMAIN Delims, w \in Nat \ {0} : o = <<Delims[j], w>>
          BY <3>3
        <5>2. best.count = n
          BY <3>4, <5>1
        <5>3. AllAgree(best.delim, best.fields)
          <6>. PICK s \in Seq(Nat \ {0}) : s = Fields(Delims[i])
            BY <3>1, FieldsAre
          <6>1. Len(s) = n /\ \A k \in 1 .. n : s[k] = rows[k].fields[Delims[i]]
            BY <3>1, FieldsAre
          <6>2. Frequency(s, v) = Len(s) /\ v \in Nat \ {0}
            BY <4>2, <4>3, <4>4, <5>2, <6>1
          <6>3. \A k \in 1 .. n : s[k] = v
            BY <6>1, <6>2, FrequencyIs
          <6>4. DOMAIN rows = 1 .. n
            BY <3>1 DEF Countable
          <6>. QED
            BY <4>2, <4>3, <6>1, <6>3, <6>4 DEF AllAgree
        <5>4. Agree(best.delim, best.fields) = Evidence
          BY <2>2, <5>3
        <5>5. Splits(best.delim, best.fields)
          BY <4>3, <5>4 DEF Splits
        <5>6. <<best.delim, best.fields>> \in Options
          <6>1. Evidence # {}
            BY <2>2, FS_EmptySet
          <6>2. PICK k \in Evidence : Whole[k].fields[Delims[i]] = v
            BY <4>2, <4>3, <5>4, <6>1 DEF Agree
          <6>3. Delims[i] \in Among(Delims)
            BY DEF Among
          <6>4. v \in {Whole[l].fields[e] : l \in Evidence, e \in Among(Delims)}
            BY <6>2, <6>3
          <6>5. <<Delims[i], v>> \in Options
            BY <6>3, <6>4 DEF Options
          <6>. QED
            BY <4>2, <4>3, <6>5
        <5>. QED
          BY <5>5, <5>6
      <4>6. ASSUME NEW o \in perfect
            PROVE  \/ best.fields > o[2]
                   \/ best.fields = o[2] /\ ByteOf[best.delim] <= ByteOf[o[1]]
        <5>1. PICK j \in DOMAIN Delims, w \in Nat \ {0} : o = <<Delims[j], w>>
          BY <3>3
        <5>. QED
          BY <3>4, <5>1
      <4>7. 5 * Cardinality(Agree(best.delim, best.fields)) >= 4 * all
        BY <2>2, <4>4
      <4>. QED
        BY <2>2, <3>5, <4>3, <4>5, <4>6, <4>7
    <3>6. CASE step = "failed"
      <4>1. ~best.valid
        BY <2>1, <2>4, <3>6
      <4>2. ASSUME NEW o \in Options
            PROVE  /\ ~Splits(o[1], o[2])
                   /\ 5 * Cardinality(Agree(o[1], o[2])) >= 4 * all => o[2] <= 2
        <5>1. PICK i \in DOMAIN Delims, v \in Nat \ {0} : o = <<Delims[i], v>>
          BY <3>3
        <5>2. ~Splits(o[1], o[2])
          BY <3>4, <4>1, <5>1
        <5>3. 5 * Frequency(Fields(Delims[i]), v) >= 4 * n => v <= 2
          <6>1. v >= 3 /\ 5 * Frequency(Fields(Delims[i]), v) >= 4 * n => best.valid
            BY <3>1, <3>2 DEF BestOf
          <6>. QED
            BY <4>1, <6>1
        <5>. QED
          BY <2>2, <5>1, <5>2, <5>3
      <4>. QED
        BY <3>6, <4>2
    <3>. QED
      BY <1>2, <3>5, <3>6
  <2>. QED
    BY <2>3, <2>4
<1>. QED
  BY <1>2

\* What --detect tells of the delimiter is what the whole rows of the sample show,
\* for rows of any number and any fields, any order of the map and any cut.
THEOREM VerdictRight == InspectSpec => []VerdictIsRight
<1>1. InspectInit => DetectInv
  BY DetectStarts DEF InspectInit, DetectIdle, DetectInv
<1>. QED
  BY <1>1, DetectKeeps, VerdictFollows, PTL DEF InspectSpec

------------------------------------------------------------------------------
(* Detection of the encoding.                                                *)

\* FlattenSeq joins from the front.
LEMMA FlattenRuns ==
  ASSUME NEW V, NEW s \in Seq(Seq(V))
  PROVE  \E g \in [0 .. Len(s) -> Seq(V)] :
           /\ g[0] = <<>> /\ g[Len(s)] = FlattenSeq(s)
           /\ \A k \in 1 .. Len(s) : g[k] = g[k - 1] \o s[k]
<1>. PICK n \in Nat : n = Len(s)
  OBVIOUS
<1>. PICK X : X = Seq(V)
  OBVIOUS
<1>1. s \in [1 .. n -> X]
  OBVIOUS
<1>2. <<>> \in X /\ \A p, q \in X : p \o q \in X
  BY EmptySeq, ConcatProperties
<1>3. PICK turn \in [X \X X -> X] : \A p, q \in X : turn[<<p, q>>] = p \o q
  <2>. DEFINE f == [p \in X \X X |-> p[1] \o p[2]]
  <2>1. f \in [X \X X -> X]
    BY <1>2
  <2>2. \A p, q \in X : f[<<p, q>>] = p \o q
    OBVIOUS
  <2>. HIDE DEF f
  <2>. QED
    BY <2>1, <2>2
<1>4. PICK G \in [SUBSET (1 .. n) -> X] : IsFold(G, n, s, <<>>, turn)
  BY <1>1, <1>2, FoldRuns, Zenon
<1>. DEFINE g == [k \in 0 .. n |-> G[1 .. k]]
<1>5. g \in [0 .. n -> X]
  <2>1. \A k \in 0 .. n : 1 .. k \in SUBSET (1 .. n)
    OBVIOUS
  <2>. QED
    BY <2>1
<1>6. g[0] = <<>>
  <2>1. 1 .. 0 = {} /\ {} \in SUBSET (1 .. n) /\ 0 \in 0 .. n
    OBVIOUS
  <2>. QED
    BY <1>4, <2>1 DEF IsFold
<1>7. ASSUME NEW k \in 1 .. n PROVE g[k] = g[k - 1] \o s[k]
  <2>1. k \in Nat \ {0} /\ k \in 1 .. k /\ (\A j \in 1 .. k : j \in 1 .. n) /\ k - 1 \in 0 .. n /\ k \in 0 .. n
    OBVIOUS
  <2>2. 1 .. k \in SUBSET (1 .. n) /\ 1 .. k # {}
    BY <2>1
  <2>3. G[1 .. k] = turn[<<G[(1 .. k) \ {Max(1 .. k)}], s[Max(1 .. k)]>>]
    BY <1>4, <2>2, Zenon DEF IsFold
  <2>4. G[1 .. k] = turn[<<G[1 .. k - 1], s[k]>>]
    BY <2>1, <2>3, LargestIs
  <2>5. g[k - 1] \in X /\ s[k] \in X /\ g[k - 1] = G[1 .. k - 1] /\ g[k] = G[1 .. k]
    BY <1>1, <1>5, <2>1
  <2>. HIDE DEF g
  <2>. QED
    BY <1>3, <2>4, <2>5
<1>. HIDE DEF g
<1>8. FlattenSeq(s) = g[n]
  <2>1. CASE n = 0
    BY <1>6, <2>1, EmptySeq DEF FlattenSeq
  <2>2. CASE n # 0
    <3>. DEFINE Body(h) == [i \in 1 .. n |-> IF i = 1 THEN s[i] ELSE h[i - 1] \o s[i]]
                it == CHOOSE h : h = Body(h)
                f == [i \in 1 .. n |-> g[i]]
    <3>1. f = Body(f)
      <4>1. ASSUME NEW i \in 1 .. n PROVE f[i] = IF i = 1 THEN s[i] ELSE f[i - 1] \o s[i]
        <5>1. CASE i = 1
          <6>1. g[1] = <<>> \o s[1] /\ s[1] \in Seq(V)
            <7>1. g[i] = g[i - 1] \o s[i]
              BY <1>7
            <7>2. i - 1 = 0 /\ s[i] \in X
              BY <1>1, <5>1
            <7>. QED
              BY <1>6, <5>1, <7>1, <7>2
          <6>2. <<>> \o s[1] = s[1]
            BY <6>1, ConcatEmptySeq
          <6>. QED
            BY <5>1, <6>1, <6>2
        <5>2. CASE i # 1
          <6>1. i - 1 \in 1 .. n
            BY <5>2
          <6>. QED
            BY <1>7, <5>2, <6>1
        <5>. QED
          BY <5>1, <5>2
      <4>. QED
        BY <4>1
    <3>2. it = Body(it)
      <4>. HIDE DEF Body, f
      <4>. QED
        BY <3>1
    <3>3. FlattenSeq(s) = it[n]
      BY <2>2, Zenon DEF FlattenSeq
    <3>. HIDE DEF it
    <3>. DEFINE Ks == {k \in Nat : k + 1 <= n => it[k + 1] = g[k + 1]}
    <3>4. 0 \in Ks
      <4>01. 1 \in 1 .. n
        BY <2>2
      <4>02. it[1] = s[1]
        BY <3>2, <4>01
      <4>03. f[1] = s[1] /\ f[1] = g[1]
        <5>1. Body(f)[1] = s[1]
          BY <4>01
        <5>. QED
          BY <3>1, <4>01, <5>1
      <4>1. it[1] = s[1] /\ f[1] = s[1] /\ f[1] = g[1]
        BY <4>02, <4>03
      <4>. QED
        BY <4>1
    <3>5. ASSUME NEW k \in Nat, k \in Ks PROVE k + 1 \in Ks
      <4>. SUFFICES ASSUME (k + 1) + 1 <= n PROVE it[(k + 1) + 1] = g[(k + 1) + 1]
        OBVIOUS
      <4>1. (k + 1) + 1 \in 1 .. n /\ (k + 1) + 1 # 1 /\ ((k + 1) + 1) - 1 = k + 1 /\ k + 1 <= n
        OBVIOUS
      <4>02. PICK j \in 1 .. n : j = (k + 1) + 1 /\ j # 1 /\ j - 1 = k + 1
        BY <4>1
      <4>03. it[j] = it[j - 1] \o s[j]
        BY <3>2, <4>02
      <4>2. it[(k + 1) + 1] = it[k + 1] \o s[(k + 1) + 1]
        BY <4>02, <4>03
      <4>3. it[k + 1] = g[k + 1]
        BY <3>5, <4>1
      <4>. QED
        BY <1>7, <4>1, <4>2, <4>3
    <3>6. n - 1 \in Nat /\ (n - 1) + 1 = n
      BY <2>2
    <3>7. n - 1 \in Ks
      <4>. HIDE DEF Ks
      <4>. QED
        BY <3>4, <3>5, <3>6, Induct
    <3>. QED
      BY <3>3, <3>6, <3>7
  <2>. QED
    BY <2>1, <2>2
<1>. QED
  BY <1>5, <1>6, <1>7, <1>8

\* f is the pieces of s, each of w, one after the other.
Tiles(f, V, s, w) ==
  /\ f \in Seq(V) /\ Len(f) = w * Len(s)
  /\ \A i \in 1 .. Len(s), j \in 1 .. w : f[w * (i - 1) + j] = s[i][j]

\* Pieces of the same length lie one after the other.
LEMMA FlattenEven ==
  ASSUME NEW V, NEW s \in Seq(Seq(V)), NEW w \in Nat \ {0}, \A k \in 1 .. Len(s) : Len(s[k]) = w
  PROVE  Tiles(FlattenSeq(s), V, s, w)
<1>. PICK n \in Nat : n = Len(s)
  OBVIOUS
<1>1. PICK g \in [0 .. n -> Seq(V)] :
        g[0] = <<>> /\ g[n] = FlattenSeq(s) /\ \A k \in 1 .. n : g[k] = g[k - 1] \o s[k]
  BY FlattenRuns
<1>2. \A k \in 1 .. n : s[k] \in Seq(V) /\ Len(s[k]) = w
  OBVIOUS
<1>. DEFINE Even(k) == /\ Len(g[k]) = w * k
                       /\ \A i \in 1 .. k, j \in 1 .. w : g[k][w * (i - 1) + j] = s[i][j]
            Ks == {k \in Nat : k <= n => Even(k)}
<1>3. 0 \in Ks
  <2>1. Len(g[0]) = 0 /\ w * 0 = 0
    BY <1>1, EmptySeq
  <2>. QED
    BY <2>1
<1>4. ASSUME NEW k \in Nat, k \in Ks PROVE k + 1 \in Ks
  <2>. HIDE DEF Even
  <2>. SUFFICES ASSUME k + 1 <= n PROVE Even(k + 1)
    OBVIOUS
  <2>. USE DEF Even
  <2>1. Even(k) /\ k + 1 \in 1 .. n /\ (k + 1) - 1 = k /\ k \in 0 .. n
    BY <1>4
  <2>. PICK a \in Seq(V), b \in Seq(V) : a = g[k] /\ b = s[k + 1]
    BY <1>2, <2>1
  <2>2. Len(a) = w * k /\ Len(b) = w
    BY <1>2, <2>1
  <2>. PICK c \in Seq(V) : c = g[k + 1]
    <3>1. k + 1 \in 0 .. n
      BY <2>1
    <3>. QED
      BY <3>1
  <2>3. c = a \o b
    <3>1. g[k + 1] = g[(k + 1) - 1] \o s[k + 1]
      BY <1>1, <2>1
    <3>. QED
      BY <2>1, <3>1
  <2>4. PICK m \in Nat : m = w * k /\ w * (k + 1) = m + w
    OBVIOUS
  <2>5. /\ Len(c) = m + w
        /\ \A p \in 1 .. m + w : c[p] = IF p <= m THEN a[p] ELSE b[p - m]
    BY <2>2, <2>3, <2>4, ConcatProperties
  <2>6. ASSUME NEW i \in 1 .. k + 1, NEW j \in 1 .. w PROVE c[w * (i - 1) + j] = s[i][j]
    <3>1. CASE i = k + 1
      <4>1. w * (i - 1) = m
        BY <2>1, <2>4, <3>1
      <4>2. m + j \in 1 .. m + w /\ ~(m + j <= m) /\ (m + j) - m = j
        OBVIOUS
      <4>3. c[m + j] = b[j]
        BY <2>5, <4>2
      <4>. QED
        BY <3>1, <4>1, <4>3
    <3>2. CASE i # k + 1
      <4>1. i \in 1 .. k /\ i - 1 \in Nat
        BY <3>2
      <4>2. PICK x \in Nat : x = w * (i - 1)
        BY <4>1
      <4>3. x + w <= m
        <5>1. \A y, z \in Nat : y <= z => w * y <= w * z
          OBVIOUS
        <5>2. w * i <= w * k
          BY <4>1, <5>1
        <5>3. w * i = x + w
          BY <4>2
        <5>. QED
          BY <2>4, <5>2, <5>3
      <4>4. x + j \in 1 .. m + w /\ x + j <= m
        BY <4>3
      <4>5. c[x + j] = a[x + j]
        BY <2>5, <4>4
      <4>6. a[x + j] = s[i][j]
        BY <2>1, <4>1, <4>2
      <4>. QED
        BY <4>2, <4>5, <4>6
    <3>. QED
      BY <3>1, <3>2
  <2>. QED
    BY <2>4, <2>5, <2>6
<1>5. n \in Ks
  <2>. HIDE DEF Ks
  <2>. QED
    BY <1>3, <1>4, Induct
<1>. QED
  BY <1>1, <1>5 DEF Tiles

\* The bytes of what is encoded.
MarkBytes == IF query.bom THEN Bom[query.encoding] ELSE <<>>
TextPieces == [k \in DOMAIN query.text |-> Encoded(query.encoding, query.text[k])]

\* A start of a sequence.
LEMMA StartIs ==
  ASSUME NEW V, NEW t \in Seq(V), NEW m \in 0 .. Len(t)
  PROVE  /\ SubSeq(t, 1, m) \in Seq(V) /\ Len(SubSeq(t, 1, m)) = m
         /\ \A i \in 1 .. m : SubSeq(t, 1, m)[i] = t[i]
<1>1. 1 \in Int /\ m \in Int /\ \A i \in 1 .. m : t[i] \in V
  OBVIOUS
<1>2. SubSeq(t, 1, m) \in Seq(V) /\ Len(SubSeq(t, 1, m)) = IF 1 <= m THEN m - 1 + 1 ELSE 0
  BY <1>1, SubSeqProperties
<1>3. \A i \in 1 .. m : SubSeq(t, 1, m)[i] = t[i]
  OBVIOUS
<1>. QED
  BY <1>2, <1>3

\* The sample is the mark, if there is one, and what is encoded, up to where it ends.
LEMMA SampleIs ==
  ASSUME NEW V, MarkBytes \in Seq(V), FlattenSeq(TextPieces) \in Seq(V), query.size \in Nat
  PROVE  /\ SampleBytes \in Seq(V)
         /\ Len(SampleBytes) <= Len(MarkBytes) + Len(FlattenSeq(TextPieces))
         /\ \A p \in 1 .. Len(SampleBytes) :
              SampleBytes[p] = IF p <= Len(MarkBytes) THEN MarkBytes[p]
                               ELSE FlattenSeq(TextPieces)[p - Len(MarkBytes)]
<1>. PICK h \in Seq(V), f \in Seq(V) : h = MarkBytes /\ f = FlattenSeq(TextPieces)
  OBVIOUS
<1>. PICK m \in Nat : m = query.size
  OBVIOUS
<1>. PICK t \in Seq(V) : t = h \o f
  BY ConcatProperties
<1>1. Len(t) = Len(h) + Len(f)
      /\ \A p \in 1 .. Len(t) : t[p] = IF p <= Len(h) THEN h[p] ELSE f[p - Len(h)]
  BY ConcatProperties
<1>2. SampleBytes = IF m < Len(t) THEN SubSeq(t, 1, m) ELSE t
  BY DEF SampleBytes, MarkBytes, TextPieces
<1>3. CASE m < Len(t)
  <2>1. m \in 0 .. Len(t)
    BY <1>3
  <2>2. /\ SubSeq(t, 1, m) \in Seq(V) /\ Len(SubSeq(t, 1, m)) = m
        /\ \A i \in 1 .. m : SubSeq(t, 1, m)[i] = t[i]
    BY <2>1, StartIs
  <2>. QED
    BY <1>1, <1>2, <1>3, <2>1, <2>2
<1>4. CASE ~(m < Len(t))
  BY <1>1, <1>2, <1>4
<1>. QED
  BY <1>3, <1>4

\* A mark is there if its bytes are.
LEMMA BeginsIs ==
  ASSUME NEW s \in Seq(Nat), NEW mark \in Seq(Nat)
  PROVE  Begins(s, mark) <=> Len(s) >= Len(mark) /\ \A p \in 1 .. Len(mark) : s[p] = mark[p]
<1>1. CASE ~(Len(s) >= Len(mark))
  BY <1>1 DEF Begins
<1>2. CASE Len(s) >= Len(mark)
  <2>. PICK m \in 0 .. Len(s) : m = Len(mark)
    BY <1>2
  <2>. PICK t \in Seq(Nat) : t = SubSeq(s, 1, m)
    BY StartIs
  <2>1. Len(t) = m /\ \A i \in 1 .. m : t[i] = s[i]
    BY StartIs
  <2>2. t = mark <=> \A i \in 1 .. m : t[i] = mark[i]
    BY <2>1
  <2>. QED
    BY <1>2, <2>1, <2>2 DEF Begins
<1>. QED
  BY <1>1, <1>2

At(s, a, b, c, d) == Len(s) >= 4 /\ s[1] = a /\ s[2] = b /\ s[3] = c /\ s[4] = d

\* The marks there are.
LEMMA MarksAre ==
  ASSUME NEW s \in Seq(Nat)
  PROVE  /\ DOMAIN Marks = 1 .. 5
         /\ Marks[1] = "UTF-32BE" /\ Marks[2] = "UTF-32LE" /\ Marks[3] = "UTF-16BE"
         /\ Marks[4] = "UTF-16LE" /\ Marks[5] = "UTF-8"
         /\ Begins(s, Bom[Marks[1]]) <=> At(s, 0, 0, 254, 255)
         /\ Begins(s, Bom[Marks[2]]) <=> At(s, 255, 254, 0, 0)
         /\ Begins(s, Bom[Marks[3]]) <=> Len(s) >= 2 /\ s[1] = 254 /\ s[2] = 255
         /\ Begins(s, Bom[Marks[4]]) <=> Len(s) >= 2 /\ s[1] = 255 /\ s[2] = 254
         /\ Begins(s, Bom[Marks[5]]) <=> Len(s) >= 3 /\ s[1] = 239 /\ s[2] = 187 /\ s[3] = 191
<1>1. /\ DOMAIN Marks = 1 .. 5
      /\ Marks[1] = "UTF-32BE" /\ Marks[2] = "UTF-32LE" /\ Marks[3] = "UTF-16BE"
      /\ Marks[4] = "UTF-16LE" /\ Marks[5] = "UTF-8"
  BY DEF Marks
<1>2. /\ Bom["UTF-32BE"] = <<0, 0, 254, 255>> /\ Bom["UTF-32LE"] = <<255, 254, 0, 0>>
      /\ Bom["UTF-16BE"] = <<254, 255>> /\ Bom["UTF-16LE"] = <<255, 254>>
      /\ Bom["UTF-8"] = <<239, 187, 191>>
  BY DEF Bom
<1>3. \A a, b, c, d \in Nat : Begins(s, <<a, b, c, d>>) <=> At(s, a, b, c, d)
  <2>. SUFFICES ASSUME NEW a \in Nat, NEW b \in Nat, NEW c \in Nat, NEW d \in Nat
                PROVE  Begins(s, <<a, b, c, d>>) <=> At(s, a, b, c, d)
    OBVIOUS
  <2>1. <<a, b, c, d>> \in Seq(Nat)
    OBVIOUS
  <2>2. PICK mark \in Seq(Nat) : mark = <<a, b, c, d>>
    BY <2>1, Zenon
  <2>3. Len(mark) = 4 /\ mark[1] = a /\ mark[2] = b /\ mark[3] = c /\ mark[4] = d
    BY <2>2
  <2>4. 1 .. 4 = {1, 2, 3, 4}
    OBVIOUS
  <2>5. Begins(s, mark) <=> Len(s) >= Len(mark) /\ \A p \in 1 .. Len(mark) : s[p] = mark[p]
    BY BeginsIs
  <2>6. (\A p \in 1 .. Len(mark) : s[p] = mark[p])
          <=> s[1] = a /\ s[2] = b /\ s[3] = c /\ s[4] = d
    BY <2>3, <2>4
  <2>7. Len(s) >= Len(mark) <=> Len(s) >= 4
    BY <2>3
  <2>. QED
    BY <2>2, <2>5, <2>6, <2>7, Zenon DEF At
<1>4. \A a, b, c \in Nat :
        Begins(s, <<a, b, c>>) <=> Len(s) >= 3 /\ s[1] = a /\ s[2] = b /\ s[3] = c
  <2>. SUFFICES ASSUME NEW a \in Nat, NEW b \in Nat, NEW c \in Nat
                PROVE  Begins(s, <<a, b, c>>) <=> Len(s) >= 3 /\ s[1] = a /\ s[2] = b /\ s[3] = c
    OBVIOUS
  <2>1. <<a, b, c>> \in Seq(Nat)
    OBVIOUS
  <2>2. PICK mark \in Seq(Nat) : mark = <<a, b, c>>
    BY <2>1, Zenon
  <2>3. Len(mark) = 3 /\ mark[1] = a /\ mark[2] = b /\ mark[3] = c
    BY <2>2
  <2>4. 1 .. 3 = {1, 2, 3}
    OBVIOUS
  <2>5. Begins(s, mark) <=> Len(s) >= Len(mark) /\ \A p \in 1 .. Len(mark) : s[p] = mark[p]
    BY BeginsIs
  <2>6. (\A p \in 1 .. Len(mark) : s[p] = mark[p]) <=> s[1] = a /\ s[2] = b /\ s[3] = c
    BY <2>3, <2>4
  <2>7. Len(s) >= Len(mark) <=> Len(s) >= 3
    BY <2>3
  <2>. QED
    BY <2>2, <2>5, <2>6, <2>7, Zenon
<1>5. \A a, b \in Nat : Begins(s, <<a, b>>) <=> Len(s) >= 2 /\ s[1] = a /\ s[2] = b
  <2>. SUFFICES ASSUME NEW a \in Nat, NEW b \in Nat
                PROVE  Begins(s, <<a, b>>) <=> Len(s) >= 2 /\ s[1] = a /\ s[2] = b
    OBVIOUS
  <2>1. <<a, b>> \in Seq(Nat)
    OBVIOUS
  <2>2. PICK mark \in Seq(Nat) : mark = <<a, b>>
    BY <2>1, Zenon
  <2>3. Len(mark) = 2 /\ mark[1] = a /\ mark[2] = b
    BY <2>2
  <2>4. 1 .. 2 = {1, 2}
    OBVIOUS
  <2>5. Begins(s, mark) <=> Len(s) >= Len(mark) /\ \A p \in 1 .. Len(mark) : s[p] = mark[p]
    BY BeginsIs
  <2>6. (\A p \in 1 .. Len(mark) : s[p] = mark[p]) <=> s[1] = a /\ s[2] = b
    BY <2>3, <2>4
  <2>7. Len(s) >= Len(mark) <=> Len(s) >= 2
    BY <2>3
  <2>. QED
    BY <2>2, <2>5, <2>6, <2>7, Zenon
<1>6. Begins(s, Bom[Marks[1]]) <=> At(s, 0, 0, 254, 255)
  <2>1. Begins(s, <<0, 0, 254, 255>>) <=> At(s, 0, 0, 254, 255)
    BY <1>3
  <2>. QED
    BY <1>1, <1>2, <2>1
<1>7. Begins(s, Bom[Marks[2]]) <=> At(s, 255, 254, 0, 0)
  <2>1. Begins(s, <<255, 254, 0, 0>>) <=> At(s, 255, 254, 0, 0)
    BY <1>3
  <2>. QED
    BY <1>1, <1>2, <2>1
<1>8. Begins(s, Bom[Marks[3]]) <=> Len(s) >= 2 /\ s[1] = 254 /\ s[2] = 255
  <2>1. Begins(s, <<254, 255>>) <=> Len(s) >= 2 /\ s[1] = 254 /\ s[2] = 255
    BY <1>5
  <2>. QED
    BY <1>1, <1>2, <2>1
<1>9. Begins(s, Bom[Marks[4]]) <=> Len(s) >= 2 /\ s[1] = 255 /\ s[2] = 254
  <2>1. Begins(s, <<255, 254>>) <=> Len(s) >= 2 /\ s[1] = 255 /\ s[2] = 254
    BY <1>5
  <2>. QED
    BY <1>1, <1>2, <2>1
<1>10. Begins(s, Bom[Marks[5]]) <=> Len(s) >= 3 /\ s[1] = 239 /\ s[2] = 187 /\ s[3] = 191
  <2>1. Begins(s, <<239, 187, 191>>) <=> Len(s) >= 3 /\ s[1] = 239 /\ s[2] = 187 /\ s[3] = 191
    BY <1>4
  <2>. QED
    BY <1>1, <1>2, <2>1
<1>. QED
  BY <1>1, <1>6, <1>7, <1>8, <1>9, <1>10

\* Mark k is the first there is.
FirstMark(s, k) ==
  /\ Begins(s, Bom[Marks[k]])
  /\ \A m \in 1 .. 5 : m < k => ~Begins(s, Bom[Marks[m]])

\* detectEncoding, of a sample with a mark: the first there is.
LEMMA MarkedIs ==
  ASSUME NEW s \in Seq(Nat), NEW k \in 1 .. 5, FirstMark(s, k)
  PROVE  Encoding(s) = <<Marks[k], TRUE>>
<1>. DEFINE marked == {m \in DOMAIN Marks : Begins(s, Bom[Marks[m]])}
<1>1. DOMAIN Marks = 1 .. 5
  BY MarksAre
<1>2. k \in marked /\ \A m \in marked : m \in 1 .. 5 /\ k <= m
  BY <1>1 DEF FirstMark
<1>3. (CHOOSE j \in marked : \A m \in marked : j <= m) = k
  <2>1. \A j \in marked : (\A m \in marked : j <= m) => j = k
    BY <1>1, <1>2
  <2>. HIDE DEF marked
  <2>. QED
    BY <1>2, <2>1
<1>4. Encoding(s) = <<Marks[CHOOSE j \in marked : \A m \in marked : j <= m], TRUE>>
  BY <1>2, Zenon DEF Encoding
<1>. QED
  BY <1>3, <1>4

\* What the first bytes tell.
LEMMA ByMark ==
  ASSUME NEW s \in Seq(Nat), Len(s) >= 4
  PROVE  /\ s[1] = 0 /\ s[2] = 0 /\ s[3] = 254 /\ s[4] = 255 => Encoding(s) = <<"UTF-32BE", TRUE>>
         /\ s[1] = 255 /\ s[2] = 254 /\ s[3] = 0 /\ s[4] = 0 => Encoding(s) = <<"UTF-32LE", TRUE>>
         /\ s[1] = 254 /\ s[2] = 255 => Encoding(s) = <<"UTF-16BE", TRUE>>
         /\ s[1] = 255 /\ s[2] = 254 /\ ~(s[3] = 0 /\ s[4] = 0) => Encoding(s) = <<"UTF-16LE", TRUE>>
         /\ s[1] = 239 /\ s[2] = 187 /\ s[3] = 191 => Encoding(s) = <<"UTF-8", TRUE>>
<1>. DEFINE Is(m) == Begins(s, Bom[Marks[m]])
<1>1. /\ Marks[1] = "UTF-32BE" /\ Marks[2] = "UTF-32LE" /\ Marks[3] = "UTF-16BE"
      /\ Marks[4] = "UTF-16LE" /\ Marks[5] = "UTF-8"
  BY MarksAre
<1>2. /\ Is(1) <=> At(s, 0, 0, 254, 255)
      /\ Is(2) <=> At(s, 255, 254, 0, 0)
      /\ Is(3) <=> Len(s) >= 2 /\ s[1] = 254 /\ s[2] = 255
      /\ Is(4) <=> Len(s) >= 2 /\ s[1] = 255 /\ s[2] = 254
      /\ Is(5) <=> Len(s) >= 3 /\ s[1] = 239 /\ s[2] = 187 /\ s[3] = 191
  BY MarksAre
<1>3. \A k \in 1 .. 5 : Is(k) /\ (\A m \in 1 .. 5 : m < k => ~Is(m))
                          => Encoding(s) = <<Marks[k], TRUE>>
  BY MarkedIs DEF FirstMark
<1>4. \A m \in 1 .. 5 : m = 1 \/ m = 2 \/ m = 3 \/ m = 4 \/ m = 5
  OBVIOUS
<1>. HIDE DEF Is
<1>5. s[1] = 0 /\ s[2] = 0 /\ s[3] = 254 /\ s[4] = 255 => Encoding(s) = <<"UTF-32BE", TRUE>>
  <2>. SUFFICES ASSUME s[1] = 0 /\ s[2] = 0 /\ s[3] = 254 /\ s[4] = 255 PROVE Encoding(s) = <<"UTF-32BE", TRUE>>
    OBVIOUS
  <2>1. Is(1)
    BY <1>2 DEF At
  <2>2. 1 \in 1 .. 5 /\ \A m \in 1 .. 5 : m < 1 => ~Is(m)
    BY <1>4, <2>1
  <2>3. Encoding(s) = <<Marks[1], TRUE>>
    BY <1>3, <2>1, <2>2
  <2>. QED
    BY <1>1, <2>3
<1>6. s[1] = 255 /\ s[2] = 254 /\ s[3] = 0 /\ s[4] = 0 => Encoding(s) = <<"UTF-32LE", TRUE>>
  <2>. SUFFICES ASSUME s[1] = 255 /\ s[2] = 254 /\ s[3] = 0 /\ s[4] = 0 PROVE Encoding(s) = <<"UTF-32LE", TRUE>>
    OBVIOUS
  <2>1. Is(2) /\ ~Is(1)
    BY <1>2 DEF At
  <2>2. 2 \in 1 .. 5 /\ \A m \in 1 .. 5 : m < 2 => ~Is(m)
    BY <1>4, <2>1
  <2>3. Encoding(s) = <<Marks[2], TRUE>>
    BY <1>3, <2>1, <2>2
  <2>. QED
    BY <1>1, <2>3
<1>7. s[1] = 254 /\ s[2] = 255 => Encoding(s) = <<"UTF-16BE", TRUE>>
  <2>. SUFFICES ASSUME s[1] = 254 /\ s[2] = 255 PROVE Encoding(s) = <<"UTF-16BE", TRUE>>
    OBVIOUS
  <2>1. Is(3) /\ ~Is(1) /\ ~Is(2)
    BY <1>2 DEF At
  <2>2. 3 \in 1 .. 5 /\ \A m \in 1 .. 5 : m < 3 => ~Is(m)
    BY <1>4, <2>1
  <2>3. Encoding(s) = <<Marks[3], TRUE>>
    BY <1>3, <2>1, <2>2
  <2>. QED
    BY <1>1, <2>3
<1>8. s[1] = 255 /\ s[2] = 254 /\ ~(s[3] = 0 /\ s[4] = 0) => Encoding(s) = <<"UTF-16LE", TRUE>>
  <2>. SUFFICES ASSUME s[1] = 255 /\ s[2] = 254 /\ ~(s[3] = 0 /\ s[4] = 0) PROVE Encoding(s) = <<"UTF-16LE", TRUE>>
    OBVIOUS
  <2>1. Is(4) /\ ~Is(1) /\ ~Is(2) /\ ~Is(3)
    BY <1>2 DEF At
  <2>2. 4 \in 1 .. 5 /\ \A m \in 1 .. 5 : m < 4 => ~Is(m)
    BY <1>4, <2>1
  <2>3. Encoding(s) = <<Marks[4], TRUE>>
    BY <1>3, <2>1, <2>2
  <2>. QED
    BY <1>1, <2>3
<1>9. s[1] = 239 /\ s[2] = 187 /\ s[3] = 191 => Encoding(s) = <<"UTF-8", TRUE>>
  <2>. SUFFICES ASSUME s[1] = 239 /\ s[2] = 187 /\ s[3] = 191 PROVE Encoding(s) = <<"UTF-8", TRUE>>
    OBVIOUS
  <2>1. Is(5) /\ ~Is(1) /\ ~Is(2) /\ ~Is(3) /\ ~Is(4)
    BY <1>2 DEF At
  <2>2. 5 \in 1 .. 5 /\ \A m \in 1 .. 5 : m < 5 => ~Is(m)
    BY <1>4, <2>1
  <2>3. Encoding(s) = <<Marks[5], TRUE>>
    BY <1>3, <2>1, <2>2
  <2>. QED
    BY <1>1, <2>3
<1>. QED
  BY <1>5, <1>6, <1>7, <1>8, <1>9

\* What detectEncoding makes of nulls.
ByNulls(s) ==
  IF \A k \in DOMAIN s : s[k] # 0 THEN <<"UTF-8", FALSE>>
  ELSE IF LikelyUTF32(s) THEN <<UTF32Order(s), FALSE>>
  ELSE <<UTF16Order(s), FALSE>>

\* detectEncoding, of a sample without a mark.
LEMMA UnmarkedIs ==
  ASSUME NEW s \in Seq(Nat), \A m \in 1 .. 5 : ~Begins(s, Bom[Marks[m]])
  PROVE  Encoding(s) = ByNulls(s)
<1>1. DOMAIN Marks = 1 .. 5
  BY MarksAre
<1>2. {m \in DOMAIN Marks : Begins(s, Bom[Marks[m]])} = {}
  BY <1>1
<1>. QED
  BY <1>2, Zenon DEF Encoding, ByNulls

\* What is asked of an encoding.
LEMMA BytesJob ==
  ASSUME query \in DetectJob, query.kind = "bytes"
  PROVE  /\ query.bom \in BOOLEAN /\ query.size \in Nat
         /\ query.encoding \in {"UTF-8", "UTF-16BE", "UTF-16LE", "UTF-32BE", "UTF-32LE"}
         /\ query.text \in Seq(Chars)
<1>1. query.kind # "rows"
  OBVIOUS
<1>2. /\ query.bom \in BOOLEAN /\ query.size \in Nat \ {0}
      /\ query.encoding \in {"UTF-8", "UTF-16BE", "UTF-16LE", "UTF-32BE", "UTF-32LE"}
      /\ query.text \in Seq(Chars)
  BY <1>1, DetectAssumption, Zenon
<1>3. query.size \in Nat
  BY <1>2
<1>. QED
  BY <1>2, <1>3, Zenon

Width(e) == IF e \in {"UTF-16BE", "UTF-16LE"} THEN 2 ELSE 4
Wide == {"UTF-16BE", "UTF-16LE", "UTF-32BE", "UTF-32LE"}
Utf8Bytes == {65, 228, 184, 173, 128, 240, 159, 152}

\* The bytes of the characters.
LEMMA CharsAre ==
  /\ Encoded("UTF-8", "ascii") = <<65>> /\ Encoded("UTF-8", "wide") = <<228, 184, 173>>
  /\ Encoded("UTF-8", "round") = <<228, 184, 128>>
  /\ Encoded("UTF-8", "astral") = <<240, 159, 152, 128>>
  /\ Encoded("UTF-16BE", "ascii") = <<0, 65>> /\ Encoded("UTF-16BE", "wide") = <<78, 45>>
  /\ Encoded("UTF-16BE", "round") = <<78, 0>> /\ Encoded("UTF-16BE", "astral") = <<216, 61, 222, 0>>
  /\ Encoded("UTF-16LE", "ascii") = <<65, 0>> /\ Encoded("UTF-16LE", "wide") = <<45, 78>>
  /\ Encoded("UTF-16LE", "round") = <<0, 78>> /\ Encoded("UTF-16LE", "astral") = <<61, 216, 0, 222>>
  /\ Encoded("UTF-32BE", "ascii") = <<0, 0, 0, 65>> /\ Encoded("UTF-32BE", "wide") = <<0, 0, 78, 45>>
  /\ Encoded("UTF-32BE", "round") = <<0, 0, 78, 0>> /\ Encoded("UTF-32BE", "astral") = <<0, 1, 246, 0>>
  /\ Encoded("UTF-32LE", "ascii") = <<65, 0, 0, 0>> /\ Encoded("UTF-32LE", "wide") = <<45, 78, 0, 0>>
  /\ Encoded("UTF-32LE", "round") = <<0, 78, 0, 0>> /\ Encoded("UTF-32LE", "astral") = <<0, 246, 1, 0>>
<1>1. /\ Encoded("UTF-8", "ascii") = <<65>> /\ Encoded("UTF-8", "wide") = <<228, 184, 173>>
      /\ Encoded("UTF-8", "round") = <<228, 184, 128>>
      /\ Encoded("UTF-8", "astral") = <<240, 159, 152, 128>>
  BY DEF Encoded
<1>2. /\ Encoded("UTF-16BE", "ascii") = <<0, 65>> /\ Encoded("UTF-16BE", "wide") = <<78, 45>>
      /\ Encoded("UTF-16BE", "round") = <<78, 0>> /\ Encoded("UTF-16BE", "astral") = <<216, 61, 222, 0>>
  BY DEF Encoded
<1>3. /\ Encoded("UTF-16LE", "ascii") = <<65, 0>> /\ Encoded("UTF-16LE", "wide") = <<45, 78>>
      /\ Encoded("UTF-16LE", "round") = <<0, 78>> /\ Encoded("UTF-16LE", "astral") = <<61, 216, 0, 222>>
  BY DEF Encoded
<1>4. /\ Encoded("UTF-32BE", "ascii") = <<0, 0, 0, 65>> /\ Encoded("UTF-32BE", "wide") = <<0, 0, 78, 45>>
      /\ Encoded("UTF-32BE", "round") = <<0, 0, 78, 0>> /\ Encoded("UTF-32BE", "astral") = <<0, 1, 246, 0>>
  BY DEF Encoded
<1>5. /\ Encoded("UTF-32LE", "ascii") = <<65, 0, 0, 0>> /\ Encoded("UTF-32LE", "wide") = <<45, 78, 0, 0>>
      /\ Encoded("UTF-32LE", "round") = <<0, 78, 0, 0>> /\ Encoded("UTF-32LE", "astral") = <<0, 246, 1, 0>>
  BY DEF Encoded
<1>. QED
  BY <1>1, <1>2, <1>3, <1>4, <1>5, Zenon

\* A character in UTF-8 has no byte a mark begins with,
LEMMA Utf8Is ==
  ASSUME NEW c \in Chars
  PROVE  Encoded("UTF-8", c) \in Seq(Utf8Bytes)
<1>1. c = "ascii" \/ c = "wide" \/ c = "round" \/ c = "astral"
  BY DEF Chars
<1>2. CASE c = "ascii"
  <2>1. PICK s \in Seq(Utf8Bytes) : s = <<65>>
    <3>1. <<65>> \in Seq(Utf8Bytes)
      BY DEF Utf8Bytes
    <3>. QED
      BY <3>1, Zenon
  <2>2. Encoded("UTF-8", c) = s
    BY <1>2, <2>1 DEF Encoded
  <2>. QED
    BY <2>2, Zenon
<1>3. CASE c = "wide"
  <2>1. PICK s \in Seq(Utf8Bytes) : s = <<228, 184, 173>>
    <3>1. <<228, 184, 173>> \in Seq(Utf8Bytes)
      BY DEF Utf8Bytes
    <3>. QED
      BY <3>1, Zenon
  <2>2. Encoded("UTF-8", c) = s
    BY <1>3, <2>1 DEF Encoded
  <2>. QED
    BY <2>2, Zenon
<1>4. CASE c = "round"
  <2>1. PICK s \in Seq(Utf8Bytes) : s = <<228, 184, 128>>
    <3>1. <<228, 184, 128>> \in Seq(Utf8Bytes)
      BY DEF Utf8Bytes
    <3>. QED
      BY <3>1, Zenon
  <2>2. Encoded("UTF-8", c) = s
    BY <1>4, <2>1 DEF Encoded
  <2>. QED
    BY <2>2, Zenon
<1>5. CASE c = "astral"
  <2>1. PICK s \in Seq(Utf8Bytes) : s = <<240, 159, 152, 128>>
    <3>1. <<240, 159, 152, 128>> \in Seq(Utf8Bytes)
      BY DEF Utf8Bytes
    <3>. QED
      BY <3>1, Zenon
  <2>2. Encoded("UTF-8", c) = s
    BY <1>5, <2>1 DEF Encoded
  <2>. QED
    BY <2>2, Zenon
<1>. QED
  BY <1>1, <1>2, <1>3, <1>4, <1>5, Zenon

\* Byte j of a character can be b, in UTF-16, if none has a null low byte.
Fits(e, j, b) ==
  /\ e = "UTF-16BE" => b \in IF j = 1 THEN {0, 78} ELSE {65, 45}
  /\ e = "UTF-16LE" => b \in IF j = 1 THEN {65, 45} ELSE {0, 78}

\* ... such a character has two bytes in UTF-16,
LEMMA PairIs ==
  ASSUME NEW c \in {"ascii", "wide"}, NEW e \in {"UTF-16BE", "UTF-16LE"}
  PROVE  /\ Encoded(e, c) \in Seq(Nat) /\ Len(Encoded(e, c)) = 2
         /\ \A j \in 1 .. 2 : Fits(e, j, Encoded(e, c)[j])
<1>1. ASSUME NEW x \in Nat, NEW y \in Nat, Encoded(e, c) = <<x, y>>, Fits(e, 1, x), Fits(e, 2, y)
      PROVE  /\ Encoded(e, c) \in Seq(Nat) /\ Len(Encoded(e, c)) = 2
             /\ \A j \in 1 .. 2 : Fits(e, j, Encoded(e, c)[j])
  <2>1. <<x, y>> \in Seq(Nat)
    OBVIOUS
  <2>. PICK b \in Seq(Nat) : b = <<x, y>>
    BY <2>1, Zenon
  <2>2. Len(b) = 2 /\ b[1] = x /\ b[2] = y /\ \A j \in 1 .. 2 : j = 1 \/ j = 2
    OBVIOUS
  <2>3. \A j \in 1 .. 2 : Fits(e, j, b[j])
    BY <1>1, <2>2
  <2>. QED
    BY <1>1, <2>2, <2>3, Zenon
<1>2. \/ Encoded(e, c) = <<0, 65>> /\ e = "UTF-16BE"
      \/ Encoded(e, c) = <<78, 45>> /\ e = "UTF-16BE"
      \/ Encoded(e, c) = <<65, 0>> /\ e = "UTF-16LE"
      \/ Encoded(e, c) = <<45, 78>> /\ e = "UTF-16LE"
  <2>1. (c = "ascii" \/ c = "wide") /\ (e = "UTF-16BE" \/ e = "UTF-16LE")
    OBVIOUS
  <2>2. CASE c = "ascii"
    <3>1. /\ Encoded("UTF-16BE", "ascii") = <<0, 65>>
          /\ Encoded("UTF-16LE", "ascii") = <<65, 0>>
      BY CharsAre, Zenon
    <3>. QED
      BY <2>1, <2>2, <3>1, Zenon
  <2>3. CASE c = "wide"
    <3>1. /\ Encoded("UTF-16BE", "wide") = <<78, 45>>
          /\ Encoded("UTF-16LE", "wide") = <<45, 78>>
      BY CharsAre, Zenon
    <3>. QED
      BY <2>1, <2>3, <3>1, Zenon
  <2>. QED
    BY <2>1, <2>2, <2>3, Zenon
<1>3. /\ e = "UTF-16BE" => Fits(e, 1, 0) /\ Fits(e, 1, 78) /\ Fits(e, 2, 65) /\ Fits(e, 2, 45)
      /\ e = "UTF-16LE" => Fits(e, 1, 65) /\ Fits(e, 1, 45) /\ Fits(e, 2, 0) /\ Fits(e, 2, 78)
  BY DEF Fits
<1>4. 0 \in Nat /\ 65 \in Nat /\ 45 \in Nat /\ 78 \in Nat
  OBVIOUS
<1>. QED
  BY <1>1, <1>2, <1>3, <1>4, Zenon

\* The bytes of a character in UTF-32 are such.
Quad(e, a, b, c, d) ==
  /\ e = "UTF-32BE" => ~(c = 0 /\ d = 0)
  /\ e = "UTF-32LE" => ~(a = 0 /\ b = 0) /\ a \notin {239, 254, 255} /\ c # 254

\* The bytes of a character in UTF-32,
FourBytes(e, c, b) ==
  /\ b = Encoded(e, c) /\ Len(b) = 4 /\ Quad(e, b[1], b[2], b[3], b[4])
  /\ e = "UTF-32BE" /\ c # "astral" => b[1] = 0 /\ b[2] = 0 /\ b[3] # 254

\* ... every character has four, of which those of the low order, or the first two,
\* are not both null,
LEMMA QuadIs ==
  ASSUME NEW c \in Chars, NEW e \in {"UTF-32BE", "UTF-32LE"}
  PROVE  \E b \in Seq(Nat) : FourBytes(e, c, b)
<1>1. c = "ascii" \/ c = "wide" \/ c = "round" \/ c = "astral"
  BY DEF Chars
<1>2. CASE e = "UTF-32BE"
  <2>1. CASE c = "ascii"
    <3>1. <<0, 0, 0, 65>> \in Seq(Nat) /\ Encoded(e, c) = <<0, 0, 0, 65>>
      BY <1>2, <2>1, CharsAre
    <3>. PICK b \in Seq(Nat) : b = <<0, 0, 0, 65>> /\ b = Encoded(e, c)
      BY <3>1, Zenon
    <3>2. Len(b) = 4 /\ b[1] = 0 /\ b[2] = 0 /\ b[3] = 0 /\ b[4] = 65
      OBVIOUS
    <3>3. Quad(e, b[1], b[2], b[3], b[4])
      BY <1>2, <2>1, <3>2 DEF Quad
    <3>4. e = "UTF-32BE" /\ c # "astral" => b[1] = 0 /\ b[2] = 0 /\ b[3] # 254
      BY <1>2, <2>1, <3>2
    <3>5. b = Encoded(e, c) /\ Len(b) = 4
      BY <3>2, Zenon
    <3>. QED
      BY <3>3, <3>4, <3>5, Zenon DEF FourBytes
  <2>2. CASE c = "wide"
    <3>1. <<0, 0, 78, 45>> \in Seq(Nat) /\ Encoded(e, c) = <<0, 0, 78, 45>>
      BY <1>2, <2>2, CharsAre
    <3>. PICK b \in Seq(Nat) : b = <<0, 0, 78, 45>> /\ b = Encoded(e, c)
      BY <3>1, Zenon
    <3>2. Len(b) = 4 /\ b[1] = 0 /\ b[2] = 0 /\ b[3] = 78 /\ b[4] = 45
      OBVIOUS
    <3>3. Quad(e, b[1], b[2], b[3], b[4])
      BY <1>2, <2>2, <3>2 DEF Quad
    <3>4. e = "UTF-32BE" /\ c # "astral" => b[1] = 0 /\ b[2] = 0 /\ b[3] # 254
      BY <1>2, <2>2, <3>2
    <3>5. b = Encoded(e, c) /\ Len(b) = 4
      BY <3>2, Zenon
    <3>. QED
      BY <3>3, <3>4, <3>5, Zenon DEF FourBytes
  <2>3. CASE c = "round"
    <3>1. <<0, 0, 78, 0>> \in Seq(Nat) /\ Encoded(e, c) = <<0, 0, 78, 0>>
      BY <1>2, <2>3, CharsAre
    <3>. PICK b \in Seq(Nat) : b = <<0, 0, 78, 0>> /\ b = Encoded(e, c)
      BY <3>1, Zenon
    <3>2. Len(b) = 4 /\ b[1] = 0 /\ b[2] = 0 /\ b[3] = 78 /\ b[4] = 0
      OBVIOUS
    <3>3. Quad(e, b[1], b[2], b[3], b[4])
      BY <1>2, <2>3, <3>2 DEF Quad
    <3>4. e = "UTF-32BE" /\ c # "astral" => b[1] = 0 /\ b[2] = 0 /\ b[3] # 254
      BY <1>2, <2>3, <3>2
    <3>5. b = Encoded(e, c) /\ Len(b) = 4
      BY <3>2, Zenon
    <3>. QED
      BY <3>3, <3>4, <3>5, Zenon DEF FourBytes
  <2>4. CASE c = "astral"
    <3>1. <<0, 1, 246, 0>> \in Seq(Nat) /\ Encoded(e, c) = <<0, 1, 246, 0>>
      BY <1>2, <2>4, CharsAre
    <3>. PICK b \in Seq(Nat) : b = <<0, 1, 246, 0>> /\ b = Encoded(e, c)
      BY <3>1, Zenon
    <3>2. Len(b) = 4 /\ b[1] = 0 /\ b[2] = 1 /\ b[3] = 246 /\ b[4] = 0
      OBVIOUS
    <3>3. Quad(e, b[1], b[2], b[3], b[4])
      BY <1>2, <2>4, <3>2 DEF Quad
    <3>4. e = "UTF-32BE" /\ c # "astral" => b[1] = 0 /\ b[2] = 0 /\ b[3] # 254
      BY <1>2, <2>4, <3>2
    <3>5. b = Encoded(e, c) /\ Len(b) = 4
      BY <3>2, Zenon
    <3>. QED
      BY <3>3, <3>4, <3>5, Zenon DEF FourBytes
  <2>. QED
    BY <1>1, <2>1, <2>2, <2>3, <2>4
<1>3. CASE e = "UTF-32LE"
  <2>1. CASE c = "ascii"
    <3>1. <<65, 0, 0, 0>> \in Seq(Nat) /\ Encoded(e, c) = <<65, 0, 0, 0>>
      BY <1>3, <2>1, CharsAre
    <3>. PICK b \in Seq(Nat) : b = <<65, 0, 0, 0>> /\ b = Encoded(e, c)
      BY <3>1, Zenon
    <3>2. Len(b) = 4 /\ b[1] = 65 /\ b[2] = 0 /\ b[3] = 0 /\ b[4] = 0
      OBVIOUS
    <3>3. Quad(e, b[1], b[2], b[3], b[4])
      BY <1>3, <2>1, <3>2 DEF Quad
    <3>4. e = "UTF-32BE" /\ c # "astral" => b[1] = 0 /\ b[2] = 0 /\ b[3] # 254
      BY <1>3, <2>1, <3>2
    <3>5. b = Encoded(e, c) /\ Len(b) = 4
      BY <3>2, Zenon
    <3>. QED
      BY <3>3, <3>4, <3>5, Zenon DEF FourBytes
  <2>2. CASE c = "wide"
    <3>1. <<45, 78, 0, 0>> \in Seq(Nat) /\ Encoded(e, c) = <<45, 78, 0, 0>>
      BY <1>3, <2>2, CharsAre
    <3>. PICK b \in Seq(Nat) : b = <<45, 78, 0, 0>> /\ b = Encoded(e, c)
      BY <3>1, Zenon
    <3>2. Len(b) = 4 /\ b[1] = 45 /\ b[2] = 78 /\ b[3] = 0 /\ b[4] = 0
      OBVIOUS
    <3>3. Quad(e, b[1], b[2], b[3], b[4])
      BY <1>3, <2>2, <3>2 DEF Quad
    <3>4. e = "UTF-32BE" /\ c # "astral" => b[1] = 0 /\ b[2] = 0 /\ b[3] # 254
      BY <1>3, <2>2, <3>2
    <3>5. b = Encoded(e, c) /\ Len(b) = 4
      BY <3>2, Zenon
    <3>. QED
      BY <3>3, <3>4, <3>5, Zenon DEF FourBytes
  <2>3. CASE c = "round"
    <3>1. <<0, 78, 0, 0>> \in Seq(Nat) /\ Encoded(e, c) = <<0, 78, 0, 0>>
      BY <1>3, <2>3, CharsAre
    <3>. PICK b \in Seq(Nat) : b = <<0, 78, 0, 0>> /\ b = Encoded(e, c)
      BY <3>1, Zenon
    <3>2. Len(b) = 4 /\ b[1] = 0 /\ b[2] = 78 /\ b[3] = 0 /\ b[4] = 0
      OBVIOUS
    <3>3. Quad(e, b[1], b[2], b[3], b[4])
      BY <1>3, <2>3, <3>2 DEF Quad
    <3>4. e = "UTF-32BE" /\ c # "astral" => b[1] = 0 /\ b[2] = 0 /\ b[3] # 254
      BY <1>3, <2>3, <3>2
    <3>5. b = Encoded(e, c) /\ Len(b) = 4
      BY <3>2, Zenon
    <3>. QED
      BY <3>3, <3>4, <3>5, Zenon DEF FourBytes
  <2>4. CASE c = "astral"
    <3>1. <<0, 246, 1, 0>> \in Seq(Nat) /\ Encoded(e, c) = <<0, 246, 1, 0>>
      BY <1>3, <2>4, CharsAre
    <3>. PICK b \in Seq(Nat) : b = <<0, 246, 1, 0>> /\ b = Encoded(e, c)
      BY <3>1, Zenon
    <3>2. Len(b) = 4 /\ b[1] = 0 /\ b[2] = 246 /\ b[3] = 1 /\ b[4] = 0
      OBVIOUS
    <3>3. Quad(e, b[1], b[2], b[3], b[4])
      BY <1>3, <2>4, <3>2 DEF Quad
    <3>4. e = "UTF-32BE" /\ c # "astral" => b[1] = 0 /\ b[2] = 0 /\ b[3] # 254
      BY <1>3, <2>4, <3>2
    <3>5. b = Encoded(e, c) /\ Len(b) = 4
      BY <3>2, Zenon
    <3>. QED
      BY <3>3, <3>4, <3>5, Zenon DEF FourBytes
  <2>. QED
    BY <1>1, <2>1, <2>2, <2>3, <2>4
<1>. QED
  BY <1>2, <1>3

\* ... and in UTF-16 it has two or four, of which the first two are not both null.
LEMMA UnitIs ==
  ASSUME NEW c \in Chars, NEW e \in {"UTF-16BE", "UTF-16LE"}
  PROVE  \E b \in Seq(Nat) : b = Encoded(e, c) /\ Len(b) >= 2 /\ ~(b[1] = 0 /\ b[2] = 0)
<1>1. c = "ascii" \/ c = "wide" \/ c = "round" \/ c = "astral"
  BY DEF Chars
<1>2. CASE e = "UTF-16BE"
  <2>1. CASE c = "ascii"
    <3>1. <<0, 65>> \in Seq(Nat) /\ Encoded(e, c) = <<0, 65>>
      BY <1>2, <2>1, CharsAre
    <3>. PICK b \in Seq(Nat) : b = <<0, 65>> /\ b = Encoded(e, c)
      BY <3>1, Zenon
    <3>2. Len(b) >= 2 /\ b[1] = 0 /\ b[2] = 65
      OBVIOUS
    <3>3. ~(b[1] = 0 /\ b[2] = 0)
      BY <3>2
    <3>. QED
      BY <3>2, <3>3, Zenon
  <2>2. CASE c = "wide"
    <3>1. <<78, 45>> \in Seq(Nat) /\ Encoded(e, c) = <<78, 45>>
      BY <1>2, <2>2, CharsAre
    <3>. PICK b \in Seq(Nat) : b = <<78, 45>> /\ b = Encoded(e, c)
      BY <3>1, Zenon
    <3>2. Len(b) >= 2 /\ b[1] = 78 /\ b[2] = 45
      OBVIOUS
    <3>3. ~(b[1] = 0 /\ b[2] = 0)
      BY <3>2
    <3>. QED
      BY <3>2, <3>3, Zenon
  <2>3. CASE c = "round"
    <3>1. <<78, 0>> \in Seq(Nat) /\ Encoded(e, c) = <<78, 0>>
      BY <1>2, <2>3, CharsAre
    <3>. PICK b \in Seq(Nat) : b = <<78, 0>> /\ b = Encoded(e, c)
      BY <3>1, Zenon
    <3>2. Len(b) >= 2 /\ b[1] = 78 /\ b[2] = 0
      OBVIOUS
    <3>3. ~(b[1] = 0 /\ b[2] = 0)
      BY <3>2
    <3>. QED
      BY <3>2, <3>3, Zenon
  <2>4. CASE c = "astral"
    <3>1. <<216, 61, 222, 0>> \in Seq(Nat) /\ Encoded(e, c) = <<216, 61, 222, 0>>
      BY <1>2, <2>4, CharsAre
    <3>. PICK b \in Seq(Nat) : b = <<216, 61, 222, 0>> /\ b = Encoded(e, c)
      BY <3>1, Zenon
    <3>2. Len(b) >= 2 /\ b[1] = 216 /\ b[2] = 61
      OBVIOUS
    <3>3. ~(b[1] = 0 /\ b[2] = 0)
      BY <3>2
    <3>. QED
      BY <3>2, <3>3, Zenon
  <2>. QED
    BY <1>1, <2>1, <2>2, <2>3, <2>4
<1>3. CASE e = "UTF-16LE"
  <2>1. CASE c = "ascii"
    <3>1. <<65, 0>> \in Seq(Nat) /\ Encoded(e, c) = <<65, 0>>
      BY <1>3, <2>1, CharsAre
    <3>. PICK b \in Seq(Nat) : b = <<65, 0>> /\ b = Encoded(e, c)
      BY <3>1, Zenon
    <3>2. Len(b) >= 2 /\ b[1] = 65 /\ b[2] = 0
      OBVIOUS
    <3>3. ~(b[1] = 0 /\ b[2] = 0)
      BY <3>2
    <3>. QED
      BY <3>2, <3>3, Zenon
  <2>2. CASE c = "wide"
    <3>1. <<45, 78>> \in Seq(Nat) /\ Encoded(e, c) = <<45, 78>>
      BY <1>3, <2>2, CharsAre
    <3>. PICK b \in Seq(Nat) : b = <<45, 78>> /\ b = Encoded(e, c)
      BY <3>1, Zenon
    <3>2. Len(b) >= 2 /\ b[1] = 45 /\ b[2] = 78
      OBVIOUS
    <3>3. ~(b[1] = 0 /\ b[2] = 0)
      BY <3>2
    <3>. QED
      BY <3>2, <3>3, Zenon
  <2>3. CASE c = "round"
    <3>1. <<0, 78>> \in Seq(Nat) /\ Encoded(e, c) = <<0, 78>>
      BY <1>3, <2>3, CharsAre
    <3>. PICK b \in Seq(Nat) : b = <<0, 78>> /\ b = Encoded(e, c)
      BY <3>1, Zenon
    <3>2. Len(b) >= 2 /\ b[1] = 0 /\ b[2] = 78
      OBVIOUS
    <3>3. ~(b[1] = 0 /\ b[2] = 0)
      BY <3>2
    <3>. QED
      BY <3>2, <3>3, Zenon
  <2>4. CASE c = "astral"
    <3>1. <<61, 216, 0, 222>> \in Seq(Nat) /\ Encoded(e, c) = <<61, 216, 0, 222>>
      BY <1>3, <2>4, CharsAre
    <3>. PICK b \in Seq(Nat) : b = <<61, 216, 0, 222>> /\ b = Encoded(e, c)
      BY <3>1, Zenon
    <3>2. Len(b) >= 2 /\ b[1] = 61 /\ b[2] = 216
      OBVIOUS
    <3>3. ~(b[1] = 0 /\ b[2] = 0)
      BY <3>2
    <3>. QED
      BY <3>2, <3>3, Zenon
  <2>. QED
    BY <1>1, <2>1, <2>2, <2>3, <2>4
<1>. QED
  BY <1>2, <1>3

\* A character is of bytes.
LEMMA CharIsBytes ==
  ASSUME NEW c \in Chars, NEW e \in {"UTF-8"} \cup Wide
  PROVE  Encoded(e, c) \in Seq(Nat)
<1>1. CASE e = "UTF-8"
  <2>1. \A t \in Seq(Utf8Bytes) : t \in Seq(Nat)
    BY DEF Utf8Bytes
  <2>. QED
    BY <1>1, <2>1, Utf8Is, Zenon
<1>2. CASE e \in {"UTF-16BE", "UTF-16LE"}
  BY <1>2, UnitIs, Zenon
<1>3. CASE e \in {"UTF-32BE", "UTF-32LE"}
  <2>1. PICK b \in Seq(Nat) : FourBytes(e, c, b)
    BY <1>3, QuadIs, Zenon
  <2>2. b = Encoded(e, c)
    BY <2>1, Zenon DEF FourBytes
  <2>. QED
    BY <2>2, Zenon
<1>4. e = "UTF-8" \/ e \in {"UTF-16BE", "UTF-16LE"} \/ e \in {"UTF-32BE", "UTF-32LE"}
  BY DEF Wide
<1>. QED
  BY <1>1, <1>2, <1>3, <1>4, Zenon

\* A place is one of a piece.
LEMMA PlaceIs ==
  ASSUME NEW w \in {2, 4}, NEW n \in Nat, NEW p \in 1 .. w * n
  PROVE  \E i \in 1 .. n, j \in 1 .. w : p = w * (i - 1) + j /\ j = ((p - 1) % w) + 1
<1>1. CASE w = 2
  <2>. DEFINE i == (p - 1) \div 2 + 1
              j == ((p - 1) % 2) + 1
  <2>1. i \in 1 .. n /\ j \in 1 .. 2 /\ p = 2 * (i - 1) + j
    BY <1>1
  <2>. HIDE DEF i
  <2>. QED
    BY <1>1, <2>1
<1>2. CASE w = 4
  <2>. DEFINE i == (p - 1) \div 4 + 1
              j == ((p - 1) % 4) + 1
  <2>1. i \in 1 .. n /\ j \in 1 .. 4 /\ p = 4 * (i - 1) + j
    BY <1>2
  <2>. HIDE DEF i
  <2>. QED
    BY <1>2, <2>1
<1>. QED
  BY <1>1, <1>2

\* What is joined is of what the pieces are of.
LEMMA FlattenIn ==
  ASSUME NEW V, NEW s \in Seq(Seq(V))
  PROVE  FlattenSeq(s) \in Seq(V)
<1>1. PICK g \in [0 .. Len(s) -> Seq(V)] :
        /\ g[0] = <<>> /\ g[Len(s)] = FlattenSeq(s)
        /\ \A k \in 1 .. Len(s) : g[k] = g[k - 1] \o s[k]
  BY FlattenRuns
<1>2. Len(s) \in 0 .. Len(s)
  OBVIOUS
<1>. QED
  BY <1>1, <1>2

\* Where byte p is in its character.
LEMMA WhereIs ==
  ASSUME NEW n \in Nat
  PROVE  \A p \in 1 .. n : /\ p % 2 = 1 => ((p - 1) % 2) + 1 = 1
                           /\ p % 2 = 0 => ((p - 1) % 2) + 1 = 2
                           /\ p % 4 = 1 => ((p - 1) % 4) + 1 = 1
                           /\ p % 4 = 2 => ((p - 1) % 4) + 1 = 2
                           /\ p % 4 = 3 => ((p - 1) % 4) + 1 = 3
                           /\ p % 4 = 0 => ((p - 1) % 4) + 1 = 4
<1>1. \A p \in 1 .. n : p % 2 = 1 => (p - 1) % 2 = 0
  OBVIOUS
<1>2. \A p \in 1 .. n : p % 2 = 0 => (p - 1) % 2 = 1
  OBVIOUS
<1>3. \A p \in 1 .. n : p % 4 = 1 => (p - 1) % 4 = 0
  OBVIOUS
<1>4. \A p \in 1 .. n : p % 4 = 2 => (p - 1) % 4 = 1
  OBVIOUS
<1>5. \A p \in 1 .. n : p % 4 = 3 => (p - 1) % 4 = 2
  OBVIOUS
<1>6. \A p \in 1 .. n : p % 4 = 0 => (p - 1) % 4 = 3
  OBVIOUS
<1>. QED
  BY <1>1, <1>2, <1>3, <1>4, <1>5, <1>6

\* The bytes of the text, in UTF-8,
LEMMA TextIs8 ==
  ASSUME query \in DetectJob, query.kind = "bytes", query.encoding = "UTF-8"
  PROVE  FlattenSeq(TextPieces) \in Seq(Utf8Bytes)
<1>1. PICK X : X = Seq(Utf8Bytes)
  OBVIOUS
<1>2. PICK text \in Seq(Chars) : text = query.text
  BY BytesJob
<1>3. TextPieces = [k \in 1 .. Len(text) |-> Encoded("UTF-8", text[k])]
  BY <1>2 DEF TextPieces
<1>4. \A k \in 1 .. Len(text) : Encoded("UTF-8", text[k]) \in X
  <2>1. \A k \in 1 .. Len(text) : text[k] \in Chars
    OBVIOUS
  <2>. QED
    BY <1>1, <2>1, Utf8Is, Zenon
<1>5. TextPieces \in Seq(X)
  BY <1>3, <1>4
<1>. QED
  BY <1>1, <1>5, FlattenIn, Zenon

\* ... and in all.
LEMMA TextIsBytes ==
  ASSUME query \in DetectJob, query.kind = "bytes"
  PROVE  TextPieces \in Seq(Seq(Nat)) /\ FlattenSeq(TextPieces) \in Seq(Nat)
<1>1. PICK X : X = Seq(Nat)
  OBVIOUS
<1>2. PICK text \in Seq(Chars) : text = query.text
  BY BytesJob
<1>3. PICK e \in {"UTF-8"} \cup Wide : e = query.encoding
  BY BytesJob DEF Wide
<1>4. TextPieces = [k \in 1 .. Len(text) |-> Encoded(e, text[k])]
  BY <1>2, <1>3 DEF TextPieces
<1>5. \A k \in 1 .. Len(text) : Encoded(e, text[k]) \in X
  <2>1. \A k \in 1 .. Len(text) : text[k] \in Chars
    OBVIOUS
  <2>. QED
    BY <1>1, <2>1, CharIsBytes, Zenon
<1>6. TextPieces \in Seq(X)
  BY <1>4, <1>5
<1>. QED
  BY <1>1, <1>6, FlattenIn, Zenon

\* Whether any character's low byte can be null.
Clear == \A k \in DOMAIN query.text : query.text[k] \in {"ascii", "wide"}

\* In UTF-16, of such characters, each byte is where it should be.
LEMMA TextIs16 ==
  ASSUME query \in DetectJob, query.kind = "bytes", query.encoding \in {"UTF-16BE", "UTF-16LE"}, Clear
  PROVE  \A p \in 1 .. Len(FlattenSeq(TextPieces)) :
           Fits(query.encoding, ((p - 1) % 2) + 1, FlattenSeq(TextPieces)[p])
<1>1. PICK e \in {"UTF-16BE", "UTF-16LE"} : e = query.encoding
  OBVIOUS
<1>2. PICK text \in Seq(Chars) : text = query.text
  BY BytesJob
<1>3. PICK s \in Seq(Seq(Nat)) : s = TextPieces
  BY TextIsBytes
<1>4. PICK n \in Nat : n = Len(text)
  OBVIOUS
<1>5. Len(s) = n /\ \A k \in 1 .. n : s[k] = Encoded(e, text[k])
  BY <1>1, <1>2, <1>3, <1>4 DEF TextPieces
<1>6. \A k \in 1 .. n : text[k] \in {"ascii", "wide"}
  BY <1>2, <1>4 DEF Clear
<1>7. \A k \in 1 .. n : Len(s[k]) = 2 /\ \A j \in 1 .. 2 : Fits(e, j, s[k][j])
  BY <1>5, <1>6, PairIs
<1>8. /\ Len(FlattenSeq(s)) = 2 * n
      /\ \A i \in 1 .. n, j \in 1 .. 2 : FlattenSeq(s)[2 * (i - 1) + j] = s[i][j]
  <2>1. 2 \in Nat \ {0} /\ \A k \in 1 .. Len(s) : Len(s[k]) = 2
    BY <1>5, <1>7
  <2>2. Tiles(FlattenSeq(s), Nat, s, 2)
    BY <2>1, FlattenEven, Zenon
  <2>. QED
    BY <1>5, <2>2, Zenon DEF Tiles
<1>9. ASSUME NEW p \in 1 .. 2 * n PROVE Fits(e, ((p - 1) % 2) + 1, FlattenSeq(s)[p])
  <2>1. PICK i \in 1 .. n, j \in 1 .. 2 : p = 2 * (i - 1) + j /\ j = ((p - 1) % 2) + 1
    BY PlaceIs
  <2>2. FlattenSeq(s)[p] = s[i][j]
    BY <1>8, <2>1
  <2>3. Fits(e, j, s[i][j])
    BY <1>7
  <2>. QED
    BY <2>1, <2>2, <2>3
<1>. QED
  BY <1>1, <1>3, <1>8, <1>9, Zenon

\* Where characters of four bytes begin among n.
Units(n) == {k \in 1 .. n : k % 4 = 1 /\ k + 3 <= n}

\* In UTF-32 each four bytes are a character.
LEMMA TextIs32 ==
  ASSUME query \in DetectJob, query.kind = "bytes", query.encoding \in {"UTF-32BE", "UTF-32LE"},
         NEW f \in Seq(Nat), f = FlattenSeq(TextPieces)
  PROVE  /\ \A k \in Units(Len(f)) : Quad(query.encoding, f[k], f[k + 1], f[k + 2], f[k + 3])
         /\ query.encoding = "UTF-32BE" /\ Len(f) >= 4 /\ query.text[1] # "astral"
              => f[1] = 0 /\ f[2] = 0 /\ f[3] # 254
<1>1. PICK e \in {"UTF-32BE", "UTF-32LE"} : e = query.encoding
  OBVIOUS
<1>2. PICK text \in Seq(Chars) : text = query.text
  BY BytesJob
<1>3. PICK s \in Seq(Seq(Nat)) : s = TextPieces
  BY TextIsBytes
<1>4. PICK n \in Nat : n = Len(text)
  OBVIOUS
<1>5. Len(s) = n /\ \A k \in 1 .. n : s[k] = Encoded(e, text[k]) /\ text[k] \in Chars
  BY <1>1, <1>2, <1>3, <1>4 DEF TextPieces
<1>6. \A k \in 1 .. n :
        /\ Len(s[k]) = 4 /\ Quad(e, s[k][1], s[k][2], s[k][3], s[k][4])
        /\ e = "UTF-32BE" /\ text[k] # "astral" => s[k][1] = 0 /\ s[k][2] = 0 /\ s[k][3] # 254
  <2>. SUFFICES ASSUME NEW k \in 1 .. n
                PROVE  /\ Len(s[k]) = 4 /\ Quad(e, s[k][1], s[k][2], s[k][3], s[k][4])
                       /\ e = "UTF-32BE" /\ text[k] # "astral" => s[k][1] = 0 /\ s[k][2] = 0 /\ s[k][3] # 254
    OBVIOUS
  <2>1. PICK c \in Chars : c = text[k] /\ s[k] = Encoded(e, c)
    BY <1>5
  <2>2. PICK b \in Seq(Nat) :
          /\ b = Encoded(e, c) /\ Len(b) = 4 /\ Quad(e, b[1], b[2], b[3], b[4])
          /\ e = "UTF-32BE" /\ c # "astral" => b[1] = 0 /\ b[2] = 0 /\ b[3] # 254
    BY QuadIs, Zenon DEF FourBytes
  <2>3. s[k] = b
    BY <2>1, <2>2, Zenon
  <2>. QED
    BY <2>1, <2>2, <2>3, Zenon
<1>7. /\ Len(f) = 4 * n
      /\ \A i \in 1 .. n, j \in 1 .. 4 : f[4 * (i - 1) + j] = s[i][j]
  <2>1. 4 \in Nat \ {0} /\ \A k \in 1 .. Len(s) : Len(s[k]) = 4
    <3>1. 4 \in Nat \ {0}
      OBVIOUS
    <3>2. Len(s) = n
      BY <1>5, Zenon
    <3>3. \A k \in 1 .. n : Len(s[k]) = 4
      BY <1>6, Zenon
    <3>. QED
      BY <3>1, <3>2, <3>3, Zenon
  <2>2. Tiles(FlattenSeq(s), Nat, s, 4)
    BY <2>1, FlattenEven, Zenon
  <2>3. FlattenSeq(s) = f
    BY <1>3, Zenon
  <2>. QED
    BY <1>5, <2>2, <2>3, Zenon DEF Tiles
<1>8. ASSUME NEW i \in 1 .. n
      PROVE  LET k == 4 * (i - 1) + 1
             IN f[k] = s[i][1] /\ f[k + 1] = s[i][2] /\ f[k + 2] = s[i][3] /\ f[k + 3] = s[i][4]
  <2>1. 1 \in 1 .. 4 /\ 2 \in 1 .. 4 /\ 3 \in 1 .. 4 /\ 4 \in 1 .. 4
    OBVIOUS
  <2>2. PICK a \in Nat : a = 4 * (i - 1)
    OBVIOUS
  <2>3. f[a + 1] = s[i][1] /\ f[a + 2] = s[i][2] /\ f[a + 3] = s[i][3] /\ f[a + 4] = s[i][4]
    BY <1>7, <2>1, <2>2
  <2>4. (a + 1) + 1 = a + 2 /\ (a + 1) + 2 = a + 3 /\ (a + 1) + 3 = a + 4
    OBVIOUS
  <2>. QED
    BY <2>2, <2>3, <2>4
<1>9. ASSUME NEW k \in Units(Len(f)) PROVE Quad(e, f[k], f[k + 1], f[k + 2], f[k + 3])
  <2>1. k \in 1 .. 4 * n /\ k % 4 = 1
    BY <1>7 DEF Units
  <2>2. PICK i \in 1 .. n, j \in 1 .. 4 : k = 4 * (i - 1) + j /\ j = ((k - 1) % 4) + 1
    BY <2>1, PlaceIs
  <2>3. ((k - 1) % 4) + 1 = 1
    <3>1. 4 * n \in Nat
      OBVIOUS
    <3>. QED
      BY <2>1, <3>1, WhereIs
  <2>4. k = 4 * (i - 1) + 1
    BY <2>2, <2>3
  <2>5. f[k] = s[i][1] /\ f[k + 1] = s[i][2] /\ f[k + 2] = s[i][3] /\ f[k + 3] = s[i][4]
    BY <1>8, <2>4
  <2>. QED
    BY <1>6, <2>5
<1>10. ASSUME e = "UTF-32BE", Len(f) >= 4, text[1] # "astral"
       PROVE  f[1] = 0 /\ f[2] = 0 /\ f[3] # 254
  <2>1. 1 \in 1 .. n
    BY <1>7, <1>10
  <2>2. f[1] = s[1][1] /\ f[2] = s[1][2] /\ f[3] = s[1][3]
    <3>1. 4 * (1 - 1) + 1 = 1 /\ 1 + 1 = 2 /\ 1 + 2 = 3
      OBVIOUS
    <3>. QED
      BY <1>8, <2>1, <3>1
  <2>3. s[1][1] = 0 /\ s[1][2] = 0 /\ s[1][3] # 254
    BY <1>6, <1>10, <2>1, Zenon
  <2>. QED
    BY <2>2, <2>3, Zenon
<1>. QED
  BY <1>1, <1>2, <1>9, <1>10, Zenon

\* What is joined begins with what the first piece begins with.
LEMMA FlattenBegins ==
  ASSUME NEW s \in Seq(Seq(Nat)), Len(s) >= 1, \A k \in 1 .. Len(s) : Len(s[k]) >= 2
  PROVE  /\ Len(FlattenSeq(s)) >= 2
         /\ FlattenSeq(s)[1] = s[1][1] /\ FlattenSeq(s)[2] = s[1][2]
<1>. PICK n \in Nat : n = Len(s) /\ n >= 1
  OBVIOUS
<1>1. PICK g \in [0 .. n -> Seq(Nat)] :
        g[0] = <<>> /\ g[n] = FlattenSeq(s) /\ \A k \in 1 .. n : g[k] = g[k - 1] \o s[k]
  BY FlattenRuns
<1>2. PICK a \in Seq(Nat) : a = s[1] /\ Len(a) >= 2
  OBVIOUS
<1>. DEFINE Same(t) == Len(t) >= 2 /\ t[1] = a[1] /\ t[2] = a[2]
            Ks == {k \in Nat : k + 1 <= n => Same(g[k + 1])}
<1>3. 0 \in Ks
  <2>1. 1 \in 1 .. n /\ 1 - 1 = 0
    OBVIOUS
  <2>2. g[1] = g[0] \o s[1]
    BY <1>1, <2>1
  <2>3. g[1] = a
    BY <1>1, <1>2, <2>2
  <2>. QED
    BY <1>2, <2>3
<1>4. ASSUME NEW k \in Nat, k \in Ks PROVE k + 1 \in Ks
  <2>. SUFFICES ASSUME (k + 1) + 1 <= n PROVE Same(g[(k + 1) + 1])
    OBVIOUS
  <2>1. /\ k + 1 \in 0 .. n /\ (k + 1) + 1 \in 1 .. n /\ (k + 1) + 1 \in 0 .. n
        /\ ((k + 1) + 1) - 1 = k + 1 /\ k + 1 <= n
    OBVIOUS
  <2>. HIDE DEF Same
  <2>2. PICK x \in Seq(Nat), y \in Seq(Nat) : x = g[k + 1] /\ y = s[(k + 1) + 1]
    <3>1. g[k + 1] \in Seq(Nat)
      BY <2>1
    <3>2. s[(k + 1) + 1] \in Seq(Nat)
      BY <2>1
    <3>. QED
      BY <3>1, <3>2, Zenon
  <2>3. g[(k + 1) + 1] = x \o y
    <3>1. g[(k + 1) + 1] = g[((k + 1) + 1) - 1] \o s[(k + 1) + 1]
      BY <1>1, <2>1
    <3>. QED
      BY <2>1, <2>2, <3>1
  <2>4. Same(x)
    BY <1>4, <2>1, <2>2
  <2>5. PICK z \in Seq(Nat) : z = x \o y /\ Len(z) = Len(x) + Len(y) /\ \A p \in 1 .. Len(x) : z[p] = x[p]
    <3>1. PICK z \in Seq(Nat) : z = x \o y
      BY ConcatProperties
    <3>2. Len(z) = Len(x) + Len(y) /\ \A p \in 1 .. Len(z) : z[p] = IF p <= Len(x) THEN x[p] ELSE y[p - Len(x)]
      BY <3>1, ConcatProperties
    <3>3. \A p \in 1 .. Len(x) : p \in 1 .. Len(z) /\ p <= Len(x)
      BY <3>2
    <3>4. \A p \in 1 .. Len(x) : z[p] = x[p]
      BY <3>2, <3>3
    <3>. QED
      BY <3>1, <3>2, <3>4
  <2>6. Same(z)
    BY <2>4, <2>5 DEF Same
  <2>. QED
    BY <2>3, <2>5, <2>6, Zenon
<1>. HIDE DEF Same
<1>5. Same(g[n])
  <2>1. n - 1 \in Nat /\ (n - 1) + 1 = n
    OBVIOUS
  <2>2. Nat \subseteq Ks
    <3>. HIDE DEF Ks
    <3>. QED
      BY <1>3, <1>4, Induct
  <2>3. n - 1 \in Ks
    BY <2>1, <2>2
  <2>. QED
    BY <2>1, <2>3
<1>. QED
  BY <1>1, <1>2, <1>5 DEF Same

\* In UTF-16 a text does not begin with two nulls.
LEMMA TextBegins ==
  ASSUME query \in DetectJob, query.kind = "bytes", query.encoding \in {"UTF-16BE", "UTF-16LE"},
         NEW f \in Seq(Nat), f = FlattenSeq(TextPieces), Len(f) >= 1
  PROVE  Len(f) >= 2 /\ ~(f[1] = 0 /\ f[2] = 0)
<1>1. PICK e \in {"UTF-16BE", "UTF-16LE"} : e = query.encoding
  OBVIOUS
<1>2. PICK text \in Seq(Chars) : text = query.text
  BY BytesJob
<1>3. PICK s \in Seq(Seq(Nat)) : s = TextPieces
  BY TextIsBytes
<1>4. Len(s) = Len(text) /\ \A k \in 1 .. Len(s) : s[k] = Encoded(e, text[k]) /\ text[k] \in Chars
  BY <1>1, <1>2, <1>3 DEF TextPieces
<1>5. \A k \in 1 .. Len(s) : Len(s[k]) >= 2 /\ ~(s[k][1] = 0 /\ s[k][2] = 0)
  BY <1>4, UnitIs, Zenon
<1>6. Len(s) >= 1
  <2>. SUFFICES ASSUME s = <<>> PROVE FALSE
    OBVIOUS
  <2>1. PICK g \in [0 .. Len(s) -> Seq(Nat)] : g[0] = <<>> /\ g[Len(s)] = FlattenSeq(s)
    BY FlattenRuns
  <2>2. Len(s) = 0 /\ Len(<<>>) = 0
    BY EmptySeq
  <2>3. f = <<>>
    BY <1>3, <2>1, <2>2
  <2>. QED
    BY <2>2, <2>3
<1>7. Len(f) >= 2 /\ f[1] = s[1][1] /\ f[2] = s[1][2]
  <2>1. \A k \in 1 .. Len(s) : Len(s[k]) >= 2
    BY <1>5
  <2>2. FlattenSeq(s) = f
    BY <1>3, Zenon
  <2>. QED
    BY <1>6, <2>1, <2>2, FlattenBegins, Zenon
<1>8. 1 \in 1 .. Len(s)
  BY <1>6
<1>. QED
  BY <1>5, <1>7, <1>8

\* s starts with h, and goes on with f.
Headed(s, h, f) ==
  /\ s \in Seq(Nat)
  /\ \A p \in 1 .. Len(h) : s[p] = h[p]
  /\ Len(h) < 4 => Len(f) >= 1 /\ s[Len(h) + 1] = f[1]
  /\ Len(h) < 3 => Len(f) >= 2 /\ s[Len(h) + 2] = f[2]

\* The sample, of what starts with a mark.
LEMMA HeadIs ==
  ASSUME query \in DetectJob, query.kind = "bytes", query.bom, NEW h \in Seq(Nat),
         Bom[query.encoding] = h, Len(h) <= 4, Len(SampleBytes) >= 4
  PROVE  Headed(SampleBytes, h, FlattenSeq(TextPieces))
<1>1. MarkBytes = h
  BY DEF MarkBytes
<1>2. MarkBytes \in Seq(Nat) /\ query.size \in Nat /\ FlattenSeq(TextPieces) \in Seq(Nat)
  BY <1>1, BytesJob, TextIsBytes
<1>3. /\ SampleBytes \in Seq(Nat)
      /\ Len(SampleBytes) <= Len(MarkBytes) + Len(FlattenSeq(TextPieces))
      /\ \A p \in 1 .. Len(SampleBytes) :
           SampleBytes[p] = IF p <= Len(MarkBytes) THEN MarkBytes[p]
                            ELSE FlattenSeq(TextPieces)[p - Len(MarkBytes)]
  BY <1>2, SampleIs
<1>4. ASSUME NEW s \in Seq(Nat), NEW f \in Seq(Nat), Len(s) <= Len(h) + Len(f), Len(s) >= 4,
             \A p \in 1 .. Len(s) : s[p] = IF p <= Len(h) THEN h[p] ELSE f[p - Len(h)]
      PROVE  Headed(s, h, f)
  <2>1. PICK n \in Nat : n = Len(h)
    OBVIOUS
  <2>2. PICK l \in Nat : l = Len(s) /\ l >= 4
    BY <1>4
  <2>3. ASSUME NEW p \in 1 .. n PROVE s[p] = h[p]
    <3>1. p \in 1 .. l /\ p <= n
      BY <2>1, <2>2
    <3>. QED
      BY <1>4, <2>1, <2>2, <3>1
  <2>4. ASSUME n < 4 PROVE Len(f) >= 1 /\ s[n + 1] = f[1]
    <3>1. n + 1 \in 1 .. l /\ ~(n + 1 <= n) /\ (n + 1) - n = 1
      BY <2>2, <2>4
    <3>2. s[n + 1] = f[(n + 1) - n]
      BY <1>4, <2>1, <2>2, <3>1
    <3>3. Len(f) >= 1
      BY <1>4, <2>1, <2>2, <2>4
    <3>. QED
      BY <3>1, <3>2, <3>3
  <2>5. ASSUME n < 3 PROVE Len(f) >= 2 /\ s[n + 2] = f[2]
    <3>1. n + 2 \in 1 .. l /\ ~(n + 2 <= n) /\ (n + 2) - n = 2
      BY <2>2, <2>5
    <3>2. s[n + 2] = f[(n + 2) - n]
      BY <1>4, <2>1, <2>2, <3>1
    <3>3. Len(f) >= 2
      BY <1>4, <2>1, <2>2, <2>5
    <3>. QED
      BY <3>1, <3>2, <3>3
  <2>. QED
    BY <2>1, <2>3, <2>4, <2>5 DEF Headed
<1>. QED
  BY <1>1, <1>2, <1>3, <1>4, Zenon

\* With its mark, the encoding is found.
LEMMA MarkedRight ==
  ASSUME query \in DetectJob, query.kind = "bytes", query.bom, Len(SampleBytes) >= 4
  PROVE  Encoding(SampleBytes) = <<query.encoding, TRUE>>
<1>2. /\ Bom["UTF-32BE"] = <<0, 0, 254, 255>> /\ Bom["UTF-32LE"] = <<255, 254, 0, 0>>
      /\ Bom["UTF-16BE"] = <<254, 255>> /\ Bom["UTF-16LE"] = <<255, 254>>
      /\ Bom["UTF-8"] = <<239, 187, 191>>
  BY DEF Bom
<1>3. query.encoding \in {"UTF-8", "UTF-16BE", "UTF-16LE", "UTF-32BE", "UTF-32LE"}
  BY BytesJob
<1>4. CASE query.encoding = "UTF-32BE"
  <2>1. <<0, 0, 254, 255>> \in Seq(Nat)
    OBVIOUS
  <2>2. PICK h \in Seq(Nat) : h = <<0, 0, 254, 255>>
    BY <2>1, Zenon
  <2>3. Bom[query.encoding] = h
    BY <1>2, <1>4, <2>2
  <2>4. Len(h) = 4 /\ Len(h) <= 4 /\ h[1] = 0 /\ h[2] = 0 /\ h[3] = 254 /\ h[4] = 255
    BY <2>2
  <2>5. Headed(SampleBytes, h, FlattenSeq(TextPieces))
    BY <2>3, <2>4, HeadIs, Zenon
  <2>6. PICK s \in Seq(Nat) : s = SampleBytes
    BY <2>5, Zenon DEF Headed
  <2>7. Len(s) >= 4 /\ s[1] = 0 /\ s[2] = 0 /\ s[3] = 254 /\ s[4] = 255
    BY <2>4, <2>5, <2>6 DEF Headed
  <2>9. Encoding(s) = <<"UTF-32BE", TRUE>>
    BY <2>7, ByMark
  <2>. QED
    BY <1>4, <2>6, <2>9, Zenon
<1>5. CASE query.encoding = "UTF-32LE"
  <2>1. <<255, 254, 0, 0>> \in Seq(Nat)
    OBVIOUS
  <2>2. PICK h \in Seq(Nat) : h = <<255, 254, 0, 0>>
    BY <2>1, Zenon
  <2>3. Bom[query.encoding] = h
    BY <1>2, <1>5, <2>2
  <2>4. Len(h) = 4 /\ Len(h) <= 4 /\ h[1] = 255 /\ h[2] = 254 /\ h[3] = 0 /\ h[4] = 0
    BY <2>2
  <2>5. Headed(SampleBytes, h, FlattenSeq(TextPieces))
    BY <2>3, <2>4, HeadIs, Zenon
  <2>6. PICK s \in Seq(Nat) : s = SampleBytes
    BY <2>5, Zenon DEF Headed
  <2>7. Len(s) >= 4 /\ s[1] = 255 /\ s[2] = 254 /\ s[3] = 0 /\ s[4] = 0
    BY <2>4, <2>5, <2>6 DEF Headed
  <2>9. Encoding(s) = <<"UTF-32LE", TRUE>>
    BY <2>7, ByMark
  <2>. QED
    BY <1>5, <2>6, <2>9, Zenon
<1>6. CASE query.encoding = "UTF-16BE"
  <2>1. <<254, 255>> \in Seq(Nat)
    OBVIOUS
  <2>2. PICK h \in Seq(Nat) : h = <<254, 255>>
    BY <2>1, Zenon
  <2>3. Bom[query.encoding] = h
    BY <1>2, <1>6, <2>2
  <2>4. Len(h) = 2 /\ Len(h) <= 4 /\ h[1] = 254 /\ h[2] = 255
    BY <2>2
  <2>5. Headed(SampleBytes, h, FlattenSeq(TextPieces))
    BY <2>3, <2>4, HeadIs, Zenon
  <2>6. PICK s \in Seq(Nat) : s = SampleBytes
    BY <2>5, Zenon DEF Headed
  <2>7. Len(s) >= 4 /\ s[1] = 254 /\ s[2] = 255
    BY <2>4, <2>5, <2>6 DEF Headed
  <2>9. Encoding(s) = <<"UTF-16BE", TRUE>>
    BY <2>7, ByMark
  <2>. QED
    BY <1>6, <2>6, <2>9, Zenon
<1>7. CASE query.encoding = "UTF-16LE"
  <2>1. <<255, 254>> \in Seq(Nat)
    OBVIOUS
  <2>2. PICK h \in Seq(Nat) : h = <<255, 254>>
    BY <2>1, Zenon
  <2>3. Bom[query.encoding] = h
    BY <1>2, <1>7, <2>2
  <2>4. Len(h) = 2 /\ Len(h) <= 4 /\ h[1] = 255 /\ h[2] = 254
    BY <2>2
  <2>5. Headed(SampleBytes, h, FlattenSeq(TextPieces))
    BY <2>3, <2>4, HeadIs, Zenon
  <2>6. PICK s \in Seq(Nat) : s = SampleBytes
    BY <2>5, Zenon DEF Headed
  <2>7. Len(s) >= 4 /\ s[1] = 255 /\ s[2] = 254
    BY <2>4, <2>5, <2>6 DEF Headed
  <2>8. ~(s[3] = 0 /\ s[4] = 0)
    <3>1. PICK f \in Seq(Nat) : f = FlattenSeq(TextPieces)
      BY TextIsBytes
    <3>2. Len(f) >= 1 /\ s[3] = f[1] /\ s[4] = f[2]
      BY <2>4, <2>5, <2>6, <3>1 DEF Headed
    <3>3. ~(f[1] = 0 /\ f[2] = 0)
      BY <1>7, <3>1, <3>2, TextBegins
    <3>. QED
      BY <3>2, <3>3
  <2>9. Encoding(s) = <<"UTF-16LE", TRUE>>
    BY <2>7, <2>8, ByMark
  <2>. QED
    BY <1>7, <2>6, <2>9, Zenon
<1>8. CASE query.encoding = "UTF-8"
  <2>1. <<239, 187, 191>> \in Seq(Nat)
    OBVIOUS
  <2>2. PICK h \in Seq(Nat) : h = <<239, 187, 191>>
    BY <2>1, Zenon
  <2>3. Bom[query.encoding] = h
    BY <1>2, <1>8, <2>2
  <2>4. Len(h) = 3 /\ Len(h) <= 4 /\ h[1] = 239 /\ h[2] = 187 /\ h[3] = 191
    BY <2>2
  <2>5. Headed(SampleBytes, h, FlattenSeq(TextPieces))
    BY <2>3, <2>4, HeadIs, Zenon
  <2>6. PICK s \in Seq(Nat) : s = SampleBytes
    BY <2>5, Zenon DEF Headed
  <2>7. Len(s) >= 4 /\ s[1] = 239 /\ s[2] = 187 /\ s[3] = 191
    BY <2>4, <2>5, <2>6 DEF Headed
  <2>9. Encoding(s) = <<"UTF-8", TRUE>>
    BY <2>7, ByMark
  <2>. QED
    BY <1>8, <2>6, <2>9, Zenon
<1>. QED
  BY <1>3, <1>4, <1>5, <1>6, <1>7, <1>8, Zenon

\* The sample, of what has no mark.
LEMMA PlainIs ==
  ASSUME query \in DetectJob, query.kind = "bytes", ~query.bom, NEW V,
         FlattenSeq(TextPieces) \in Seq(V)
  PROVE  /\ SampleBytes \in Seq(V)
         /\ Len(SampleBytes) <= Len(FlattenSeq(TextPieces))
         /\ \A p \in 1 .. Len(SampleBytes) : SampleBytes[p] = FlattenSeq(TextPieces)[p]
<1>1. MarkBytes = <<>>
  BY DEF MarkBytes
<1>2. MarkBytes \in Seq(V) /\ Len(MarkBytes) = 0 /\ query.size \in Nat
  BY <1>1, BytesJob, EmptySeq
<1>3. /\ SampleBytes \in Seq(V)
      /\ Len(SampleBytes) <= Len(MarkBytes) + Len(FlattenSeq(TextPieces))
      /\ \A p \in 1 .. Len(SampleBytes) :
           SampleBytes[p] = IF p <= Len(MarkBytes) THEN MarkBytes[p]
                            ELSE FlattenSeq(TextPieces)[p - Len(MarkBytes)]
  BY <1>2, SampleIs
<1>4. ASSUME NEW s \in Seq(V), NEW f \in Seq(V), Len(s) <= 0 + Len(f),
             \A p \in 1 .. Len(s) : s[p] = IF p <= 0 THEN MarkBytes[p] ELSE f[p - 0]
      PROVE  Len(s) <= Len(f) /\ \A p \in 1 .. Len(s) : s[p] = f[p]
  BY <1>4
<1>. QED
  BY <1>2, <1>3, <1>4, Zenon

\* What has no mark, and starts like none, has none.
LEMMA ByNoMark ==
  ASSUME NEW s \in Seq(Nat),
         Len(s) >= 1 => s[1] \notin {0, 239, 254, 255} \/ (s[1] = 0 /\ (Len(s) >= 4 => s[3] # 254))
  PROVE  \A m \in 1 .. 5 : ~Begins(s, Bom[Marks[m]])
<1>. DEFINE Is(m) == Begins(s, Bom[Marks[m]])
<1>2. /\ Is(1) <=> At(s, 0, 0, 254, 255)
      /\ Is(2) <=> At(s, 255, 254, 0, 0)
      /\ Is(3) <=> Len(s) >= 2 /\ s[1] = 254 /\ s[2] = 255
      /\ Is(4) <=> Len(s) >= 2 /\ s[1] = 255 /\ s[2] = 254
      /\ Is(5) <=> Len(s) >= 3 /\ s[1] = 239 /\ s[2] = 187 /\ s[3] = 191
  BY MarksAre
<1>3. \A m \in 1 .. 5 : m = 1 \/ m = 2 \/ m = 3 \/ m = 4 \/ m = 5
  OBVIOUS
<1>4. Len(s) \in Nat
  OBVIOUS
<1>. HIDE DEF Is
<1>5. ~Is(1) /\ ~Is(2) /\ ~Is(3) /\ ~Is(4) /\ ~Is(5)
  BY <1>2, <1>4 DEF At
<1>6. \A m \in 1 .. 5 : ~Is(m)
  BY <1>3, <1>5
<1>. QED
  BY <1>6 DEF Is

\* UTF-8 without a mark is found.
LEMMA Utf8Right ==
  ASSUME query \in DetectJob, query.kind = "bytes", ~query.bom, query.encoding = "UTF-8"
  PROVE  Encoding(SampleBytes) = <<"UTF-8", FALSE>>
<1>1. SampleBytes \in Seq(Utf8Bytes)
  BY TextIs8, PlainIs
<1>2. ASSUME NEW s \in Seq(Utf8Bytes)
      PROVE  s \in Seq(Nat) /\ (\A k \in DOMAIN s : s[k] \in Nat \ {0, 239, 254, 255})
  BY DEF Utf8Bytes
<1>3. ASSUME NEW s \in Seq(Utf8Bytes) PROVE Encoding(s) = <<"UTF-8", FALSE>>
  <2>1. s \in Seq(Nat) /\ (\A k \in DOMAIN s : s[k] \in Nat \ {0, 239, 254, 255})
    BY <1>2, Zenon
  <2>2. Len(s) >= 1 => s[1] \notin {0, 239, 254, 255}
    BY <2>1
  <2>3. \A m \in 1 .. 5 : ~Begins(s, Bom[Marks[m]])
    <3>1. Len(s) >= 1 => s[1] \notin {0, 239, 254, 255} \/ (s[1] = 0 /\ (Len(s) >= 4 => s[3] # 254))
      BY <2>2
    <3>. QED
      BY <2>1, <3>1, ByNoMark, Zenon
  <2>4. \A k \in DOMAIN s : s[k] # 0
    BY <2>1
  <2>5. Encoding(s) = ByNulls(s)
    BY <2>1, <2>3, UnmarkedIs, Zenon
  <2>. QED
    BY <2>4, <2>5, Zenon DEF ByNulls
<1>. QED
  BY <1>1, <1>3, Zenon

Nulls(s) == {k \in DOMAIN s : s[k] = 0}
Many(s) == Len(s) >= 8 /\ 20 * Cardinality(Nulls(s)) >= 9 * Len(s)

\* likelyUTF32 asks for many.
LEMMA LikelyIs ==
  ASSUME NEW s
  PROVE  LikelyUTF32(s) <=> Many(s)
<1>1. {k \in DOMAIN s : s[k] = 0 /\ TRUE} = Nulls(s)
  BY DEF Nulls
<1>. QED
  BY <1>1, Zenon DEF LikelyUTF32, Zeroes, Many

\* The sample, in UTF-16 without a mark.
LEMMA Sample16 ==
  ASSUME query \in DetectJob, query.kind = "bytes", ~query.bom,
         query.encoding \in {"UTF-16BE", "UTF-16LE"}, Clear
  PROVE  /\ SampleBytes \in Seq(Nat)
         /\ \A p \in 1 .. Len(SampleBytes) : Fits(query.encoding, ((p - 1) % 2) + 1, SampleBytes[p])
<1>1. /\ FlattenSeq(TextPieces) \in Seq(Nat)
      /\ \A p \in 1 .. Len(FlattenSeq(TextPieces)) :
           Fits(query.encoding, ((p - 1) % 2) + 1, FlattenSeq(TextPieces)[p])
  BY TextIs16, TextIsBytes
<1>2. /\ SampleBytes \in Seq(Nat)
      /\ Len(SampleBytes) <= Len(FlattenSeq(TextPieces))
      /\ \A p \in 1 .. Len(SampleBytes) : SampleBytes[p] = FlattenSeq(TextPieces)[p]
  BY <1>1, PlainIs
<1>3. ASSUME NEW s \in Seq(Nat), NEW f \in Seq(Nat), NEW e, Len(s) <= Len(f),
             \A p \in 1 .. Len(s) : s[p] = f[p],
             \A p \in 1 .. Len(f) : Fits(e, ((p - 1) % 2) + 1, f[p])
      PROVE  \A p \in 1 .. Len(s) : Fits(e, ((p - 1) % 2) + 1, s[p])
  <2>. SUFFICES ASSUME NEW p \in 1 .. Len(s) PROVE Fits(e, ((p - 1) % 2) + 1, s[p])
    OBVIOUS
  <2>1. p \in 1 .. Len(f)
    BY <1>3
  <2>. QED
    BY <1>3, <2>1, Zenon
<1>. QED
  BY <1>1, <1>2, <1>3, Zenon

\* ... and in UTF-32.
LEMMA Sample32 ==
  ASSUME query \in DetectJob, query.kind = "bytes", ~query.bom,
         query.encoding \in {"UTF-32BE", "UTF-32LE"}
  PROVE  /\ SampleBytes \in Seq(Nat)
         /\ \A k \in Units(Len(SampleBytes)) :
              Quad(query.encoding, SampleBytes[k], SampleBytes[k + 1], SampleBytes[k + 2], SampleBytes[k + 3])
         /\ query.encoding = "UTF-32BE" /\ Len(SampleBytes) >= 4 /\ query.text[1] # "astral"
              => SampleBytes[1] = 0 /\ SampleBytes[2] = 0 /\ SampleBytes[3] # 254
<1>1. PICK f \in Seq(Nat) : f = FlattenSeq(TextPieces)
  BY TextIsBytes
<1>2. /\ SampleBytes \in Seq(Nat)
      /\ Len(SampleBytes) <= Len(FlattenSeq(TextPieces))
      /\ \A p \in 1 .. Len(SampleBytes) : SampleBytes[p] = FlattenSeq(TextPieces)[p]
  BY <1>1, PlainIs
<1>3. PICK s \in Seq(Nat) : s = SampleBytes
  BY <1>2
<1>4. Len(s) <= Len(f) /\ \A p \in 1 .. Len(s) : s[p] = f[p]
  BY <1>1, <1>2, <1>3, Zenon
<1>5. PICK e : e = query.encoding
  OBVIOUS
<1>6. /\ \A k \in Units(Len(f)) : Quad(e, f[k], f[k + 1], f[k + 2], f[k + 3])
      /\ e = "UTF-32BE" /\ Len(f) >= 4 /\ query.text[1] # "astral" => f[1] = 0 /\ f[2] = 0 /\ f[3] # 254
  BY <1>1, <1>5, TextIs32, Zenon
<1>7. ASSUME NEW k \in Units(Len(s)) PROVE Quad(e, s[k], s[k + 1], s[k + 2], s[k + 3])
  <2>1. PICK l \in Nat, m \in Nat : l = Len(s) /\ m = Len(f) /\ l <= m
    BY <1>4
  <2>2. k \in 1 .. l /\ k % 4 = 1 /\ k + 3 <= l
    BY <2>1 DEF Units
  <2>3. k \in Units(m)
    BY <2>1, <2>2 DEF Units
  <2>4. k \in 1 .. l /\ k + 1 \in 1 .. l /\ k + 2 \in 1 .. l /\ k + 3 \in 1 .. l
    BY <2>2
  <2>5. s[k] = f[k] /\ s[k + 1] = f[k + 1] /\ s[k + 2] = f[k + 2] /\ s[k + 3] = f[k + 3]
    BY <1>4, <2>1, <2>4
  <2>6. Quad(e, f[k], f[k + 1], f[k + 2], f[k + 3])
    BY <1>6, <2>1, <2>3
  <2>. QED
    BY <2>5, <2>6
<1>8. ASSUME e = "UTF-32BE", Len(s) >= 4, query.text[1] # "astral"
      PROVE  s[1] = 0 /\ s[2] = 0 /\ s[3] # 254
  <2>1. Len(f) >= 4 /\ 1 \in 1 .. Len(s) /\ 2 \in 1 .. Len(s) /\ 3 \in 1 .. Len(s)
    BY <1>4, <1>8
  <2>. QED
    BY <1>4, <1>6, <1>8, <2>1
<1>. QED
  BY <1>3, <1>5, <1>7, <1>8, Zenon

\* Two numbers of nulls, of which one is none, tell the order of two bytes,
LEMMA Order16 ==
  ASSUME NEW s \in Seq(Nat), Nulls(s) # {}
  PROVE  /\ (\A p \in 1 .. Len(s) : p % 2 = 0 => s[p] # 0) => UTF16Order(s) = "UTF-16BE"
         /\ (\A p \in 1 .. Len(s) : p % 2 = 1 => s[p] # 0) => UTF16Order(s) = "UTF-16LE"
<1>. DEFINE even == {k \in DOMAIN s : s[k] = 0 /\ (k - 1) % 2 = 0}
            odd == {k \in DOMAIN s : s[k] = 0 /\ (k - 1) % 2 = 1}
<1>1. UTF16Order(s) = IF Cardinality(even) > Cardinality(odd) THEN "UTF-16BE" ELSE "UTF-16LE"
  BY Zenon DEF UTF16Order, Zeroes
<1>2. DOMAIN s = 1 .. Len(s) /\ Len(s) \in Nat
  OBVIOUS
<1>3. IsFiniteSet(1 .. Len(s))
  BY <1>2, FS_Interval
<1>4. even \subseteq 1 .. Len(s) /\ odd \subseteq 1 .. Len(s)
  BY <1>2
<1>5. IsFiniteSet(even) /\ IsFiniteSet(odd)
  BY <1>3, <1>4, FS_Subset
<1>6. Cardinality(even) \in Nat /\ Cardinality(odd) \in Nat
      /\ (Cardinality(even) = 0 <=> even = {}) /\ (Cardinality(odd) = 0 <=> odd = {})
  BY <1>5, FS_CardinalityType, FS_EmptySet
<1>7. \A p \in 1 .. Len(s) : /\ (p - 1) % 2 = 1 <=> p % 2 = 0
                             /\ (p - 1) % 2 = 0 <=> p % 2 = 1
                             /\ p % 2 = 0 \/ p % 2 = 1
  BY <1>2
<1>8. ASSUME \A p \in 1 .. Len(s) : p % 2 = 0 => s[p] # 0
      PROVE  odd = {} /\ even # {}
  BY <1>2, <1>7, <1>8 DEF Nulls
<1>9. ASSUME \A p \in 1 .. Len(s) : p % 2 = 1 => s[p] # 0
      PROVE  even = {}
  BY <1>2, <1>7, <1>9 DEF Nulls
<1>. HIDE DEF even, odd
<1>10. ASSUME \A p \in 1 .. Len(s) : p % 2 = 0 => s[p] # 0
       PROVE  UTF16Order(s) = "UTF-16BE"
  <2>1. Cardinality(even) > Cardinality(odd)
    BY <1>6, <1>8, <1>10
  <2>. QED
    BY <1>1, <2>1
<1>11. ASSUME \A p \in 1 .. Len(s) : p % 2 = 1 => s[p] # 0
       PROVE  UTF16Order(s) = "UTF-16LE"
  <2>1. ~(Cardinality(even) > Cardinality(odd))
    BY <1>6, <1>9, <1>11
  <2>. QED
    BY <1>1, <2>1
<1>. QED
  BY <1>10, <1>11

\* ... and of four.
LEMMA Order32 ==
  ASSUME NEW s \in Seq(Nat), Len(s) >= 8
  PROVE  /\ s[1] = 0 /\ s[2] = 0 /\ (\A k \in Units(Len(s)) : ~(s[k + 2] = 0 /\ s[k + 3] = 0))
              => UTF32Order(s) = "UTF-32BE"
         /\ (\A k \in Units(Len(s)) : ~(s[k] = 0 /\ s[k + 1] = 0)) => UTF32Order(s) = "UTF-32LE"
<1>. DEFINE units == {k \in DOMAIN s : k % 4 = 1 /\ k + 3 <= Len(s)}
            high == {k \in units : s[k] = 0 /\ s[k + 1] = 0}
            low == {k \in units : s[k + 2] = 0 /\ s[(k + 2) + 1] = 0}
<1>1. UTF32Order(s) = IF Cardinality(high) > Cardinality(low) THEN "UTF-32BE" ELSE "UTF-32LE"
  BY Zenon DEF UTF32Order
<1>2. DOMAIN s = 1 .. Len(s) /\ Len(s) \in Nat
  OBVIOUS
<1>3. IsFiniteSet(1 .. Len(s))
  BY <1>2, FS_Interval
<1>4. high \subseteq 1 .. Len(s) /\ low \subseteq 1 .. Len(s)
  BY <1>2
<1>5. IsFiniteSet(high) /\ IsFiniteSet(low)
  BY <1>3, <1>4, FS_Subset
<1>6. Cardinality(high) \in Nat /\ Cardinality(low) \in Nat
      /\ (Cardinality(high) = 0 <=> high = {}) /\ (Cardinality(low) = 0 <=> low = {})
  BY <1>5, FS_CardinalityType, FS_EmptySet
<1>7. units = Units(Len(s))
  BY <1>2 DEF Units
<1>8. \A k \in Units(Len(s)) : (k + 2) + 1 = k + 3
  BY <1>2 DEF Units
<1>9. 1 \in Units(Len(s)) /\ 1 + 1 = 2
  BY <1>2 DEF Units
<1>. HIDE DEF units
<1>10. ASSUME s[1] = 0 /\ s[2] = 0, \A k \in Units(Len(s)) : ~(s[k + 2] = 0 /\ s[k + 3] = 0)
       PROVE  UTF32Order(s) = "UTF-32BE"
  <2>1. 1 \in high
    BY <1>7, <1>9, <1>10
  <2>2. low = {}
    BY <1>7, <1>8, <1>10
  <2>. HIDE DEF high, low
  <2>3. Cardinality(high) > Cardinality(low)
    BY <1>6, <2>1, <2>2
  <2>. QED
    BY <1>1, <2>3
<1>11. ASSUME \A k \in Units(Len(s)) : ~(s[k] = 0 /\ s[k + 1] = 0)
       PROVE  UTF32Order(s) = "UTF-32LE"
  <2>1. high = {}
    BY <1>7, <1>11
  <2>. HIDE DEF high, low
  <2>2. ~(Cardinality(high) > Cardinality(low))
    BY <1>6, <2>1
  <2>. QED
    BY <1>1, <2>2
<1>. QED
  BY <1>10, <1>11

\* What has no mark, but nulls, is told by how many they are, and where.
LEMMA NullsTell ==
  ASSUME NEW s \in Seq(Nat), Nulls(s) # {}, \A m \in 1 .. 5 : ~Begins(s, Bom[Marks[m]])
  PROVE  Encoding(s) = IF Many(s) THEN <<UTF32Order(s), FALSE>> ELSE <<UTF16Order(s), FALSE>>
<1>1. ~(\A k \in DOMAIN s : s[k] # 0)
  BY DEF Nulls
<1>2. Encoding(s) = ByNulls(s)
  BY UnmarkedIs, Zenon
<1>. QED
  BY <1>1, <1>2, LikelyIs, Zenon DEF ByNulls

\* Without its mark UTF-16 is found if there are nulls, not many, and none in a low byte.
LEMMA Right16 ==
  ASSUME NEW s \in Seq(Nat), NEW e \in {"UTF-16BE", "UTF-16LE"}, Nulls(s) # {}, ~Many(s),
         \A p \in 1 .. Len(s) : Fits(e, ((p - 1) % 2) + 1, s[p])
  PROVE  Encoding(s) = <<e, FALSE>>
<1>1. DOMAIN s = 1 .. Len(s) /\ Len(s) \in Nat
  OBVIOUS
<1>2. \A p \in 1 .. Len(s) : /\ p % 2 = 1 => ((p - 1) % 2) + 1 = 1
                             /\ p % 2 = 0 => ((p - 1) % 2) + 1 = 2
  BY <1>1, WhereIs
<1>3. ASSUME \A m \in 1 .. 5 : ~Begins(s, Bom[Marks[m]])
      PROVE  Encoding(s) = <<UTF16Order(s), FALSE>>
  BY <1>3, NullsTell, Zenon
<1>4. \A p \in 1 .. Len(s) : /\ p % 2 = 1 => Fits(e, 1, s[p])
                             /\ p % 2 = 0 => Fits(e, 2, s[p])
  BY <1>2
<1>6. CASE e = "UTF-16BE"
  <2>1. \A p \in 1 .. Len(s) : /\ p % 2 = 1 => s[p] \in {0, 78}
                               /\ p % 2 = 0 => s[p] \in {65, 45}
    BY <1>4, <1>6 DEF Fits
  <2>2. (Len(s) >= 1 => s[1] \in {0, 78}) /\ (Len(s) >= 4 => s[3] \in {0, 78})
    <3>1. 1 % 2 = 1 /\ 3 % 2 = 1
      OBVIOUS
    <3>2. (Len(s) >= 1 => 1 \in 1 .. Len(s)) /\ (Len(s) >= 4 => 3 \in 1 .. Len(s))
      BY <1>1
    <3>. QED
      BY <2>1, <3>1, <3>2
  <2>3. \A m \in 1 .. 5 : ~Begins(s, Bom[Marks[m]])
    <3>1. Len(s) >= 1 => s[1] \notin {0, 239, 254, 255} \/ (s[1] = 0 /\ (Len(s) >= 4 => s[3] # 254))
      BY <1>1, <2>2
    <3>. QED
      BY <3>1, ByNoMark, Zenon
  <2>4. UTF16Order(s) = "UTF-16BE"
    <3>1. ASSUME NEW p \in 1 .. Len(s), p % 2 = 0 PROVE s[p] # 0
      <4>1. s[p] \in {65, 45}
        BY <2>1, <3>1, Zenon
      <4>. QED
        BY <4>1
    <3>. QED
      BY <3>1, Order16, Zenon
  <2>. QED
    BY <1>3, <1>6, <2>3, <2>4, Zenon
<1>7. CASE e = "UTF-16LE"
  <2>1. \A p \in 1 .. Len(s) : p % 2 = 1 => s[p] \in {65, 45}
    BY <1>4, <1>7 DEF Fits
  <2>2. Len(s) >= 1 => s[1] \in {65, 45}
    <3>1. 1 % 2 = 1 /\ (Len(s) >= 1 => 1 \in 1 .. Len(s))
      BY <1>1
    <3>. QED
      BY <2>1, <3>1
  <2>3. \A m \in 1 .. 5 : ~Begins(s, Bom[Marks[m]])
    <3>1. Len(s) >= 1 => s[1] \notin {0, 239, 254, 255} \/ (s[1] = 0 /\ (Len(s) >= 4 => s[3] # 254))
      BY <1>1, <2>2
    <3>. QED
      BY <3>1, ByNoMark, Zenon
  <2>4. UTF16Order(s) = "UTF-16LE"
    <3>1. ASSUME NEW p \in 1 .. Len(s), p % 2 = 1 PROVE s[p] # 0
      <4>1. s[p] \in {65, 45}
        BY <2>1, <3>1, Zenon
      <4>. QED
        BY <4>1
    <3>. QED
      BY <3>1, Order16, Zenon
  <2>. QED
    BY <1>3, <1>7, <2>3, <2>4, Zenon
<1>. QED
  BY <1>6, <1>7

\* ... and UTF-32 if there are many.
LEMMA Right32 ==
  ASSUME NEW s \in Seq(Nat), NEW e \in {"UTF-32BE", "UTF-32LE"}, Nulls(s) # {}, Many(s),
         \A k \in Units(Len(s)) : Quad(e, s[k], s[k + 1], s[k + 2], s[k + 3]),
         e = "UTF-32BE" => s[1] = 0 /\ s[2] = 0 /\ s[3] # 254
  PROVE  Encoding(s) = <<e, FALSE>>
<1>1. Len(s) >= 8
  BY DEF Many
<1>2. ASSUME \A m \in 1 .. 5 : ~Begins(s, Bom[Marks[m]])
      PROVE  Encoding(s) = <<UTF32Order(s), FALSE>>
  BY <1>2, NullsTell, Zenon
<1>3. CASE e = "UTF-32BE"
  <2>1. Len(s) >= 1 => s[1] \notin {0, 239, 254, 255} \/ (s[1] = 0 /\ (Len(s) >= 4 => s[3] # 254))
    BY <1>3
  <2>2. \A m \in 1 .. 5 : ~Begins(s, Bom[Marks[m]])
    BY <2>1, ByNoMark, Zenon
  <2>3. ASSUME NEW k \in Units(Len(s)) PROVE ~(s[k + 2] = 0 /\ s[k + 3] = 0)
    <3>1. Quad("UTF-32BE", s[k], s[k + 1], s[k + 2], s[k + 3])
      BY <1>3, Zenon
    <3>. QED
      BY <3>1, Zenon DEF Quad
  <2>4. UTF32Order(s) = "UTF-32BE"
    BY <1>1, <1>3, <2>3, Order32, Zenon
  <2>. QED
    BY <1>2, <1>3, <2>2, <2>4, Zenon
<1>4. CASE e = "UTF-32LE"
  <2>1. 1 \in Units(Len(s)) /\ 1 + 2 = 3
    BY <1>1 DEF Units
  <2>2. s[1] \notin {239, 254, 255} /\ s[3] # 254
    <3>1. Quad("UTF-32LE", s[1], s[1 + 1], s[1 + 2], s[1 + 3])
      BY <1>4, <2>1, Zenon
    <3>2. s[1] \notin {239, 254, 255} /\ s[1 + 2] # 254
      BY <3>1, Zenon DEF Quad
    <3>. QED
      BY <2>1, <3>2
  <2>3. Len(s) >= 1 => s[1] \notin {0, 239, 254, 255} \/ (s[1] = 0 /\ (Len(s) >= 4 => s[3] # 254))
    BY <2>2
  <2>4. \A m \in 1 .. 5 : ~Begins(s, Bom[Marks[m]])
    BY <2>3, ByNoMark, Zenon
  <2>5. ASSUME NEW k \in Units(Len(s)) PROVE ~(s[k] = 0 /\ s[k + 1] = 0)
    <3>1. Quad("UTF-32LE", s[k], s[k + 1], s[k + 2], s[k + 3])
      BY <1>4, Zenon
    <3>. QED
      BY <3>1, Zenon DEF Quad
  <2>6. UTF32Order(s) = "UTF-32LE"
    BY <1>1, <2>5, Order32, Zenon
  <2>. QED
    BY <1>2, <1>4, <2>4, <2>6, Zenon
<1>. QED
  BY <1>3, <1>4

\* The encoding told is detectEncoding's, of the bytes of a job.
ToldInv ==
  /\ step = "bytes" => query \in DetectJob /\ query.kind = "bytes"
  /\ told # Nothing => /\ query \in DetectJob /\ query.kind = "bytes"
                       /\ told = Encoding(SampleBytes)

\* It holds at first,
LEMMA ToldStarts == InspectInit => ToldInv
<1>1. ASSUME DetectIdle PROVE ToldInv
  BY <1>1 DEF DetectIdle, ToldInv
<1>2. ASSUME DetectInit PROVE ToldInv
  BY <1>2 DEF DetectInit, ToldInv
<1>. QED
  BY <1>1, <1>2 DEF InspectInit

\* What is asked does not change, so the sample does not.
LEMMA SampleStays ==
  ASSUME query' = query
  PROVE  Encoding(SampleBytes)' = Encoding(SampleBytes)
<1>1. SampleBytes' = SampleBytes
  BY DEF SampleBytes
<1>. QED
  BY <1>1 DEF Encoding, Begins, LikelyUTF32, UTF16Order, UTF32Order, Zeroes

\* ... every step keeps it,
LEMMA ToldKeeps == ToldInv /\ [InspectNext]_<<sampleVars, detectVars>> => ToldInv'
<1>. SUFFICES ASSUME ToldInv, DetectNext \/ UNCHANGED detectVars PROVE ToldInv'
  BY DEF InspectNext
<1>1. CASE TellEncoding
  <2>1. /\ query' = query /\ step = "bytes" /\ step' # "bytes"
        /\ told' = told \/ told' = Encoding(SampleBytes)
    BY <1>1 DEF TellEncoding
  <2>. QED
    BY <2>1, SampleStays DEF ToldInv
<1>2. CASE TakeRows \/ Meet \/ Compare
  <2>1. query' = query /\ told' = told /\ (step' = step \/ step' # "bytes")
    BY <1>2 DEF TakeRows, Meet, Compare
  <2>. QED
    BY <2>1, SampleStays DEF ToldInv
<1>3. CASE UNCHANGED detectVars
  <2>1. query' = query /\ told' = told /\ step' = step
    BY <1>3 DEF detectVars
  <2>. QED
    BY <2>1, SampleStays DEF ToldInv
<1>. QED
  BY <1>1, <1>2, <1>3 DEF DetectNext, DetectEnded

\* ... and the encoding told is right by it.
LEMMA ToldFollows == ToldInv => EncodingIsRight
<1>. SUFFICES ASSUME ToldInv, told # Nothing PROVE EncodingIsRight
  BY DEF EncodingIsRight
<1>. DEFINE nulls == Cardinality(Nulls(SampleBytes))
<1>1. query \in DetectJob /\ query.kind = "bytes" /\ told = Encoding(SampleBytes)
  BY DEF ToldInv
<1>2. query.bom \in BOOLEAN
  BY <1>1, BytesJob, Zenon
<1>3. ASSUME query.bom, Len(SampleBytes) >= 4 PROVE told = <<query.encoding, query.bom>>
  <2>1. told = <<query.encoding, TRUE>> /\ query.bom = TRUE
    BY <1>1, <1>2, <1>3, MarkedRight, Zenon
  <2>. QED
    BY <2>1, Zenon
<1>4. ASSUME ~query.bom, query.encoding = "UTF-8" PROVE told = <<query.encoding, query.bom>>
  <2>1. told = <<"UTF-8", FALSE>> /\ query.bom = FALSE
    BY <1>1, <1>2, <1>4, Utf8Right, Zenon
  <2>. QED
    BY <1>4, <2>1, Zenon
<1>5. ASSUME ~query.bom, query.encoding \in {"UTF-16BE", "UTF-16LE"}, nulls > 0,
             ~Many(SampleBytes), Clear
      PROVE  told = <<query.encoding, query.bom>>
  <2>1. /\ SampleBytes \in Seq(Nat)
        /\ \A p \in 1 .. Len(SampleBytes) : Fits(query.encoding, ((p - 1) % 2) + 1, SampleBytes[p])
    BY <1>1, <1>5, Sample16
  <2>2. Nulls(SampleBytes) # {}
    BY <1>5, FS_EmptySet
  <2>3. told = <<query.encoding, FALSE>> /\ query.bom = FALSE
    BY <1>1, <1>2, <1>5, <2>1, <2>2, Right16, Zenon
  <2>. QED
    BY <2>3, Zenon
<1>6. ASSUME ~query.bom, query.encoding \in {"UTF-32BE", "UTF-32LE"}, Many(SampleBytes),
             query.encoding = "UTF-32LE" \/ query.text[1] # "astral"
      PROVE  told = <<query.encoding, query.bom>>
  <2>1. /\ SampleBytes \in Seq(Nat)
        /\ \A k \in Units(Len(SampleBytes)) :
             Quad(query.encoding, SampleBytes[k], SampleBytes[k + 1], SampleBytes[k + 2], SampleBytes[k + 3])
        /\ query.encoding = "UTF-32BE" /\ Len(SampleBytes) >= 4 /\ query.text[1] # "astral"
             => SampleBytes[1] = 0 /\ SampleBytes[2] = 0 /\ SampleBytes[3] # 254
    BY <1>1, <1>6, Sample32
  <2>2. PICK s \in Seq(Nat) : s = SampleBytes
    BY <2>1, Zenon
  <2>3. Len(s) \in Nat /\ Len(s) >= 8 /\ 20 * Cardinality(Nulls(s)) >= 9 * Len(s)
    BY <1>6, <2>2 DEF Many
  <2>4. Nulls(s) # {}
    <3>. SUFFICES ASSUME Nulls(s) = {} PROVE FALSE
      OBVIOUS
    <3>1. Cardinality(Nulls(s)) = 0
      BY FS_EmptySet
    <3>. QED
      BY <2>3, <3>1
  <2>5. query.encoding = "UTF-32BE" => s[1] = 0 /\ s[2] = 0 /\ s[3] # 254
    <3>1. Len(s) >= 4 /\ "UTF-32BE" # "UTF-32LE"
      BY <2>3
    <3>. QED
      BY <1>6, <2>1, <2>2, <3>1, Zenon
  <2>6. told = <<query.encoding, FALSE>> /\ query.bom = FALSE
    BY <1>1, <1>2, <1>6, <2>1, <2>2, <2>4, <2>5, Right32, Zenon
  <2>. QED
    BY <2>6, Zenon
<1>. DEFINE clear == \/ query.encoding = "UTF-8"
                     \/ query.encoding = "UTF-32LE" /\ Many(SampleBytes)
                     \/ query.encoding = "UTF-32BE" /\ Many(SampleBytes) /\ query.text[1] # "astral"
                     \/ /\ query.encoding \in {"UTF-16BE", "UTF-16LE"}
                        /\ nulls > 0 /\ ~Many(SampleBytes) /\ Clear
<1>7. ASSUME IF query.bom THEN Len(SampleBytes) >= 4 ELSE clear
      PROVE  told = <<query.encoding, query.bom>>
  <2>1. CASE query.bom
    BY <1>3, <1>7, <2>1, Zenon
  <2>2. CASE ~query.bom
    <3>1. clear
      BY <1>7, <2>2
    <3>2. /\ query.encoding = "UTF-32LE" => query.encoding \in {"UTF-32BE", "UTF-32LE"}
          /\ query.encoding = "UTF-32BE" => query.encoding \in {"UTF-32BE", "UTF-32LE"}
      OBVIOUS
    <3>. QED
      BY <1>4, <1>5, <1>6, <2>2, <3>1, <3>2, Zenon
  <2>. QED
    BY <2>1, <2>2
<1>8. (IF query.bom THEN Len(SampleBytes) >= 4 ELSE clear) => told = <<query.encoding, query.bom>>
  <2>. HIDE DEF clear
  <2>. QED
    BY <1>7
<1>. QED
  BY <1>8, Zenon DEF EncodingIsRight, Nulls, Many, Clear

\* The encoding told is the one the text is in, by its mark or by its nulls.
THEOREM EncodingRight == InspectSpec => []EncodingIsRight
  BY ToldStarts, ToldKeeps, ToldFollows, PTL DEF InspectSpec
==============================================================================
