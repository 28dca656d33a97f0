------------------------------- MODULE Progress -------------------------------
(***************************************************************************)
(* The progress of one transfer (internal/transfer/progress.go): workers   *)
(* add what they moved to a shared total and report the sum they got;      *)
(* Observe keeps the largest sum seen; a goroutine prints it at every tick *)
(* until the transfer returns and Finish prints the last line.             *)
(*                                                                         *)
(* A step is one atomic operation, one channel operation or one print.     *)
(***************************************************************************)
EXTENDS Integers, Sequences, FiniteSets

CONSTANTS
  Worker,   \* the goroutines that move data
  Pieces,   \* the pieces each worker may move
  MaxTicks  \* bound: ticks of the timer

ASSUME PiecesAssumption == Pieces \in Nat /\ MaxTicks \in Nat
ASSUME WorkerAssumption == IsFiniteSet(Worker)

VARIABLES
  interactive,  \* both outputs are terminals
  main,     \* where the goroutine of the transfer is
  worker,   \* per worker: where it is, pieces moved, and two locals of Observe
  total,    \* the atomic sum of the workers
  current,  \* progressReporter.current
  done,     \* the channel done is closed
  loop,     \* where the printing goroutine is
  shown,    \* the value it has loaded
  tick,     \* a tick waits in the ticker's channel
  ticks,    \* ticks so far
  out       \* the lines printed

vars == <<interactive, main, worker, total, current, done, loop, shown, tick, ticks, out>>

Line(status, bytes) == [status |-> status, bytes |-> bytes]
NewLine == Line("newline", 0)

Init ==
  /\ interactive \in BOOLEAN
  /\ main = "transfer"
  /\ worker = [w \in Worker |-> [at |-> "move", moved |-> 0, sum |-> 0, seen |-> 0]]
  /\ total = 0
  /\ current = 0
  /\ done = FALSE
  /\ loop = "select"
  /\ shown = 0
  /\ tick = FALSE
  /\ ticks = 0
  /\ out = <<>>

------------------------------------------------------------------------------
(* A worker.                                                                 *)

Goto(w, at) == [worker EXCEPT ![w].at = at]

\* A read gave data: total.Add, whose result is what will be reported.
Move(w) ==
  /\ worker[w].at = "move"
  /\ worker[w].moved < Pieces
  /\ total' = total + 1
  /\ worker' = [worker EXCEPT ![w] = [at |-> "load", moved |-> @.moved + 1,
                                      sum |-> total + 1, seen |-> 0]]
  /\ UNCHANGED <<interactive, main, current, done, loop, shown, tick, ticks, out>>

\* The worker is through with its range, or gives up.
Return(w) ==
  /\ worker[w].at = "move"
  /\ worker' = Goto(w, "returned")
  /\ UNCHANGED <<interactive, main, total, current, done, loop, shown, tick, ticks, out>>

\* Observe: load, and return when the sum is no news.
Load(w) ==
  /\ worker[w].at = "load"
  /\ worker' = [worker EXCEPT ![w].seen = current,
                              ![w].at = IF worker[w].sum <= current THEN "move" ELSE "swap"]
  /\ UNCHANGED <<interactive, main, total, current, done, loop, shown, tick, ticks, out>>

\* (fault) the value is stored without comparing again.
Unchanged_Assumed(w) == TRUE

Unchanged(w) == current = worker[w].seen

AfterMiss == "load"

\* Observe: compare and swap, or load again.
Swap(w) ==
  /\ worker[w].at = "swap"
  /\ IF Unchanged(w)
     THEN current' = worker[w].sum /\ worker' = Goto(w, "move")
     ELSE worker' = Goto(w, AfterMiss) /\ UNCHANGED current
  /\ UNCHANGED <<interactive, main, total, done, loop, shown, tick, ticks, out>>

------------------------------------------------------------------------------
(* The goroutine of the transfer.                                            *)

AllReturned == \A w \in Worker : worker[w].at = "returned"

\* The transfer returns and the deferred Finish closes done.
CloseDone ==
  /\ main = "transfer"
  /\ AllReturned
  /\ done' = TRUE
  /\ main' = "print"
  /\ UNCHANGED <<interactive, worker, total, current, loop, shown, tick, ticks, out>>

\* Finish prints the last line; on a terminal it only ends the line that the
\* loop keeps writing over, and tells no count.
PrintDone ==
  /\ main = "print"
  /\ out' = Append(out, IF interactive THEN NewLine ELSE Line("done", current))
  /\ main' = "finished"
  /\ UNCHANGED <<interactive, worker, total, current, done, loop, shown, tick, ticks>>

------------------------------------------------------------------------------
(* The printing goroutine.                                                   *)

TakeTick ==
  /\ loop = "select"
  /\ tick
  /\ tick' = FALSE
  /\ shown' = current
  /\ loop' = "print"
  /\ UNCHANGED <<interactive, main, worker, total, current, done, ticks, out>>

\* (fault) break, in a select, does not leave the loop.
AfterDone_Break == "select"

AfterDone == "returned"

TakeDone ==
  /\ loop = "select"
  /\ done
  /\ loop' = AfterDone
  /\ UNCHANGED <<interactive, main, worker, total, current, done, shown, tick, ticks, out>>

PrintLine ==
  /\ loop = "print"
  /\ out' = Append(out, Line("progress", shown))
  /\ loop' = "select"
  /\ UNCHANGED <<interactive, main, worker, total, current, done, shown, tick, ticks>>

\* The timer; a tick nobody took is dropped.
Tick ==
  /\ loop # "returned"
  /\ ticks < MaxTicks
  /\ ticks' = ticks + 1
  /\ tick' = TRUE
  /\ UNCHANGED <<interactive, main, worker, total, current, done, loop, shown, out>>

Work(w) == Move(w) \/ Return(w) \/ Load(w) \/ Swap(w)
Loop == TakeTick \/ TakeDone \/ PrintLine

Ended == main = "finished" /\ loop = "returned" /\ UNCHANGED vars

Next ==
  \/ \E w \in Worker : Work(w)
  \/ CloseDone \/ PrintDone
  \/ Loop \/ Tick
  \/ Ended

Spec == Init /\ [][Next]_vars

\* Every goroutine is scheduled; a worker's transfer ends; and select, which
\* picks among the ready cases at random, does not pass done over for ever.
Fairness ==
  /\ \A w \in Worker : WF_vars(Work(w)) /\ SF_vars(Return(w))
  /\ WF_vars(CloseDone \/ PrintDone)
  /\ WF_vars(Loop)
  /\ SF_vars(TakeDone)

------------------------------------------------------------------------------
(* Properties.                                                               *)

\* The shapes of the variables; nothing is reported that was not moved.
TypeOK ==
  /\ main \in {"idle", "transfer", "print", "finished"}
  /\ \A w \in Worker :
       /\ worker[w].at \in {"move", "load", "swap", "returned"}
       /\ worker[w].moved \in 0 .. Pieces
       /\ worker[w].sum \in 0 .. total /\ worker[w].seen \in 0 .. current
  /\ total \in 0 .. Pieces * Cardinality(Worker)
  /\ current \in 0 .. total
  /\ {interactive, done, tick} \subseteq BOOLEAN
  /\ loop \in {"select", "print", "returned"}
  /\ shown \in 0 .. current
  /\ ticks \in 0 .. MaxTicks
  /\ \A k \in DOMAIN out : out[k].bytes \in 0 .. current

\* What ends the output.  A terminal is told no total: the last count it shows is
\* that of the last tick, and may be less.
LastLine == IF interactive THEN NewLine ELSE Line("done", total)

\* Read as a whole the output never contradicts itself, however the workers'
\* reports overtake each other: the counts do not decrease, except that lines of
\* the loop may still come after the last; when Finish has returned the last line
\* is there, once, and where it tells a count it tells all that was moved.
OutputConsistent ==
  /\ main = "finished" => \E k \in DOMAIN out : out[k] = LastLine
  /\ \A k \in DOMAIN out : out[k].status # "progress" => out[k] = LastLine
  /\ \A j, k \in DOMAIN out : j < k =>
       /\ out[j].status = "progress" /\ out[k] # NewLine => out[j].bytes <= out[k].bytes
       /\ out[j].status # "progress" => out[k].status = "progress"

\* The printing goroutine ends with the transfer: none is leaked to the next
\* transfer of a batch.
LoopEnds == done ~> loop = "returned"
==============================================================================
