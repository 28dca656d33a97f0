-------------------------------- MODULE Sample --------------------------------
(***************************************************************************)
(* inspect --head, --tail, --mid and --wc (internal/inspect/sample.go,     *)
(* wc.go): the tail is looked for backwards, one chunk at a time, until    *)
(* enough newlines have been seen, or, of a compressed source, kept in a   *)
(* ring while everything is read; the middle is aligned to the next line,  *)
(* and, of a cloud object, read from a window of one chunk.  The middle of *)
(* a compressed source is left out.                                        *)
(*                                                                         *)
(* Bytes are numbered from 0; of a byte it matters only whether it is a    *)
(* newline.  A line is the pair of its first byte and the byte after its   *)
(* last, the newline not counted.  The source may have grown since Stat.   *)
(***************************************************************************)
EXTENDS Integers, Sequences, FiniteSets

CONSTANTS
  Chunk,  \* bytes of one backward read, of the window and of a read buffer
  Job     \* the inspections: mode, count, cloud, and the source

ASSUME ChunkAssumption == Chunk \in Nat \ {0}

\* mode "ring" is --tail of a compressed source, whose bytes here are those
\* that come out of the decompressor.  size: what Stat told; length: what is
\* there when it is read; nl: the positions of newlines.
ASSUME JobAssumption ==
  \A j \in Job : /\ j.mode \in {"head", "tail", "ring", "mid", "wc"}
                 /\ j.count \in Nat \ {0}
                 /\ j.cloud \in BOOLEAN
                 /\ j.size \in Nat /\ j.length \in Nat /\ j.size <= j.length
                 /\ j.nl \subseteq 0 .. j.length - 1

VARIABLES
  pc,     \* where the inspection is
  job,    \* what it was asked
  end,    \* tail: the bytes from here on have been fetched
  at,     \* the next byte to read
  limit,  \* the reader ends here
  lines,  \* the lines returned
  count   \* wc: newlines counted

sampleVars == <<pc, job, end, at, limit, lines, count>>

Lesser(a, b) == IF a < b THEN a ELSE b
Newlines(from, to) == {k \in job.nl : from <= k /\ k < to}

SampleInit ==
  /\ job \in Job
  /\ pc = CASE job.mode = "tail" -> "scan"
            [] job.mode = "mid" -> "align"
            [] job.mode = "wc" -> "count"
            [] OTHER -> "read"
  /\ end = job.size
  /\ at = 0
  /\ limit = job.length
  /\ lines = <<>>
  /\ count = 0

------------------------------------------------------------------------------
(* --tail                                                                    *)

\* The newlines locateTailStart looks at: all but one in the last byte.
Separators(base) == Newlines(base, job.size - 1)

\* locateTailStart: the byte after the count-th newline from the back.
TailStart(base) ==
  LET before == {k \in Separators(base) : Cardinality(Separators(k)) = job.count}
  IN IF before = {} THEN base ELSE (CHOOSE k \in before : TRUE) + 1

\* (fault) as many newlines as lines are taken to be enough.
Enough_NoExtra(base) == Cardinality(Newlines(base, job.size)) >= job.count

Enough(base) == Cardinality(Newlines(base, job.size)) >= job.count + 1

\* tailStartOffset: one more chunk in front of the buffer.
Scan ==
  /\ pc = "scan"
  /\ LET start == IF end > Chunk THEN end - Chunk ELSE 0
     IN IF end > 0 /\ ~Enough(start) /\ start > 0
        THEN end' = start /\ UNCHANGED <<pc, at>>
        ELSE end' = start /\ at' = TailStart(start) /\ pc' = "read"
  /\ UNCHANGED <<job, limit, lines, count>>

------------------------------------------------------------------------------
(* --mid                                                                     *)

Middle == job.size \div 2

\* (fault) the byte at the offset is looked at.
Aligned_Next(offset) == offset \in job.nl

\* isLineBoundaryLocal, and the one-byte request of midCloud.
Aligned(offset) == offset = 0 \/ offset - 1 \in job.nl

\* The reader of a cloud object ends a chunk after the middle.
Align ==
  /\ pc = "align"
  /\ at' = Middle
  /\ limit' = IF job.cloud THEN Lesser(Middle + Chunk, job.length) ELSE job.length
  /\ pc' = IF Aligned(Middle) THEN "read" ELSE "discard"
  /\ UNCHANGED <<job, end, lines, count>>

\* The byte after the line that holds byte from, within what can be read.
LineEnd(from) ==
  LET after == Newlines(from, limit)
  IN IF after = {} THEN limit ELSE CHOOSE k \in after : \A h \in after : k <= h

\* Where the line after it begins.
AfterLine(from) == Lesser(LineEnd(from) + 1, limit)

\* midFromReader: the rest of the line the middle lies in.
Discard ==
  /\ pc = "discard"
  /\ at' = AfterLine(at)
  /\ pc' = "read"
  /\ UNCHANGED <<job, end, limit, lines, count>>

------------------------------------------------------------------------------
(* Reading lines, and counting them.                                         *)

HasLine == at < limit

\* appendRing: the oldest line gives way.
Kept(line) ==
  IF Len(lines) < job.count THEN Append(lines, line) ELSE Append(Tail(lines), line)

\* readFirstNLines, or collectTailLines, which does not stop at count: the
\* last line may lack its newline.
ReadLine ==
  /\ pc = "read"
  /\ job.mode = "ring" \/ Len(lines) < job.count
  /\ HasLine
  /\ lines' = Kept(<<at, LineEnd(at)>>)
  /\ at' = AfterLine(at)
  /\ UNCHANGED <<pc, job, end, limit, count>>

ReadEnds ==
  /\ pc = "read"
  /\ (job.mode # "ring" /\ Len(lines) = job.count) \/ ~HasLine
  /\ pc' = "done"
  /\ UNCHANGED <<job, end, at, limit, lines, count>>

\* countLines: a slice goes up to a newline, or is a full buffer.
CountSlice ==
  /\ pc = "count"
  /\ at < limit
  /\ LET to == Lesser(AfterLine(at), at + Chunk)
     IN /\ count' = count + Cardinality(Newlines(at, to))
        /\ at' = to
  /\ UNCHANGED <<pc, job, end, limit, lines>>

LastCounts == IF limit > 0 /\ limit - 1 \notin job.nl THEN 1 ELSE 0

CountEnds ==
  /\ pc = "count"
  /\ at = limit
  /\ count' = count + LastCounts
  /\ pc' = "done"
  /\ UNCHANGED <<job, end, at, limit, lines>>

\* A request or a read fails: there is no result.
Fails ==
  /\ pc \in {"scan", "align", "discard", "read", "count"}
  /\ pc' = "failed"
  /\ lines' = <<>>
  /\ UNCHANGED <<job, end, at, limit, count>>

SampleEnded == pc \in {"done", "failed"} /\ UNCHANGED sampleVars

SampleNext ==
  \/ Scan \/ Align \/ Discard
  \/ ReadLine \/ ReadEnds \/ CountSlice \/ CountEnds
  \/ Fails \/ SampleEnded

SampleSpec == SampleInit /\ [][SampleNext]_sampleVars

------------------------------------------------------------------------------
(* Properties.                                                               *)

\* The first bytes of the lines of the first n bytes.
Starts(n) == {s \in 0 .. n - 1 : s = 0 \/ s - 1 \in job.nl}

WholeLine(line) ==
  /\ line[1] \in Starts(job.length)
  /\ line[2] = job.length \/ line[2] \in job.nl
  /\ Newlines(line[1], line[2]) = {}

\* The whole lines of the source that begin at or after a byte, up to count of
\* them, in order and without a gap.
IsRun(from) ==
  LET there == {s \in Starts(job.length) : s >= from}
  IN /\ Len(lines) = Lesser(job.count, Cardinality(there))
     /\ \A k \in DOMAIN lines :
          /\ WholeLine(lines[k])
          /\ Cardinality({s \in there : s < lines[k][1]}) = k - 1

\* Where the last count lines of the first n bytes begin.
LastStart(n) ==
  LET last == {s \in Starts(n) : Cardinality({t \in Starts(n) : t >= s}) = job.count}
  IN IF last = {} THEN 0 ELSE CHOOSE s \in last : TRUE

\* --head N gives the first N lines and --tail N the last N the source had at
\* Stat (a compressed one: has), however lines, newlines and chunk boundaries
\* fall; and --wc counts the lines, the last one too when it has no newline.
EndsAreRight ==
  pc = "done" =>
    /\ job.mode = "head" => IsRun(0)
    /\ job.mode = "tail" => IsRun(LastStart(job.size))
    /\ job.mode = "ring" => IsRun(LastStart(job.length))
    /\ job.mode = "wc" => count = Cardinality(Starts(job.length))

\* --mid N gives the N whole lines from the middle on, if the source is local
\* or the lines lie within the window.
MidIsWhole ==
  /\ pc = "done"
  /\ job.mode = "mid"
  /\ \/ ~job.cloud
     \/ limit = job.length
     \/ Cardinality({s \in Starts(limit) : s >= Middle}) > job.count
  => IsRun(Middle)

\* --head, --tail, --mid and --wc return what they promise, of either end
\* (EndsAreRight) and of the middle (MidIsWhole).
SamplesAreRight == EndsAreRight /\ MidIsWhole
==============================================================================
