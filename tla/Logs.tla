--------------------------------- MODULE Logs ---------------------------------
(***************************************************************************)
(* The output of one detached process (logger.go and its readers in        *)
(* processes.go and runtime.go): a collector process drains two pipes into *)
(* files of bounded size, marks a file that is not all of its stream, and  *)
(* writes logs.done when both are captured. The watcher of the process     *)
(* waits a second for that marker before it records the exit, and clients  *)
(* read files and markers one after the other while all this happens.      *)
(* A byte is its position in its stream.                                   *)
(***************************************************************************)
EXTENDS Integers

CONSTANTS
  Limit,       \* logLimit, in bytes
  Buffer,      \* the most one read returns
  Capacity,    \* of a pipe
  MaxOutput,   \* bound: bytes written to a stream
  MaxFaults    \* bound: failed reads and file operations, deaths of the collector

ASSUME LogsAssumption ==
  /\ Limit \in Nat /\ MaxOutput \in Nat /\ MaxFaults \in Nat
  /\ Buffer \in Nat \ {0} /\ Capacity \in Nat \ {0}

Streams == {"stdout", "stderr"}

VARIABLES
  workload,   \* the process: "starting", "running", "exited" or "never"
  written,    \* bytes it has written to a stream
  taken,      \* bytes the collector has read from it
  chunk,      \* bytes of the last read that are still to be handled
  file,       \* bytes in the file of a stream
  left,       \* room the goroutine believes it has
  marked,     \* streams with a .truncated file
  capture,    \* the state of a stream's goroutine
  collector,  \* "running", "done" with logs.done, "failed" without it, or "dead"
  watcher,    \* "watching", "waiting", "recorded" or "incomplete"
  reader,     \* the step of a client's request
  begun,      \* what the watcher had recorded when it began
  seen,       \* the bytes it was given
  shown,      \* streams whose marker it saw: truncated, unless there is none
  faults

output == <<workload, written>>
collecting == <<taken, chunk, file, left, marked, capture, collector>>
reading == <<reader, begun, seen, shown>>
vars == <<output, collecting, watcher, reading, faults>>

Smaller(a, b) == IF a < b THEN a ELSE b

Fault == faults < MaxFaults /\ faults' = faults + 1

Init ==
  /\ workload = "starting"
  /\ written = [s \in Streams |-> 0]
  /\ taken = [s \in Streams |-> 0]
  /\ chunk = [s \in Streams |-> 0]
  /\ file = [s \in Streams |-> {}]
  /\ left = [s \in Streams |-> Limit]
  /\ marked = {}
  /\ capture = [s \in Streams |-> "opening"]
  /\ collector = "running"
  /\ watcher = "watching"
  /\ reader = "idle" /\ begun = "watching" /\ shown = {}
  /\ seen = [s \in Streams |-> {}]
  /\ faults = 0

-----------------------------------------------------------------------------
(* The process, as its shim runs it.                                       *)

\* The command begins once both ends of both pipes are open.
Begin ==
  /\ workload = "starting"
  /\ \A s \in Streams : capture[s] \in {"reading", "draining", "broken"}
  /\ workload' = "running"
  /\ UNCHANGED <<written, collecting, watcher, reading, faults>>

BeginFails ==
  /\ workload = "starting"
  /\ workload' = "never"
  /\ UNCHANGED <<written, collecting, watcher, reading, faults>>

\* A write blocks while the pipe is full. Without a reader it fails.
Output(s) ==
  /\ workload = "running" /\ collector = "running" /\ capture[s] # "broken"
  /\ written[s] < MaxOutput /\ written[s] - taken[s] < Capacity
  /\ written' = [written EXCEPT ![s] = @ + 1]
  /\ UNCHANGED <<workload, collecting, watcher, reading, faults>>

Exit ==
  /\ workload = "running"
  /\ workload' = "exited"
  /\ UNCHANGED <<written, collecting, watcher, reading, faults>>

-----------------------------------------------------------------------------
(* captureLog, once for each stream.                                       *)

Becomes(s, state) == capture' = [capture EXCEPT ![s] = state]

\* Mutant of Fails: the goroutine returns and leaves the pipe to itself.
FailsClosed(s) == Becomes(s, "failed")

\* After an error the rest of the stream is read and dropped.
Fails(s) == Becomes(s, "draining")

\* The file is new and empty when its size is asked for, which may fail.
Open(s) ==
  /\ collector = "running" /\ capture[s] = "opening" /\ workload = "starting"
  /\ \/ Becomes(s, "reading") /\ UNCHANGED faults
     \/ Fails(s) /\ Fault
  /\ UNCHANGED <<output, taken, chunk, file, left, marked, collector, watcher, reading>>

\* Mutant of OpenTimesOut: the pipe is opened without a deadline.
OpenBlocks(s) == FALSE

\* Nobody opens the other end within 45 seconds.
OpenTimesOut(s) ==
  /\ collector = "running" /\ capture[s] = "opening"
  /\ Becomes(s, "failed")
  /\ UNCHANGED <<output, taken, chunk, file, left, marked, collector, watcher, reading, faults>>

\* Some of what the pipe holds.
Read(s, n) ==
  /\ collector = "running" /\ capture[s] = "reading" /\ chunk[s] = 0
  /\ n <= written[s] - taken[s]
  /\ taken' = [taken EXCEPT ![s] = @ + n]
  /\ chunk' = [chunk EXCEPT ![s] = n]
  /\ UNCHANGED <<output, file, left, marked, capture, collector, watcher, reading, faults>>

\* The pipe cannot be read. The rest is still dropped, unless that fails as well:
\* then the goroutine returns, and the pipe is closed.
ReadFails(s) ==
  /\ collector = "running" /\ capture[s] \in {"reading", "draining"} /\ chunk[s] = 0
  /\ Fault
  /\ (capture[s] = "reading" /\ Fails(s)) \/ Becomes(s, "broken")
  /\ UNCHANGED <<output, taken, chunk, file, left, marked, collector, watcher, reading>>

\* What was read before the chunk.
Start(s) == taken[s] - chunk[s]

\* Mutant of Exceeds: a chunk that fills the file counts as too large.
ExceedsEarly(s) == chunk[s] >= left[s]

Exceeds(s) == chunk[s] > left[s]

\* The marker precedes the bytes.
Mark(s) ==
  /\ collector = "running" /\ capture[s] = "reading" /\ chunk[s] > 0
  /\ Exceeds(s) /\ s \notin marked
  /\ marked' = marked \cup {s}
  /\ UNCHANGED <<output, taken, chunk, file, left, capture, collector, watcher, reading, faults>>

Kept(s) == Smaller(chunk[s], left[s])

Remaining(s) == left[s] - Kept(s)

Bytes(s, n) == {i \in 1 .. MaxOutput : Start(s) < i /\ i <= Start(s) + n}

Store(s) ==
  /\ collector = "running" /\ capture[s] = "reading" /\ chunk[s] > 0
  /\ Exceeds(s) => s \in marked
  /\ file' = [file EXCEPT ![s] = @ \cup Bytes(s, Kept(s))]
  /\ left' = [left EXCEPT ![s] = Remaining(s)]
  /\ chunk' = [chunk EXCEPT ![s] = 0]
  /\ UNCHANGED <<output, taken, marked, capture, collector, watcher, reading, faults>>

\* The marker or the bytes cannot be written, or only some of the bytes.
CaptureFails(s) ==
  /\ collector = "running" /\ capture[s] = "reading" /\ chunk[s] > 0
  /\ Fault /\ Fails(s)
  /\ \E n \in 0 .. Buffer :
       /\ n <= Kept(s) /\ (n > 0 => (Exceeds(s) => s \in marked))
       /\ file' = [file EXCEPT ![s] = @ \cup Bytes(s, n)]
  /\ chunk' = [chunk EXCEPT ![s] = 0]
  /\ UNCHANGED <<output, taken, left, marked, collector, watcher, reading>>

Drain(s) ==
  /\ collector = "running" /\ capture[s] = "draining" /\ taken[s] < written[s]
  /\ taken' = [taken EXCEPT ![s] = written[s]]
  /\ UNCHANGED <<output, chunk, file, left, marked, capture, collector, watcher, reading, faults>>

\* The shim has closed the pipe and nothing is left in it.
AtEnd(s) == workload \in {"exited", "never"} /\ taken[s] = written[s]

\* The end of the stream; the last Sync may fail.
EndOfStream(s) ==
  /\ collector = "running" /\ chunk[s] = 0 /\ AtEnd(s)
  /\ \/ capture[s] = "reading" /\ Becomes(s, "captured") /\ UNCHANGED faults
     \/ capture[s] = "reading" /\ Becomes(s, "failed") /\ Fault
     \/ capture[s] = "draining" /\ Becomes(s, "failed") /\ UNCHANGED faults
  /\ UNCHANGED <<output, taken, chunk, file, left, marked, collector, watcher, reading>>

-----------------------------------------------------------------------------
(* The collector as a whole.                                               *)

Captured == \A s \in Streams : capture[s] = "captured"

\* Both goroutines have returned; the marker may fail to be written. One that is
\* written and reported as failed is there for the watcher.
Finish ==
  /\ collector = "running"
  /\ \A s \in Streams : capture[s] \in {"captured", "failed", "broken"}
  /\ \/ collector' = (IF Captured THEN "done" ELSE "failed") /\ UNCHANGED faults
     \/ collector' = "failed" /\ Captured /\ Fault
  /\ UNCHANGED <<output, taken, chunk, file, left, marked, capture, watcher, reading>>

CollectorDies ==
  /\ collector = "running"
  /\ Fault
  /\ collector' = "dead"
  /\ UNCHANGED <<output, taken, chunk, file, left, marked, capture, watcher, reading>>

-----------------------------------------------------------------------------
(* The watcher of the process.                                             *)

SeesExit ==
  /\ watcher = "watching" /\ workload = "exited"
  /\ watcher' = "waiting"
  /\ UNCHANGED <<output, collecting, reading, faults>>

\* Mutant of Complete: the marker is waited for and not looked at again.
CompleteAnyway == TRUE

Complete == collector = "done"

\* logs.done has appeared, or the second is over.
Records ==
  /\ watcher = "waiting"
  /\ watcher' = IF Complete THEN "recorded" ELSE "incomplete"
  /\ UNCHANGED <<output, collecting, reading, faults>>

\* The adapter ends and its successor watches the process again; a request
\* ends with it.
AdapterRestarts ==
  /\ watcher = "waiting" \/ reader \notin {"idle", "answered"}
  /\ watcher' = IF watcher = "waiting" THEN "watching" ELSE watcher
  /\ reader' = "idle"
  /\ UNCHANGED <<output, collecting, begun, seen, shown, faults>>

-----------------------------------------------------------------------------
(* ProcessLogs, and the end of waitExec: two files, then two markers.      *)

Ask ==
  /\ reader \in {"idle", "answered"}
  /\ reader' = "stdout" /\ begun' = watcher
  /\ seen' = [s \in Streams |-> {}] /\ shown' = {}
  /\ UNCHANGED <<output, collecting, watcher, faults>>

ReadFile(s) ==
  /\ reader = s
  /\ seen' = [seen EXCEPT ![s] = file[s]]
  /\ reader' = IF s = "stdout" THEN "stderr" ELSE "stdout.truncated"
  /\ UNCHANGED <<output, collecting, watcher, begun, shown, faults>>

ReadMarker(s) ==
  /\ reader = (IF s = "stdout" THEN "stdout.truncated" ELSE "stderr.truncated")
  /\ shown' = shown \cup ({s} \cap marked)
  /\ reader' = IF s = "stdout" THEN "stderr.truncated" ELSE "answered"
  /\ UNCHANGED <<output, collecting, watcher, begun, seen, faults>>

Collect ==
  \/ \E s \in Streams :
       \/ Open(s) \/ OpenTimesOut(s) \/ Mark(s) \/ Store(s) \/ CaptureFails(s) \/ ReadFails(s)
       \/ Drain(s) \/ EndOfStream(s)
       \/ \E n \in 1 .. Buffer : Read(s, n)
  \/ Finish

Next ==
  \/ Begin \/ BeginFails \/ Exit
  \/ \E s \in Streams : Output(s) \/ ReadFile(s) \/ ReadMarker(s)
  \/ Collect \/ CollectorDies
  \/ SeesExit \/ Records \/ AdapterRestarts
  \/ Ask

Spec == Init /\ [][Next]_vars

\* Each goroutine of the collector goes on, its timers included. Nothing is
\* assumed of the process, which may run and write for ever.
StreamSteps(s) ==
  \/ OpenTimesOut(s) \/ Mark(s) \/ Store(s) \/ Drain(s) \/ EndOfStream(s)
  \/ \E n \in 1 .. Buffer : Read(s, n)

FairSpec ==
  /\ Spec
  /\ \A s \in Streams : WF_vars(StreamSteps(s))
  /\ WF_vars(Finish)

-----------------------------------------------------------------------------
(* Properties.                                                             *)

TypeOK ==
  /\ workload \in {"starting", "running", "exited", "never"}
  /\ written \in [Streams -> 0 .. MaxOutput]
  /\ taken \in [Streams -> 0 .. MaxOutput]
  /\ chunk \in [Streams -> 0 .. Buffer]
  /\ file \in [Streams -> SUBSET (1 .. MaxOutput)]
  /\ left \in [Streams -> 0 .. Limit]
  /\ marked \subseteq Streams
  /\ capture \in [Streams -> {"opening", "reading", "draining", "captured", "failed", "broken"}]
  /\ collector \in {"running", "done", "failed", "dead"}
  /\ watcher \in {"watching", "waiting", "recorded", "incomplete"}
  /\ reader \in {"idle", "stdout", "stderr", "stdout.truncated", "stderr.truncated", "answered"}
  /\ begun \in {"watching", "waiting", "recorded", "incomplete"}
  /\ seen \in [Streams -> SUBSET (1 .. MaxOutput)]
  /\ shown \subseteq Streams
  /\ faults \in 0 .. MaxFaults

First(n) == {i \in 1 .. MaxOutput : i <= n}

\* "Each stream retains its first 1 MiB": whatever fails, a file holds the
\* first bytes of its stream without a gap, and never more than the limit.
FirstBytesAreKept ==
  \A s \in Streams : \E n \in 0 .. Limit : n <= written[s] /\ file[s] = First(n)

\* A file of a stream that is read without an error has all that was taken
\* from the pipe, or its first Limit bytes and a marker; a marker stands for
\* bytes that were really dropped, so that output of exactly the limit has none.
NoSilentLoss ==
  \A s \in Streams :
    /\ capture[s] \in {"reading", "captured"} =>
         /\ file[s] = First(Smaller(Start(s), Limit))
         /\ Start(s) > Limit => s \in marked
    /\ s \in marked => taken[s] > Limit

\* Of a stream its first bytes are stored, and what is not stored is marked
\* or comes with a failed capture.
StoredOrMarked == FirstBytesAreKept /\ NoSilentLoss

\* An answer to a request that began after the exit was recorded without
\* "Log capture did not finish successfully" has the first Limit bytes of
\* each stream, and says truncated exactly when a stream had more.
FinalAnswerIsExact ==
  reader = "answered" /\ begun = "recorded" =>
    /\ \A s \in Streams : seen[s] = First(Smaller(written[s], Limit))
    /\ shown # {} <=> \E s \in Streams : written[s] > Limit

\* "a logging failure cannot block the workload": a full pipe is emptied,
\* whatever happens to its file. Only if the pipe itself cannot be read, or the
\* collector has died, it has no reader, and the write fails instead of blocking.
PipesAreDrained ==
  \A s \in Streams :
    written[s] - taken[s] = Capacity ~>
      \/ written[s] - taken[s] < Capacity
      \/ capture[s] = "broken" \/ collector # "running"

\* "exits when the shim closes its pipes": a collector does not outlive its
\* process for ever, nor a process that never began.
CollectorEnds == workload \in {"exited", "never"} ~> collector # "running"
=============================================================================
