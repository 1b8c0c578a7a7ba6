------------------------------ MODULE LogsProofs ------------------------------
(***************************************************************************)
(* The log collector for every limit, buffer, pipe and length of output:   *)
(* files hold the first bytes of their streams, nothing is lost without a  *)
(* trace, and an answer after a recorded exit is exact.                    *)
(***************************************************************************)
EXTENDS Logs, TLAPS

\* The collector has not read more than was written.
Flows(s) == chunk[s] <= taken[s] /\ taken[s] <= written[s]

\* Without an error the file is what was read before the chunk, up to the limit.
Whole(s) ==
  capture[s] \in {"opening", "reading", "captured"} =>
    /\ left[s] = Limit - Smaller(Start(s), Limit)
    /\ file[s] = First(Smaller(Start(s), Limit))
    /\ Start(s) > Limit => s \in marked

\* With an error it still is a prefix.
Prefix(s) == \E n \in 0 .. Limit : n <= taken[s] /\ file[s] = First(n)

Marks(s) == s \in marked => taken[s] > Limit

\* A stream is captured when all of it was read.
Closed(s) ==
  /\ capture[s] # "reading" => chunk[s] = 0
  /\ capture[s] = "captured" => workload \in {"exited", "never"} /\ taken[s] = written[s]

Stream(s) == Flows(s) /\ Whole(s) /\ Prefix(s) /\ Marks(s) /\ Closed(s)

\* What logs.done, a recorded exit and a request after it stand for.
Finals ==
  /\ collector = "done" => \A s \in Streams : capture[s] = "captured"
  /\ watcher = "recorded" => collector = "done"
  /\ begun = "recorded" => watcher = "recorded"

\* A request after a recorded exit has read what no longer changes.
Answer ==
  begun = "recorded" =>
    /\ reader \notin {"idle", "stdout"} => seen["stdout"] = file["stdout"]
    /\ reader \notin {"idle", "stdout", "stderr"} => seen["stderr"] = file["stderr"]
    /\ reader \in {"stdout", "stderr", "stdout.truncated"} => shown = {}
    /\ reader = "stderr.truncated" => shown = {"stdout"} \cap marked
    /\ reader = "answered" => shown = marked

IndInv == TypeOK /\ (\A s \in Streams : Stream(s)) /\ Finals /\ Answer

\* The first bytes, and some that follow them, are again first bytes.
LEMMA FirstGrows ==
  ASSUME NEW a \in Nat, NEW n \in Nat
  PROVE  First(a) \cup {i \in 1 .. MaxOutput : a < i /\ i <= a + n} = First(a + n)
  BY LogsAssumption DEF First

\* The invariant holds before anything is opened.
LEMMA InitInv == Init => IndInv
<1> SUFFICES ASSUME Init PROVE IndInv
  OBVIOUS
<1> USE LogsAssumption
<1>1. TypeOK BY DEF Init, TypeOK, Streams
<1>2. First(0) = {} BY DEF First
<1>3. ASSUME NEW s \in Streams PROVE Stream(s)
  <2>1. written[s] = 0 /\ taken[s] = 0 /\ chunk[s] = 0 /\ file[s] = {} /\ left[s] = Limit
        /\ s \notin marked /\ capture[s] = "opening"
    BY <1>3 DEF Init
  <2>2. Smaller(Start(s), Limit) = 0 BY <2>1 DEF Smaller, Start
  <2>3. Prefix(s)
    <3>1. 0 \in 0 .. Limit /\ 0 <= taken[s] /\ file[s] = First(0) BY <1>2, <2>1
    <3> QED BY <3>1 DEF Prefix
  <2>4. Flows(s) /\ Marks(s) /\ Closed(s) BY <2>1 DEF Flows, Marks, Closed
  <2>5. Whole(s) BY <1>2, <2>1, <2>2 DEF Whole, Start
  <2> QED BY <2>3, <2>4, <2>5 DEF Stream
<1>4. Finals /\ Answer BY DEF Init, Finals, Answer
<1> QED BY <1>1, <1>3, <1>4 DEF IndInv

\* Every step keeps the types.
LEMMA TypeKept == IndInv /\ [Next]_vars => TypeOK'
<1> SUFFICES ASSUME IndInv, [Next]_vars PROVE TypeOK'
  OBVIOUS
<1> USE LogsAssumption DEF TypeOK, IndInv
<1>1. CASE Begin \/ BeginFails \/ Exit BY <1>1 DEF Begin, BeginFails, Exit, collecting, reading
<1>2. ASSUME NEW s \in Streams, Output(s) PROVE TypeOK' BY <1>2 DEF Output, collecting, reading
<1>3. ASSUME NEW s \in Streams, ReadFile(s) PROVE TypeOK' BY <1>3 DEF ReadFile, output, collecting
<1>4. ASSUME NEW s \in Streams, ReadMarker(s) PROVE TypeOK' BY <1>4 DEF ReadMarker, output, collecting
<1>5. ASSUME NEW s \in Streams, Open(s) PROVE TypeOK' BY <1>5 DEF Open, Fails, Becomes, Fault, output, reading
<1>6. ASSUME NEW s \in Streams, OpenTimesOut(s) PROVE TypeOK' BY <1>6 DEF OpenTimesOut, Becomes, output, reading
<1>7. ASSUME NEW s \in Streams, Mark(s) PROVE TypeOK' BY <1>7 DEF Mark, output, reading
<1>8. ASSUME NEW s \in Streams, Store(s) PROVE TypeOK'
  <2>1. Kept(s) \in 0 .. left[s] BY <1>8 DEF Kept, Smaller
  <2>2. Bytes(s, Kept(s)) \subseteq 1 .. MaxOutput BY DEF Bytes
  <2>3. Remaining(s) \in 0 .. Limit BY <2>1 DEF Remaining
  <2> QED BY <1>8, <2>2, <2>3 DEF Store, output, reading
<1>9. ASSUME NEW s \in Streams, CaptureFails(s) PROVE TypeOK'
  <2>1. \A n \in 0 .. Buffer : Bytes(s, n) \subseteq 1 .. MaxOutput BY DEF Bytes
  <2> QED BY <1>9, <2>1 DEF CaptureFails, Fault, Fails, Becomes, output, reading
<1>10. ASSUME NEW s \in Streams, Drain(s) PROVE TypeOK' BY <1>10 DEF Drain, output, reading
<1>11. ASSUME NEW s \in Streams, EndOfStream(s) PROVE TypeOK' BY <1>11 DEF EndOfStream, Becomes, Fault, output, reading
<1>12. ASSUME NEW s \in Streams, NEW n \in 1 .. Buffer, Read(s, n) PROVE TypeOK' BY <1>12 DEF Read, output, reading
<1>13. CASE Finish BY <1>13 DEF Finish, Fault, output, reading
<1>14. CASE CollectorDies BY <1>14 DEF CollectorDies, Fault, output, reading
<1>15. CASE SeesExit BY <1>15 DEF SeesExit, output, collecting, reading
<1>16. CASE Records BY <1>16 DEF Records, output, collecting, reading
<1>17. CASE AdapterRestarts BY <1>17 DEF AdapterRestarts, output, collecting
<1>18. CASE Ask BY <1>18 DEF Ask, output, collecting
<1>19. CASE UNCHANGED vars BY <1>19 DEF vars, output, collecting, reading
<1>20. ASSUME NEW s \in Streams, ReadFails(s) PROVE TypeOK' BY <1>20 DEF ReadFails, Fails, Becomes, Fault, output, reading
<1> QED BY <1>1, <1>2, <1>3, <1>4, <1>5, <1>6, <1>7, <1>8, <1>9, <1>10, <1>11, <1>12, <1>13, <1>14, <1>15,
           <1>16, <1>17, <1>18, <1>19, <1>20 DEF Next, Collect

\* The state of a stream, which most steps leave alone.
Untouched(s) ==
  /\ chunk'[s] = chunk[s] /\ taken'[s] = taken[s] /\ file'[s] = file[s] /\ left'[s] = left[s]
  /\ capture'[s] = capture[s] /\ (s \in marked' <=> s \in marked)

\* A stream that a step leaves alone keeps its invariant, while the process
\* goes on.
LEMMA Frame ==
  ASSUME IndInv, NEW s \in Streams, Untouched(s),
         written'[s] \in Nat, written'[s] >= written[s],
         workload \in {"exited", "never"} => workload' = workload /\ written'[s] = written[s]
  PROVE  Stream(s)'
<1> USE LogsAssumption DEF IndInv, TypeOK, Untouched
<1>1. Stream(s) OBVIOUS
<1>2. Flows(s)' BY <1>1 DEF Stream, Flows
<1>3. Whole(s)' BY <1>1 DEF Stream, Whole, Start, Smaller, First
<1>4. Prefix(s)' BY <1>1 DEF Stream, Prefix, First
<1>5. Marks(s)' BY <1>1 DEF Stream, Marks
<1>6. Closed(s)' BY <1>1 DEF Stream, Closed
<1> QED BY <1>2, <1>3, <1>4, <1>5, <1>6 DEF Stream

\* A read takes what the pipe has.
LEMMA ReadKeeps ==
  ASSUME IndInv, NEW s \in Streams, NEW n \in 1 .. Buffer, Read(s, n)
  PROVE  Stream(s)'
<1> USE LogsAssumption DEF IndInv, TypeOK, Read, output
<1>1. Stream(s) OBVIOUS
<1>2. taken'[s] = taken[s] + n /\ chunk'[s] = n /\ chunk[s] = 0 /\ capture[s] = "reading" OBVIOUS
<1>3. Start(s)' = Start(s) BY <1>2 DEF Start
<1>4. Flows(s)' BY <1>1, <1>2 DEF Stream, Flows
<1>5. Whole(s)' BY <1>1, <1>3 DEF Stream, Whole, Smaller, First
<1>6. Prefix(s)' BY <1>1, <1>2 DEF Stream, Prefix, First
<1>7. Marks(s)' BY <1>1, <1>2 DEF Stream, Marks
<1>8. Closed(s)' BY <1>2 DEF Closed
<1> QED BY <1>4, <1>5, <1>6, <1>7, <1>8 DEF Stream

\* A marker stands for bytes beyond the limit.
LEMMA MarkKeeps ==
  ASSUME IndInv, NEW s \in Streams, Mark(s)
  PROVE  Stream(s)'
<1> USE LogsAssumption DEF IndInv, TypeOK, Mark, output
<1>1. Stream(s) OBVIOUS
<1>2. taken[s] > Limit BY <1>1 DEF Stream, Whole, Flows, Exceeds, Start, Smaller
<1>3. Start(s)' = Start(s) BY DEF Start
<1>4. Flows(s)' BY <1>1 DEF Stream, Flows
<1>5. Whole(s)' BY <1>1, <1>3 DEF Stream, Whole, Smaller, First
<1>6. Prefix(s)' BY <1>1 DEF Stream, Prefix, First
<1>7. Marks(s)' BY <1>2 DEF Marks
<1>8. Closed(s)' BY <1>1 DEF Stream, Closed
<1> QED BY <1>4, <1>5, <1>6, <1>7, <1>8 DEF Stream

\* Bytes of the chunk that fit continue the file.
LEMMA BytesContinue ==
  ASSUME IndInv, NEW s \in Streams, capture[s] = "reading", NEW n \in Nat, n <= Kept(s)
  PROVE  /\ Smaller(Start(s), Limit) + n \in 0 .. Limit
         /\ Smaller(Start(s), Limit) + n <= taken[s]
         /\ file[s] \cup Bytes(s, n) = First(Smaller(Start(s), Limit) + n)
<1> USE LogsAssumption DEF IndInv, TypeOK
<1>1. Flows(s) /\ Whole(s) BY DEF Stream
<1>2. Start(s) \in Nat /\ chunk[s] \in Nat /\ taken[s] = Start(s) + chunk[s] BY <1>1 DEF Flows, Start
<1>3. left[s] = Limit - Smaller(Start(s), Limit) /\ file[s] = First(Smaller(Start(s), Limit)) BY <1>1 DEF Whole
<1>4. n <= chunk[s] /\ n <= left[s] BY DEF Kept, Smaller
<1>5. CASE Start(s) < Limit
  <2>1. Smaller(Start(s), Limit) = Start(s) BY <1>5 DEF Smaller
  <2> QED BY <1>2, <1>3, <1>4, <2>1, FirstGrows DEF Bytes
<1>6. CASE ~(Start(s) < Limit)
  <2>1. Smaller(Start(s), Limit) = Limit /\ n = 0 BY <1>2, <1>3, <1>4, <1>6 DEF Smaller
  <2>2. Bytes(s, n) = {} BY <1>2, <2>1 DEF Bytes
  <2> QED BY <1>2, <1>3, <1>6, <2>1, <2>2
<1> QED BY <1>5, <1>6

\* A chunk is stored up to the limit.
LEMMA StoreKeeps ==
  ASSUME IndInv, NEW s \in Streams, Store(s)
  PROVE  Stream(s)'
<1> USE LogsAssumption DEF IndInv, TypeOK, Store, output
<1>1. Flows(s) /\ Whole(s) /\ Marks(s) BY DEF Stream
<1>2. Kept(s) \in Nat /\ Kept(s) <= chunk[s] /\ Kept(s) <= left[s] /\ (Kept(s) = chunk[s] \/ Kept(s) = left[s])
  BY DEF Kept, Smaller
<1>3. capture[s] = "reading" /\ chunk'[s] = 0 /\ taken'[s] = taken[s] /\ left'[s] = left[s] - Kept(s)
      /\ file'[s] = file[s] \cup Bytes(s, Kept(s))
  BY DEF Remaining
<1>4. /\ Smaller(Start(s), Limit) + Kept(s) \in 0 .. Limit
      /\ Smaller(Start(s), Limit) + Kept(s) <= taken[s]
      /\ file'[s] = First(Smaller(Start(s), Limit) + Kept(s))
  BY <1>2, <1>3, BytesContinue
<1>5. left[s] = Limit - Smaller(Start(s), Limit) /\ (Start(s) > Limit => s \in marked) BY <1>1, <1>3 DEF Whole
<1>6. Start(s) \in Nat /\ taken[s] = Start(s) + chunk[s] /\ Start(s)' = taken[s] BY <1>1, <1>3 DEF Flows, Start
<1>7. Smaller(taken[s], Limit) = Smaller(Start(s), Limit) + Kept(s) BY <1>2, <1>5, <1>6 DEF Smaller
<1>8. taken[s] > Limit => s \in marked
  <2>1. Exceeds(s) => s \in marked OBVIOUS
  <2>2. Limit \in Nat /\ taken[s] \in Nat /\ chunk[s] \in Nat OBVIOUS
  <2>3. taken[s] > Limit => chunk[s] > left[s] \/ Start(s) > Limit BY <1>5, <1>6, <2>2 DEF Smaller
  <2> QED BY <1>5, <2>1, <2>3 DEF Exceeds
<1>9. Flows(s)' BY <1>1, <1>3 DEF Flows
<1>10. Whole(s)'
  <2>1. left'[s] = Limit - Smaller(taken[s], Limit)
    <3>1. Smaller(Start(s), Limit) \in Nat BY <1>6 DEF Smaller
    <3> QED BY <1>2, <1>3, <1>5, <1>7, <3>1
  <2>2. Smaller(Start(s), Limit)' = Smaller(taken[s], Limit) BY <1>6 DEF Smaller
  <2>3. file'[s] = First(Smaller(taken[s], Limit)) BY <1>4, <1>7
  <2>4. marked' = marked OBVIOUS
  <2>5. First(Smaller(Start(s), Limit))' = First(Smaller(taken[s], Limit)) BY <2>2 DEF First
  <2> QED BY <1>6, <1>8, <2>1, <2>2, <2>3, <2>4, <2>5 DEF Whole
<1>11. Prefix(s)' BY <1>3, <1>4 DEF Prefix, First
<1>12. Marks(s)' BY <1>1, <1>3 DEF Marks
<1>13. Closed(s)' BY <1>3 DEF Closed
<1> QED BY <1>9, <1>10, <1>11, <1>12, <1>13 DEF Stream

\* A failure leaves a prefix, of which some of the chunk may be part.
LEMMA FailureKeeps ==
  ASSUME IndInv, NEW s \in Streams, CaptureFails(s)
  PROVE  Stream(s)'
<1> USE LogsAssumption DEF IndInv, TypeOK, CaptureFails, Fails, Becomes, output
<1>1. Flows(s) /\ Marks(s) BY DEF Stream
<1>2. capture[s] = "reading" /\ capture'[s] = "draining" /\ chunk'[s] = 0 /\ taken'[s] = taken[s] OBVIOUS
<1>3. PICK n \in 0 .. Buffer : n <= Kept(s) /\ file' = [file EXCEPT ![s] = @ \cup Bytes(s, n)] OBVIOUS
<1>4. /\ Smaller(Start(s), Limit) + n \in 0 .. Limit
      /\ Smaller(Start(s), Limit) + n <= taken[s]
      /\ file'[s] = First(Smaller(Start(s), Limit) + n)
  BY <1>2, <1>3, BytesContinue
<1>5. Prefix(s)' BY <1>2, <1>4 DEF Prefix, First
<1>6. Flows(s)' BY <1>1, <1>2 DEF Flows
<1>7. Marks(s)' BY <1>1, <1>2 DEF Marks
<1>8. Whole(s)' /\ Closed(s)' BY <1>2 DEF Whole, Closed
<1> QED BY <1>5, <1>6, <1>7, <1>8 DEF Stream

\* What is drained is not stored.
LEMMA DrainKeeps ==
  ASSUME IndInv, NEW s \in Streams, Drain(s)
  PROVE  Stream(s)'
<1> USE LogsAssumption DEF IndInv, TypeOK, Drain, output
<1>1. Stream(s) OBVIOUS
<1>2. capture'[s] = "draining" /\ chunk'[s] = 0 /\ taken'[s] = written[s] /\ taken[s] < written[s]
  BY <1>1 DEF Stream, Closed
<1>3. Flows(s)' BY <1>2 DEF Flows
<1>4. Whole(s)' /\ Closed(s)' BY <1>2 DEF Whole, Closed
<1>5. Prefix(s)' BY <1>1, <1>2 DEF Stream, Prefix, First
<1>6. Marks(s)' BY <1>1, <1>2 DEF Stream, Marks
<1> QED BY <1>3, <1>4, <1>5, <1>6 DEF Stream

\* A goroutine begins, gives up or ends without touching the file.
LEMMA TurnKeeps ==
  ASSUME IndInv, NEW s \in Streams, Open(s) \/ OpenTimesOut(s) \/ ReadFails(s) \/ EndOfStream(s)
  PROVE  Stream(s)'
<1> USE LogsAssumption DEF IndInv, TypeOK
<1>1. Stream(s) OBVIOUS
<1>2. /\ chunk' = chunk /\ taken' = taken /\ file' = file /\ left' = left /\ marked' = marked
      /\ written' = written /\ workload' = workload
  BY DEF Open, OpenTimesOut, ReadFails, EndOfStream, output
<1>3. chunk[s] = 0 BY <1>1 DEF Stream, Closed, Open, OpenTimesOut, ReadFails, EndOfStream
<1>4. \/ capture[s] = "opening" /\ capture'[s] \in {"reading", "draining", "failed"}
      \/ capture[s] \in {"reading", "draining"} /\ capture'[s] \in {"draining", "broken", "failed"}
      \/ capture[s] = "reading" /\ capture'[s] = "captured" /\ AtEnd(s)
  BY DEF Open, OpenTimesOut, ReadFails, EndOfStream, Becomes, Fails
<1>5. Flows(s)' BY <1>1, <1>2 DEF Stream, Flows
<1>6. Whole(s)' BY <1>1, <1>2, <1>4 DEF Stream, Whole, Start, Smaller, First
<1>7. Prefix(s)' BY <1>1, <1>2 DEF Stream, Prefix, First
<1>8. Marks(s)' BY <1>1, <1>2 DEF Stream, Marks
<1>9. Closed(s)' BY <1>2, <1>3, <1>4 DEF Closed, AtEnd
<1> QED BY <1>5, <1>6, <1>7, <1>8, <1>9 DEF Stream

\* A step of the goroutine of a stream.
Captures(s) ==
  \/ Open(s) \/ OpenTimesOut(s) \/ Mark(s) \/ Store(s) \/ CaptureFails(s) \/ ReadFails(s) \/ Drain(s)
  \/ EndOfStream(s)
  \/ \E n \in 1 .. Buffer : Read(s, n)

\* It leaves everything but its stream alone.
LEMMA CapturesOnly ==
  ASSUME IndInv, NEW s \in Streams, Captures(s)
  PROVE  /\ collector = "running" /\ capture[s] \in {"opening", "reading", "draining"}
         /\ UNCHANGED <<workload, written, collector, watcher, reader, begun, seen, shown>>
         /\ \A z \in Streams \ {s} : Untouched(z)
  BY DEF IndInv, TypeOK, Captures, Open, OpenTimesOut, Mark, Store, CaptureFails, ReadFails, Drain, EndOfStream,
         Read,
         Fails, Becomes, Untouched, output, reading

\* Every step keeps the invariant of the streams.
LEMMA StreamsKept == ASSUME IndInv, [Next]_vars, NEW z \in Streams PROVE Stream(z)'
<1> USE LogsAssumption DEF IndInv, TypeOK
<1>1. ASSUME NEW s \in Streams, Captures(s) PROVE Stream(z)'
  <2>1. CASE z = s
    BY <1>1, <2>1, ReadKeeps, MarkKeeps, StoreKeeps, FailureKeeps, DrainKeeps, TurnKeeps DEF Captures
  <2>2. CASE z # s
    <3>1. Untouched(z) /\ written' = written /\ workload' = workload BY <1>1, <2>2, CapturesOnly
    <3> QED BY <3>1, Frame
  <2> QED BY <2>1, <2>2
<1>2. ASSUME UNCHANGED <<taken, chunk, file, left, marked, capture, written, workload>> PROVE Stream(z)'
  <2>1. Untouched(z) BY <1>2 DEF Untouched
  <2> QED BY <1>2, <2>1, Frame
<1>3. CASE Begin \/ BeginFails \/ Exit
  <2>1. Untouched(z) /\ written' = written /\ workload \in {"starting", "running"}
    BY <1>3 DEF Begin, BeginFails, Exit, Untouched, collecting
  <2> QED BY <2>1, Frame
<1>4. ASSUME NEW s \in Streams, Output(s) PROVE Stream(z)'
  <2>1. Untouched(z) /\ workload = "running" BY <1>4 DEF Output, Untouched, collecting
  <2>2. written'[z] \in Nat /\ written'[z] >= written[z] BY <1>4 DEF Output
  <2> QED BY <2>1, <2>2, Frame
<1>5. ASSUME NEW s \in Streams, ReadFile(s) \/ ReadMarker(s) PROVE Stream(z)'
  BY <1>2, <1>5 DEF ReadFile, ReadMarker, output, collecting
<1>6. CASE Finish \/ CollectorDies BY <1>2, <1>6 DEF Finish, CollectorDies, output
<1>7. CASE SeesExit \/ Records \/ AdapterRestarts \/ Ask
  BY <1>2, <1>7 DEF SeesExit, Records, AdapterRestarts, Ask, output, collecting
<1>8. CASE UNCHANGED vars BY <1>2, <1>8 DEF vars, output, collecting
<1> QED BY <1>1, <1>3, <1>4, <1>5, <1>6, <1>7, <1>8 DEF Next, Collect, Captures

\* Every step keeps what the markers stand for.
LEMMA FinalsKept == ASSUME IndInv, [Next]_vars PROVE Finals'
<1> USE DEF IndInv, TypeOK, Finals
<1>1. ASSUME UNCHANGED <<capture, collector, watcher, begun>> PROVE Finals' BY <1>1
<1>2. ASSUME NEW s \in Streams, Captures(s) PROVE Finals' BY <1>2, CapturesOnly
<1>3. CASE Begin \/ BeginFails \/ Exit BY <1>1, <1>3 DEF Begin, BeginFails, Exit, collecting, reading
<1>4. ASSUME NEW s \in Streams, Output(s) \/ ReadFile(s) \/ ReadMarker(s) PROVE Finals'
  BY <1>1, <1>4 DEF Output, ReadFile, ReadMarker, collecting, reading
<1>5. CASE Finish BY <1>5 DEF Finish, Captured, reading
<1>6. CASE CollectorDies BY <1>6 DEF CollectorDies, reading
<1>7. CASE SeesExit BY <1>7 DEF SeesExit, collecting, reading
<1>8. CASE Records BY <1>8 DEF Records, Complete, collecting, reading
<1>9. CASE AdapterRestarts BY <1>9 DEF AdapterRestarts, collecting
<1>10. CASE Ask BY <1>10 DEF Ask, collecting
<1>11. CASE UNCHANGED vars BY <1>1, <1>11 DEF vars, collecting, reading
<1> QED BY <1>2, <1>3, <1>4, <1>5, <1>6, <1>7, <1>8, <1>9, <1>10, <1>11 DEF Next, Collect, Captures

\* Every step keeps what a request after a recorded exit has read.
LEMMA AnswerKept == ASSUME IndInv, [Next]_vars PROVE Answer'
<1> USE DEF IndInv, TypeOK, Finals, Answer
<1>1. ASSUME UNCHANGED <<file, marked, begun, reader, seen, shown>> PROVE Answer' BY <1>1
<1>2. ASSUME NEW s \in Streams, Captures(s) PROVE Answer' BY <1>2, CapturesOnly
<1>3. CASE Begin \/ BeginFails \/ Exit BY <1>1, <1>3 DEF Begin, BeginFails, Exit, collecting, reading
<1>4. ASSUME NEW s \in Streams, Output(s) PROVE Answer' BY <1>1, <1>4 DEF Output, collecting, reading
<1>5. ASSUME NEW s \in Streams, ReadFile(s) PROVE Answer'
  <2>1. s = "stdout" \/ s = "stderr" BY DEF Streams
  <2>2. "stdout" \in Streams /\ "stderr" \in Streams BY DEF Streams
  <2> QED BY <1>5, <2>1, <2>2 DEF ReadFile, collecting
<1>6. ASSUME NEW s \in Streams, ReadMarker(s) PROVE Answer'
  <2>1. s = "stdout" \/ s = "stderr" BY DEF Streams
  <2>2. marked \subseteq {"stdout", "stderr"} BY DEF Streams
  <2> QED BY <1>6, <2>1, <2>2 DEF ReadMarker, collecting
<1>7. CASE Finish \/ CollectorDies BY <1>1, <1>7 DEF Finish, CollectorDies, reading
<1>8. CASE SeesExit \/ Records BY <1>1, <1>8 DEF SeesExit, Records, collecting, reading
<1>9. CASE AdapterRestarts BY <1>9 DEF AdapterRestarts, collecting
<1>10. CASE Ask BY <1>10 DEF Ask, collecting
<1>11. CASE UNCHANGED vars BY <1>1, <1>11 DEF vars, collecting, reading
<1> QED BY <1>2, <1>3, <1>4, <1>5, <1>6, <1>7, <1>8, <1>9, <1>10, <1>11 DEF Next, Collect, Captures

\* The invariant holds in every reachable state.
THEOREM Invariance == Spec => []IndInv
<1>1. IndInv /\ [Next]_vars => IndInv'
  <2> SUFFICES ASSUME IndInv, [Next]_vars PROVE IndInv'
    OBVIOUS
  <2>1. TypeOK' BY TypeKept
  <2>2. \A s \in Streams : Stream(s)' BY StreamsKept
  <2>3. Finals' /\ Answer' BY FinalsKept, AnswerKept
  <2> QED BY <2>1, <2>2, <2>3 DEF IndInv
<1> QED BY <1>1, InitInv, PTL DEF Spec

\* The type invariant, for every limit and every amount of output.
THEOREM TypeCorrect == Spec => []TypeOK
<1>1. IndInv => TypeOK BY DEF IndInv
<1> QED BY <1>1, Invariance, PTL

\* A file always holds the first bytes of its stream and no others.
THEOREM FilesArePrefixes == Spec => []FirstBytesAreKept
<1>1. IndInv => FirstBytesAreKept
  <2> SUFFICES ASSUME IndInv, NEW s \in Streams
               PROVE  \E n \in 0 .. Limit : n <= written[s] /\ file[s] = First(n)
    BY DEF FirstBytesAreKept
  <2>1. Flows(s) /\ Prefix(s) BY DEF IndInv, Stream
  <2>2. PICK n \in 0 .. Limit : n <= taken[s] /\ file[s] = First(n) BY <2>1 DEF Prefix
  <2>3. n <= written[s] BY <2>1, <2>2, LogsAssumption DEF Flows, IndInv, TypeOK
  <2> QED BY <2>2, <2>3
<1> QED BY <1>1, Invariance, PTL

\* Without an error, a file without a marker is all that was read.
THEOREM LossIsMarked == Spec => []NoSilentLoss
<1>1. IndInv => NoSilentLoss BY DEF IndInv, Stream, Whole, Marks, NoSilentLoss
<1> QED BY <1>1, Invariance, PTL

\* After an exit recorded without an error, answers are exact.
THEOREM FinalAnswersAreExact == Spec => []FinalAnswerIsExact
<1>1. IndInv => FinalAnswerIsExact
  <2> SUFFICES ASSUME IndInv, reader = "answered", begun = "recorded"
               PROVE  /\ \A s \in Streams : seen[s] = First(Smaller(written[s], Limit))
                      /\ shown # {} <=> \E s \in Streams : written[s] > Limit
    BY DEF FinalAnswerIsExact
  <2>1. shown = marked /\ \A s \in Streams : capture[s] = "captured" /\ seen[s] = file[s]
    BY DEF IndInv, Finals, Answer, Streams
  <2>2. ASSUME NEW s \in Streams
        PROVE  file[s] = First(Smaller(written[s], Limit)) /\ (s \in marked <=> written[s] > Limit)
    <3>1. Whole(s) /\ Marks(s) /\ Closed(s) /\ capture[s] = "captured" BY <2>1 DEF IndInv, Stream
    <3>2. taken[s] = written[s] /\ Start(s) = written[s] BY <3>1, LogsAssumption DEF Closed, Start, IndInv, TypeOK
    <3> QED BY <3>1, <3>2 DEF Whole, Marks
  <2>3. marked \subseteq Streams BY DEF IndInv, TypeOK
  <2> QED BY <2>1, <2>2, <2>3
<1> QED BY <1>1, Invariance, PTL

\* captureLog, for any limit, buffer and output.
THEOREM OutputIsStoredOrMarked == Spec => []StoredOrMarked
<1>1. FirstBytesAreKept /\ NoSilentLoss => StoredOrMarked
  BY DEF StoredOrMarked
<1> QED
  BY <1>1, FilesArePrefixes, LossIsMarked, PTL
=============================================================================
