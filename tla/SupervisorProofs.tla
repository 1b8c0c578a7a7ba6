--------------------------- MODULE SupervisorProofs ---------------------------
(***************************************************************************)
(* The supervisor with any number of children: it stops them in reverse    *)
(* order, reaps all of them, starts each after the earlier ones have       *)
(* answered, and reports success only after a signal.                      *)
(***************************************************************************)
EXTENDS Supervisor, TLAPS

Up == {"start", "probe", "probed", "monitor"}
Down == {"stop", "grace", "reap"}

\* A child runs or was reaped only after its start, and never both.
Known == alive \subseteq 1 .. started /\ reaped \subseteq 1 .. started /\ alive \cap reaped = {}

\* The shutdown leaves no child behind that it has passed.
Passed ==
  /\ pc \in Down => current <= started /\ \A j \in 1 .. started : j > current => j \in reaped
  /\ pc \in {"grace", "reap"} => current > 0
  /\ pc = "ended" => \A j \in 1 .. started : j \in reaped

\* Every child but the latest has answered, and that one from its probe on.
Answered ==
  /\ pc \in {"start", "probed"} => answered = 1 .. started
  /\ pc = "probe" => started > 0 /\ answered = 1 .. (started - 1)
  /\ pc = "probed" => started > 0

\* What stops the supervisor before its shutdown is a signal.
Reasoned == (stopping /\ pc \in Up => signalled) /\ (result = "ok" => signalled)

IndInv == TypeOK /\ Known /\ Passed /\ Answered /\ Reasoned

\* The invariant holds when no child was started.
LEMMA InitInv == Init => IndInv
<1> SUFFICES ASSUME Init PROVE IndInv
  OBVIOUS
<1>1. TypeOK
  <2>1. stopping \in BOOLEAN /\ signalled \in BOOLEAN BY Zenon DEF Init
  <2>2. started \in 0 .. N /\ current \in 0 .. N BY SupervisorAssumption DEF Init
  <2> QED BY <2>1, <2>2 DEF Init, TypeOK
<1>2. Known BY DEF Init, Known
<1>3. Passed BY DEF Init, Passed, Down
<1>4. Answered BY DEF Init, Answered
<1>5. Reasoned BY DEF Init, Reasoned
<1> QED BY <1>1, <1>2, <1>3, <1>4, <1>5 DEF IndInv

\* Every step keeps the types.
LEMMA TypeKept == IndInv /\ [Next]_vars => TypeOK'
<1> SUFFICES ASSUME IndInv, [Next]_vars PROVE TypeOK'
  OBVIOUS
<1> USE SupervisorAssumption DEF TypeOK, Children, IndInv
<1>1. CASE Start BY <1>1 DEF Start, Known
<1>2. CASE StartFails BY <1>2 DEF StartFails, Abort, Outcome, processes
<1>3. CASE Probe BY <1>3 DEF Probe, Answered, processes
<1>4. CASE Ready BY <1>4 DEF Ready, processes
<1>5. CASE TimesOut BY <1>5 DEF TimesOut, Abort, Outcome, processes
<1>6. CASE Stops BY <1>6 DEF Stops, Abort, Outcome, processes
<1>7. CASE Terminate BY <1>7 DEF Terminate, Move, processes
<1>8. CASE Stopped BY <1>8 DEF Stopped, Move, processes, Passed
<1>9. CASE Kill BY <1>9 DEF Kill, Move, processes, Passed
<1>10. CASE End BY <1>10 DEF End, processes
<1>11. CASE Interrupt BY <1>11 DEF Interrupt, processes
<1>12. ASSUME NEW i \in Children, Serves(i) \/ Exits(i) \/ Reap(i) PROVE TypeOK'
  BY <1>12 DEF Serves, Exits, Reap
<1>13. CASE UNCHANGED vars BY <1>13 DEF vars, processes
<1> QED BY <1>1, <1>2, <1>3, <1>4, <1>5, <1>6, <1>7, <1>8, <1>9, <1>10, <1>11, <1>12, <1>13 DEF Next, Supervise

\* Every step keeps what is known of the children.
LEMMA KnownKept == IndInv /\ [Next]_vars => Known'
<1> SUFFICES ASSUME IndInv, [Next]_vars PROVE Known'
  OBVIOUS
<1> USE SupervisorAssumption DEF TypeOK, Children, IndInv, Known
<1>1. CASE Start BY <1>1 DEF Start
<1>2. CASE UNCHANGED <<started, processes>> BY <1>2 DEF processes
<1>3. ASSUME NEW i \in Children, Serves(i) PROVE Known' BY <1>3 DEF Serves
<1>4. ASSUME NEW i \in Children, Exits(i) PROVE Known' BY <1>4 DEF Exits
<1>5. ASSUME NEW i \in Children, Reap(i) PROVE Known' BY <1>5 DEF Reap
<1>6. CASE Supervise \/ Interrupt \/ UNCHANGED vars
  BY <1>1, <1>2, <1>6 DEF Supervise, StartFails, Probe, Ready, TimesOut, Stops, Abort, Terminate, Stopped,
    Kill, Move, End, Interrupt, vars, processes
<1> QED BY <1>3, <1>4, <1>5, <1>6 DEF Next

\* Every step keeps the order of the shutdown.
LEMMA PassedKept == IndInv /\ [Next]_vars => Passed'
<1> SUFFICES ASSUME IndInv, [Next]_vars PROVE Passed'
  OBVIOUS
<1> USE SupervisorAssumption DEF TypeOK, Children, IndInv, Known, Passed, Down
<1>1. CASE Start BY <1>1 DEF Start
<1>2. CASE Abort BY <1>2 DEF Abort, processes
<1>3. CASE StartFails \/ TimesOut \/ Stops BY <1>2, <1>3 DEF StartFails, TimesOut, Stops
<1>4. CASE Probe BY <1>4 DEF Probe, processes
<1>5. CASE Ready BY <1>5 DEF Ready, processes
<1>6. CASE Terminate BY <1>6 DEF Terminate, Move, processes
<1>7. CASE Stopped BY <1>7 DEF Stopped, Move, processes
<1>8. CASE Kill BY <1>8 DEF Kill, Move, processes
<1>9. CASE End BY <1>9 DEF End, processes
<1>10. CASE Interrupt BY <1>10 DEF Interrupt, processes
<1>11. ASSUME NEW i \in Children, Serves(i) \/ Exits(i) \/ Reap(i) PROVE Passed'
  BY <1>11 DEF Serves, Exits, Reap
<1>12. CASE UNCHANGED vars BY <1>12 DEF vars, processes
<1> QED BY <1>1, <1>3, <1>4, <1>5, <1>6, <1>7, <1>8, <1>9, <1>10, <1>11, <1>12 DEF Next, Supervise

\* Every step keeps the order of the startup.
LEMMA AnsweredKept == IndInv /\ [Next]_vars => Answered'
<1> SUFFICES ASSUME IndInv, [Next]_vars PROVE Answered'
  OBVIOUS
<1> USE SupervisorAssumption DEF TypeOK, Children, IndInv, Answered
<1>1. CASE Start BY <1>1 DEF Start
<1>2. CASE Probe BY <1>2 DEF Probe, Answers, processes
<1>3. CASE Ready BY <1>3 DEF Ready, processes
<1>4. CASE pc' \notin Up BY <1>4 DEF Up
<1>5. CASE UNCHANGED <<pc, started, answered>> BY <1>5
<1>6. CASE StartFails \/ TimesOut \/ Stops \/ Terminate \/ Stopped \/ Kill \/ End
  BY <1>4, <1>6 DEF StartFails, TimesOut, Stops, Abort, Terminate, Stopped, Kill, Move, End, Up
<1>7. CASE Interrupt \/ UNCHANGED vars BY <1>5, <1>7 DEF Interrupt, vars
<1>8. ASSUME NEW i \in Children, Serves(i) \/ Exits(i) \/ Reap(i) PROVE Answered'
  BY <1>5, <1>8 DEF Serves, Exits, Reap
<1> QED BY <1>1, <1>2, <1>3, <1>6, <1>7, <1>8 DEF Next, Supervise

\* Every step keeps the reasons.
LEMMA ReasonedKept == IndInv /\ [Next]_vars => Reasoned'
<1> SUFFICES ASSUME Reasoned, [Next]_vars PROVE Reasoned'
  BY DEF IndInv
<1> USE DEF Reasoned
<1>1. CASE UNCHANGED <<stopping, signalled, result>> /\ (pc' \in Up => pc \in Up) BY <1>1
<1>2. CASE Abort /\ pc \in Up BY <1>2 DEF Abort, Outcome, Up
<1>3. CASE Start \/ Probe \/ Ready BY <1>1, <1>3 DEF Start, Probe, Ready, Up
<1>4. CASE StartFails \/ TimesOut \/ Stops BY <1>2, <1>4 DEF StartFails, TimesOut, Stops, Up
<1>5. CASE Terminate \/ Stopped \/ Kill \/ End BY <1>1, <1>5 DEF Terminate, Stopped, Kill, Move, End, Up
<1>6. CASE Interrupt BY <1>6 DEF Interrupt
<1>7. ASSUME NEW i \in Children, Serves(i) \/ Exits(i) \/ Reap(i) PROVE Reasoned'
  BY <1>1, <1>7 DEF Serves, Exits, Reap
<1>8. CASE UNCHANGED vars BY <1>1, <1>8 DEF vars
<1> QED BY <1>3, <1>4, <1>5, <1>6, <1>7, <1>8 DEF Next, Supervise

\* The invariant holds in every reachable state.
THEOREM Invariance == Spec => []IndInv
<1>1. IndInv /\ [Next]_vars => IndInv'
  BY TypeKept, KnownKept, PassedKept, AnsweredKept, ReasonedKept DEF IndInv
<1> QED BY <1>1, InitInv, PTL DEF Spec

\* The type invariant, for any number of children.
THEOREM TypeCorrect == Spec => []TypeOK
<1>1. IndInv => TypeOK BY DEF IndInv
<1> QED BY <1>1, Invariance, PTL

\* The supervisor ends only when every child it started has ended.
THEOREM ChildrenAreReaped == Spec => []EveryChildIsReaped
<1>1. IndInv => EveryChildIsReaped
  BY SupervisorAssumption DEF IndInv, TypeOK, Known, Passed, EveryChildIsReaped, Children
<1> QED BY <1>1, Invariance, PTL

\* The service succeeds only after a signal.
THEOREM SuccessIsAskedFor == Spec => []SuccessNeedsSignal
<1>1. IndInv => SuccessNeedsSignal BY DEF IndInv, Reasoned, SuccessNeedsSignal
<1> QED BY <1>1, Invariance, PTL

\* A child is signalled only when all later ones have ended.
THEOREM ShutdownIsOrdered == Spec => DependentsFinishFirst
<1>1. ASSUME IndInv, [Next]_vars, NEW i \in Children, i \in (asked' \ asked) \cup (killed' \ killed)
      PROVE  \A j \in alive : j <= i
  <2>1. CASE Terminate \/ Kill
    <3>1. i = current /\ pc \in Down BY <1>1, <2>1 DEF Terminate, Kill, Move, Down
    <3> QED BY <1>1, <3>1, SupervisorAssumption DEF IndInv, TypeOK, Known, Passed, Children
  <2>2. CASE UNCHANGED <<asked, killed>> BY <1>1, <2>2
  <2>3. CASE Start \/ StartFails \/ Probe \/ Ready \/ TimesOut \/ Stops \/ Stopped \/ End \/ Interrupt
    BY <2>2, <2>3 DEF Start, StartFails, Probe, Ready, TimesOut, Stops, Abort, Stopped, Move, End, Interrupt
  <2>4. ASSUME NEW k \in Children, Serves(k) \/ Exits(k) \/ Reap(k) PROVE UNCHANGED <<asked, killed>>
    BY <2>4 DEF Serves, Exits, Reap
  <2>5. CASE UNCHANGED vars BY <2>2, <2>5 DEF vars
  <2> QED BY <1>1, <2>1, <2>2, <2>3, <2>4, <2>5 DEF Next, Supervise
<1>2. IndInv /\ [Next]_vars =>
        [\A i \in Children : i \in (asked' \ asked) \cup (killed' \ killed) => \A j \in alive : j <= i]_vars
  BY <1>1
<1> QED BY <1>2, Invariance, PTL DEF Spec, DependentsFinishFirst

\* A child is started only when the earlier ones have answered and none is
\* known to have ended.
THEOREM StartupIsOrdered == Spec => StartsInOrder
<1>1. ASSUME IndInv, [Next]_vars, started' # started
      PROVE  answered = 1 .. started /\ reaped = {} /\ ~stopping
  <2>1. CASE Start BY <1>1, <2>1 DEF Start, Sound, IndInv, Answered
  <2>2. CASE UNCHANGED started BY <1>1, <2>2
  <2>3. CASE StartFails \/ Probe \/ Ready \/ TimesOut \/ Stops \/ Terminate \/ Stopped \/ Kill \/ End \/ Interrupt
    BY <2>2, <2>3 DEF StartFails, Probe, Ready, TimesOut, Stops, Abort, Terminate, Stopped, Kill, Move, End, Interrupt
  <2>4. ASSUME NEW k \in Children, Serves(k) \/ Exits(k) \/ Reap(k) PROVE UNCHANGED started
    BY <2>4 DEF Serves, Exits, Reap
  <2>5. CASE UNCHANGED vars BY <2>2, <2>5 DEF vars
  <2> QED BY <1>1, <2>1, <2>2, <2>3, <2>4, <2>5 DEF Next, Supervise
<1>2. IndInv /\ [Next]_vars =>
        [started' # started => answered = 1 .. started /\ reaped = {} /\ ~stopping]_vars
  BY <1>1
<1> QED BY <1>2, Invariance, PTL DEF Spec, StartsInOrder

\* How the service ends, for any number of children.
THEOREM AlwaysEndsClean == Spec => []EndsClean
<1>1. EveryChildIsReaped /\ SuccessNeedsSignal => EndsClean
  BY DEF EndsClean
<1> QED
  BY <1>1, ChildrenAreReaped, SuccessIsAskedFor, PTL
=============================================================================
