------------------------------ MODULE Supervisor ------------------------------
(***************************************************************************)
(* The supervisor of sandcube serve (cli/supervisor.cr, CLI.serve): it     *)
(* starts containerd, the adapter, buildkit and the API one after the      *)
(* other, each once the one before it answers its probe, watches them, and *)
(* stops them in reverse order on a signal, a failed start or the exit of  *)
(* any of them. A fiber of its own waits for each child, so that the       *)
(* supervisor learns of an exit only later. Children are numbered in the   *)
(* order of their start.                                                   *)
(***************************************************************************)
EXTENDS Naturals

CONSTANT N   \* children

ASSUME SupervisorAssumption == N \in Nat \ {0}

Children == 1 .. N

VARIABLES
  started,    \* children started so far
  alive,      \* children that run
  reaped,     \* children whose exit the waiting fiber has seen: status
  serving,    \* children that would answer a probe
  answered,   \* children that have answered a probe
  stopping,   \* a signal came, or the shutdown has begun
  signalled,  \* a signal came
  asked,      \* children that were sent SIGTERM
  killed,     \* children that were sent SIGKILL
  pc,         \* "start", "probe", "probed", "monitor", "stop", "grace", "reap" or "ended"
  current,    \* the child the shutdown is at
  result      \* "none", "ok" or "error"

processes == <<alive, reaped, serving>>
vars == <<started, processes, answered, stopping, signalled, asked, killed, pc, current, result>>

Init ==
  /\ started = 0
  /\ alive = {} /\ reaped = {} /\ serving = {} /\ answered = {}
  /\ stopping = FALSE /\ signalled = FALSE
  /\ asked = {} /\ killed = {}
  /\ pc = "start" /\ current = 0
  /\ result = "none"

-----------------------------------------------------------------------------
(* The children and their waiting fibers.                                  *)

Serves(i) ==
  /\ i \in alive \ serving
  /\ serving' = serving \cup {i}
  /\ UNCHANGED <<started, alive, reaped, answered, stopping, signalled, asked, killed, pc, current, result>>

\* By itself, on SIGTERM or on SIGKILL.
Exits(i) ==
  /\ i \in alive
  /\ alive' = alive \ {i} /\ serving' = serving \ {i}
  /\ UNCHANGED <<started, reaped, answered, stopping, signalled, asked, killed, pc, current, result>>

\* Process.wait returns in the fiber of the child.
Reap(i) ==
  /\ i \in 1 .. started /\ i \notin alive \cup reaped
  /\ reaped' = reaped \cup {i}
  /\ UNCHANGED <<started, alive, serving, answered, stopping, signalled, asked, killed, pc, current, result>>

\* SIGINT or SIGTERM, any number of times.
Interrupt ==
  /\ ~signalled /\ pc # "ended"
  /\ stopping' = TRUE /\ signalled' = TRUE
  /\ UNCHANGED <<started, processes, answered, asked, killed, pc, current, result>>

-----------------------------------------------------------------------------
(* Startup and monitoring.                                                 *)

\* Mutant of Sound: only the exit of the latest child is noticed.
SoundLatest == ~stopping /\ started \notin reaped

\* check! raises nothing.
Sound == ~stopping /\ reaped = {}

Outcome == IF stopping THEN "ok" ELSE "error"

\* The exception is re-raised unless a signal was the reason; in either case
\* the shutdown follows, from the child started last.
Abort ==
  /\ result' = Outcome
  /\ stopping' = TRUE
  /\ pc' = "stop" /\ current' = started
  /\ UNCHANGED <<started, processes, answered, signalled, asked, killed>>

\* check!, a new process, and the first check! of the loop before its probe.
Start ==
  /\ pc = "start" /\ started < N /\ Sound
  /\ started' = started + 1
  /\ alive' = alive \cup {started + 1}
  /\ pc' = "probe"
  /\ UNCHANGED <<reaped, serving, answered, stopping, signalled, asked, killed, current, result>>

\* The executable cannot be run.
StartFails == pc = "start" /\ Sound /\ Abort

\* Mutant of Answers: the probe is not waited for.
AnswersAnyway == TRUE

Answers == started \in serving

\* check!, and a probe that is answered; a probe that is not is repeated.
\* The fiber yields before it looks at the children once more.
Probe ==
  /\ pc = "probe" /\ Sound /\ Answers
  /\ answered' = answered \cup ({started} \cap serving)
  /\ pc' = "probed"
  /\ UNCHANGED <<started, processes, stopping, signalled, asked, killed, current, result>>

Ready ==
  /\ pc = "probed" /\ Sound
  /\ pc' = IF started = N THEN "monitor" ELSE "start"
  /\ UNCHANGED <<started, processes, answered, stopping, signalled, asked, killed, current, result>>

\* "Timed out waiting for ..." after 60 seconds.
TimesOut == pc = "probe" /\ Sound /\ Abort

\* check! raises, or the loop of monitor ends with a signal.
Stops == pc \in {"start", "probe", "probed", "monitor"} /\ ~Sound /\ Abort

-----------------------------------------------------------------------------
(* shutdown.                                                               *)

Move(step, i) ==
  /\ pc' = step /\ current' = i
  /\ UNCHANGED <<started, processes, answered, stopping, signalled, result>>

\* SIGTERM to the child, unless its exit is known. One that finds the child gone
\* raises what Child#signal rescues.
Terminate ==
  /\ pc = "stop" /\ current > 0
  /\ asked' = IF current \in reaped THEN asked ELSE asked \cup {current}
  /\ Move("grace", current)
  /\ UNCHANGED killed

\* Mutant of Stopped: the grace period is not waited for.
StoppedAtOnce ==
  /\ pc \in {"grace", "reap"}
  /\ Move("stop", current - 1)
  /\ UNCHANGED <<asked, killed>>

\* The status is seen, in the grace period or after the kill.
Stopped ==
  /\ pc \in {"grace", "reap"} /\ current \in reaped
  /\ Move("stop", current - 1)
  /\ UNCHANGED <<asked, killed>>

\* Mutant of Kill: a child that outlives its grace period is given up.
KillNot ==
  /\ pc = "grace" /\ current \notin reaped
  /\ Move("stop", current - 1)
  /\ UNCHANGED <<asked, killed>>

\* The grace period of 15 seconds is over.
Kill ==
  /\ pc = "grace" /\ current \notin reaped
  /\ killed' = killed \cup {current}
  /\ Move("reap", current)
  /\ UNCHANGED asked

End ==
  /\ pc = "stop" /\ current = 0
  /\ pc' = "ended"
  /\ UNCHANGED <<started, processes, answered, stopping, signalled, asked, killed, current, result>>

Supervise ==
  \/ Start \/ StartFails \/ Probe \/ Ready \/ TimesOut \/ Stops
  \/ Terminate \/ Stopped \/ Kill \/ End

Next ==
  \/ Supervise \/ Interrupt
  \/ \E i \in Children : Serves(i) \/ Exits(i) \/ Reap(i)

Spec == Init /\ [][Next]_vars

\* The supervisor's fibers run, its timers fire, and a process that was sent
\* SIGKILL ends. A child may ignore SIGTERM, hang, and never serve.
FairSpec ==
  /\ Spec
  /\ WF_vars(Supervise)
  /\ \A i \in Children : WF_vars(Reap(i)) /\ WF_vars(i \in killed /\ Exits(i))

-----------------------------------------------------------------------------
(* Properties.                                                             *)

TypeOK ==
  /\ started \in 0 .. N
  /\ alive \subseteq Children /\ reaped \subseteq Children /\ serving \subseteq Children
  /\ answered \subseteq Children /\ asked \subseteq Children /\ killed \subseteq Children
  /\ stopping \in BOOLEAN /\ signalled \in BOOLEAN
  /\ pc \in {"start", "probe", "probed", "monitor", "stop", "grace", "reap", "ended"}
  /\ current \in 0 .. N
  /\ result \in {"none", "ok", "error"}

\* "Dependents finish first, while their runtime/database dependencies still
\* exist": the supervisor signals a child only when no child that was started
\* after it runs any more, whatever exits by itself in the meantime.
DependentsFinishFirst ==
  [][ \A i \in Children : i \in (asked' \ asked) \cup (killed' \ killed) =>
        \A j \in alive : j <= i ]_vars

\* "The supervisor reaps every child": it does not end before they have, even
\* when a signal or an exit interrupts the startup.
EveryChildIsReaped == pc = "ended" => alive = {} /\ reaped = 1 .. started

\* "checks readiness in dependency order": a child is started only after every
\* earlier one has answered, and while no exit is known.
StartsInOrder ==
  [][ started' # started => answered = 1 .. started /\ reaped = {} /\ ~stopping ]_vars

\* "Any unexpected child exit aborts startup or stops the service with a
\* nonzero exit status": the service ends well only after a signal.
SuccessNeedsSignal == result = "ok" => signalled

\* The end of the service leaves no child behind, and is a success only when
\* it was asked for.
EndsClean == EveryChildIsReaped /\ SuccessNeedsSignal

\* A signal, and any exit of a child, ends the service, whether it comes
\* during the startup, the monitoring or the shutdown, and whatever the other
\* children do. The startup ends in any case.
ServiceEnds ==
  /\ signalled ~> pc = "ended"
  /\ \A i \in Children : (i <= started /\ i \notin alive) ~> pc = "ended"
  /\ <>(pc \in {"monitor", "ended"})
=============================================================================
