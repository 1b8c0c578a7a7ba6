--------------------------- MODULE ProcessesProofs ----------------------------
(***************************************************************************)
(* Proofs about Processes. The properties follow from one inductive        *)
(* invariant, which says for every process how the runtime, the record on  *)
(* disk and the adapter's memory go together in every phase.               *)
(***************************************************************************)
EXTENDS Processes, TLAPS

Recorded(p) == disk[p].status \notin {"none", "dir"}
Launching(p) == op.kind = "launch" /\ op.proc = p

\* Where the adapter is, and what that says about the sandbox.
PhaseInv ==
  /\ phase = "down" => op = Idle /\ tracked = {} /\ done = {}
  /\ phase = "recover" => op = Idle
  /\ phase = "reconcile" => op.kind = "reconcile"
  /\ phase # "recover" => recovering = {}
  /\ op.kind = "launch" => phase = "serve" /\ container /\ op.proc \in Procs
  /\ op.kind = "start" => container /\ task = "none"
  /\ op.step \in {"network", "container"} => task = "none"
  /\ op.step \in {"forget", "gone"} => ~container
  /\ ~container => task = "none"

\* What the runtime did: a command runs at most once, and only the end of a
\* run has an outcome.
RunInv(p) ==
  /\ runs[p] <= 1
  /\ outcome[p] # None => runs[p] = 1 /\ exec[p] \in {"none", "stopped"}
  /\ exec[p] = "stopped" => outcome[p] # None
  /\ exec[p] \in {"running", "stopped"} => runs[p] = 1
  /\ exec[p] # "none" => Recorded(p) /\ task # "none"
  /\ container /\ ~Recorded(p) => runs[p] = 0

\* A launch under way.
LaunchInv(p) ==
  Launching(p) =>
    /\ p \in tracked \ done /\ watcher[p] = "none"
    /\ mem[p].status = "starting" /\ mem[p].exit = None /\ disk[p].exit = None
    /\ op.step = "setup" => disk[p].status = "none"
    /\ op.step \in {"exec", "start", "undo", "started"} => disk[p].status = "starting"
    /\ op.step = "fail" => disk[p].status \in {"none", "dir", "starting"}
    /\ op.step \in {"setup", "exec", "start"} => runs[p] = 0
    /\ op.step \in {"start", "undo", "started"} => p \in handle

\* What is known of a process, on disk and in memory.
RecordInv(p) ==
  /\ disk[p].exit \in {None, outcome[p]} /\ mem[p].exit \in {None, outcome[p]}
  /\ disk[p].status = "exited" => disk[p].exit # None
  /\ mem[p].status = "exited" => mem[p].exit # None
  /\ mem[p].status = "running" => p \in handle
  /\ p \in tracked => mem[p].status \notin {"none", "dir"}
  /\ p \in done => Terminal(mem[p]) /\ (container => p \in tracked)
  /\ p \in tracked \cap done /\ mem[p].status = "exited" => disk[p].status = "exited"
  /\ p \in recovering => Recorded(p) /\ p \notin tracked \cup done /\ watcher[p] = "none"
  /\ container /\ phase # "down" /\ p \notin tracked \cup recovering => disk[p].status = "none"

\* What the watcher of a process relies on.
WatchInv(p) ==
  /\ watcher[p] # "none" => /\ p \notin done
                            /\ mem[p].status \notin {"none", "dir"}
                            /\ p \in tracked \/ ~container
                            /\ phase # "down"
  /\ watcher[p] \in {"save", "retire"} => outcome[p] # None
  /\ watcher[p] # "none" => disk[p].exit \in {None, mem[p].exit}
  /\ watcher[p] = "retire" => /\ mem[p].status = "exited"
                              /\ p \in tracked => disk[p].status = "exited"

\* Who looks after a process that runs.
LiveInv(p) ==
  exec[p] = "running" /\ phase # "down" =>
    \/ p \in recovering
    \/ watcher[p] # "none" /\ p \in tracked
    \/ mem[p].status = "error" /\ p \in tracked \cap done
    \/ Launching(p)

ProcInv(p) == RunInv(p) /\ LaunchInv(p) /\ RecordInv(p) /\ WatchInv(p) /\ LiveInv(p)
IndInv == TypeOK /\ PhaseInv /\ \A p \in Procs : ProcInv(p)

-----------------------------------------------------------------------------
(* Records and requests.                                                   *)

LEMMA NoRecordType ==
  NoRecord \in Record /\ NoRecord.status = "none" /\ NoRecord.exit = None
BY DEF Record, NoRecord, Statuses, Codes

LEMMA RecordTypes ==
  ASSUME NEW r \in Record
  PROVE  /\ Failed(r) \in Record
         /\ Failed(r).status = "error" /\ Failed(r).exit = r.exit
         /\ \A c \in Codes \cup {None} :
              /\ Exited(r, c) \in Record
              /\ Exited(r, c).status = "exited" /\ Exited(r, c).exit = c
         /\ \A s \in Statuses :
              /\ [r EXCEPT !.status = s] \in Record
              /\ [r EXCEPT !.status = s].status = s /\ [r EXCEPT !.status = s].exit = r.exit
         /\ [r EXCEPT !.timedOut = TRUE] \in Record
         /\ [r EXCEPT !.timedOut = TRUE].status = r.status
         /\ [r EXCEPT !.timedOut = TRUE].exit = r.exit
BY DEF Record, Failed, Exited, Statuses, Codes

LEMMA OpTypes ==
  /\ Idle \in Ops
  /\ \A x \in Procs \cup {None} :
       /\ \A s \in {"setup", "exec", "start", "undo", "fail", "started"} :
            [kind |-> "launch", step |-> s, proc |-> x] \in Ops
       /\ [kind |-> "start", step |-> "check", proc |-> x] \in Ops
       /\ \A s \in {"settle", "task", "network"} : [kind |-> "stop", step |-> s, proc |-> x] \in Ops
       /\ \A s \in {"settle", "task", "network", "container", "gone", "forget"} :
            [kind |-> "delete", step |-> s, proc |-> x] \in Ops
       /\ [kind |-> "kill", step |-> "wait", proc |-> x] \in Ops
       /\ \A s \in {"records", "history", "forget"} :
            [kind |-> "reconcile", step |-> s, proc |-> x] \in Ops
BY DEF Ops, Steps

LEMMA IdleOp == Idle \in Ops /\ Idle.kind = "idle" /\ Idle.step = "none"
BY OpTypes DEF Idle

LEMMA OpFields ==
  ASSUME NEW o \in Ops
  PROVE  /\ o = [kind |-> o.kind, step |-> o.step, proc |-> o.proc]
         /\ o.proc \in Procs \cup {None}
         /\ \/ o = Idle
            \/ o.kind = "launch" /\ o.step \in {"setup", "exec", "start", "undo", "fail", "started"}
            \/ o.kind = "start" /\ o.step = "check"
            \/ o.kind = "stop" /\ o.step \in {"settle", "task", "network"}
            \/ o.kind = "delete" /\ o.step \in {"settle", "task", "network", "container", "gone", "forget"}
            \/ o.kind = "kill" /\ o.step = "wait"
            \/ o.kind = "reconcile" /\ o.step \in {"records", "history", "forget"}
BY DEF Ops, Steps, Idle

\* The next step of a launch.
LEMMA LaunchStep ==
  ASSUME TypeOK, op.kind = "launch",
         NEW s \in {"setup", "exec", "start", "undo", "fail", "started"}, Step(s)
  PROVE  op' \in Ops /\ op'.kind = "launch" /\ op'.step = s /\ op'.proc = op.proc
<1>1. op = [kind |-> "launch", step |-> op.step, proc |-> op.proc] /\ op.proc \in Procs \cup {None}
  BY OpFields DEF TypeOK
<1>2. op' = [kind |-> "launch", step |-> s, proc |-> op.proc]
  BY <1>1 DEF Step
<1> QED
  BY <1>1, <1>2, OpTypes

\* The next step of a request that is about no process.
LEMMA RequestStep ==
  ASSUME TypeOK, NEW s, Step(s),
         \/ op.kind = "stop" /\ s \in {"task", "network"}
         \/ op.kind = "delete" /\ s \in {"task", "network", "container", "forget"}
         \/ op.kind = "reconcile" /\ s \in {"history", "forget"}
  PROVE  op' \in Ops /\ op'.kind = op.kind /\ op'.step = s
<1>1. op = [kind |-> op.kind, step |-> op.step, proc |-> op.proc] /\ op.proc \in Procs \cup {None}
  BY OpFields DEF TypeOK
<1>2. op' = [kind |-> op.kind, step |-> s, proc |-> op.proc]
  BY <1>1 DEF Step
<1> QED
  BY <1>1, <1>2, OpTypes

-----------------------------------------------------------------------------
(* What a step leaves alone.                                               *)

Same(q) ==
  /\ exec'[q] = exec[q] /\ outcome'[q] = outcome[q] /\ runs'[q] = runs[q]
  /\ disk'[q] = disk[q] /\ mem'[q] = mem[q] /\ watcher'[q] = watcher[q]
  /\ q \in recovering' <=> q \in recovering
  /\ q \in tracked' <=> q \in tracked
  /\ q \in handle' <=> q \in handle
  /\ q \in done' <=> q \in done

\* A process a step does not touch is as well off as before.
LEMMA SameInv ==
  ASSUME NEW q \in Procs, ProcInv(q), Same(q), container' = container \/ ~ container',
         task' = task \/ task' # "none",
         phase' = "down" <=> phase = "down",
         op' = op \/ (~ Launching(q) /\ ~ Launching(q)')
  PROVE  ProcInv(q)'
<1> USE DEF Same
<1>1. RunInv(q)'
  BY DEF ProcInv, RunInv, Recorded
<1>2. LaunchInv(q)'
  BY DEF ProcInv, LaunchInv, Launching
<1>3. RecordInv(q)'
  BY DEF ProcInv, RecordInv, Recorded, Terminal
<1>4. WatchInv(q)'
  BY DEF ProcInv, WatchInv
<1>5. LiveInv(q)'
  BY DEF ProcInv, LiveInv, Launching
<1> QED
  BY <1>1, <1>2, <1>3, <1>4, <1>5 DEF ProcInv

\* A step that changes only what the holder of the lifecycle lock does next.
LEMMA QuietInv ==
  ASSUME IndInv, UNCHANGED <<container, task, exec, outcome, runs, disk, crashes, recovering,
                             tracked, mem, handle, done, watcher>>,
         overdue' \subseteq Timed, waiter' \in [Procs -> {"none", "wait", "kill"}],
         op' \in Ops, op' = op \/ (op.kind # "launch" /\ op'.kind # "launch"),
         phase' \in {"down", "recover", "reconcile", "serve"}, phase' = "down" <=> phase = "down",
         PhaseInv'
  PROVE  IndInv'
<1>1. TypeOK'
  BY DEF IndInv, TypeOK
<1>2. ASSUME NEW q \in Procs
      PROVE  ProcInv(q)'
  <2>1. ProcInv(q) /\ Same(q)
    BY DEF IndInv, Same
  <2>2. op' = op \/ (~ Launching(q) /\ ~ Launching(q)')
    BY DEF Launching
  <2> QED
    BY <2>1, <2>2, SameInv
<1> QED
  BY <1>1, <1>2 DEF IndInv

\* A step about one process.
LEMMA OneProcess ==
  ASSUME IndInv, NEW p \in Procs, \A q \in Procs \ {p} : Same(q),
         container' = container, task' = task, phase' = phase,
         \/ op' = op
         \/ /\ op.kind = "launch" => op.proc = p
            /\ op'.kind = "launch" => op'.proc = p,
         TypeOK', PhaseInv', ProcInv(p)'
  PROVE  IndInv'
<1>1. ASSUME NEW q \in Procs \ {p}
      PROVE  ProcInv(q)'
  <2>1. ProcInv(q) /\ Same(q)
    BY DEF IndInv
  <2>2. op' = op \/ (~ Launching(q) /\ ~ Launching(q)')
    BY DEF Launching
  <2> QED
    BY <2>1, <2>2, SameInv
<1> QED
  BY <1>1 DEF IndInv

-----------------------------------------------------------------------------
(* StartProcess.                                                           *)

LEMMA BeginInv ==
  ASSUME IndInv, NEW p \in Procs, Begin(p)
  PROVE  IndInv'
<1>1. /\ phase = "serve" /\ phase' = phase /\ op = Idle /\ container /\ task = "running"
      /\ op' = [kind |-> "launch", step |-> "setup", proc |-> p]
      /\ p \notin tracked /\ tracked' = tracked \cup {p}
      /\ mem' = [mem EXCEPT ![p] = [NoRecord EXCEPT !.status = "starting"]]
      /\ UNCHANGED <<container, task, exec, outcome, runs, overdue, disk, crashes, recovering,
                     handle, done, watcher, waiter>>
  BY DEF Begin, Request, Known, runtime
<1>2. /\ [NoRecord EXCEPT !.status = "starting"] \in Record
      /\ [NoRecord EXCEPT !.status = "starting"].status = "starting"
      /\ [NoRecord EXCEPT !.status = "starting"].exit = None
  BY NoRecordType, RecordTypes DEF Statuses
<1>3. mem'[p].status = "starting" /\ mem'[p].exit = None
  BY <1>1, <1>2 DEF IndInv, TypeOK
<1>4. op' \in Ops /\ op'.kind = "launch" /\ op'.step = "setup" /\ op'.proc = p
  BY <1>1, OpTypes
<1>5. TypeOK'
  BY <1>1, <1>2, <1>4 DEF IndInv, TypeOK
<1>6. PhaseInv'
  BY <1>1, <1>4 DEF IndInv, PhaseInv
<1>7. \A q \in Procs \ {p} : Same(q)
  BY <1>1 DEF IndInv, TypeOK, Same
<1>8. ProcInv(p)'
  <2>1. ProcInv(p) /\ recovering = {}
    BY <1>1 DEF IndInv, PhaseInv
  <2>2. /\ disk[p].status = "none" /\ p \notin done /\ watcher[p] = "none" /\ runs[p] = 0
        /\ disk[p].exit = None
    BY <1>1, <2>1 DEF ProcInv, RecordInv, WatchInv, RunInv, Recorded
  <2>3. RunInv(p)'
    BY <1>1, <2>1 DEF ProcInv, RunInv, Recorded
  <2>4. LaunchInv(p)'
    BY <1>1, <1>3, <1>4, <2>2 DEF LaunchInv, Launching
  <2>5. RecordInv(p)'
    BY <1>1, <1>3, <2>1, <2>2 DEF ProcInv, RecordInv, Recorded, Terminal
  <2>6. WatchInv(p)'
    BY <1>1, <2>2 DEF WatchInv
  <2>7. LiveInv(p)'
    BY <1>4 DEF LiveInv, Launching
  <2> QED
    BY <2>3, <2>4, <2>5, <2>6, <2>7 DEF ProcInv
<1>9. op.kind # "launch"
  BY <1>1 DEF Idle
<1> QED
  BY <1>1, <1>4, <1>5, <1>6, <1>7, <1>8, <1>9, OneProcess

\* A step of a launch that goes on keeps the process out of the hands of
\* watchers.
LEMMA SetupInv ==
  ASSUME IndInv, NEW p \in Procs,
         Setup(p) \/ \E left \in {"none", "dir", "starting"} : SetupFails(p, left)
  PROVE  IndInv'
<1>1. PICK s \in {"exec", "fail"}, left \in {"none", "dir", "starting"} :
        /\ op.kind = "launch" /\ op.step = "setup" /\ op.proc = p /\ Step(s)
        /\ s = "exec" => disk' = [disk EXCEPT ![p] = mem[p]]
        /\ s = "fail" => disk' = [disk EXCEPT ![p].status = left]
        /\ UNCHANGED <<container, task, exec, outcome, runs, overdue, phase, crashes,
                       recovering, tracked, mem, handle, done, watcher, waiter>>
  BY DEF Setup, SetupFails, Doing, runtime, tracking
<1>2. op' \in Ops /\ op'.kind = "launch" /\ op'.step = s /\ op'.proc = p
  BY <1>1, LaunchStep DEF IndInv
<1>3. ProcInv(p) /\ disk \in [Procs -> Record] /\ mem \in [Procs -> Record]
  BY DEF IndInv, TypeOK
<1>4. /\ mem[p].status = "starting" /\ disk[p].status = "none"
      /\ mem[p].exit = None /\ disk[p].exit = None
      /\ p \in tracked \ done /\ watcher[p] = "none" /\ runs[p] = 0
  BY <1>1, <1>3 DEF ProcInv, LaunchInv, Launching
<1>5. [disk EXCEPT ![p].status = left] = [disk EXCEPT ![p] = [disk[p] EXCEPT !.status = left]]
  BY <1>3
<1>6. /\ [disk[p] EXCEPT !.status = left] \in Record
      /\ [disk[p] EXCEPT !.status = left].status = left
      /\ [disk[p] EXCEPT !.status = left].exit = disk[p].exit
  <2>1. left \in Statuses /\ disk[p] \in Record
    BY <1>1, <1>3 DEF Statuses
  <2> QED
    BY <2>1, RecordTypes
<1>7. /\ disk' \in [Procs -> Record]
      /\ \A q \in Procs \ {p} : disk'[q] = disk[q]
      /\ s = "exec" => disk'[p] = mem[p]
      /\ s = "fail" => disk'[p].status = left /\ disk'[p].exit = disk[p].exit
  BY <1>1, <1>3, <1>4, <1>5, <1>6
<1>8. TypeOK'
  BY <1>1, <1>2, <1>7 DEF IndInv, TypeOK
<1>9. PhaseInv'
  BY <1>1, <1>2 DEF IndInv, PhaseInv
<1>10. \A q \in Procs \ {p} : Same(q)
  BY <1>1, <1>7 DEF Same
<1>11. exec[p] = "none"
  BY <1>3, <1>4 DEF ProcInv, RunInv, Recorded
<1>12. ProcInv(p)'
  <2>1. RunInv(p)'
    BY <1>1, <1>3, <1>4, <1>11 DEF ProcInv, RunInv
  <2>2. LaunchInv(p)'
    BY <1>1, <1>2, <1>4, <1>7 DEF LaunchInv, Launching
  <2>3. RecordInv(p)'
    BY <1>1, <1>3, <1>4, <1>7 DEF ProcInv, RecordInv, Recorded
  <2>4. WatchInv(p)'
    BY <1>1, <1>4 DEF WatchInv
  <2>5. LiveInv(p)'
    BY <1>2 DEF LiveInv, Launching
  <2> QED
    BY <2>1, <2>2, <2>3, <2>4, <2>5 DEF ProcInv
<1> QED
  BY <1>1, <1>2, <1>8, <1>9, <1>10, <1>12, OneProcess

LEMMA CreateExecInv ==
  ASSUME IndInv, NEW p \in Procs, CreateExec(p)
  PROVE  IndInv'
<1>1. /\ op.kind = "launch" /\ op.step = "exec" /\ op.proc = p /\ task = "running"
      /\ exec' = [exec EXCEPT ![p] = "created"] /\ handle' = handle \cup {p} /\ Step("start")
      /\ UNCHANGED <<container, task, outcome, runs, overdue, disk, phase, crashes,
                     recovering, tracked, mem, done, watcher, waiter>>
  BY DEF CreateExec, Doing
<1>2. op' \in Ops /\ op'.kind = "launch" /\ op'.step = "start" /\ op'.proc = p
  BY <1>1, LaunchStep DEF IndInv
<1>3. ProcInv(p) /\ exec'[p] = "created"
  BY <1>1 DEF IndInv, TypeOK
<1>4. /\ mem[p].status = "starting" /\ disk[p].status = "starting"
      /\ mem[p].exit = None /\ disk[p].exit = None
      /\ p \in tracked \ done /\ watcher[p] = "none" /\ runs[p] = 0
  BY <1>1, <1>3 DEF ProcInv, LaunchInv, Launching
<1>5. TypeOK'
  BY <1>1, <1>2 DEF IndInv, TypeOK, ExecStates
<1>6. PhaseInv'
  BY <1>1, <1>2 DEF IndInv, PhaseInv
<1>7. \A q \in Procs \ {p} : Same(q)
  BY <1>1 DEF IndInv, TypeOK, Same
<1>8. ProcInv(p)'
  <2>1. RunInv(p)'
    BY <1>1, <1>3, <1>4 DEF ProcInv, RunInv, Recorded
  <2>2. LaunchInv(p)'
    BY <1>1, <1>2, <1>4 DEF LaunchInv, Launching
  <2>3. RecordInv(p)'
    BY <1>1, <1>3 DEF ProcInv, RecordInv, Recorded, Terminal
  <2>4. WatchInv(p)'
    BY <1>1, <1>4 DEF WatchInv
  <2>5. LiveInv(p)'
    BY <1>2 DEF LiveInv, Launching
  <2> QED
    BY <2>1, <2>2, <2>3, <2>4, <2>5 DEF ProcInv
<1> QED
  BY <1>1, <1>2, <1>5, <1>6, <1>7, <1>8, OneProcess

LEMMA ExecutesInv ==
  ASSUME IndInv, NEW p \in Procs, NEW answered \in BOOLEAN, Executes(p, answered)
  PROVE  IndInv'
<1>1. PICK s \in {"started", "undo"} :
        /\ op.kind = "launch" /\ op.step = "start" /\ op.proc = p /\ task = "running"
        /\ exec[p] = "created" /\ exec' = [exec EXCEPT ![p] = "running"]
        /\ runs' = [runs EXCEPT ![p] = @ + 1] /\ Step(s)
        /\ UNCHANGED <<container, task, outcome, overdue, disk, phase, crashes,
                       recovering, tracked, mem, handle, done, watcher, waiter>>
  BY DEF Executes, Doing, tracking
<1>2. op' \in Ops /\ op'.kind = "launch" /\ op'.step = s /\ op'.proc = p
  BY <1>1, LaunchStep DEF IndInv
<1>3. ProcInv(p)
  BY DEF IndInv
<1>4. /\ mem[p].status = "starting" /\ disk[p].status = "starting"
      /\ mem[p].exit = None /\ disk[p].exit = None
      /\ p \in tracked \ done /\ watcher[p] = "none" /\ runs[p] = 0 /\ p \in handle
  BY <1>1, <1>3 DEF ProcInv, LaunchInv, Launching
<1>5. exec'[p] = "running" /\ runs'[p] = 1 /\ runs' \in [Procs -> Nat]
  BY <1>1, <1>4 DEF IndInv, TypeOK
<1>6. TypeOK'
  BY <1>1, <1>2, <1>5 DEF IndInv, TypeOK, ExecStates
<1>7. PhaseInv'
  BY <1>1, <1>2 DEF IndInv, PhaseInv
<1>8. \A q \in Procs \ {p} : Same(q)
  BY <1>1 DEF IndInv, TypeOK, Same
<1>9. ProcInv(p)'
  <2>1. RunInv(p)'
    BY <1>1, <1>3, <1>4, <1>5 DEF ProcInv, RunInv, Recorded
  <2>2. LaunchInv(p)'
    BY <1>1, <1>2, <1>4 DEF LaunchInv, Launching
  <2>3. RecordInv(p)'
    BY <1>1, <1>3 DEF ProcInv, RecordInv, Recorded, Terminal
  <2>4. WatchInv(p)'
    BY <1>1, <1>4 DEF WatchInv
  <2>5. LiveInv(p)'
    BY <1>2 DEF LiveInv, Launching
  <2> QED
    BY <2>1, <2>2, <2>3, <2>4, <2>5 DEF ProcInv
<1> QED
  BY <1>1, <1>2, <1>6, <1>7, <1>8, <1>9, OneProcess

\* A launch that fails, with or without the command having run.
LEMMA LaunchFailsInv ==
  ASSUME IndInv, NEW p \in Procs,
         \/ CreateFails(p) \/ StartFails(p)
         \/ \E killed, deleted \in BOOLEAN : Undo(p, killed, deleted)
  PROVE  IndInv'
<1>1. /\ op.kind = "launch" /\ op.step \in {"exec", "start", "undo"} /\ op.proc = p
      /\ \E s \in {"undo", "fail"} : Step(s) /\ (s = "undo" => op.step = "start")
      /\ UNCHANGED <<container, task, runs, overdue, disk, phase, crashes,
                     recovering, tracked, mem, handle, done, watcher, waiter>>
  BY DEF CreateFails, StartFails, Undo, Doing, tracking, runtime
<1>2. PICK s \in {"undo", "fail"} : Step(s) /\ (s = "undo" => op.step = "start")
  BY <1>1
<1>3. op' \in Ops /\ op'.kind = "launch" /\ op'.step = s /\ op'.proc = p
  BY <1>1, <1>2, LaunchStep DEF IndInv
<1>4. ProcInv(p)
  BY DEF IndInv
<1>5. /\ mem[p].status = "starting" /\ disk[p].status = "starting"
      /\ mem[p].exit = None /\ disk[p].exit = None
      /\ p \in tracked \ done /\ watcher[p] = "none" /\ (s = "undo" => p \in handle)
  BY <1>1, <1>2, <1>4 DEF ProcInv, LaunchInv, Launching
<1>6. PICK e \in ExecStates, c \in Codes \cup {None} :
        /\ exec' = [exec EXCEPT ![p] = e] /\ outcome' = [outcome EXCEPT ![p] = c]
        /\ \/ e = exec[p] /\ c = outcome[p]
           \/ e = "none" /\ c = outcome[p] /\ exec[p] # "running"
           \/ e \in {"none", "stopped"} /\ c = "killed" /\ exec[p] = "running"
  BY DEF CreateFails, StartFails, Undo, runtime, IndInv, TypeOK, ExecStates, Codes
<1>7. exec'[p] = e /\ outcome'[p] = c /\ disk[p].exit \in {None, outcome[p]} /\ outcome[p] \in Codes \cup {None}
  BY <1>4, <1>6 DEF IndInv, TypeOK, ProcInv, RecordInv
<1>8. TypeOK'
  BY <1>1, <1>3, <1>6 DEF IndInv, TypeOK
<1>9. PhaseInv'
  BY <1>1, <1>3 DEF IndInv, PhaseInv
<1>10. \A q \in Procs \ {p} : Same(q)
  BY <1>1, <1>6 DEF IndInv, TypeOK, Same
<1>11. exec[p] = "running" => outcome[p] = None
  BY <1>4 DEF ProcInv, RunInv
<1>12. ProcInv(p)'
  <2>1. RunInv(p)'
    BY <1>1, <1>4, <1>5, <1>6, <1>7, <1>11, ProcessesAssumption DEF ProcInv, RunInv, Recorded, Codes
  <2>2. LaunchInv(p)'
    BY <1>1, <1>3, <1>5 DEF LaunchInv, Launching
  <2>3. RecordInv(p)'
    BY <1>1, <1>4, <1>6, <1>7, <1>11 DEF ProcInv, RecordInv, Recorded, Terminal
  <2>4. WatchInv(p)'
    BY <1>1, <1>5 DEF WatchInv
  <2>5. LiveInv(p)'
    BY <1>3 DEF LiveInv, Launching
  <2> QED
    BY <2>1, <2>2, <2>3, <2>4, <2>5 DEF ProcInv
<1> QED
  BY <1>1, <1>3, <1>8, <1>9, <1>10, <1>12, OneProcess

\* Where saveProcess succeeds the record is on disk, where it fails it may be,
\* and where there is no directory it fails and nothing changes.
LEMMA SavedFacts ==
  ASSUME TypeOK, NEW p \in Procs, NEW r \in Record, NEW ok \in BOOLEAN, Saved(p, r, ok)
  PROVE  /\ disk' \in [Procs -> Record]
         /\ \A q \in Procs \ {p} : disk'[q] = disk[q]
         /\ disk'[p] \in {disk[p], r} /\ (ok => disk'[p] = r)
         /\ disk[p].status = "none" => ~ ok /\ disk'[p] = disk[p]
BY DEF Saved, TypeOK

LEMMA FailInv ==
  ASSUME IndInv, NEW p \in Procs, NEW ok \in BOOLEAN, Fail(p, ok)
  PROVE  IndInv'
<1>1. /\ op.kind = "launch" /\ op.step = "fail" /\ op.proc = p
      /\ mem' = [mem EXCEPT ![p] = Failed(@)] /\ Saved(p, Failed(mem[p]), ok)
      /\ done' = done \cup {p} /\ op' = Idle
      /\ UNCHANGED <<container, task, exec, outcome, runs, overdue, phase, crashes,
                     recovering, tracked, handle, watcher, waiter>>
  BY DEF Fail, Doing, runtime
<1>2. op' \in Ops /\ op'.kind = "idle" /\ op'.step = "none"
  BY <1>1, OpTypes DEF Idle
<1>3. ProcInv(p) /\ mem[p] \in Record
  BY DEF IndInv, TypeOK
<1>4. Failed(mem[p]) \in Record /\ Failed(mem[p]).status = "error" /\ Failed(mem[p]).exit = mem[p].exit
  BY <1>3, RecordTypes
<1>5. /\ disk' \in [Procs -> Record]
      /\ \A q \in Procs \ {p} : disk'[q] = disk[q]
      /\ disk'[p] \in {disk[p], Failed(mem[p])}
      /\ disk[p].status = "none" => disk'[p] = disk[p]
  BY <1>1, <1>4, SavedFacts DEF IndInv
<1>6. /\ p \in tracked \ done /\ watcher[p] = "none"
      /\ disk[p].status \in {"none", "dir", "starting"} /\ phase = "serve" /\ container
  BY <1>1, <1>3 DEF ProcInv, LaunchInv, Launching, IndInv, PhaseInv
<1>7. mem'[p] = Failed(mem[p])
  BY <1>1 DEF IndInv, TypeOK
<1>8. TypeOK'
  BY <1>1, <1>2, <1>4, <1>5 DEF IndInv, TypeOK
<1>9. PhaseInv'
  BY <1>1, <1>2, <1>6 DEF IndInv, PhaseInv
<1>10. \A q \in Procs \ {p} : Same(q)
  BY <1>1, <1>5 DEF IndInv, TypeOK, Same
<1>11. ProcInv(p)'
  <2>1. Recorded(p) => Recorded(p)'
    BY <1>4, <1>5 DEF Recorded
  <2>2. ~ Recorded(p) => runs[p] = 0
    BY <1>3, <1>6 DEF ProcInv, RunInv
  <2>3. RunInv(p)'
    BY <1>1, <1>3, <2>1, <2>2 DEF ProcInv, RunInv
  <2>4. LaunchInv(p)'
    BY <1>2 DEF LaunchInv, Launching
  <2>5. RecordInv(p)'
    BY <1>1, <1>3, <1>4, <1>5, <1>6, <1>7 DEF ProcInv, RecordInv, Recorded, Terminal
  <2>6. WatchInv(p)'
    BY <1>1, <1>6 DEF WatchInv
  <2>7. LiveInv(p)'
    BY <1>1, <1>4, <1>6, <1>7 DEF LiveInv
  <2> QED
    BY <2>3, <2>4, <2>5, <2>6, <2>7 DEF ProcInv
<1> QED
  BY <1>1, <1>2, <1>8, <1>9, <1>10, <1>11, OneProcess

LEMMA StartedInv ==
  ASSUME IndInv, NEW p \in Procs, NEW ok \in BOOLEAN, Started(p, ok)
  PROVE  IndInv'
<1> DEFINE r == [mem[p] EXCEPT !.status = "running"]
<1>1. /\ op.kind = "launch" /\ op.step = "started" /\ op.proc = p
      /\ mem' = [mem EXCEPT ![p].status = "running"] /\ Saved(p, r, ok)
      /\ watcher' = [watcher EXCEPT ![p] = "watch"] /\ op' = Idle
      /\ waiter' = [waiter EXCEPT ![p] = IF ok /\ p \in Timed THEN "wait" ELSE @]
      /\ UNCHANGED <<container, task, exec, outcome, runs, overdue, phase, crashes,
                     recovering, tracked, handle, done>>
  BY DEF Started, Doing, runtime
<1>2. op' \in Ops /\ op'.kind = "idle" /\ op'.step = "none"
  BY <1>1, OpTypes DEF Idle
<1>3. ProcInv(p) /\ mem[p] \in Record /\ mem \in [Procs -> Record]
  BY DEF IndInv, TypeOK
<1>4. r \in Record /\ r.status = "running" /\ r.exit = mem[p].exit
  BY <1>3, RecordTypes DEF Statuses
<1>5. /\ mem' \in [Procs -> Record] /\ mem'[p] = r
      /\ \A q \in Procs \ {p} : mem'[q] = mem[q]
  BY <1>1, <1>3, <1>4
<1>6. /\ disk' \in [Procs -> Record]
      /\ \A q \in Procs \ {p} : disk'[q] = disk[q]
      /\ disk'[p] \in {disk[p], r}
  BY <1>1, <1>4, SavedFacts DEF IndInv
<1>7. /\ p \in tracked \ done /\ watcher[p] = "none" /\ p \in handle
      /\ disk[p].status = "starting" /\ disk[p].exit = None /\ phase = "serve" /\ container
  BY <1>1, <1>3 DEF ProcInv, LaunchInv, Launching, IndInv, PhaseInv
<1>8. watcher'[p] = "watch" /\ waiter' \in [Procs -> {"none", "wait", "kill"}]
  BY <1>1 DEF IndInv, TypeOK
<1> HIDE DEF r
<1>9. TypeOK'
  BY <1>1, <1>2, <1>5, <1>6, <1>8 DEF IndInv, TypeOK
<1>10. PhaseInv'
  BY <1>1, <1>2, <1>7 DEF IndInv, PhaseInv
<1>11. \A q \in Procs \ {p} : Same(q)
  BY <1>1, <1>5, <1>6 DEF IndInv, TypeOK, Same
<1>12. ProcInv(p)'
  <2>1. RunInv(p)'
    BY <1>1, <1>3, <1>4, <1>6, <1>7 DEF ProcInv, RunInv, Recorded
  <2>2. LaunchInv(p)'
    BY <1>2 DEF LaunchInv, Launching
  <2>3. RecordInv(p)'
    BY <1>1, <1>3, <1>4, <1>5, <1>6, <1>7 DEF ProcInv, RecordInv, Recorded, Terminal
  <2>4. WatchInv(p)'
    BY <1>1, <1>4, <1>5, <1>6, <1>7, <1>8 DEF WatchInv
  <2>5. LiveInv(p)'
    BY <1>1, <1>7, <1>8 DEF LiveInv
  <2> QED
    BY <2>1, <2>2, <2>3, <2>4, <2>5 DEF ProcInv
<1> QED
  BY <1>1, <1>2, <1>9, <1>10, <1>11, <1>12, OneProcess

LEMMA LaunchesInv ==
  ASSUME IndInv, Launches
  PROVE  IndInv'
<1>1. PICK p \in Procs :
        \/ Begin(p) \/ Setup(p) \/ CreateExec(p) \/ CreateFails(p) \/ StartFails(p) \/ RetryExec(p)
        \/ \E ok \in BOOLEAN : Executes(p, ok) \/ Fail(p, ok) \/ Started(p, ok)
        \/ \E left \in {"none", "dir", "starting"} : SetupFails(p, left)
        \/ \E killed, deleted \in BOOLEAN : Undo(p, killed, deleted)
  BY DEF Launches
<1>2. CASE RetryExec(p)
  <2>1. waiter' \in [Procs -> {"none", "wait", "kill"}]
    BY <1>2 DEF RetryExec, IndInv, TypeOK
  <2>2. PhaseInv'
    BY <1>2 DEF RetryExec, IndInv, PhaseInv, runtime, adapter
  <2> QED
    BY <1>2, <2>1, <2>2, QuietInv DEF RetryExec, IndInv, TypeOK, runtime, adapter
<1> QED
  BY <1>1, <1>2, BeginInv, SetupInv, CreateExecInv, ExecutesInv, LaunchFailsInv, FailInv, StartedInv

-----------------------------------------------------------------------------
(* Watchers and waiters.                                                   *)

LEMMA WatchMissingInv ==
  ASSUME IndInv, NEW p \in Procs, NEW ok \in BOOLEAN, WatchMissing(p, ok)
  PROVE  IndInv'
<1>1. /\ watcher[p] = "watch" /\ exec[p] = "none"
      /\ mem' = [mem EXCEPT ![p] = Failed(@)] /\ Saved(p, Failed(mem[p]), ok)
      /\ watcher' = [watcher EXCEPT ![p] = IF ok THEN "none" ELSE @]
      /\ done' = IF ok THEN done \cup {p} ELSE done
      /\ UNCHANGED <<container, task, exec, outcome, runs, overdue, phase, crashes, op,
                     recovering, tracked, handle, waiter>>
  BY DEF WatchMissing, runtime, adapter
<1>2. ProcInv(p) /\ mem[p] \in Record
  BY DEF IndInv, TypeOK
<1>3. Failed(mem[p]) \in Record /\ Failed(mem[p]).status = "error" /\ Failed(mem[p]).exit = mem[p].exit
  BY <1>2, RecordTypes
<1>4. /\ disk' \in [Procs -> Record]
      /\ \A q \in Procs \ {p} : disk'[q] = disk[q]
      /\ disk'[p] \in {disk[p], Failed(mem[p])} /\ (ok => disk'[p] = Failed(mem[p]))
      /\ disk[p].status = "none" => ~ ok /\ disk'[p] = disk[p]
  BY <1>1, <1>3, SavedFacts DEF IndInv
<1>5. /\ mem'[p] = Failed(mem[p])
      /\ watcher'[p] = (IF ok THEN "none" ELSE "watch")
      /\ watcher' \in [Procs -> {"none", "watch", "save", "retire"}]
  BY <1>1 DEF IndInv, TypeOK
<1>6. /\ p \notin done /\ ~ Launching(p) /\ phase # "down"
      /\ p \in tracked \/ ~ container
      /\ disk[p].exit \in {None, mem[p].exit}
  BY <1>1, <1>2 DEF ProcInv, WatchInv, LaunchInv
<1>7. TypeOK'
  BY <1>1, <1>3, <1>4, <1>5 DEF IndInv, TypeOK
<1>8. PhaseInv'
  BY <1>1, <1>6 DEF IndInv, PhaseInv
<1>9. \A q \in Procs \ {p} : Same(q)
  BY <1>1, <1>4 DEF IndInv, TypeOK, Same
<1>10. ProcInv(p)'
  <2>1. RunInv(p)'
    BY <1>1, <1>2, <1>3, <1>4 DEF ProcInv, RunInv, Recorded
  <2>2. LaunchInv(p)'
    BY <1>1, <1>6 DEF LaunchInv, Launching
  <2>3. RecordInv(p)'
    BY <1>1, <1>2, <1>3, <1>4, <1>5, <1>6 DEF ProcInv, RecordInv, Recorded, Terminal
  <2>4. WatchInv(p)'
    BY <1>1, <1>3, <1>4, <1>5, <1>6 DEF WatchInv
  <2>5. LiveInv(p)'
    BY <1>1 DEF LiveInv
  <2> QED
    BY <2>1, <2>2, <2>3, <2>4, <2>5 DEF ProcInv
<1> QED
  BY <1>1, <1>7, <1>8, <1>9, <1>10, OneProcess

LEMMA WatchSaveInv ==
  ASSUME IndInv, NEW p \in Procs, NEW ok \in BOOLEAN, WatchSave(p, ok)
  PROVE  IndInv'
<1> DEFINE r == Exited(mem[p], outcome[p])
<1>1. /\ watcher[p] = "save"
      /\ mem' = [mem EXCEPT ![p] = r] /\ Saved(p, r, ok)
      /\ watcher' = [watcher EXCEPT ![p] = IF ok THEN "retire" ELSE "watch"]
      /\ UNCHANGED <<container, task, exec, outcome, runs, overdue, phase, crashes, op,
                     recovering, tracked, handle, done, waiter>>
  BY DEF WatchSave, runtime, adapter
<1>2. ProcInv(p) /\ mem[p] \in Record /\ outcome[p] \in Codes \cup {None}
  BY DEF IndInv, TypeOK
<1>3. r \in Record /\ r.status = "exited" /\ r.exit = outcome[p]
  BY <1>2, RecordTypes
<1>4. /\ disk' \in [Procs -> Record]
      /\ \A q \in Procs \ {p} : disk'[q] = disk[q]
      /\ disk'[p] \in {disk[p], r} /\ (ok => disk'[p] = r)
      /\ disk[p].status = "none" => ~ ok /\ disk'[p] = disk[p]
  BY <1>1, <1>3, SavedFacts DEF IndInv
<1> HIDE DEF r
<1>5. /\ mem'[p] = r /\ watcher'[p] = (IF ok THEN "retire" ELSE "watch")
      /\ watcher' \in [Procs -> {"none", "watch", "save", "retire"}]
  BY <1>1 DEF IndInv, TypeOK
<1>6. /\ p \notin done /\ ~ Launching(p) /\ phase # "down"
      /\ p \in tracked \/ ~ container
      /\ outcome[p] # None /\ disk[p].exit \in {None, outcome[p]}
  BY <1>1, <1>2 DEF ProcInv, WatchInv, LaunchInv, RecordInv
<1>7. TypeOK'
  BY <1>1, <1>3, <1>4, <1>5 DEF IndInv, TypeOK
<1>8. PhaseInv'
  BY <1>1, <1>6 DEF IndInv, PhaseInv
<1>9. \A q \in Procs \ {p} : Same(q)
  BY <1>1, <1>4 DEF IndInv, TypeOK, Same
<1>10. ProcInv(p)'
  <2>1. RunInv(p)'
    BY <1>1, <1>2, <1>3, <1>4 DEF ProcInv, RunInv, Recorded
  <2>2. LaunchInv(p)'
    BY <1>1, <1>6 DEF LaunchInv, Launching
  <2>3. RecordInv(p)'
    BY <1>1, <1>2, <1>3, <1>4, <1>5, <1>6 DEF ProcInv, RecordInv, Recorded
  <2>4. WatchInv(p)'
    BY <1>1, <1>3, <1>4, <1>5, <1>6 DEF WatchInv
  <2>5. LiveInv(p)'
    BY <1>1, <1>2, <1>5, <1>6 DEF ProcInv, LiveInv, RunInv
  <2> QED
    BY <2>1, <2>2, <2>3, <2>4, <2>5 DEF ProcInv
<1> QED
  BY <1>1, <1>7, <1>8, <1>9, <1>10, OneProcess

\* The exit is seen, and the runtime record deleted once it is saved.
LEMMA WatchStoppedInv ==
  ASSUME IndInv, NEW p \in Procs, WatchStopped(p)
  PROVE  IndInv'
<1>1. /\ watcher[p] = "watch" /\ exec[p] = "stopped"
      /\ watcher' = [watcher EXCEPT ![p] = "save"]
      /\ UNCHANGED <<container, task, exec, outcome, runs, overdue, disk, phase, crashes, op,
                     recovering, tracked, mem, handle, done, waiter>>
  BY DEF WatchStopped, runtime, adapter
<1>2. ProcInv(p) /\ watcher'[p] = "save"
  BY <1>1 DEF IndInv, TypeOK
<1>3. TypeOK'
  BY <1>1 DEF IndInv, TypeOK
<1>4. PhaseInv'
  BY <1>1 DEF IndInv, PhaseInv
<1>5. \A q \in Procs \ {p} : Same(q)
  BY <1>1 DEF IndInv, TypeOK, Same
<1>6. ProcInv(p)'
  <2>1. RunInv(p)' /\ LiveInv(p)'
    BY <1>1, <1>2 DEF ProcInv, RunInv, Recorded, LiveInv
  <2>2. LaunchInv(p)'
    BY <1>1, <1>2 DEF ProcInv, LaunchInv, Launching
  <2>3. RecordInv(p)'
    BY <1>1, <1>2 DEF ProcInv, RecordInv, Recorded, Terminal
  <2>4. WatchInv(p)'
    BY <1>1, <1>2 DEF ProcInv, WatchInv, RunInv
  <2> QED
    BY <2>1, <2>2, <2>3, <2>4 DEF ProcInv
<1> QED
  BY <1>1, <1>3, <1>4, <1>5, <1>6, OneProcess

LEMMA WatchRetireInv ==
  ASSUME IndInv, NEW p \in Procs, NEW ok \in BOOLEAN, WatchRetire(p, ok)
  PROVE  IndInv'
<1>1. /\ watcher[p] = "retire"
      /\ exec' = IF ok THEN [exec EXCEPT ![p] = "none"] ELSE exec
      /\ watcher' = [watcher EXCEPT ![p] = "none"] /\ done' = done \cup {p}
      /\ UNCHANGED <<container, task, outcome, runs, overdue, disk, phase, crashes, op,
                     recovering, tracked, mem, handle, waiter>>
  BY DEF WatchRetire, adapter
<1>2. ProcInv(p) /\ watcher'[p] = "none" /\ exec'[p] \in {"none", exec[p]}
  BY <1>1 DEF IndInv, TypeOK
<1>3. TypeOK'
  BY <1>1 DEF IndInv, TypeOK, ExecStates
<1>4. PhaseInv'
  <2>1. phase # "down"
    BY <1>1, <1>2 DEF ProcInv, WatchInv
  <2> QED
    BY <1>1, <2>1 DEF IndInv, PhaseInv
<1>5. \A q \in Procs \ {p} : Same(q)
  BY <1>1 DEF IndInv, TypeOK, Same
<1>6. outcome[p] # None /\ exec[p] # "running" /\ ~ Launching(p)
  BY <1>1, <1>2 DEF ProcInv, WatchInv, RunInv, LaunchInv
<1>7. ProcInv(p)'
  <2>1. RunInv(p)' /\ LiveInv(p)'
    BY <1>1, <1>2, <1>6 DEF ProcInv, RunInv, Recorded, LiveInv
  <2>2. LaunchInv(p)'
    BY <1>1, <1>6 DEF LaunchInv, Launching
  <2>3. RecordInv(p)'
    BY <1>1, <1>2 DEF ProcInv, RecordInv, Recorded, Terminal, WatchInv
  <2>4. WatchInv(p)'
    BY <1>2 DEF WatchInv
  <2> QED
    BY <2>1, <2>2, <2>3, <2>4 DEF ProcInv
<1> QED
  BY <1>1, <1>3, <1>4, <1>5, <1>7, OneProcess

-----------------------------------------------------------------------------
(* Steps of the runtime, on its own or at the adapter's request.           *)

\* A process stays as it is, or ends, or its runtime record is deleted.
Ended(q) ==
  \/ exec'[q] = exec[q] /\ outcome'[q] = outcome[q]
  \/ exec[q] = "running" /\ exec'[q] \in {"stopped", "none"} /\ outcome'[q] \in Codes
  \/ exec[q] # "running" /\ exec'[q] = "none" /\ outcome'[q] = outcome[q]

LEMMA EndedInv ==
  ASSUME IndInv, TypeOK', PhaseInv',
         UNCHANGED <<container, runs, disk, recovering, tracked, handle, done, watcher, phase>>,
         op' = op \/ (op.kind # "launch" /\ op'.kind # "launch"),
         \A q \in Procs : /\ Ended(q) /\ (exec'[q] # "none" => task' # "none")
                          /\ mem'[q].status = mem[q].status /\ mem'[q].exit = mem[q].exit
  PROVE  IndInv'
<1>1. ASSUME NEW q \in Procs
      PROVE  ProcInv(q)'
  <2>1. /\ ProcInv(q) /\ Ended(q) /\ (exec'[q] # "none" => task' # "none")
        /\ mem'[q].status = mem[q].status /\ mem'[q].exit = mem[q].exit
    BY DEF IndInv
  <2>2. Launching(q)' => Launching(q) /\ op' = op
    BY DEF Launching
  <2>3. Launching(q) => Launching(q)'
    BY DEF Launching
  <2>4. RunInv(q)'
    BY <2>1, ProcessesAssumption DEF ProcInv, RunInv, Recorded, Ended, Codes
  <2>5. LaunchInv(q)'
    BY <2>1, <2>2 DEF ProcInv, LaunchInv
  <2>6. RecordInv(q)'
    <3>1. exec[q] = "running" => outcome[q] = None
      BY <2>1 DEF ProcInv, RunInv
    <3>2. disk'[q].exit \in {None, outcome'[q]} /\ mem'[q].exit \in {None, outcome'[q]}
      BY <2>1, <3>1 DEF ProcInv, RecordInv, Ended
    <3> QED
      BY <2>1, <3>2 DEF ProcInv, RecordInv, Recorded, Terminal
  <2>7. WatchInv(q)'
    BY <2>1, ProcessesAssumption DEF ProcInv, WatchInv, Ended, Codes
  <2>8. LiveInv(q)'
    BY <2>1, <2>3 DEF ProcInv, LiveInv, Ended
  <2> QED
    BY <2>4, <2>5, <2>6, <2>7, <2>8 DEF ProcInv
<1> QED
  BY <1>1 DEF IndInv

LEMMA KillFacts ==
  ASSUME IndInv, NEW S, Kill(S)
  PROVE  /\ exec' \in [Procs -> ExecStates] /\ outcome' \in [Procs -> Codes \cup {None}]
         /\ \A q \in Procs : Ended(q) /\ (exec'[q] # "none" => task # "none")
<1>1. \A q \in Procs : exec[q] # "none" => task # "none"
  BY DEF IndInv, ProcInv, RunInv
<1> QED
  BY <1>1 DEF Kill, Ended, IndInv, TypeOK, ExecStates, Codes

LEMMA TaskDeletedFacts ==
  ASSUME IndInv, TaskDeleted
  PROVE  /\ exec' \in [Procs -> ExecStates] /\ outcome' \in [Procs -> Codes \cup {None}]
         /\ task' = "none"
         /\ \A q \in Procs : Ended(q) /\ exec'[q] = "none"
BY DEF TaskDeleted, Ended, IndInv, TypeOK, ExecStates, Codes

\* SIGKILL from a watcher or a waiter, and the deadline they notice.
LEMMA DeadlineInv ==
  ASSUME IndInv, NEW p \in Procs,
         \/ WaitTimesOut(p) \/ WaitEnds(p)
         \/ \E ok \in BOOLEAN : WatchOverdue(p, ok) \/ WaitKills(p, ok)
  PROVE  IndInv'
<1>1. /\ UNCHANGED <<container, task, runs, overdue, disk, phase, crashes, op,
                     recovering, tracked, handle, done, watcher>>
      /\ mem' = mem \/ mem' = [mem EXCEPT ![p].timedOut = TRUE]
      /\ UNCHANGED <<exec, outcome>> \/ \E S \in SUBSET Procs : Kill(S)
  BY DEF WaitTimesOut, WaitEnds, WatchOverdue, WaitKills, adapter, runtime
<1>2. /\ exec' \in [Procs -> ExecStates] /\ outcome' \in [Procs -> Codes \cup {None}]
      /\ \A q \in Procs : Ended(q) /\ (exec'[q] # "none" => task # "none")
  <2>1. \A q \in Procs : exec[q] # "none" => task # "none"
    BY DEF IndInv, ProcInv, RunInv
  <2>2. CASE UNCHANGED <<exec, outcome>>
    BY <2>1, <2>2 DEF IndInv, TypeOK, Ended
  <2> QED
    BY <1>1, <2>2, KillFacts
<1>3. waiter' \in [Procs -> {"none", "wait", "kill"}]
  BY DEF WaitTimesOut, WaitEnds, WatchOverdue, WaitKills, IndInv, TypeOK
<1>4. /\ mem' \in [Procs -> Record]
      /\ \A q \in Procs : mem'[q].status = mem[q].status /\ mem'[q].exit = mem[q].exit
  <2>1. mem \in [Procs -> Record] /\ mem[p] \in Record
    BY DEF IndInv, TypeOK
  <2>2. [mem EXCEPT ![p].timedOut = TRUE] = [mem EXCEPT ![p] = [mem[p] EXCEPT !.timedOut = TRUE]]
    BY <2>1
  <2> DEFINE r == [mem[p] EXCEPT !.timedOut = TRUE]
  <2>3. r \in Record /\ r.status = mem[p].status /\ r.exit = mem[p].exit
    BY <2>1, RecordTypes
  <2>4. mem' = mem \/ mem' = [mem EXCEPT ![p] = r]
    BY <1>1, <2>2
  <2> HIDE DEF r
  <2> QED
    BY <2>1, <2>3, <2>4
<1>5. TypeOK'
  BY <1>1, <1>2, <1>3, <1>4 DEF IndInv, TypeOK
<1>6. PhaseInv'
  BY <1>1 DEF IndInv, PhaseInv
<1> QED
  BY <1>1, <1>2, <1>4, <1>5, <1>6, EndedInv

LEMMA WatchesInv ==
  ASSUME IndInv, Watches
  PROVE  IndInv'
BY WatchMissingInv, WatchSaveInv, WatchStoppedInv, WatchRetireInv, DeadlineInv DEF Watches

LEMMA EnvironmentInv ==
  ASSUME IndInv, Environment
  PROVE  IndInv'
<1>1. CASE TaskExits
  <2>1. /\ task = "running" /\ task' = "stopped" /\ Kill(Procs)
        /\ UNCHANGED <<container, runs, overdue, disk, phase, crashes, op,
                       recovering, tracked, mem, handle, done, watcher, waiter>>
    BY <1>1 DEF TaskExits, tracking, adapter
  <2>2. TypeOK'
    BY <2>1, KillFacts DEF IndInv, TypeOK
  <2>3. PhaseInv'
    BY <2>1 DEF IndInv, PhaseInv
  <2> QED
    BY <2>1, <2>2, <2>3, KillFacts, EndedInv
<1>2. CASE TaskLost
  <2>1. /\ TaskDeleted
        /\ UNCHANGED <<container, runs, overdue, disk, phase, crashes, op,
                       recovering, tracked, mem, handle, done, watcher, waiter>>
    BY <1>2 DEF TaskLost, tracking, adapter
  <2>2. TypeOK'
    BY <2>1, TaskDeletedFacts DEF IndInv, TypeOK
  <2>3. PhaseInv'
    BY <2>1, TaskDeletedFacts DEF IndInv, PhaseInv
  <2> QED
    BY <2>1, <2>2, <2>3, TaskDeletedFacts, EndedInv
<1>3. ASSUME NEW p \in Procs, Exits(p)
      PROVE  IndInv'
  <2>1. /\ exec[p] = "running" /\ exec' = [exec EXCEPT ![p] = "stopped"]
        /\ outcome' = [outcome EXCEPT ![p] = "ok"]
        /\ UNCHANGED <<container, task, runs, overdue, disk, phase, crashes, op,
                       recovering, tracked, mem, handle, done, watcher, waiter>>
    BY <1>3 DEF Exits, tracking, adapter
  <2>2. TypeOK'
    BY <2>1 DEF IndInv, TypeOK, ExecStates, Codes
  <2>3. PhaseInv'
    BY <2>1 DEF IndInv, PhaseInv
  <2>4. \A q \in Procs : Ended(q)
    BY <2>1 DEF Ended, IndInv, TypeOK, Codes
  <2>5. \A q \in Procs : exec[q] # "none" => task # "none"
    BY DEF IndInv, ProcInv, RunInv
  <2>6. \A q \in Procs : exec'[q] # "none" => task' # "none"
    BY <2>1, <2>5 DEF IndInv, TypeOK
  <2> QED
    BY <2>1, <2>2, <2>3, <2>4, <2>6, EndedInv
<1>4. ASSUME NEW p \in Procs, DeadlinePasses(p)
      PROVE  IndInv'
  <2>1. /\ overdue' \subseteq Timed
        /\ UNCHANGED <<container, task, exec, outcome, runs, disk, phase, crashes, op,
                       recovering, tracked, mem, handle, done, watcher, waiter>>
    BY <1>4 DEF DeadlinePasses, tracking, adapter, IndInv, TypeOK
  <2>2. PhaseInv'
    BY <2>1 DEF IndInv, PhaseInv
  <2> QED
    BY <2>1, <2>2, QuietInv DEF IndInv, TypeOK
<1> QED
  BY <1>1, <1>2, <1>3, <1>4 DEF Environment

-----------------------------------------------------------------------------
(* Start, Stop, Delete, KillProcess and Reconcile.                         *)

\* Requests, and the ends of requests, that change nothing else.
LEMMA QuietStopsInv ==
  ASSUME IndInv,
         \/ KillReturns \/ CallFails \/ StopSettles \/ StopReturns \/ DeleteAgain \/ DeleteSettles
         \/ \E k \in {"stop", "delete"} : StopWithoutTask(k)
  PROVE  IndInv'
<1>1. UNCHANGED <<container, task, exec, outcome, runs, overdue, disk, phase, crashes,
                  recovering, tracked, mem, handle, done, watcher, waiter>>
  BY DEF KillReturns, CallFails, StopSettles, StopReturns, DeleteAgain, DeleteSettles,
         StopWithoutTask, runtime, tracking
<1>2. /\ op' \in Ops /\ op.kind # "launch" /\ op'.kind # "launch" /\ PhaseInv'
  <2> USE <1>1 DEF IndInv, PhaseInv
  <2>1. CASE op' = Idle /\ op.kind \in {"kill", "start", "stop", "delete"}
    BY <2>1, OpTypes DEF Idle
  <2>2. CASE StopSettles
    <3>1. op.kind \in {"stop", "delete"} /\ op.step = "settle" /\ Step("task")
      BY <2>2 DEF StopSettles
    <3>2. op' \in Ops /\ op'.kind = op.kind /\ op'.step = "task"
      BY <3>1, RequestStep
    <3> QED
      BY <3>1, <3>2 DEF Idle
  <2>3. CASE StopReturns /\ op.kind = "delete"
    <3>1. op.step = "network" /\ Step("container")
      BY <2>3 DEF StopReturns, Step
    <3>2. op' \in Ops /\ op'.kind = op.kind /\ op'.step = "container"
      BY <2>3, <3>1, RequestStep
    <3> QED
      BY <2>3, <3>1, <3>2 DEF Idle
  <2>4. CASE DeleteAgain
    <3>1. phase = "serve" /\ op = Idle /\ ~ container /\ op' = [kind |-> "delete", step |-> "gone", proc |-> None]
      BY <2>4 DEF DeleteAgain, Request
    <3> QED
      BY <3>1, OpTypes DEF Idle
  <2>5. CASE DeleteSettles
    <3>1. op.kind = "delete" /\ op.step = "gone" /\ Step("forget")
      BY <2>5 DEF DeleteSettles, Doing
    <3>2. op' \in Ops /\ op'.kind = op.kind /\ op'.step = "forget"
      BY <3>1, RequestStep
    <3> QED
      BY <3>1, <3>2 DEF Idle
  <2>6. ASSUME NEW k \in {"stop", "delete"}, StopWithoutTask(k)
        PROVE  op' \in Ops /\ op.kind # "launch" /\ op'.kind # "launch" /\ PhaseInv'
    <3>1. /\ phase = "serve" /\ op = Idle /\ task = "none" /\ container
          /\ op' = [kind |-> k, step |-> "network", proc |-> None]
      BY <2>6 DEF StopWithoutTask, Request
    <3> QED
      BY <3>1, OpTypes DEF Idle
  <2> QED
    BY <2>1, <2>2, <2>3, <2>4, <2>5, <2>6 DEF KillReturns, CallFails, StopReturns, Doing
<1> QED
  BY <1>1, <1>2, QuietInv DEF IndInv, TypeOK

LEMMA StopsInv ==
  ASSUME IndInv, Stops
  PROVE  IndInv'
<1> USE DEF tracking
\* A request kills some of the processes.
<1>1. ASSUME op = Idle, NEW S \in SUBSET Procs, Kill(S), phase = "serve",
             op' = Idle \/ \E k \in {"stop", "delete"} : op' = [kind |-> k, step |-> "settle", proc |-> None]
                        \/ \E p \in Procs : op' = [kind |-> "kill", step |-> "wait", proc |-> p],
             UNCHANGED <<container, task, runs, overdue, disk, tracking, phase, crashes>>
      PROVE  IndInv'
  <2>1. /\ op' \in Ops /\ op'.kind \in {"idle", "stop", "delete", "kill"}
        /\ op'.step \in {"none", "settle", "wait"} /\ op.kind = "idle"
    <3>1. CASE op' = Idle
      BY <1>1, <3>1, IdleOp
    <3>2. ASSUME NEW k \in {"stop", "delete"}, op' = [kind |-> k, step |-> "settle", proc |-> None]
          PROVE  <2>1!:
      BY <1>1, <3>2, IdleOp, OpTypes
    <3>3. ASSUME NEW p \in Procs, op' = [kind |-> "kill", step |-> "wait", proc |-> p]
          PROVE  <2>1!:
      BY <1>1, <3>3, IdleOp, OpTypes
    <3> QED
      BY <1>1, <3>1, <3>2, <3>3
  <2>2. TypeOK'
    BY <1>1, <2>1, KillFacts DEF IndInv, TypeOK
  <2>3. PhaseInv'
    BY <1>1, <2>1 DEF IndInv, PhaseInv
  <2> QED
    BY <1>1, <2>1, <2>2, <2>3, KillFacts, EndedInv
<1>2. ASSUME NEW p \in Procs, KillProcess(p)
      PROVE  IndInv'
  BY <1>1, <1>2 DEF KillProcess, Request
<1>3. ASSUME NEW k \in {"stop", "delete"}, NEW S \in SUBSET Procs, StopKills(k, S)
      PROVE  IndInv'
  BY <1>1, <1>3 DEF StopKills
<1>4. CASE StartSandbox
  <2>1. /\ phase = "serve" /\ op = Idle /\ container /\ TaskDeleted
        /\ op' = [kind |-> "start", step |-> "check", proc |-> None]
        /\ UNCHANGED <<container, runs, overdue, disk, tracking, phase, crashes>>
    BY <1>4 DEF StartSandbox, Request
  <2>2. op' \in Ops /\ op'.kind = "start" /\ op'.step = "check" /\ op.kind = "idle"
    BY <2>1, OpTypes DEF Idle
  <2>3. TypeOK'
    BY <2>1, <2>2, TaskDeletedFacts DEF IndInv, TypeOK
  <2>4. PhaseInv'
    BY <2>1, <2>2, TaskDeletedFacts DEF IndInv, PhaseInv
  <2> QED
    BY <2>1, <2>2, <2>3, <2>4, TaskDeletedFacts, EndedInv
<1>5. CASE StopsTask
  <2>1. /\ op.kind \in {"stop", "delete"} /\ op.step = "task" /\ TaskDeleted /\ Step("network")
        /\ UNCHANGED <<container, runs, overdue, disk, tracking, phase, crashes>>
    BY <1>5 DEF StopsTask
  <2>2. op' \in Ops /\ op'.kind = op.kind /\ op'.step = "network"
    BY <2>1, RequestStep DEF IndInv
  <2>3. TypeOK'
    BY <2>1, <2>2, TaskDeletedFacts DEF IndInv, TypeOK
  <2>4. PhaseInv'
    BY <2>1, <2>2, TaskDeletedFacts DEF IndInv, PhaseInv, Idle
  <2> QED
    BY <2>1, <2>2, <2>3, <2>4, TaskDeletedFacts, EndedInv
<1>6. ASSUME NEW t \in {"none", "running", "stopped"}, TaskStarts(t)
      PROVE  IndInv'
  <2>1. /\ op.kind = "start" /\ task' = t /\ op' = Idle
        /\ UNCHANGED <<container, exec, outcome, runs, overdue, disk, tracking, phase, crashes>>
    BY <1>6 DEF TaskStarts, Doing
  <2>2. op' \in Ops /\ op'.kind = "idle" /\ op'.step = "none" /\ container /\ task = "none"
    BY <2>1, OpTypes DEF Idle, IndInv, PhaseInv
  <2>3. \A q \in Procs : Ended(q) /\ exec'[q] = "none"
    BY <2>1, <2>2 DEF Ended, IndInv, ProcInv, RunInv
  <2>4. TypeOK'
    BY <2>1, <2>2 DEF IndInv, TypeOK
  <2>5. PhaseInv'
    BY <2>1, <2>2 DEF IndInv, PhaseInv, Idle
  <2> QED
    BY <2>1, <2>2, <2>3, <2>4, <2>5, EndedInv
<1>7. CASE DeleteContainer
  <2>1. /\ op.kind = "delete" /\ op.step = "container" /\ ~ container' /\ container' \in BOOLEAN
        /\ Step("forget")
        /\ UNCHANGED <<task, exec, outcome, runs, overdue, disk, tracking, phase, crashes>>
    BY <1>7 DEF DeleteContainer, Doing
  <2>2. op' \in Ops /\ op'.kind = "delete" /\ op'.step = "forget" /\ task = "none"
    BY <2>1, RequestStep DEF IndInv, PhaseInv
  <2>3. TypeOK'
    BY <2>1, <2>2 DEF IndInv, TypeOK
  <2>4. PhaseInv'
    BY <2>1, <2>2 DEF IndInv, PhaseInv, Idle
  <2>5. ASSUME NEW q \in Procs
        PROVE  ProcInv(q)'
    <3>1. ProcInv(q) /\ Same(q) /\ ~ Launching(q) /\ ~ Launching(q)'
      BY <2>1, <2>2 DEF IndInv, Same, Launching
    <3> QED
      BY <2>1, <3>1, SameInv
  <2> QED
    BY <2>3, <2>4, <2>5 DEF IndInv
<1> QED
  BY <1>2, <1>3, <1>4, <1>5, <1>6, <1>7, QuietStopsInv DEF Stops

LEMMA SweepsInv ==
  ASSUME IndInv, Sweeps
  PROVE  IndInv'
<1> USE DEF tracking, runtime
<1>1. CASE Reconcile
  <2>1. /\ phase = "serve" /\ op = Idle /\ op' = [kind |-> "reconcile", step |-> "records", proc |-> None]
        /\ UNCHANGED <<runtime, disk, tracking, phase, crashes>>
    BY <1>1 DEF Reconcile, Request
  <2>2. op' \in Ops /\ op'.kind = "reconcile" /\ op'.step = "records" /\ op.kind = "idle"
    BY <2>1, OpTypes DEF Idle
  <2>3. PhaseInv'
    BY <2>1, <2>2 DEF IndInv, PhaseInv
  <2> QED
    BY <2>1, <2>2, <2>3, QuietInv DEF IndInv, TypeOK
<1>2. CASE KeepHistory \/ ReconcileFails
  <2>1. /\ op.kind = "reconcile" /\ op' = Idle /\ phase' = "serve"
        /\ UNCHANGED <<runtime, disk, tracking, crashes>>
    BY <1>2 DEF KeepHistory, ReconcileFails, Doing
  <2>2. op' \in Ops /\ op'.kind = "idle" /\ op'.step = "none" /\ phase \in {"serve", "reconcile"}
    BY <2>1, IdleOp DEF IndInv, PhaseInv, TypeOK
  <2>3. PhaseInv'
    BY <2>1, <2>2 DEF IndInv, PhaseInv
  <2> QED
    BY <2>1, <2>2, <2>3, QuietInv DEF IndInv, TypeOK
<1>3. CASE DropHistory
  <2>1. /\ op.kind = "reconcile" /\ Step("forget") /\ ~ container
        /\ UNCHANGED <<runtime, disk, tracking, phase, crashes>>
    BY <1>3 DEF DropHistory, Doing
  <2>2. op' \in Ops /\ op'.kind = "reconcile" /\ op'.step = "forget"
    BY <2>1, RequestStep DEF IndInv
  <2>3. PhaseInv'
    BY <2>1, <2>2 DEF IndInv, PhaseInv, Idle
  <2> QED
    BY <2>1, <2>2, <2>3, QuietInv DEF IndInv, TypeOK
<1>4. ASSUME NEW S \in SUBSET Procs, CleanRecords(S)
      PROVE  IndInv'
  <2>1. /\ op.kind = "reconcile" /\ S \subseteq Leftovers /\ (S # Leftovers => phase = "serve")
        /\ exec' = [p \in Procs |-> IF p \in S THEN "none" ELSE exec[p]]
        /\ (Step("history") /\ S = Leftovers) \/ (op' = Idle /\ S # Leftovers)
        /\ UNCHANGED <<container, task, outcome, runs, overdue, disk, tracking, phase, crashes>>
    BY <1>4 DEF CleanRecords, Doing, Step
  <2>2. /\ op' \in Ops /\ op'.kind \in {"reconcile", "idle"} /\ op'.step \in {"history", "none"}
        /\ op'.kind = "idle" => phase = "serve"
    <3>1. CASE Step("history")
      BY <2>1, <3>1, RequestStep DEF IndInv
    <3>2. CASE op' = Idle /\ S # Leftovers
      BY <2>1, <3>2, IdleOp
    <3> QED
      BY <2>1, <3>1, <3>2
  <2>3. \A q \in Procs : exec[q] # "none" => task # "none"
    BY DEF IndInv, ProcInv, RunInv
  <2>4. \A q \in Procs : Ended(q) /\ (exec'[q] # "none" => task' # "none")
    BY <2>1, <2>3 DEF Ended, Leftovers
  <2>5. TypeOK'
    BY <2>1, <2>2 DEF IndInv, TypeOK, ExecStates
  <2>6. PhaseInv'
    BY <2>1, <2>2 DEF IndInv, PhaseInv, Idle
  <2> QED
    BY <2>1, <2>2, <2>4, <2>5, <2>6, EndedInv
<1>5. CASE Forget
  <2>1. /\ op.step = "forget" /\ disk' = [p \in Procs |-> NoRecord] /\ tracked' = {}
        /\ op' = Idle /\ phase' = "serve"
        /\ UNCHANGED <<container, task, exec, outcome, runs, overdue, crashes, recovering,
                       mem, handle, done, watcher, waiter>>
    BY <1>5 DEF Forget
  <2>2. /\ op' \in Ops /\ op'.kind = "idle" /\ op'.step = "none" /\ ~ container
        /\ task = "none" /\ recovering = {} /\ phase # "down"
    BY <2>1, IdleOp DEF IndInv, PhaseInv
  <2>3. TypeOK'
    BY <2>1, <2>2, NoRecordType DEF IndInv, TypeOK
  <2>4. PhaseInv'
    BY <2>1, <2>2 DEF IndInv, PhaseInv
  <2>5. ASSUME NEW q \in Procs
        PROVE  ProcInv(q)'
    <3>1. ProcInv(q) /\ exec[q] = "none" /\ disk'[q].status = "none" /\ disk'[q].exit = None
      BY <2>1, <2>2, NoRecordType DEF IndInv, ProcInv, RunInv
    <3>2. RunInv(q)' /\ LiveInv(q)'
      BY <2>1, <2>2, <3>1 DEF ProcInv, RunInv, LiveInv
    <3>3. LaunchInv(q)'
      BY <2>2 DEF LaunchInv, Launching
    <3>4. RecordInv(q)'
      BY <2>1, <2>2, <3>1 DEF ProcInv, RecordInv, Terminal
    <3>5. WatchInv(q)'
      BY <2>1, <2>2, <3>1 DEF ProcInv, WatchInv
    <3> QED
      BY <3>2, <3>3, <3>4, <3>5 DEF ProcInv
  <2> QED
    BY <2>3, <2>4, <2>5 DEF IndInv
<1> QED
  BY <1>1, <1>2, <1>3, <1>4, <1>5 DEF Sweeps

-----------------------------------------------------------------------------
(* The adapter dies and recovers.                                          *)

LEMMA CrashInv ==
  ASSUME IndInv, Crash
  PROVE  IndInv'
<1>1. /\ crashes < MaxCrashes /\ crashes' = crashes + 1 /\ phase' = "down"
      /\ recovering' = {} /\ tracked' = {} /\ handle' = {} /\ done' = {}
      /\ mem' = [p \in Procs |-> NoRecord]
      /\ watcher' = [p \in Procs |-> "none"]
      /\ waiter' = [p \in Procs |-> "none"]
      /\ op' = Idle
      /\ UNCHANGED <<container, task, exec, outcome, runs, overdue, disk>>
  BY DEF Crash, runtime
<1>2. crashes' \in 0..MaxCrashes
  BY <1>1, ProcessesAssumption DEF IndInv, TypeOK
<1>3. TypeOK'
  BY <1>1, <1>2, NoRecordType, IdleOp DEF IndInv, TypeOK
<1>4. PhaseInv'
  BY <1>1, IdleOp DEF IndInv, PhaseInv
<1>5. ASSUME NEW q \in Procs
      PROVE  ProcInv(q)'
  <2>1. ProcInv(q) /\ mem'[q].status = "none" /\ mem'[q].exit = None /\ watcher'[q] = "none"
    BY <1>1, NoRecordType DEF IndInv
  <2>2. RunInv(q)'
    BY <1>1, <2>1 DEF ProcInv, RunInv, Recorded
  <2>3. LaunchInv(q)'
    BY <1>1, IdleOp DEF LaunchInv, Launching
  <2>4. RecordInv(q)'
    BY <1>1, <2>1 DEF ProcInv, RecordInv
  <2>5. WatchInv(q)' /\ LiveInv(q)'
    BY <1>1, <2>1 DEF WatchInv, LiveInv
  <2> QED
    BY <2>2, <2>3, <2>4, <2>5 DEF ProcInv
<1> QED
  BY <1>3, <1>4, <1>5 DEF IndInv

LEMMA BootInv ==
  ASSUME IndInv, Boot
  PROVE  IndInv'
<1>1. /\ phase = "down" /\ phase' = "recover"
      /\ disk' = [p \in Procs |-> IF disk[p].status = "dir" THEN NoRecord ELSE disk[p]]
      /\ recovering' = {p \in Procs : disk[p].status \notin {"none", "dir"}}
      /\ UNCHANGED <<container, task, exec, outcome, runs, overdue, crashes, op,
                     tracked, mem, handle, done, watcher, waiter>>
  BY DEF Boot, runtime
<1>2. tracked = {} /\ done = {} /\ op = Idle
  BY <1>1 DEF IndInv, PhaseInv
<1>3. TypeOK'
  BY <1>1, NoRecordType DEF IndInv, TypeOK
<1>4. PhaseInv'
  BY <1>1, <1>2, IdleOp DEF IndInv, PhaseInv
<1>5. ASSUME NEW q \in Procs
      PROVE  ProcInv(q)'
  <2>1. /\ ProcInv(q)
        /\ q \in recovering' <=> Recorded(q)
        /\ Recorded(q) => disk'[q] = disk[q]
        /\ ~ Recorded(q) => disk'[q].status = "none" /\ disk'[q].exit \in {None, disk[q].exit}
    BY <1>1, NoRecordType DEF IndInv, Recorded
  <2>2. watcher[q] = "none" /\ (exec[q] # "none" => Recorded(q))
    BY <1>1, <2>1 DEF ProcInv, WatchInv, RunInv, IndInv, TypeOK
  <2>3. RunInv(q)'
    BY <1>1, <2>1, <2>2 DEF ProcInv, RunInv, Recorded
  <2>4. LaunchInv(q)'
    BY <1>1, <1>2, IdleOp DEF LaunchInv, Launching
  <2>5. RecordInv(q)'
    BY <1>1, <1>2, <2>1, <2>2 DEF ProcInv, RecordInv, Recorded
  <2>6. WatchInv(q)' /\ LiveInv(q)'
    BY <1>1, <2>1, <2>2 DEF WatchInv, LiveInv
  <2> QED
    BY <2>3, <2>4, <2>5, <2>6 DEF ProcInv
<1> QED
  BY <1>3, <1>4, <1>5 DEF IndInv

\* A record of recoverProcesses, settled or watched.
LEMMA ReadInv ==
  ASSUME IndInv, NEW p \in Procs, Read(p), NEW r \in Record, NEW e \in {"none", exec[p]},
         r.exit = disk[p].exit, r.status \notin {"none", "dir"},
         r.status = "exited" => disk[p].status = "exited",
         r.status = "running" => exec[p] # "none",
         mem' = [mem EXCEPT ![p] = r], disk' = [disk EXCEPT ![p] = r],
         exec' = [exec EXCEPT ![p] = e],
         \/ done' = done \cup {p} /\ watcher' = watcher /\ Terminal(r) /\ exec[p] # "running"
         \/ done' = done /\ watcher' = [watcher EXCEPT ![p] = "watch"] /\ r.status # "exited"
  PROVE  IndInv'
<1>1. /\ phase = "recover" /\ p \in recovering /\ recovering' = recovering \ {p}
      /\ tracked' = tracked \cup {p}
      /\ handle' = IF exec[p] = "none" THEN handle ELSE handle \cup {p}
      /\ UNCHANGED <<container, task, outcome, runs, overdue, phase, crashes, waiter, op>>
  BY DEF Read
<1>2. ProcInv(p) /\ mem'[p] = r /\ disk'[p] = r /\ exec'[p] = e /\ exec[p] \in ExecStates
  BY DEF IndInv, TypeOK
<1>3. op.kind = "idle" /\ Recorded(p) /\ p \notin tracked \cup done /\ watcher[p] = "none"
  BY <1>1, <1>2, IdleOp DEF IndInv, PhaseInv, ProcInv, RecordInv
<1>4. TypeOK'
  <2>1. exec' \in [Procs -> ExecStates] /\ mem' \in [Procs -> Record] /\ disk' \in [Procs -> Record]
    BY <1>2 DEF IndInv, TypeOK, ExecStates
  <2>2. done' \subseteq Procs /\ watcher' \in [Procs -> {"none", "watch", "save", "retire"}]
    BY DEF IndInv, TypeOK
  <2> QED
    BY <1>1, <2>1, <2>2 DEF IndInv, TypeOK
<1>5. PhaseInv'
  BY <1>1 DEF IndInv, PhaseInv
<1>6. \A q \in Procs \ {p} : Same(q)
  BY <1>1 DEF IndInv, TypeOK, Same
<1>7. ProcInv(p)'
  <2>1. /\ watcher'[p] \in {"none", "watch"}
        /\ watcher'[p] = "none" => p \in done' /\ Terminal(r) /\ exec[p] # "running"
        /\ watcher'[p] = "watch" => p \notin done' /\ r.status # "exited"
    BY <1>3 DEF IndInv, TypeOK
  <2>2. RunInv(p)'
    BY <1>1, <1>2 DEF ProcInv, RunInv, Recorded
  <2>3. LaunchInv(p)'
    BY <1>1, <1>3 DEF LaunchInv, Launching
  <2>4. RecordInv(p)'
    BY <1>1, <1>2, <1>3, <2>1 DEF ProcInv, RecordInv, Recorded, Terminal
  <2>5. WatchInv(p)'
    BY <1>1, <1>2, <2>1 DEF WatchInv
  <2>6. LiveInv(p)'
    BY <1>1, <1>2, <2>1 DEF LiveInv
  <2> QED
    BY <2>2, <2>3, <2>4, <2>5, <2>6 DEF ProcInv
<1> QED
  BY <1>1, <1>4, <1>5, <1>6, <1>7, OneProcess

LEMMA RestartsInv ==
  ASSUME IndInv, Restarts
  PROVE  IndInv'
<1>1. CASE Recovered
  <2>1. /\ phase = "recover" /\ recovering = {} /\ phase' = "reconcile"
        /\ op' = [kind |-> "reconcile", step |-> "records", proc |-> None]
        /\ UNCHANGED <<container, task, exec, outcome, runs, overdue, disk, crashes,
                       recovering, tracked, mem, handle, done, watcher, waiter>>
    BY <1>1 DEF Recovered, runtime, tracking
  <2>2. /\ op' \in Ops /\ op'.kind = "reconcile" /\ op'.step = "records"
        /\ op.kind = "idle"
    BY <2>1, OpTypes, IdleOp DEF IndInv, PhaseInv
  <2>3. PhaseInv'
    BY <2>1, <2>2 DEF IndInv, PhaseInv
  <2> QED
    BY <2>1, <2>2, <2>3, QuietInv DEF IndInv, TypeOK
<1>2. ASSUME NEW p \in Procs, NEW deleted \in BOOLEAN, NEW r \in Record,
             RecoverSettled(p, r, deleted), r.exit = disk[p].exit, Terminal(r),
             r.status = "exited" => disk[p].status = "exited", exec[p] # "running"
      PROVE  IndInv'
  <2>1. PICK e \in {"none", exec[p]} : exec' = [exec EXCEPT ![p] = e]
    BY <1>2 DEF RecoverSettled, IndInv, TypeOK
  <2>2. /\ Read(p) /\ mem' = [mem EXCEPT ![p] = r] /\ disk' = [disk EXCEPT ![p] = r]
        /\ done' = done \cup {p} /\ watcher' = watcher
    BY <1>2 DEF RecoverSettled
  <2>3. r.status \notin {"none", "dir", "running"}
    BY <1>2 DEF Terminal
  <2> QED
    BY <1>2, <2>1, <2>2, <2>3, ReadInv
<1>3. ASSUME NEW p \in Procs
      PROVE  /\ disk[p] \in Record /\ Failed(disk[p]) \in Record
             /\ Terminal(Failed(disk[p])) /\ Failed(disk[p]).status # "exited"
             /\ Failed(disk[p]).exit = disk[p].exit
  BY RecordTypes DEF IndInv, TypeOK, Terminal
<1>4. ASSUME NEW p \in Procs, RecoverMissing(p) \/ RecoverStopped(p)
      PROVE  IndInv'
  <2>1. PICK deleted \in BOOLEAN, r \in {disk[p], Failed(disk[p])} :
          /\ RecoverSettled(p, r, deleted) /\ exec[p] # "running"
          /\ r = disk[p] => Terminal(disk[p])
    BY <1>3, <1>4 DEF RecoverMissing, RecoverStopped
  <2> QED
    BY <1>2, <1>3, <2>1
<1>5. ASSUME NEW p \in Procs, NEW deleted \in BOOLEAN, RecoverCreated(p, deleted)
      PROVE  IndInv'
  BY <1>2, <1>3, <1>5 DEF RecoverCreated
<1>6. ASSUME NEW p \in Procs, Reattach(p)
      PROVE  IndInv'
  <2> DEFINE r == Reattached(p)
  <2>1. /\ Read(p) /\ mem' = [mem EXCEPT ![p] = r] /\ disk' = [disk EXCEPT ![p] = r]
        /\ watcher' = [watcher EXCEPT ![p] = "watch"] /\ exec' = exec /\ done' = done
        /\ exec[p] = "running" \/ (exec[p] = "stopped" /\ ~ Terminal(disk[p]))
    BY <1>6 DEF Reattach
  <2>2. disk[p] \in Record /\ disk[p].status \notin {"none", "dir"} /\ exec' = [exec EXCEPT ![p] = exec[p]]
    BY <2>1 DEF Read, IndInv, TypeOK, ProcInv, RecordInv, Recorded
  <2>3. exec[p] = "running" => r \in Record /\ r.status = "running" /\ r.exit = disk[p].exit
    BY <2>2, RecordTypes DEF Reattached, Statuses
  <2>4. exec[p] # "running" => r = disk[p] /\ r.status # "exited"
    BY <2>1 DEF Reattached, Terminal
  <2>5. r \in Record /\ r.exit = disk[p].exit /\ r.status \notin {"none", "dir", "exited"}
    BY <2>2, <2>3, <2>4
  <2> HIDE DEF r
  <2> QED
    BY <2>1, <2>2, <2>5, ReadInv
<1> QED
  BY <1>1, <1>4, <1>5, <1>6, CrashInv, BootInv DEF Restarts

-----------------------------------------------------------------------------
(* The invariant, and the invariants of the runs.                          *)

LEMMA InitInv == Init => IndInv
<1> SUFFICES ASSUME Init
             PROVE  IndInv
  OBVIOUS
<1>1. TypeOK
  BY NoRecordType, IdleOp, ProcessesAssumption DEF Init, TypeOK, ExecStates, Codes
<1>2. PhaseInv
  BY IdleOp DEF Init, PhaseInv
<1>3. ASSUME NEW p \in Procs
      PROVE  ProcInv(p)
  <2>1. RunInv(p) /\ LiveInv(p)
    BY DEF Init, RunInv, LiveInv
  <2>2. LaunchInv(p) /\ WatchInv(p)
    BY IdleOp DEF Init, LaunchInv, Launching, WatchInv
  <2>3. RecordInv(p)
    BY NoRecordType DEF Init, RecordInv
  <2> QED
    BY <2>1, <2>2, <2>3 DEF ProcInv
<1> QED
  BY <1>1, <1>2, <1>3 DEF IndInv

LEMMA NextInv == IndInv /\ [Next]_vars => IndInv'
<1> SUFFICES ASSUME IndInv, [Next]_vars
             PROVE  IndInv'
  OBVIOUS
<1>1. CASE UNCHANGED vars
  <2>1. /\ UNCHANGED <<container, task, exec, outcome, runs, overdue, disk, crashes, recovering,
                       tracked, mem, handle, done, watcher, waiter, phase, op>>
    BY <1>1 DEF vars, runtime, tracking, adapter
  <2>2. PhaseInv'
    BY <2>1 DEF IndInv, PhaseInv
  <2> QED
    BY <2>1, <2>2, QuietInv DEF IndInv, TypeOK
<1>2. CASE Next
  BY <1>2, LaunchesInv, WatchesInv, StopsInv, SweepsInv, RestartsInv, EnvironmentInv DEF Next
<1> QED
  BY <1>1, <1>2

\* IndInv is inductive, for any set of processes, any timeouts and any number
\* of crashes of the adapter.
THEOREM Inductive == Spec => []IndInv
BY InitInv, NextInv, PTL DEF Spec

\* The variables keep their types.
THEOREM TypeCorrect == Spec => []TypeOK
<1>1. IndInv => TypeOK
  BY DEF IndInv
<1> QED
  BY <1>1, Inductive, PTL

\* StartProcess executes a command at most once, although it is retried with
\* the same identifier and the adapter crashes at any point of the launch.
THEOREM AtMostOnceHolds == Spec => []AtMostOnce
<1>1. IndInv => AtMostOnce
  BY DEF IndInv, ProcInv, RunInv, AtMostOnce
<1> QED
  BY <1>1, Inductive, PTL

\* What recoverProcesses removes as incomplete launched nothing.
THEOREM ExecHasRecordHolds == Spec => []ExecHasRecord
<1>1. IndInv => ExecHasRecord
  BY DEF IndInv, ProcInv, RunInv, Recorded, ExecHasRecord
<1> QED
  BY <1>1, Inductive, PTL

\* An exit code in the history is the one the process ended with.
THEOREM ExitIsTrueHolds == Spec => []ExitIsTrue
<1>1. ASSUME IndInv, NEW p \in Procs
      PROVE  ExitIsTrue!(p)
  BY <1>1 DEF IndInv, ProcInv, RecordInv, RunInv
<1>2. IndInv => ExitIsTrue
  BY <1>1 DEF ExitIsTrue
<1> QED
  BY <1>2, Inductive, PTL

\* No process runs unwatched while the adapter serves requests.
THEOREM LiveIsWatchedHolds == Spec => []LiveIsWatched
<1>1. ASSUME IndInv, NEW p \in Procs, phase = "serve", exec[p] = "running"
      PROVE  \/ watcher[p] # "none" /\ p \in tracked
             \/ mem[p].status = "error" /\ p \in tracked \cap done
             \/ op.kind = "launch" /\ op.proc = p
  BY <1>1 DEF IndInv, PhaseInv, ProcInv, LiveInv, Launching
<1>2. IndInv => LiveIsWatched
  BY <1>1 DEF LiveIsWatched
<1> QED
  BY <1>2, Inductive, PTL

\* Stop and KillProcess never meet a running process without a handle.
THEOREM RunningHasHandleHolds == Spec => []RunningHasHandle
<1>1. IndInv => RunningHasHandle
  BY DEF IndInv, TypeOK, ProcInv, RecordInv, RunningHasHandle
<1> QED
  BY <1>1, Inductive, PTL

\* A closed done channel promises that the exit is on disk.
THEOREM DoneIsDurableHolds == Spec => []DoneIsDurable
<1>1. ASSUME IndInv, NEW p \in tracked \cap done, mem[p].status = "exited"
      PROVE  disk[p].status = "exited" /\ disk[p].exit = mem[p].exit
  <2>1. ProcInv(p)
    BY <1>1 DEF IndInv, TypeOK
  <2> QED
    BY <1>1, <2>1 DEF ProcInv, RecordInv
<1>2. IndInv => DoneIsDurable
  BY <1>1 DEF DoneIsDurable
<1> QED
  BY <1>2, Inductive, PTL

-----------------------------------------------------------------------------
(* What a step may never do.                                               *)

\* A step keeps a record, or drops it, or replaces that of a process that is not
\* done by one with the same exit code, if it had one; it makes a new record
\* only for a container.
Replaced(p) ==
  \/ disk'[p] \in {disk[p], NoRecord}
  \/ /\ disk[p].exit # None => disk'[p].exit = disk[p].exit
     /\ p \notin tracked \cap done
     /\ disk[p].status = "none" => container

LEMMA RecordSteps ==
  ASSUME IndInv, [Next]_vars, NEW p \in Procs
  PROVE  Replaced(p)
<1> USE DEF Replaced
<1>1. ProcInv(p) /\ disk \in [Procs -> Record] /\ disk[p] \in Record
  BY DEF IndInv, TypeOK
<1>2. CASE UNCHANGED disk
  BY <1>2
<1>4. ASSUME Launching(p), op.step \in {"setup", "fail", "started"}
      PROVE  Replaced(p)
  BY <1>1, <1>4 DEF ProcInv, LaunchInv, IndInv, PhaseInv, Launching
<1>5. ASSUME NEW q \in Procs,
             \/ Setup(q) \/ \E left \in {"none", "dir", "starting"} : SetupFails(q, left)
             \/ \E ok \in BOOLEAN : Fail(q, ok) \/ Started(q, ok)
      PROVE  Replaced(p)
  <2>1. Launching(q) /\ op.step \in {"setup", "fail", "started"}
    BY <1>5 DEF Setup, SetupFails, Fail, Started, Doing, Launching
  <2>2. q # p => disk'[p] = disk[p]
    BY <1>1, <1>5 DEF Setup, SetupFails, Fail, Started, Saved
  <2> QED
    BY <1>4, <2>1, <2>2
<1>6. ASSUME NEW q \in Procs, NEW ok \in BOOLEAN, WatchMissing(q, ok) \/ WatchSave(q, ok)
      PROVE  Replaced(p)
  <2>1. PICK r \in Record :
          /\ Saved(q, r, ok)
          /\ watcher[q] # "none" /\ r.exit \in {mem[q].exit, outcome[q]}
          /\ watcher[q] = "watch" => r.exit = mem[q].exit
          /\ watcher[q] = "save" => r.exit = outcome[q]
          /\ watcher[q] \in {"watch", "save"}
    <3>1. mem[q] \in Record /\ outcome[q] \in Codes \cup {None}
      BY DEF IndInv, TypeOK
    <3> QED
      BY <1>6, <3>1, RecordTypes DEF WatchMissing, WatchSave
  <2>2. /\ q # p => disk'[p] = disk[p]
        /\ disk'[q] \in {disk[q], r}
        /\ disk[q].status = "none" => disk'[q] = disk[q]
    BY <1>1, <2>1, SavedFacts DEF IndInv
  <2>3. /\ q \notin done /\ disk[q].exit \in {None, outcome[q]}
        /\ disk[q].exit \in {None, mem[q].exit}
    BY <2>1 DEF IndInv, ProcInv, WatchInv, RecordInv
  <2> QED
    BY <2>1, <2>2, <2>3
<1>7. CASE Forget \/ Boot
  BY <1>7 DEF Forget, Boot
<1>8. ASSUME NEW q \in Procs, RecoverMissing(q) \/ RecoverStopped(q)
                              \/ \E deleted \in BOOLEAN : RecoverCreated(q, deleted)
      PROVE  Replaced(p)
  <2>1. /\ q \in recovering /\ (q # p => disk'[p] = disk[p])
        /\ disk'[q] \in {disk[q], Failed(disk[q])}
    BY <1>1, <1>8 DEF RecoverMissing, RecoverStopped, RecoverCreated, RecoverSettled, Read
  <2>2. Failed(disk[p]).exit = disk[p].exit
    BY <1>1, RecordTypes
  <2>3. p \in recovering => disk[p].status # "none" /\ p \notin tracked
    BY <1>1 DEF ProcInv, RecordInv, Recorded
  <2> QED
    BY <2>1, <2>2, <2>3
<1>9. ASSUME NEW q \in Procs, Reattach(q)
      PROVE  Replaced(p)
  <2>1. q \in recovering /\ (q # p => disk'[p] = disk[p])
    BY <1>1, <1>9 DEF Reattach, Read
  <2>2. disk'[q] = Reattached(q)
    BY <1>1, <1>9 DEF Reattach
  <2>3. Reattached(p).exit = disk[p].exit
    BY <1>1 DEF Reattached, Record
  <2>4. p \in recovering => disk[p].status # "none" /\ p \notin tracked
    BY <1>1 DEF ProcInv, RecordInv, Recorded
  <2> QED
    BY <2>1, <2>2, <2>3, <2>4
<1>10. CASE Launches
  BY <1>2, <1>5, <1>10 DEF Launches, Begin, CreateExec, CreateFails, StartFails, RetryExec, Executes, Undo
<1>11. CASE Watches
  BY <1>2, <1>6, <1>11 DEF Watches, WatchStopped, WaitTimesOut, WaitEnds, WatchOverdue, WatchRetire, WaitKills
<1>12. CASE Stops
  BY <1>2, <1>12 DEF Stops, KillProcess, StopWithoutTask, StopKills, TaskStarts, KillReturns, CallFails,
       StartSandbox, StopSettles, StopsTask, StopReturns, DeleteContainer, DeleteAgain, DeleteSettles
<1>13. CASE Sweeps
  BY <1>2, <1>7, <1>13 DEF Sweeps, Reconcile, KeepHistory, DropHistory, ReconcileFails, CleanRecords
<1>14. CASE Restarts
  BY <1>2, <1>7, <1>8, <1>9, <1>14 DEF Restarts, Crash, Recovered
<1>15. CASE Environment
  BY <1>2, <1>15 DEF Environment, TaskExits, TaskLost, Exits, DeadlinePasses
<1>16. CASE UNCHANGED vars
  BY <1>2, <1>16 DEF vars
<1> QED
  BY <1>10, <1>11, <1>12, <1>13, <1>14, <1>15, <1>16 DEF Next

\* No save, no recovery and no second watcher loses or changes an exit code in
\* the history; only forgetProcesses removes it.
THEOREM ExitCodeIsFinalHolds == Spec => ExitCodeIsFinal
<1>1. ASSUME IndInv, [Next]_vars
      PROVE  \A p \in Procs : disk[p].exit # None =>
               disk'[p] = NoRecord \/ disk'[p].exit = disk[p].exit
  BY <1>1, RecordSteps DEF Replaced
<1>2. IndInv /\ [Next]_vars =>
        [\A p \in Procs : disk[p].exit # None =>
           disk'[p] = NoRecord \/ disk'[p].exit = disk[p].exit]_vars
  BY <1>1
<1> QED
  BY <1>2, Inductive, PTL DEF Spec, ExitCodeIsFinal

\* Whoever closes a process's channel is the last to write its record.
THEOREM DoneIsFinalHolds == Spec => DoneIsFinal
<1>1. ASSUME IndInv, [Next]_vars
      PROVE  \A p \in tracked \cap done : disk'[p] \in {disk[p], NoRecord}
  <2>1. tracked \subseteq Procs
    BY <1>1 DEF IndInv, TypeOK
  <2> QED
    BY <1>1, <2>1, RecordSteps DEF Replaced
<1>2. IndInv /\ [Next]_vars =>
        [\A p \in tracked \cap done : disk'[p] \in {disk[p], NoRecord}]_vars
  BY <1>1
<1> QED
  BY <1>2, Inductive, PTL DEF Spec, DoneIsFinal

\* A watcher that outlives its sandbox writes nothing where the history was.
THEOREM DeletedStaysDeletedHolds == Spec => DeletedStaysDeleted
<1>1. ASSUME IndInv, [Next]_vars
      PROVE  \A p \in Procs : ~container /\ disk[p] = NoRecord => disk'[p] = NoRecord
  BY <1>1, RecordSteps, NoRecordType DEF Replaced
<1>2. IndInv /\ [Next]_vars =>
        [\A p \in Procs : ~container /\ disk[p] = NoRecord => disk'[p] = NoRecord]_vars
  BY <1>1
<1> QED
  BY <1>2, Inductive, PTL DEF Spec, DeletedStaysDeleted

\* The runtime record of an ended process goes only when its exit is on disk,
\* its launch failed, or its whole task goes.
Retired(p) ==
  exec[p] = "stopped" /\ exec'[p] = "none" /\ task' # "none" =>
    Terminal(disk[p]) \/ (op.kind = "launch" /\ op.proc = p) \/ mem[p].status = "error"

LEMMA RetireSteps ==
  ASSUME IndInv, [Next]_vars, NEW p \in Procs
  PROVE  Retired(p)
<1> USE DEF Retired
<1>1. ProcInv(p) /\ exec \in [Procs -> ExecStates]
  BY DEF IndInv, TypeOK
<1>2. CASE exec'[p] # "none" \/ exec'[p] = exec[p] \/ task' = "none"
  BY <1>2
<1>3. ASSUME NEW S, Kill(S)
      PROVE  Retired(p)
  BY <1>2, <1>3 DEF Kill
<1>4. CASE Launches
  <2>1. ASSUME NEW q \in Procs, NEW killed \in BOOLEAN, NEW deleted \in BOOLEAN, Undo(q, killed, deleted)
        PROVE  Retired(p)
    BY <1>1, <1>2, <2>1 DEF Undo, Doing
  <2>2. ASSUME NEW q \in Procs, NEW ok \in BOOLEAN, CreateExec(q) \/ Executes(q, ok)
        PROVE  Retired(p)
    BY <1>1, <1>2, <2>2 DEF CreateExec, Executes
  <2> QED
    BY <1>2, <1>4, <2>1, <2>2 DEF Launches, Begin, Setup, SetupFails, CreateFails, StartFails,
         RetryExec, Fail, Started, runtime
<1>5. CASE Watches
  <2>1. ASSUME NEW q \in Procs, NEW ok \in BOOLEAN, WatchRetire(q, ok)
        PROVE  Retired(p)
    <3>1. CASE q # p
      BY <1>1, <1>2, <2>1, <3>1 DEF WatchRetire
    <3>2. CASE q = p
      <4>1. mem[p].status = "exited" /\ (p \in tracked => disk[p].status = "exited") /\ (p \in tracked \/ ~ container)
        BY <1>1, <2>1, <3>2 DEF WatchRetire, ProcInv, WatchInv
      <4>2. ~ container => exec[p] = "none"
        BY <1>1 DEF IndInv, PhaseInv, ProcInv, RunInv
      <4> QED
        BY <4>1, <4>2 DEF Terminal
    <3> QED
      BY <3>1, <3>2
  <2> QED
    BY <1>2, <1>3, <1>5, <2>1 DEF Watches, WatchStopped, WaitTimesOut, WaitEnds, WatchMissing,
         WatchOverdue, WatchSave, WaitKills, runtime
<1>6. CASE Stops
  BY <1>2, <1>3, <1>6 DEF Stops, KillProcess, StopWithoutTask, StopKills, TaskStarts, KillReturns, CallFails,
       StartSandbox, StopSettles, StopsTask, StopReturns, DeleteContainer, DeleteAgain, DeleteSettles,
       TaskDeleted, runtime
<1>7. CASE Sweeps
  <2>1. ASSUME NEW S \in SUBSET Procs, CleanRecords(S)
        PROVE  Retired(p)
    <3>1. p \notin S => exec'[p] = exec[p]
      BY <2>1 DEF CleanRecords
    <3>2. p \in S => p \in tracked \cap done
      BY <2>1 DEF CleanRecords, Leftovers
    <3> QED
      BY <1>1, <1>2, <3>1, <3>2 DEF ProcInv, RecordInv, Terminal
  <2> QED
    BY <1>2, <1>7, <2>1 DEF Sweeps, Reconcile, KeepHistory, DropHistory, ReconcileFails, Forget, runtime
<1>8. CASE Restarts
  <2>1. ASSUME NEW q \in Procs, RecoverMissing(q) \/ RecoverStopped(q)
                                \/ \E deleted \in BOOLEAN : RecoverCreated(q, deleted)
        PROVE  Retired(p)
    BY <1>1, <1>2, <2>1 DEF RecoverMissing, RecoverStopped, RecoverCreated, RecoverSettled
  <2> QED
    BY <1>2, <1>8, <2>1 DEF Restarts, Crash, Boot, Recovered, Reattach, runtime
<1>9. CASE Environment
  <2>1. ASSUME NEW q \in Procs, Exits(q)
        PROVE  Retired(p)
    BY <1>1, <1>2, <2>1 DEF Exits
  <2> QED
    BY <1>2, <1>3, <1>9, <2>1 DEF Environment, TaskExits, TaskLost, TaskDeleted, DeadlinePasses
<1>10. CASE UNCHANGED vars
  BY <1>2, <1>10 DEF vars, runtime
<1> QED
  BY <1>4, <1>5, <1>6, <1>7, <1>8, <1>9, <1>10 DEF Next

\* While its task stays, the runtime forgets an ended process only after the
\* exit is on disk, unless its launch failed.
THEOREM ExitOutlivesRecordHolds == Spec => ExitOutlivesRecord
<1>1. IndInv /\ [Next]_vars =>
        [\A p \in Procs : exec[p] = "stopped" /\ exec'[p] = "none" /\ task' # "none" =>
            Terminal(disk[p]) \/ (op.kind = "launch" /\ op.proc = p) \/ mem[p].status = "error"]_vars
  BY RetireSteps DEF Retired
<1> QED
  BY <1>1, Inductive, PTL DEF Spec, ExitOutlivesRecord

\* Launches of the adapter: once, and recorded before.
THEOREM OnceAndRecordedHolds == Spec => []OnceAndRecorded
<1>1. AtMostOnce /\ ExecHasRecord => OnceAndRecorded
  BY DEF OnceAndRecorded
<1> QED
  BY <1>1, AtMostOnceHolds, ExecHasRecordHolds, PTL

\* What watchers and recovery write down is what happened.
THEOREM HistoryIsTrueHolds == Spec => []HistoryIsTrue
<1>1. ExitIsTrue /\ DoneIsDurable => HistoryIsTrue
  BY DEF HistoryIsTrue
<1> QED
  BY <1>1, ExitIsTrueHolds, DoneIsDurableHolds, PTL

\* No process runs out of the adapter's hands.
THEOREM LiveIsHeldHolds == Spec => []LiveIsHeld
<1>1. LiveIsWatched /\ RunningHasHandle => LiveIsHeld
  BY DEF LiveIsHeld
<1> QED
  BY <1>1, LiveIsWatchedHolds, RunningHasHandleHolds, PTL

\* No step of a watcher or a request rewrites history.
THEOREM HistoryIsFinalHolds == Spec => HistoryIsFinal
BY ExitCodeIsFinalHolds, DoneIsFinalHolds, DeletedStaysDeletedHolds DEF HistoryIsFinal
=============================================================================
