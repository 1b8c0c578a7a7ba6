------------------------------ MODULE Processes -------------------------------
(***************************************************************************)
(* The process history of one sandbox in the runtime adapter:              *)
(* StartProcess, the watchers, KillProcess and waitExec (processes.go,     *)
(* runtime.go), what Start, Stop, Delete and Reconcile do to it, and its   *)
(* recovery after a crash of the adapter (reliability.go). Requests hold   *)
(* the lifecycle lock; watchers and the waiters of synchronous execs do    *)
(* not. The runtime (containerd and the shim) outlives the adapter.        *)
(***************************************************************************)
EXTENDS Naturals, FiniteSets

CONSTANTS
  Procs,       \* identifiers of processes, the request_id of a retry included
  Timed,       \* those of synchronous execs, which have a timeout
  None,
  ShimFails,   \* whether the runtime can lose a task with all its processes
  MaxCrashes   \* bound: crashes of the adapter

ASSUME ProcessesAssumption ==
  /\ Timed \subseteq Procs
  /\ None \notin Procs \cup {"ok", "killed"}
  /\ ShimFails \in BOOLEAN
  /\ MaxCrashes \in Nat

VARIABLES
  container,   \* whether the container exists
  task,        \* its task
  exec,        \* the runtime's record of a process
  outcome,     \* the exit code the process really ended with
  runs,        \* how often the command was executed
  overdue,     \* processes whose deadline has passed
  disk,        \* process.json
  phase,       \* of the adapter
  crashes,
  recovering,  \* records recoverProcesses has yet to read
  tracked,     \* keys of r.processes
  mem,         \* trackedProcess.info
  handle,      \* processes with a trackedProcess.proc
  done,        \* processes whose done channel is closed
  watcher,     \* where the goroutine of watchProcess is
  waiter,      \* where waitExec is
  op           \* what the holder of the lifecycle lock does

runtime == <<container, task, exec, outcome, runs, overdue>>
tracking == <<recovering, tracked, mem, handle, done, watcher, waiter>>
adapter == <<phase, crashes, op>>
vars == <<runtime, disk, tracking, adapter>>

Codes == {"ok", "killed"}
ExecStates == {"none", "created", "running", "stopped"}
Statuses == {"none", "dir", "starting", "running", "exited", "error"}
Record == [status : Statuses, exit : Codes \cup {None}, completed : BOOLEAN, timedOut : BOOLEAN]
NoRecord == [status |-> "none", exit |-> None, completed |-> FALSE, timedOut |-> FALSE]

\* The steps of a request: StartProcess, Start, Stop, Delete, KillProcess and
\* Reconcile.
Steps == [launch |-> {"setup", "exec", "start", "undo", "fail", "started"},
          start |-> {"check"},
          stop |-> {"settle", "task", "network"},
          delete |-> {"settle", "task", "network", "container", "gone", "forget"},
          kill |-> {"wait"},
          reconcile |-> {"records", "history", "forget"}]
Idle == [kind |-> "idle", step |-> "none", proc |-> None]
Ops == {Idle} \cup UNION {[kind : {k}, step : Steps[k], proc : Procs \cup {None}] : k \in DOMAIN Steps}
Doing(k, s) == op.kind = k /\ op.step = s
Step(s) == op' = [op EXCEPT !.step = s]

TypeOK ==
  /\ container \in BOOLEAN
  /\ task \in {"none", "running", "stopped"}
  /\ exec \in [Procs -> ExecStates]
  /\ outcome \in [Procs -> Codes \cup {None}]
  /\ runs \in [Procs -> Nat]
  /\ overdue \subseteq Timed
  /\ disk \in [Procs -> Record]
  /\ phase \in {"down", "recover", "reconcile", "serve"}
  /\ crashes \in 0..MaxCrashes
  /\ recovering \subseteq Procs
  /\ tracked \subseteq Procs
  /\ mem \in [Procs -> Record]
  /\ handle \subseteq Procs
  /\ done \subseteq Procs
  /\ watcher \in [Procs -> {"none", "watch", "save", "retire"}]
  /\ waiter \in [Procs -> {"none", "wait", "kill"}]
  /\ op \in Ops

Init ==
  /\ container = TRUE /\ task = "none"
  /\ exec = [p \in Procs |-> "none"]
  /\ outcome = [p \in Procs |-> None]
  /\ runs = [p \in Procs |-> 0]
  /\ overdue = {}
  /\ disk = [p \in Procs |-> NoRecord]
  /\ phase = "serve" /\ crashes = 0
  /\ recovering = {} /\ tracked = {} /\ handle = {} /\ done = {}
  /\ mem = [p \in Procs |-> NoRecord]
  /\ watcher = [p \in Procs |-> "none"]
  /\ waiter = [p \in Procs |-> "none"]
  /\ op = Idle

Terminal(r) == r.status \in {"exited", "error"}
Failed(r) == [r EXCEPT !.status = "error", !.completed = TRUE]
Exited(r, code) == [r EXCEPT !.status = "exited", !.exit = code, !.completed = TRUE]

\* Mutant of Saved: a missing directory is made again.
SavedAnywhere(p, r, ok) ==
  \/ ~ok /\ UNCHANGED disk
  \/ disk' = [disk EXCEPT ![p] = r]

\* saveProcess replaces process.json atomically, and reports a failure if that
\* does not happen, but also if the directory cannot be opened or synced after
\* it did. Without the directory it always fails.
Saved(p, r, ok) ==
  \/ ~ok /\ UNCHANGED disk
  \/ disk[p].status # "none" /\ disk' = [disk EXCEPT ![p] = r]

\* SIGKILL ends the processes in S that still run.
Kill(S) ==
  LET hit == {p \in S : exec[p] = "running"}
  IN /\ exec' = [p \in Procs |-> IF p \in hit THEN "stopped" ELSE exec[p]]
     /\ outcome' = [p \in Procs |-> IF p \in hit THEN "killed" ELSE outcome[p]]

\* A task is deleted with the records of its processes.
TaskDeleted ==
  /\ task' = "none"
  /\ exec' = [p \in Procs |-> "none"]
  /\ outcome' = [p \in Procs |-> IF exec[p] = "running" THEN "killed" ELSE outcome[p]]

Request(k, s, p) ==
  /\ phase = "serve"
  /\ op = Idle
  /\ op' = [kind |-> k, step |-> s, proc |-> p]

-----------------------------------------------------------------------------
(* StartProcess, and PrepareExec through it.                               *)

\* Mutant of Known: a failed launch may be retried.
KnownUnlessFailed(p) == p \in tracked /\ mem[p].status # "error"

Known(p) == p \in tracked

Begin(p) ==
  /\ Request("launch", "setup", p)
  /\ container /\ task = "running"
  /\ ~Known(p)
  /\ tracked' = tracked \cup {p}
  /\ mem' = [mem EXCEPT ![p] = [NoRecord EXCEPT !.status = "starting"]]
  /\ UNCHANGED <<runtime, disk, phase, crashes, recovering, handle, done, watcher, waiter>>

Setup(p) ==
  /\ Doing("launch", "setup") /\ op.proc = p
  /\ disk' = [disk EXCEPT ![p] = mem[p]]
  /\ Step("exec")
  /\ UNCHANGED <<runtime, tracking, phase, crashes>>

\* The directory cannot be made, or the record not saved, or it is saved and
\* reported as not saved.
SetupFails(p, left) ==
  /\ Doing("launch", "setup") /\ op.proc = p
  /\ disk' = [disk EXCEPT ![p].status = left]
  /\ Step("fail")
  /\ UNCHANGED <<runtime, tracking, phase, crashes>>

CreateExec(p) ==
  /\ Doing("launch", "exec") /\ op.proc = p
  /\ task = "running"
  /\ exec' = [exec EXCEPT ![p] = "created"]
  /\ handle' = handle \cup {p}
  /\ Step("start")
  /\ UNCHANGED <<container, task, outcome, runs, overdue, disk, phase, crashes,
                 recovering, tracked, mem, done, watcher, waiter>>

\* The pipes, the log collector or the exec cannot be made.
CreateFails(p) ==
  /\ Doing("launch", "exec") /\ op.proc = p
  /\ Step("fail")
  /\ UNCHANGED <<runtime, disk, tracking, phase, crashes>>

\* The runtime executes the command; the call may still fail for the adapter.
Executes(p, answered) ==
  /\ Doing("launch", "start") /\ op.proc = p
  /\ exec[p] = "created" /\ task = "running"
  /\ exec' = [exec EXCEPT ![p] = "running"]
  /\ runs' = [runs EXCEPT ![p] = @ + 1]
  /\ Step(IF answered THEN "started" ELSE "undo")
  /\ UNCHANGED <<container, task, outcome, overdue, disk, tracking, phase, crashes>>

StartFails(p) ==
  /\ Doing("launch", "start") /\ op.proc = p
  /\ Step("undo")
  /\ UNCHANGED <<runtime, disk, tracking, phase, crashes>>

\* The failed launch is killed and its runtime record deleted, as far as the
\* runtime answers.
Undo(p, killed, deleted) ==
  /\ Doing("launch", "undo") /\ op.proc = p
  /\ deleted => killed \/ exec[p] # "running"
  /\ exec' = [exec EXCEPT ![p] = IF deleted THEN "none"
                                 ELSE IF killed /\ @ = "running" THEN "stopped" ELSE @]
  /\ outcome' = [outcome EXCEPT ![p] = IF killed /\ exec[p] = "running" THEN "killed" ELSE @]
  /\ Step("fail")
  /\ UNCHANGED <<container, task, runs, overdue, disk, tracking, phase, crashes>>

\* The deferred function of StartProcess.
Fail(p, ok) ==
  /\ Doing("launch", "fail") /\ op.proc = p
  /\ mem' = [mem EXCEPT ![p] = Failed(@)]
  /\ Saved(p, Failed(mem[p]), ok)
  /\ done' = done \cup {p}
  /\ op' = Idle
  /\ UNCHANGED <<runtime, phase, crashes, recovering, tracked, handle, watcher, waiter>>

\* A synchronous exec goes on in waitExec, if the record was saved.
Started(p, ok) ==
  /\ Doing("launch", "started") /\ op.proc = p
  /\ mem' = [mem EXCEPT ![p].status = "running"]
  /\ Saved(p, [mem[p] EXCEPT !.status = "running"], ok)
  /\ watcher' = [watcher EXCEPT ![p] = "watch"]
  /\ waiter' = [waiter EXCEPT ![p] = IF ok /\ p \in Timed THEN "wait" ELSE @]
  /\ op' = Idle
  /\ UNCHANGED <<runtime, phase, crashes, recovering, tracked, handle, done>>

\* A retry finds the process; unless it is done it waits as the first call does.
RetryExec(p) ==
  /\ phase = "serve" /\ op = Idle
  /\ container /\ Known(p) /\ p \in Timed \ done
  /\ waiter[p] = "none"
  /\ waiter' = [waiter EXCEPT ![p] = "wait"]
  /\ UNCHANGED <<runtime, disk, adapter, recovering, tracked, mem, handle, done, watcher>>

-----------------------------------------------------------------------------
(* watchProcess.                                                           *)

\* The runtime does not know the process.
WatchMissing(p, ok) ==
  /\ watcher[p] = "watch" /\ exec[p] = "none"
  /\ mem' = [mem EXCEPT ![p] = Failed(@)]
  /\ Saved(p, Failed(mem[p]), ok)
  /\ watcher' = [watcher EXCEPT ![p] = IF ok THEN "none" ELSE @]
  /\ done' = IF ok THEN done \cup {p} ELSE done
  /\ UNCHANGED <<runtime, adapter, recovering, tracked, handle, waiter>>

\* Mutant of Due: only waitExec keeps the deadline.
DueNever(p) == FALSE

\* The deadline is StartedAt plus Timeout, both on disk.
Due(p) == p \in overdue

WatchOverdue(p, ok) ==
  /\ watcher[p] = "watch" /\ exec[p] \in {"created", "running"}
  /\ Due(p)
  /\ mem' = [mem EXCEPT ![p].timedOut = TRUE]
  /\ Kill(IF ok THEN {p} ELSE {})
  /\ UNCHANGED <<container, task, runs, overdue, disk, adapter,
                 recovering, tracked, handle, done, watcher, waiter>>

\* Mutant of WatchStopped: the exit of a recovered process is not looked for.
WatchStoppedHere(p) ==
  /\ watcher[p] = "watch" /\ exec[p] = "stopped" /\ waiter[p] # "none"
  /\ watcher' = [watcher EXCEPT ![p] = "save"]
  /\ UNCHANGED <<runtime, disk, adapter, recovering, tracked, mem, handle, done, waiter>>

\* The exit code is read; the logs are waited for, one second at most.
WatchStopped(p) ==
  /\ watcher[p] = "watch" /\ exec[p] = "stopped"
  /\ watcher' = [watcher EXCEPT ![p] = "save"]
  /\ UNCHANGED <<runtime, disk, adapter, recovering, tracked, mem, handle, done, waiter>>

\* After a failure the loop starts again.
WatchSave(p, ok) ==
  /\ watcher[p] = "save"
  /\ mem' = [mem EXCEPT ![p] = Exited(@, outcome[p])]
  /\ Saved(p, Exited(mem[p], outcome[p]), ok)
  /\ watcher' = [watcher EXCEPT ![p] = IF ok THEN "retire" ELSE "watch"]
  /\ UNCHANGED <<runtime, adapter, recovering, tracked, handle, done, waiter>>

WatchRetire(p, ok) ==
  /\ watcher[p] = "retire"
  /\ exec' = IF ok THEN [exec EXCEPT ![p] = "none"] ELSE exec
  /\ watcher' = [watcher EXCEPT ![p] = "none"]
  /\ done' = done \cup {p}
  /\ UNCHANGED <<container, task, outcome, runs, overdue, disk, adapter,
                 recovering, tracked, mem, handle, waiter>>

-----------------------------------------------------------------------------
(* waitExec, after the lifecycle lock is released, and KillProcess.        *)

WaitTimesOut(p) ==
  /\ waiter[p] = "wait" /\ p \in overdue
  /\ mem' = [mem EXCEPT ![p].timedOut = TRUE]
  /\ waiter' = [waiter EXCEPT ![p] = "kill"]
  /\ UNCHANGED <<runtime, disk, adapter, recovering, tracked, handle, done, watcher>>

\* KillProcess does nothing to a process that is not running.
WaitKills(p, ok) ==
  /\ waiter[p] = "kill"
  /\ Kill(IF ok /\ container /\ p \in tracked /\ mem[p].status = "running" THEN {p} ELSE {})
  /\ waiter' = [waiter EXCEPT ![p] = "none"]
  /\ UNCHANGED <<container, task, runs, overdue, disk, adapter,
                 recovering, tracked, mem, handle, done, watcher>>

\* The process is done, or the client is gone.
WaitEnds(p) ==
  /\ waiter[p] = "wait"
  /\ waiter' = [waiter EXCEPT ![p] = "none"]
  /\ UNCHANGED <<runtime, disk, adapter, recovering, tracked, mem, handle, done, watcher>>

\* A kill request waits for the exit with the lifecycle lock held.
KillProcess(p) ==
  /\ Request("kill", "wait", p)
  /\ container /\ p \in tracked /\ mem[p].status = "running"
  /\ Kill({p})
  /\ UNCHANGED <<container, task, runs, overdue, disk, tracking, phase, crashes>>

\* The process is done, or the request runs into its timeout.
KillReturns ==
  /\ Doing("kill", "wait")
  /\ op' = Idle
  /\ UNCHANGED <<runtime, disk, tracking, phase, crashes>>

-----------------------------------------------------------------------------
(* Start, Stop and Delete of the sandbox.                                  *)

\* Any of these calls may fail, or run into its timeout.
CallFails ==
  /\ op.kind \in {"start", "stop", "delete"}
  /\ op' = Idle
  /\ UNCHANGED <<runtime, disk, tracking, phase, crashes>>

\* Start deletes a task that is not running, then checks the quota and sets
\* up the network.
StartSandbox ==
  /\ Request("start", "check", None)
  /\ container /\ task # "running"
  /\ TaskDeleted
  /\ UNCHANGED <<container, runs, overdue, disk, tracking, phase, crashes>>

\* A task that fails to start is deleted if the runtime answers.
TaskStarts(t) ==
  /\ Doing("start", "check")
  /\ task' = t
  /\ op' = Idle
  /\ UNCHANGED <<container, exec, outcome, runs, overdue, disk, tracking, phase, crashes>>

\* Stop kills what runs; a kill that fails ends it.
StopKills(k, S) ==
  LET running == {p \in tracked : mem[p].status = "running"}
  IN /\ phase = "serve" /\ op = Idle
     /\ container /\ task # "none"
     /\ S \subseteq running
     /\ Kill(S)
     /\ op' = IF S = running THEN [kind |-> k, step |-> "settle", proc |-> None] ELSE op
     /\ UNCHANGED <<container, task, runs, overdue, disk, tracking, phase, crashes>>

\* settleProcesses.
Settled == tracked \subseteq done

StopSettles ==
  /\ op.kind \in {"stop", "delete"} /\ op.step = "settle"
  /\ Settled
  /\ Step("task")
  /\ UNCHANGED <<runtime, disk, tracking, phase, crashes>>

\* The task is deleted, and the processes are settled again.
StopsTask ==
  /\ op.kind \in {"stop", "delete"} /\ op.step = "task"
  /\ TaskDeleted
  /\ Step("network")
  /\ UNCHANGED <<container, runs, overdue, disk, tracking, phase, crashes>>

\* Without a task only the network is removed.
StopWithoutTask(k) ==
  /\ Request(k, "network", None)
  /\ container /\ task = "none"
  /\ UNCHANGED <<runtime, disk, tracking, phase, crashes>>

StopReturns ==
  /\ op.kind \in {"stop", "delete"} /\ op.step = "network"
  /\ op' = IF op.kind = "stop" THEN Idle ELSE [op EXCEPT !.step = "container"]
  /\ UNCHANGED <<runtime, disk, tracking, phase, crashes>>

DeleteContainer ==
  /\ Doing("delete", "container")
  /\ container' = FALSE
  /\ Step("forget")
  /\ UNCHANGED <<task, exec, outcome, runs, overdue, disk, tracking, phase, crashes>>

\* Delete when the container is gone already.
DeleteAgain ==
  /\ Request("delete", "gone", None)
  /\ ~container
  /\ UNCHANGED <<runtime, disk, tracking, phase, crashes>>

DeleteSettles ==
  /\ Doing("delete", "gone")
  /\ Settled
  /\ Step("forget")
  /\ UNCHANGED <<runtime, disk, tracking, phase, crashes>>

\* forgetProcesses, in Delete and in Reconcile.
Forget ==
  /\ op.step = "forget"
  /\ disk' = [p \in Procs |-> NoRecord]
  /\ tracked' = {}
  /\ op' = Idle
  /\ phase' = "serve"
  /\ UNCHANGED <<runtime, crashes, recovering, mem, handle, done, watcher, waiter>>

-----------------------------------------------------------------------------
(* Reconcile.                                                              *)

Reconcile ==
  /\ Request("reconcile", "records", None)
  /\ UNCHANGED <<runtime, disk, tracking, phase, crashes>>

\* Mutant of Leftovers: ended processes are cleaned before they are done.
LeftoversEarly == {p \in tracked \cap handle : exec[p] \in {"stopped", "created"}}

\* cleanupProcessRecords retires the records the watchers left; a deletion
\* that fails ends the request.
Leftovers == {p \in tracked \cap done \cap handle : exec[p] \in {"stopped", "created"}}

CleanRecords(S) ==
  /\ Doing("reconcile", "records")
  /\ S \subseteq Leftovers
  /\ S # Leftovers => phase = "serve"
  /\ exec' = [p \in Procs |-> IF p \in S THEN "none" ELSE exec[p]]
  /\ op' = IF S = Leftovers THEN [op EXCEPT !.step = "history"] ELSE Idle
  /\ UNCHANGED <<container, task, outcome, runs, overdue, disk, tracking, phase, crashes>>

\* History without a container is forgotten once it has settled.
KeepHistory ==
  /\ Doing("reconcile", "history")
  /\ container \/ \A p \in Procs : disk[p].status = "none"
  /\ op' = Idle
  /\ phase' = "serve"
  /\ UNCHANGED <<runtime, disk, tracking, crashes>>

DropHistory ==
  /\ Doing("reconcile", "history")
  /\ ~container /\ \E p \in Procs : disk[p].status # "none"
  /\ Settled
  /\ Step("forget")
  /\ UNCHANGED <<runtime, disk, tracking, phase, crashes>>

\* A failure, which at startup ends the adapter.
ReconcileFails ==
  /\ op.kind = "reconcile" /\ phase = "serve"
  /\ op' = Idle
  /\ UNCHANGED <<runtime, disk, tracking, phase, crashes>>

-----------------------------------------------------------------------------
(* The adapter dies and recovers.                                          *)

Crash ==
  /\ phase # "down"
  /\ crashes < MaxCrashes
  /\ crashes' = crashes + 1
  /\ phase' = "down"
  /\ recovering' = {} /\ tracked' = {} /\ handle' = {} /\ done' = {}
  /\ mem' = [p \in Procs |-> NoRecord]
  /\ watcher' = [p \in Procs |-> "none"]
  /\ waiter' = [p \in Procs |-> "none"]
  /\ op' = Idle
  /\ UNCHANGED <<runtime, disk>>

\* Directories without a record are removed, the others are read.
Boot ==
  /\ phase = "down"
  /\ phase' = "recover"
  /\ disk' = [p \in Procs |-> IF disk[p].status = "dir" THEN NoRecord ELSE disk[p]]
  /\ recovering' = {p \in Procs : disk[p].status \notin {"none", "dir"}}
  /\ UNCHANGED <<runtime, tracked, mem, handle, done, watcher, waiter, crashes, op>>

\* One record of recoverProcesses. A call that fails ends the adapter.
Read(p) ==
  /\ phase = "recover" /\ p \in recovering
  /\ recovering' = recovering \ {p}
  /\ tracked' = tracked \cup {p}
  /\ handle' = IF exec[p] = "none" THEN handle ELSE handle \cup {p}
  /\ UNCHANGED <<container, task, outcome, runs, overdue, phase, crashes, waiter, op>>

\* The process is over for the runtime, and no watcher is needed.
RecoverSettled(p, r, deleted) ==
  /\ Read(p)
  /\ mem' = [mem EXCEPT ![p] = r]
  /\ disk' = [disk EXCEPT ![p] = r]
  /\ exec' = IF deleted THEN [exec EXCEPT ![p] = "none"] ELSE exec
  /\ done' = done \cup {p}
  /\ UNCHANGED watcher

\* Mutant of RecoverMissing: a process that is gone is taken to have ended well.
RecoverInvented(p) ==
  /\ exec[p] = "none"
  /\ RecoverSettled(p, IF Terminal(disk[p]) THEN disk[p] ELSE Exited(disk[p], "ok"), FALSE)

RecoverMissing(p) ==
  /\ exec[p] = "none"
  /\ RecoverSettled(p, IF Terminal(disk[p]) THEN disk[p] ELSE Failed(disk[p]), FALSE)

\* The start never completed; it is not executed again.
RecoverCreated(p, deleted) ==
  /\ exec[p] = "created"
  /\ RecoverSettled(p, Failed(disk[p]), deleted)

RecoverStopped(p) ==
  /\ exec[p] = "stopped" /\ Terminal(disk[p])
  /\ RecoverSettled(p, disk[p], TRUE)

\* A live process, or an exit that was not saved, is watched again.
Reattached(p) == IF exec[p] = "running" THEN [disk[p] EXCEPT !.status = "running"] ELSE disk[p]

\* Mutant of Reattach: no watcher is started.
ReattachUnwatched(p) ==
  /\ exec[p] = "running" \/ (exec[p] = "stopped" /\ ~Terminal(disk[p]))
  /\ Read(p)
  /\ mem' = [mem EXCEPT ![p] = Reattached(p)]
  /\ disk' = [disk EXCEPT ![p] = Reattached(p)]
  /\ UNCHANGED <<exec, done, watcher>>

Reattach(p) ==
  /\ exec[p] = "running" \/ (exec[p] = "stopped" /\ ~Terminal(disk[p]))
  /\ Read(p)
  /\ mem' = [mem EXCEPT ![p] = Reattached(p)]
  /\ disk' = [disk EXCEPT ![p] = Reattached(p)]
  /\ watcher' = [watcher EXCEPT ![p] = "watch"]
  /\ UNCHANGED <<exec, done>>

\* Reconcile runs once before requests are served.
Recovered ==
  /\ phase = "recover" /\ recovering = {}
  /\ phase' = "reconcile"
  /\ op' = [kind |-> "reconcile", step |-> "records", proc |-> None]
  /\ UNCHANGED <<runtime, disk, tracking, crashes>>

-----------------------------------------------------------------------------
(* The runtime.                                                            *)

Exits(p) ==
  /\ exec[p] = "running"
  /\ exec' = [exec EXCEPT ![p] = "stopped"]
  /\ outcome' = [outcome EXCEPT ![p] = "ok"]
  /\ UNCHANGED <<container, task, runs, overdue, disk, tracking, adapter>>

\* The main process ends and takes the others with it.
TaskExits ==
  /\ task = "running"
  /\ task' = "stopped"
  /\ Kill(Procs)
  /\ UNCHANGED <<container, runs, overdue, disk, tracking, adapter>>

TaskLost ==
  /\ ShimFails /\ task # "none"
  /\ TaskDeleted
  /\ UNCHANGED <<container, runs, overdue, disk, tracking, adapter>>

DeadlinePasses(p) ==
  /\ p \in Timed \ overdue /\ runs[p] > 0
  /\ overdue' = overdue \cup {p}
  /\ UNCHANGED <<container, task, exec, outcome, runs, disk, tracking, adapter>>

-----------------------------------------------------------------------------
Launches ==
  \E p \in Procs :
    \/ Begin(p) \/ Setup(p) \/ CreateExec(p) \/ CreateFails(p) \/ StartFails(p) \/ RetryExec(p)
    \/ \E ok \in BOOLEAN : Executes(p, ok) \/ Fail(p, ok) \/ Started(p, ok)
    \/ \E left \in {"none", "dir", "starting"} : SetupFails(p, left)
    \/ \E killed, deleted \in BOOLEAN : Undo(p, killed, deleted)
Watches ==
  \E p \in Procs :
    \/ WatchStopped(p) \/ WaitTimesOut(p) \/ WaitEnds(p)
    \/ \E ok \in BOOLEAN : \/ WatchMissing(p, ok) \/ WatchOverdue(p, ok) \/ WatchSave(p, ok)
                           \/ WatchRetire(p, ok) \/ WaitKills(p, ok)
Stops ==
  \/ \E p \in Procs : KillProcess(p)
  \/ \E k \in {"stop", "delete"} : StopWithoutTask(k) \/ \E S \in SUBSET Procs : StopKills(k, S)
  \/ \E t \in {"none", "running", "stopped"} : TaskStarts(t)
  \/ KillReturns \/ CallFails \/ StartSandbox \/ StopSettles \/ StopsTask \/ StopReturns
  \/ DeleteContainer \/ DeleteAgain \/ DeleteSettles
Sweeps ==
  \/ Reconcile \/ KeepHistory \/ DropHistory \/ ReconcileFails \/ Forget
  \/ \E S \in SUBSET Procs : CleanRecords(S)
Restarts ==
  \/ Crash \/ Boot \/ Recovered
  \/ \E p \in Procs : \/ RecoverMissing(p) \/ RecoverStopped(p) \/ Reattach(p)
                      \/ \E deleted \in BOOLEAN : RecoverCreated(p, deleted)
Environment ==
  \/ TaskExits \/ TaskLost
  \/ \E p \in Procs : Exits(p) \/ DeadlinePasses(p)

Next == Launches \/ Watches \/ Stops \/ Sweeps \/ Restarts \/ Environment
Spec == Init /\ [][Next]_vars

-----------------------------------------------------------------------------
(* Safety.                                                                 *)

\* A command is executed at most once, however often its start is retried and
\* wherever the adapter crashes.
AtMostOnce == \A p \in Procs : runs[p] <= 1

\* recoverProcesses relies on it: a process the runtime knows has a record,
\* so a directory without one launched nothing.
ExecHasRecord == \A p \in Procs : exec[p] # "none" => disk[p].status \notin {"none", "dir"}

\* A command is executed at most once, and never without a saved record, so
\* that neither a retry nor a recovery launches it again.
OnceAndRecorded == AtMostOnce /\ ExecHasRecord

\* The history never invents an exit code.
ExitIsTrue ==
  \A p \in Procs : /\ disk[p].status = "exited" => disk[p].exit # None
                   /\ disk[p].exit # None => runs[p] = 1 /\ disk[p].exit = outcome[p]

\* A process that runs is watched, by this adapter or the one that recovers,
\* unless its launch was reported as failed.
LiveIsWatched ==
  \A p \in Procs : phase = "serve" /\ exec[p] = "running" =>
    \/ watcher[p] # "none" /\ p \in tracked
    \/ mem[p].status = "error" /\ p \in tracked \cap done
    \/ op.kind = "launch" /\ op.proc = p

\* Stop and KillProcess call into the runtime for what runs; there is
\* something to call.
RunningHasHandle ==
  \A p \in tracked : phase = "serve" /\ mem[p].status = "running" => p \in handle

\* A process that runs is in the adapter's hands: watched, and with a handle
\* to kill it by, also after a recovery.
LiveIsHeld == LiveIsWatched /\ RunningHasHandle

\* Once a process is done its exit is on disk.
DoneIsDurable ==
  \A p \in tracked \cap done : mem[p].status = "exited" =>
    disk[p].status = "exited" /\ disk[p].exit = mem[p].exit

\* The history tells the truth: an exit code is the one the process ended
\* with, and a process that is done has it on disk.
HistoryIsTrue == ExitIsTrue /\ DoneIsDurable

\* An exit code that is on disk stays there until the history is deleted, also
\* when its save was reported as failed and the process is lost before the next.
ExitCodeIsFinal ==
  [][\A p \in Procs : disk[p].exit # None =>
        disk'[p] = NoRecord \/ disk'[p].exit = disk[p].exit]_vars

\* Once a process is done nobody writes its record, until the history is deleted
\* or the adapter restarts.
DoneIsFinal ==
  [][\A p \in tracked \cap done : disk'[p] \in {disk[p], NoRecord}]_vars

\* While its task stays, the runtime record of an ended process is deleted
\* only after the exit is on disk, unless the launch failed.
ExitOutlivesRecord ==
  [][\A p \in Procs : exec[p] = "stopped" /\ exec'[p] = "none" /\ task' # "none" =>
        Terminal(disk[p]) \/ (op.kind = "launch" /\ op.proc = p) \/ mem[p].status = "error"]_vars

\* The history of a deleted sandbox stays deleted.
DeletedStaysDeleted ==
  [][\A p \in Procs : ~container /\ disk[p] = NoRecord => disk'[p] = NoRecord]_vars

\* History is only ever added to: a saved exit code is neither lost nor changed,
\* the record of a process that is done is left alone, and what was forgotten
\* with its sandbox is not written again by a watcher.
HistoryIsFinal == ExitCodeIsFinal /\ DoneIsFinal /\ DeletedStaysDeleted

-----------------------------------------------------------------------------
(* Liveness. Watchers, recovery and whoever holds the lock go on; storage  *)
(* and the runtime do not fail for ever.                                   *)

\* Requests end, by their timeout if not earlier. What may fail again and again
\* succeeds if it is tried often enough; the API asks for a sweep periodically.
Proceeds(p) ==
  \/ Setup(p) \/ CreateExec(p) \/ CreateFails(p) \/ Executes(p, TRUE) \/ StartFails(p)
  \/ Undo(p, TRUE, TRUE) \/ Fail(p, TRUE) \/ Fail(p, FALSE) \/ Started(p, TRUE)
Recovers ==
  \/ Boot \/ Recovered
  \/ \E p \in Procs : RecoverMissing(p) \/ RecoverCreated(p, TRUE) \/ RecoverStopped(p) \/ Reattach(p)

Fairness ==
  /\ \A p \in Procs :
       /\ WF_vars(Proceeds(p))
       /\ WF_vars(WatchMissing(p, TRUE))
       /\ WF_vars(WatchOverdue(p, TRUE))
       /\ WF_vars(WatchStopped(p))
       /\ SF_vars(WatchSave(p, TRUE))
       /\ WF_vars(WatchRetire(p, TRUE))
  /\ WF_vars(Recovers)
  /\ WF_vars(KillReturns \/ CallFails)
  /\ SF_vars(Reconcile)
  /\ SF_vars(CleanRecords(Leftovers))
  /\ WF_vars(KeepHistory \/ DropHistory \/ Forget)
FairSpec == Spec /\ Fairness

\* An exit gets into the history, although the adapter may be down when it
\* happens, unless the sandbox is deleted or its task replaced.
ExitIsRecorded ==
  \A p \in Procs : exec[p] = "stopped" ~> (Terminal(disk[p]) \/ exec[p] = "none")

\* The deadline of a synchronous exec survives the adapter.
DeadlineIsKept ==
  \A p \in Procs : p \in overdue /\ exec[p] = "running" /\ disk[p].status = "running"
                     ~> exec[p] # "running"

-----------------------------------------------------------------------------
(* What the documentation says and the code does not do.                   *)

\* docs/files-processes.md: stop waits for tracked exits before returning.
StopWaitsForExits ==
  op.kind = "stop" /\ op.step = "network" => Settled

\* docs/reliability.md: exit metadata is saved before runtime process deletion.
ExitSavedBeforeDeletion ==
  [][\A p \in Procs : exec[p] = "stopped" /\ exec'[p] = "none" /\ p \notin done =>
        Terminal(disk[p]) \/ op.kind = "launch"]_vars

\* docs/files-processes.md: exit_code and completed_at are null while running.
NullWhileRunning ==
  \A p \in Procs : disk[p].status = "running" => disk[p].exit = None /\ ~disk[p].completed

\* docs/reliability.md: an unknown exit is reported as an error. A known one is
\* too, if its save was reported as failed and the runtime then loses the process.
ExitedIsFinal ==
  [][\A p \in Procs : disk[p].status = "exited" => disk'[p].status \in {"exited", "none"}]_vars

\* docs/files-processes.md: process history is durable and survives restart.
HistoryIsDurable ==
  \A p \in tracked \cap done : phase = "serve" /\ mem[p].status = "exited" => disk[p] = mem[p]
=============================================================================
