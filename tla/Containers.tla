------------------------------ MODULE Containers ------------------------------
(***************************************************************************)
(* Containers, their snapshots and their disk quotas in the adapter        *)
(* (runtime.go, quota.go, Reconcile in reliability.go): Create, Start,     *)
(* Stop, Delete and Reconcile, call by call to containerd, the kernel and  *)
(* the quota journal, under the lifecycle lock. Between two of them the    *)
(* adapter or the host may die, a task may exit, and the snapshotter       *)
(* removes directories when it gets to it. Network and process history     *)
(* (Endpoints, Processes) are steps that may fail.                         *)
(***************************************************************************)
EXTENDS Naturals, FiniteSets

CONSTANTS
  Sandboxes,
  None,
  MaxProjects,   \* bound: snapshots ever made
  MaxFaults      \* bound: failed calls, crashes and reboots

Projects == 1 .. MaxProjects

ASSUME ContainersAssumption ==
  /\ MaxProjects \in Nat
  /\ MaxFaults \in Nat
  /\ None \notin Sandboxes \cup Projects
  /\ None \notin {"absent", "residue", "stopped", "running"}
  /\ None \notin {"create", "start", "stop", "delete", "reconcile"}

VARIABLES
  container,  \* sandboxes with container metadata
  task,       \* the state of a task
  snapshot,   \* the number of a sandbox's snapshot, its project identifier
  dir,        \* snapshot directories on disk
  limited,    \* projects with limits
  charged,    \* projects whose usage is not zero: directories tagged with them
  journal,    \* .quotas/<id>.json: the project it names
  made,       \* snapshots made; containerd never uses a number again
  phase,      \* of the adapter
  kind,       \* the request that holds the lifecycle lock
  target,     \* the sandbox it is about
  pc,         \* its next step
  from,       \* the state its sandbox was in when it began
  todo,       \* sandboxes Reconcile has yet to look at
  reply,      \* the answer to the last request
  faults

storage == <<snapshot, dir, limited, charged, journal, made>>
control == <<phase, kind, target, pc, from, todo, reply>>
vars == <<container, task, storage, control, faults>>

CreateSteps == {"orphan", "reclaim", "clear", "unrecord", "image", "prepare",
                "record", "limit", "tag", "commit", "rollback"}
StartSteps == {"untask", "quota", "network", "newtask", "runtask", "undo", "describe"}
DeleteSteps == {"unsnapshot", "uncontain", "history"}
ReconcileSteps == {"snapshots", "quotas"}
Steps == CreateSteps \cup StartSteps \cup DeleteSteps \cup ReconcileSteps \cup {"idle", "load"}

\* describe, and what is left where there is no container.
State(s) ==
  IF s \in container
    THEN IF task[s] = "running" THEN "running" ELSE "stopped"
    ELSE IF snapshot[s] # None \/ journal[s] # None THEN "residue" ELSE "absent"

-----------------------------------------------------------------------------
(* How a request goes on.                                                  *)

Goto(step) == pc' = step /\ UNCHANGED <<phase, kind, target, from, todo, reply>>

Answered(answer) ==
  /\ reply' = answer
  /\ kind' = None /\ target' = None /\ from' = None /\ pc' = "idle" /\ todo' = {}
  /\ UNCHANGED phase

\* A reconciliation is no request of a sandbox; its failure before the
\* adapter listens ends the adapter (main.go).
ReconcileEnds(ok) ==
  /\ phase' = IF phase = "up" \/ ok THEN "up" ELSE "down"
  /\ kind' = None /\ target' = None /\ pc' = "idle" /\ todo' = {}
  /\ UNCHANGED <<from, reply>>

\* An error ends the request, after a rollback of the snapshot once it was
\* made and of a task that does not start.
Failed ==
  IF pc \in {"record", "limit", "tag", "commit"} THEN Goto("rollback")
  ELSE IF pc = "runtask" THEN Goto("undo")
  ELSE IF kind = "reconcile" THEN ReconcileEnds(FALSE)
  ELSE Answered("error")

Fault == faults < MaxFaults /\ faults' = faults + 1

\* The call took effect; it was answered, or its answer was lost.
Proceed(step) ==
  \/ Goto(step) /\ UNCHANGED faults
  \/ Fault /\ Failed

\* A call that fails without an effect.
Fails ==
  /\ pc # "idle"
  /\ Fault /\ Failed
  /\ UNCHANGED <<container, task, storage>>

-----------------------------------------------------------------------------
Init ==
  /\ container = {}
  /\ task = [s \in Sandboxes |-> "none"]
  /\ snapshot = [s \in Sandboxes |-> None]
  /\ dir = {} /\ limited = {} /\ charged = {}
  /\ journal = [s \in Sandboxes |-> None]
  /\ made = 0
  /\ phase = "down"
  /\ kind = None /\ target = None /\ from = None
  /\ pc = "idle"
  /\ todo = {}
  /\ reply = "none"
  /\ faults = 0

Request(k, s) ==
  /\ phase = "up" /\ pc = "idle"
  /\ kind' = k /\ target' = s /\ from' = State(s) /\ pc' = "load"
  /\ reply' = "none"
  /\ UNCHANGED <<container, task, storage, phase, todo, faults>>

\* load: the container decides what a request does. A create finds it with
\* the fingerprint of its own configuration, or with another.
Load ==
  /\ pc = "load"
  /\ IF target \in container
       THEN CASE kind = "create" -> \E answer \in {"ok", "error"} : Answered(answer)
              [] kind = "start" -> IF task[target] = "running" THEN Answered("ok") ELSE Goto("untask")
              [] OTHER -> Goto("untask")
       ELSE IF kind \in {"create", "delete"} THEN Goto("orphan") ELSE Answered("error")
  /\ UNCHANGED <<container, task, storage, faults>>

-----------------------------------------------------------------------------
(* What a sandbox without a container has left.                            *)

RemoveOrphan ==
  /\ pc = "orphan"
  /\ snapshot' = [snapshot EXCEPT ![target] = None]
  /\ Proceed(IF kind = "reconcile" THEN "snapshots" ELSE "reclaim")
  /\ UNCHANGED <<container, task, dir, limited, charged, journal, made>>

\* Mutant of Reclaimed: the directory is looked at, its usage is not.
ReclaimedDirectory(p) == p \notin dir

\* The directory is gone and nothing is charged to the project any more.
Reclaimed(p) == p \notin dir /\ p \notin charged

AfterReclaim ==
  CASE kind = "create" -> "image" [] kind = "delete" -> "history" [] OTHER -> "quotas"

reclaimQuota ==
  /\ pc = "reclaim"
  /\ IF journal[target] = None THEN Goto(AfterReclaim)
     ELSE Reclaimed(journal[target]) /\ Goto("clear")
  /\ UNCHANGED <<container, task, storage, faults>>

\* "snapshot storage has not yet been reclaimed"
ReclaimTimesOut ==
  /\ pc = "reclaim" /\ journal[target] # None /\ ~Reclaimed(journal[target])
  /\ Failed
  /\ UNCHANGED <<container, task, storage, faults>>

ClearLimits ==
  /\ pc = "clear"
  /\ limited' = limited \ {journal[target]}
  /\ Proceed("unrecord")
  /\ UNCHANGED <<container, task, snapshot, dir, charged, journal, made>>

RemoveJournal ==
  /\ pc = "unrecord"
  /\ journal' = [journal EXCEPT ![target] = None]
  /\ Proceed(AfterReclaim)
  /\ UNCHANGED <<container, task, snapshot, dir, limited, charged, made>>

-----------------------------------------------------------------------------
(* Create.                                                                 *)

\* The image is there, or cannot be had.
GetImage ==
  /\ pc = "image"
  /\ \/ made < MaxProjects /\ Goto("prepare")
     \/ Answered("error")
  /\ UNCHANGED <<container, task, storage, faults>>

PrepareSnapshot ==
  /\ pc = "prepare"
  /\ made' = made + 1
  /\ snapshot' = [snapshot EXCEPT ![target] = made + 1]
  /\ dir' = dir \cup {made + 1}
  /\ Proceed("record")
  /\ UNCHANGED <<container, task, limited, charged, journal>>

\* The project of a snapshot is the number its directory is named with.
Project(s) == snapshot[s]

\* The journal precedes the quota.
prepareQuota ==
  /\ pc = "record"
  /\ journal' = [journal EXCEPT ![target] = Project(target)]
  /\ Proceed("limit")
  /\ UNCHANGED <<container, task, snapshot, dir, limited, charged, made>>

\* "Limits first. No container or task can access this snapshot yet."
SetLimits ==
  /\ pc = "limit"
  /\ limited' = limited \cup {Project(target)}
  /\ Proceed("tag")
  /\ UNCHANGED <<container, task, snapshot, dir, charged, journal, made>>

\* The directories are tagged with the project and verified.
TagDirectories ==
  /\ pc = "tag"
  /\ charged' = charged \cup {Project(target)}
  /\ Proceed("commit")
  /\ UNCHANGED <<container, task, snapshot, dir, limited, journal, made>>

CommitContainer ==
  /\ pc = "commit"
  /\ container' = container \cup {target}
  /\ \/ Answered("ok") /\ UNCHANGED faults
     \/ Fault /\ Failed
  /\ UNCHANGED <<task, storage>>

\* The snapshot is removed whether or not the container came into being.
Rollback ==
  /\ pc = "rollback"
  /\ snapshot' = [snapshot EXCEPT ![target] = None]
  /\ Answered("error")
  /\ UNCHANGED <<container, task, dir, limited, charged, journal, made, faults>>

-----------------------------------------------------------------------------
(* Start and Stop.                                                         *)

\* deleteTask, after Stop has killed and settled the processes. Its result is
\* the same for a task that is not there.
DeleteTask ==
  /\ pc = "untask"
  /\ task' = [task EXCEPT ![target] = "none"]
  /\ Proceed(IF kind = "start" THEN "quota" ELSE "network")
  /\ UNCHANGED <<container, storage>>

\* Mutant of Enforced: the identity of the directories is not compared.
EnforcedAnyway(s) == TRUE

\* The snapshot exists, its project has limits and its directories are tagged.
Enforced(s) == snapshot[s] # None /\ Project(s) \in limited /\ Project(s) \in charged

checkQuota ==
  /\ pc = "quota"
  /\ IF Enforced(target) THEN Goto("network") ELSE Answered("error")
  /\ UNCHANGED <<container, task, storage, faults>>

\* setupNetwork or removeNetwork.
Network ==
  /\ pc = "network"
  /\ Goto(CASE kind = "start" -> "newtask"
            [] kind = "stop" -> "describe"
            [] kind = "delete" -> "unsnapshot")
  /\ UNCHANGED <<container, task, storage, faults>>

NewTask ==
  /\ pc = "newtask"
  /\ task' = [task EXCEPT ![target] = "created"]
  /\ Proceed("runtask")
  /\ UNCHANGED <<container, storage>>

RunTask ==
  /\ pc = "runtask"
  /\ task' = [task EXCEPT ![target] = "running"]
  /\ Proceed("describe")
  /\ UNCHANGED <<container, storage>>

\* The state the answer reports is read once more.
Describe ==
  /\ pc = "describe"
  /\ Answered("ok")
  /\ UNCHANGED <<container, task, storage, faults>>

\* The rollback of a task that did not start.
UndoTask ==
  /\ pc = "undo"
  /\ task' = [task EXCEPT ![target] = "none"]
  /\ Answered("error")
  /\ UNCHANGED <<container, storage, faults>>

-----------------------------------------------------------------------------
(* Delete: the snapshot goes first, then the container's metadata.         *)

DeleteSnapshot ==
  /\ pc = "unsnapshot"
  /\ snapshot' = [snapshot EXCEPT ![target] = None]
  /\ Proceed("uncontain")
  /\ UNCHANGED <<container, task, dir, limited, charged, journal, made>>

\* Mutant of DeleteContainer: the storage is left to the reconciliation.
DeleteContainerEarly ==
  /\ pc = "uncontain"
  /\ container' = container \ {target}
  /\ Proceed("history")
  /\ UNCHANGED <<task, storage>>

DeleteContainer ==
  /\ pc = "uncontain"
  /\ container' = container \ {target}
  /\ Proceed("reclaim")
  /\ UNCHANGED <<task, storage>>

\* settleProcesses, removeNetwork where there was no container, and
\* forgetProcesses.
ForgetHistory ==
  /\ pc = "history"
  /\ Answered("ok")
  /\ UNCHANGED <<container, task, storage, faults>>

-----------------------------------------------------------------------------
(* Reconcile, periodically and before the adapter listens.                 *)

\* Mutant of Orphans: a snapshot is an orphan unless a task uses it.
OrphansIdle == {s \in Sandboxes : snapshot[s] # None /\ task[s] = "none"}

\* Labelled snapshots that no container names.
Orphans == {s \in Sandboxes : snapshot[s] # None /\ s \notin container}

Reconcile ==
  /\ phase \in {"down", "up"} /\ pc = "idle"
  /\ phase' = IF phase = "up" THEN "up" ELSE "boot"
  /\ kind' = "reconcile" /\ pc' = "snapshots" /\ todo' = Orphans
  /\ UNCHANGED <<container, task, storage, target, from, reply, faults>>

NextOrphan(s) ==
  /\ pc = "snapshots" /\ s \in todo
  /\ todo' = todo \ {s} /\ target' = s /\ pc' = "orphan"
  /\ UNCHANGED <<container, task, storage, phase, kind, from, reply, faults>>

\* reconcileQuotas lists the journal.
ListQuotas ==
  /\ pc = "snapshots" /\ todo = {}
  /\ todo' = {s \in Sandboxes : journal[s] # None}
  /\ target' = None /\ pc' = "quotas"
  /\ UNCHANGED <<container, task, storage, phase, kind, from, reply, faults>>

\* Mutant of InUse: the test of the snapshot's error is inverted.
InUseInverted(s) == s \in container \/ snapshot[s] = None

InUse(s) == s \in container \/ snapshot[s] # None

NextQuota(s) ==
  /\ pc = "quotas" /\ s \in todo
  /\ todo' = todo \ {s}
  /\ IF InUse(s)
       THEN target' = None /\ UNCHANGED pc
       ELSE target' = s /\ pc' = "reclaim"
  /\ UNCHANGED <<container, task, storage, phase, kind, from, reply, faults>>

\* reconcileNetworks ends the reconciliation.
Reconciled ==
  /\ pc = "quotas" /\ todo = {}
  /\ ReconcileEnds(TRUE)
  /\ UNCHANGED <<container, task, storage, faults>>

-----------------------------------------------------------------------------
(* The rest of the world.                                                  *)

\* The snapshotter removes a directory that no snapshot has, at once or when
\* it is asked to clean up.
RemoveDirectory(p) ==
  /\ p \in dir /\ \A s \in Sandboxes : snapshot[s] # p
  /\ dir' = dir \ {p}
  /\ UNCHANGED <<container, task, snapshot, limited, charged, journal, made, control, faults>>

\* XFS gives up the last block of a removed directory.
Uncharge(p) ==
  /\ p \in charged \ dir
  /\ charged' = charged \ {p}
  /\ UNCHANGED <<container, task, snapshot, dir, limited, journal, made, control, faults>>

\* A task exits by itself, or is lost with its shim.
TaskExits(s, t) ==
  /\ task[s] = "running" /\ t \in {"stopped", "none"}
  /\ task' = [task EXCEPT ![s] = t]
  /\ from' = IF target = s /\ kind # "reconcile" THEN "stopped" ELSE from
  /\ UNCHANGED <<container, storage, phase, kind, target, pc, todo, reply, faults>>

Ended ==
  /\ phase' = "down" /\ kind' = None /\ target' = None /\ from' = None /\ pc' = "idle" /\ todo' = {}
  /\ UNCHANGED reply

Crash ==
  /\ phase # "down"
  /\ Fault /\ Ended
  /\ UNCHANGED <<container, task, storage>>

Reboot ==
  /\ Fault /\ Ended
  /\ task' = [s \in Sandboxes |-> "none"]
  /\ UNCHANGED <<container, storage>>

Step ==
  \/ Load \/ RemoveOrphan \/ reclaimQuota \/ ReclaimTimesOut \/ ClearLimits \/ RemoveJournal
  \/ GetImage \/ PrepareSnapshot \/ prepareQuota \/ SetLimits \/ TagDirectories
  \/ CommitContainer \/ Rollback
  \/ DeleteTask \/ checkQuota \/ Network \/ NewTask \/ RunTask \/ Describe \/ UndoTask
  \/ DeleteSnapshot \/ DeleteContainer \/ ForgetHistory
  \/ ListQuotas \/ Reconciled
  \/ \E s \in Sandboxes : NextOrphan(s) \/ NextQuota(s)

Next ==
  \/ \E k \in {"create", "start", "stop", "delete"}, s \in Sandboxes : Request(k, s)
  \/ Reconcile
  \/ Step
  \/ Fails
  \/ \E p \in Projects : RemoveDirectory(p) \/ Uncharge(p)
  \/ \E s \in Sandboxes, t \in {"stopped", "none"} : TaskExits(s, t)
  \/ Crash \/ Reboot

Spec == Init /\ [][Next]_vars

\* A request that has begun goes on, the API asks for reconciliations and the
\* lock is not kept from them for ever; snapshotter and filesystem get to
\* what they owe.
FairSpec ==
  /\ Spec
  /\ WF_vars(Step)
  /\ SF_vars(Reconcile)
  /\ \A p \in Projects : WF_vars(RemoveDirectory(p)) /\ WF_vars(Uncharge(p))

-----------------------------------------------------------------------------
(* Properties.                                                             *)

TypeOK ==
  /\ container \subseteq Sandboxes
  /\ task \in [Sandboxes -> {"none", "created", "running", "stopped"}]
  /\ snapshot \in [Sandboxes -> Projects \cup {None}]
  /\ dir \subseteq Projects /\ limited \subseteq Projects /\ charged \subseteq Projects
  /\ journal \in [Sandboxes -> Projects \cup {None}]
  /\ made \in 0 .. MaxProjects
  /\ phase \in {"down", "boot", "up"}
  /\ kind \in {"create", "start", "stop", "delete", "reconcile", None}
  /\ target \in Sandboxes \cup {None}
  /\ pc \in Steps
  /\ from \in {"absent", "residue", "stopped", "running", None}
  /\ todo \subseteq Sandboxes
  /\ reply \in {"none", "ok", "error"}
  /\ faults \in 0 .. MaxFaults

\* A task only ever exists on a snapshot whose project has limits, is the one
\* its directories are tagged with, and is journalled: checkQuota runs before
\* the task is made, and nothing takes any of it away while there is one.
TaskIsLimited ==
  \A s \in Sandboxes : task[s] # "none" =>
    /\ s \in container /\ snapshot[s] # None
    /\ snapshot[s] \in dir \cap limited \cap charged
    /\ journal[s] = snapshot[s]

\* As long as anything is charged to a project, the project keeps its limits,
\* and as long as it has limits some sandbox's journal names it, so that its
\* reservation is not given up: "Quota limits are cleared only after zero
\* usage is confirmed", through rollbacks, crashes and directories that go
\* later than their snapshots.
QuotaIsJournalled ==
  /\ charged \subseteq limited
  /\ \A p \in limited : \E s \in Sandboxes : journal[s] = p

\* The files of a container go with its deletion only, or with the create
\* that failed to make it: never with a start, a stop or a reconciliation
\* that listed containers and snapshots earlier.
FilesAreKept ==
  [][ \A s \in container :
        snapshot[s] # None /\ snapshot'[s] # snapshot[s] =>
          target = s /\ (kind = "delete" \/ (kind = "create" /\ pc = "rollback")) ]_vars

Service == INSTANCE RuntimeService WITH
  state <- [s \in Sandboxes |-> State(s)],
  call <- IF kind = "reconcile" THEN None ELSE kind,
  id <- IF kind = "reconcile" THEN None ELSE target

\* Every request leaves its sandbox in a state, and gives an answer, that the
\* API relies on (RuntimeContract): a deletion answers ok only when container,
\* snapshot and journal are gone.
ImplementsService == Service!Spec

\* What is left of a sandbox without a container is removed in the end, or
\* becomes part of a new one.
ResidueIsReclaimed ==
  \A s \in Sandboxes : State(s) = "residue" ~> State(s) # "residue"

\* "Create is idempotent at the adapter boundary" (docs/reliability.md): a
\* create that is answered ok has made, or found, a sandbox with its storage.
CreateIsIdempotent ==
  [][ kind = "create" /\ reply' = "ok" /\ reply # "ok" => snapshot'[target] # None ]_vars
=============================================================================
