--------------------------- MODULE ContainersProofs ---------------------------
(***************************************************************************)
(* Containers, snapshots and quotas for any number of sandboxes, snapshots *)
(* and failures: a task only exists on limited storage, limits outlast     *)
(* what they limit, the files of a container are kept, and the calls keep  *)
(* the contract of the adapter (RuntimeService).                           *)
(***************************************************************************)
EXTENDS Containers, TLAPS

Making == {"record", "limit", "tag", "commit"}
Reclaiming == {"orphan", "reclaim", "clear", "unrecord"}

\* Which requests take which steps, and that they are about a sandbox.
Control ==
  /\ pc \in Making \cup {"image", "prepare", "rollback"} => kind = "create"
  /\ pc \in Reclaiming => kind \in {"create", "delete", "reconcile"}
  /\ pc \in {"quota", "newtask", "runtask", "undo"} => kind = "start"
  /\ pc \in {"untask", "network"} => kind \in {"start", "stop", "delete"}
  /\ pc \in DeleteSteps => kind = "delete"
  /\ pc \in ReconcileSteps => kind = "reconcile"
  /\ pc = "load" => kind \in {"create", "start", "stop", "delete"}
  /\ pc \notin ReconcileSteps \cup {"idle"} => target \in Sandboxes

\* What a step may rely on, from the steps before it.
Ready ==
  /\ pc \in Making \cup Reclaiming \cup {"image", "prepare"} => target \notin container
  /\ pc \in {"image", "prepare", "record"} => journal[target] = None
  /\ pc = "prepare" => made < MaxProjects
  /\ pc \in Making => snapshot[target] # None
  /\ pc \in {"limit", "tag", "commit"} => journal[target] = snapshot[target]
  /\ pc \in {"tag", "commit"} => snapshot[target] \in limited
  /\ pc = "commit" => snapshot[target] \in charged
  /\ pc \in {"clear", "unrecord"} => journal[target] # None /\ journal[target] \notin charged
  /\ pc = "unrecord" => journal[target] \notin limited
  /\ pc \in {"newtask", "runtask", "undo"} => target \in container /\ snapshot[target] # None
  /\ pc = "network" /\ kind = "start" => target \in container /\ snapshot[target] # None
  /\ pc = "network" /\ kind = "delete" => task[target] = "none"
  /\ pc \in {"unsnapshot", "uncontain", "rollback"} => task[target] = "none"
  /\ pc = "snapshots" \/ (pc = "orphan" /\ kind = "reconcile") => todo \cap container = {}
  /\ pc \in {"untask", "quota"} => target \in container

\* What always holds of storage, containers and tasks.
World ==
  /\ \A s \in Sandboxes : snapshot[s] # None => snapshot[s] \in dir
  /\ \A s \in container : snapshot[s] # None =>
       journal[s] = snapshot[s] /\ snapshot[s] \in limited /\ snapshot[s] \in charged
  /\ \A s \in Sandboxes : task[s] # "none" => s \in container /\ snapshot[s] # None
  /\ QuotaIsJournalled

IndInv == TypeOK /\ Control /\ Ready /\ World

-----------------------------------------------------------------------------
(* How a request goes on.                                                  *)

ControlType ==
  /\ phase \in {"down", "boot", "up"}
  /\ kind \in {"create", "start", "stop", "delete", "reconcile", None}
  /\ target \in Sandboxes \cup {None}
  /\ pc \in Steps
  /\ from \in {"absent", "residue", "stopped", "running", None}
  /\ todo \subseteq Sandboxes
  /\ reply \in {"none", "ok", "error"}
  /\ faults \in 0 .. MaxFaults

Same == UNCHANGED <<kind, target, todo>>
Idle == pc' = "idle" /\ kind' = None /\ target' = None /\ todo' = {}

\* What Failed does to the request.
Broken ==
  \/ pc \in Making /\ pc' = "rollback" /\ Same
  \/ pc = "runtask" /\ pc' = "undo" /\ Same
  \/ pc \notin Making /\ Idle

\* A request goes on to its next step.
LEMMA GotoEnds ==
  ASSUME TypeOK, NEW step \in Steps, Goto(step), UNCHANGED faults
  PROVE  ControlType' /\ pc' = step /\ Same
BY DEF TypeOK, Goto, ControlType, Same

\* A request is answered.
LEMMA AnsweredEnds ==
  ASSUME TypeOK, NEW answer \in {"ok", "error"}, Answered(answer), UNCHANGED faults
  PROVE  ControlType' /\ Idle
BY DEF TypeOK, Answered, ControlType, Idle, Steps

\* A request fails: it is rolled back, or ends.
LEMMA FailedEnds ==
  ASSUME TypeOK, Failed, faults' \in 0 .. MaxFaults
  PROVE  ControlType' /\ Broken
<1>1. CASE pc \in Making
  BY <1>1 DEF TypeOK, Failed, Goto, ControlType, Broken, Making, Same, Steps, CreateSteps
<1>2. CASE pc = "runtask"
  BY <1>2 DEF TypeOK, Failed, Goto, ControlType, Broken, Making, Same, Steps, StartSteps
<1>3. CASE pc \notin Making /\ pc # "runtask" /\ kind = "reconcile"
  <2>1. ReconcileEnds(FALSE)
    BY <1>3 DEF Failed, Making
  <2>2. phase' \in {"down", "up"}
    BY <2>1 DEF ReconcileEnds
  <2> QED
    BY <1>3, <2>1, <2>2 DEF TypeOK, ReconcileEnds, ControlType, Broken, Idle, Steps
<1>4. CASE pc \notin Making /\ pc # "runtask" /\ kind # "reconcile"
  BY <1>4 DEF TypeOK, Failed, Answered, ControlType, Broken, Making, Idle, Steps
<1> QED
  BY <1>1, <1>2, <1>3, <1>4

\* A call that took effect is answered or not.
LEMMA ProceedEnds ==
  ASSUME TypeOK, NEW step \in Steps, Proceed(step)
  PROVE  ControlType' /\ ((pc' = step /\ Same) \/ Broken)
<1>1. CASE Goto(step) /\ UNCHANGED faults
  BY <1>1, GotoEnds
<1>2. CASE Fault /\ Failed
  <2>1. faults' \in 0 .. MaxFaults
    BY <1>2, ContainersAssumption DEF Fault, TypeOK
  <2> QED
    BY <1>2, <2>1, FailedEnds
<1> QED
  BY <1>1, <1>2 DEF Proceed

\* Steps that only change how the request goes on leave World as it is.
LEMMA WorldStays ==
  ASSUME World, UNCHANGED <<container, task, storage>>
  PROVE  World'
BY DEF World, storage, QuotaIsJournalled

\* A snapshot that no container names is removed.
LEMMA RemoveOrphanKeeps ==
  ASSUME IndInv, RemoveOrphan
  PROVE  IndInv'
<1> USE DEF IndInv
<1>1. ControlType' /\ ((pc' = (IF kind = "reconcile" THEN "snapshots" ELSE "reclaim") /\ Same) \/ Broken)
  BY ProceedEnds DEF RemoveOrphan, TypeOK, Steps, CreateSteps, StartSteps, DeleteSteps,
     ReconcileSteps
<1>2. TypeOK'
  BY <1>1 DEF RemoveOrphan, TypeOK, ControlType, storage
<1>3. Control'
  BY <1>1 DEF RemoveOrphan, Control, Broken, Idle, Same, Making, Reclaiming, DeleteSteps,
     ReconcileSteps
<1>4. Ready'
  BY <1>1 DEF RemoveOrphan, Ready, Control, World, TypeOK, Broken, Idle, Same, Making,
     Reclaiming, DeleteSteps, ReconcileSteps, storage
<1>5. World'
  BY <1>1 DEF RemoveOrphan, World, Ready, Control, TypeOK, QuotaIsJournalled, Making, Reclaiming,
     storage
<1> QED
  BY <1>2, <1>3, <1>4, <1>5

\* Limits of a reclaimed project are cleared.
LEMMA ClearLimitsKeeps ==
  ASSUME IndInv, ClearLimits
  PROVE  IndInv'
<1> USE DEF IndInv
<1>1. ControlType' /\ ((pc' = "unrecord" /\ Same) \/ Broken)
  BY ProceedEnds DEF ClearLimits, TypeOK, Steps, CreateSteps, StartSteps, DeleteSteps,
     ReconcileSteps
<1>2. TypeOK'
  BY <1>1 DEF ClearLimits, TypeOK, ControlType, storage
<1>3. Control'
  BY <1>1 DEF ClearLimits, Control, Broken, Idle, Same, Making, Reclaiming, DeleteSteps,
     ReconcileSteps
<1>4. Ready'
  BY <1>1 DEF ClearLimits, Ready, Control, World, TypeOK, Broken, Idle, Same, Making, Reclaiming,
     DeleteSteps, ReconcileSteps, storage
<1>5. World'
  BY <1>1 DEF ClearLimits, World, Ready, Control, TypeOK, QuotaIsJournalled, Making, Reclaiming,
     storage
<1> QED
  BY <1>2, <1>3, <1>4, <1>5

\* A project without limits leaves the journal.
LEMMA RemoveJournalKeeps ==
  ASSUME IndInv, RemoveJournal
  PROVE  IndInv'
<1> USE DEF IndInv
<1>1. ControlType' /\ ((pc' = AfterReclaim /\ Same) \/ Broken)
  BY ProceedEnds DEF RemoveJournal, TypeOK, Steps, CreateSteps, StartSteps, DeleteSteps,
     ReconcileSteps, AfterReclaim
<1>2. TypeOK'
  BY <1>1 DEF RemoveJournal, TypeOK, ControlType, storage, AfterReclaim
<1>3. Control'
  BY <1>1 DEF RemoveJournal, Control, Broken, Idle, Same, Making, Reclaiming, DeleteSteps,
     ReconcileSteps, AfterReclaim
<1>4. Ready'
  BY <1>1 DEF RemoveJournal, Ready, Control, World, TypeOK, Broken, Idle, Same, Making,
     Reclaiming, DeleteSteps, ReconcileSteps, storage, AfterReclaim
<1>5. World'
  BY <1>1 DEF RemoveJournal, World, Ready, Control, TypeOK, QuotaIsJournalled, Making,
     Reclaiming, storage, AfterReclaim
<1> QED
  BY <1>2, <1>3, <1>4, <1>5

\* A create makes its snapshot.
LEMMA PrepareSnapshotKeeps ==
  ASSUME IndInv, PrepareSnapshot
  PROVE  IndInv'
<1> USE DEF IndInv
<1>1. ControlType' /\ ((pc' = "record" /\ Same) \/ Broken)
  BY ProceedEnds DEF PrepareSnapshot, TypeOK, Steps, CreateSteps, StartSteps, DeleteSteps,
     ReconcileSteps
<1>6. target \in Sandboxes /\ made + 1 \in Projects /\ made + 1 \in 0 .. MaxProjects /\ made + 1 # None
  BY ContainersAssumption DEF PrepareSnapshot, Ready, Control, TypeOK, Projects, ReconcileSteps
<1>2. TypeOK'
  BY <1>1, <1>6 DEF PrepareSnapshot, TypeOK, ControlType
<1>3. Control'
  BY <1>1 DEF PrepareSnapshot, Control, Broken, Idle, Same, Making, Reclaiming, DeleteSteps,
     ReconcileSteps
<1>7. snapshot'[target] = made + 1
  BY <1>6 DEF PrepareSnapshot, TypeOK
<1>4. Ready'
  BY <1>1, <1>6, <1>7 DEF PrepareSnapshot, Ready, World, Control, Broken, Idle, Same, Making,
     Reclaiming
<1>5. World'
  BY <1>1 DEF PrepareSnapshot, World, Ready, Control, TypeOK, QuotaIsJournalled, Making,
     Reclaiming, storage
<1> QED
  BY <1>2, <1>3, <1>4, <1>5

\* The snapshot's project is journalled.
LEMMA prepareQuotaKeeps ==
  ASSUME IndInv, prepareQuota
  PROVE  IndInv'
<1> USE DEF IndInv
<1>1. ControlType' /\ ((pc' = "limit" /\ Same) \/ Broken)
  BY ProceedEnds DEF prepareQuota, TypeOK, Steps, CreateSteps, StartSteps, DeleteSteps,
     ReconcileSteps, Project
<1>2. TypeOK'
  BY <1>1 DEF prepareQuota, TypeOK, ControlType, storage, Project
<1>3. Control'
  BY <1>1 DEF prepareQuota, Control, Broken, Idle, Same, Making, Reclaiming, DeleteSteps,
     ReconcileSteps, Project
<1>4. Ready'
  BY <1>1 DEF prepareQuota, Ready, Control, World, TypeOK, Broken, Idle, Same, Making,
     Reclaiming, DeleteSteps, ReconcileSteps, storage, Project
<1>6. target \in Sandboxes /\ journal[target] = None /\ target \notin container
  BY DEF prepareQuota, Ready, Control, Making, ReconcileSteps
<1>7. \A s \in Sandboxes : s # target => journal'[s] = journal[s]
  BY <1>6 DEF prepareQuota, TypeOK
<1>8. QuotaIsJournalled'
  <2> SUFFICES ASSUME NEW p \in limited PROVE \E s \in Sandboxes : journal'[s] = p
    BY DEF World, QuotaIsJournalled, prepareQuota
  <2>1. PICK s \in Sandboxes : journal[s] = p
    BY DEF World, QuotaIsJournalled
  <2>2. p # None
    BY ContainersAssumption DEF TypeOK
  <2> QED
    BY <1>6, <1>7, <2>1, <2>2
<1>5. World'
  BY <1>6, <1>7, <1>8 DEF prepareQuota, World, TypeOK
<1> QED
  BY <1>2, <1>3, <1>4, <1>5

\* The project gets its limits.
LEMMA SetLimitsKeeps ==
  ASSUME IndInv, SetLimits
  PROVE  IndInv'
<1> USE DEF IndInv
<1>1. ControlType' /\ ((pc' = "tag" /\ Same) \/ Broken)
  BY ProceedEnds DEF SetLimits, TypeOK, Steps, CreateSteps, StartSteps, DeleteSteps,
     ReconcileSteps, Project
<1>6. target \in Sandboxes /\ Project(target) \in Projects
  BY DEF SetLimits, Ready, Control, TypeOK, Making, ReconcileSteps, Project
<1>2. TypeOK'
  BY <1>1, <1>6 DEF SetLimits, TypeOK, ControlType
<1>3. Control'
  BY <1>1 DEF SetLimits, Control, Broken, Idle, Same, Making, Reclaiming, DeleteSteps,
     ReconcileSteps, Project
<1>4. Ready'
  BY <1>1 DEF SetLimits, Ready, Control, World, TypeOK, Broken, Idle, Same, Making, Reclaiming,
     DeleteSteps, ReconcileSteps, storage, Project
<1>5. World'
  BY <1>1 DEF SetLimits, World, Ready, Control, TypeOK, QuotaIsJournalled, Making, Reclaiming,
     storage, Project
<1> QED
  BY <1>2, <1>3, <1>4, <1>5

\* The directories are tagged.
LEMMA TagDirectoriesKeeps ==
  ASSUME IndInv, TagDirectories
  PROVE  IndInv'
<1> USE DEF IndInv
<1>1. ControlType' /\ ((pc' = "commit" /\ Same) \/ Broken)
  BY ProceedEnds DEF TagDirectories, TypeOK, Steps, CreateSteps, StartSteps, DeleteSteps,
     ReconcileSteps, Project
<1>6. target \in Sandboxes /\ Project(target) \in Projects
  BY DEF TagDirectories, Ready, Control, TypeOK, Making, ReconcileSteps, Project
<1>2. TypeOK'
  BY <1>1, <1>6 DEF TagDirectories, TypeOK, ControlType
<1>3. Control'
  BY <1>1 DEF TagDirectories, Control, Broken, Idle, Same, Making, Reclaiming, DeleteSteps,
     ReconcileSteps, Project
<1>4. Ready'
  BY <1>1 DEF TagDirectories, Ready, Control, World, TypeOK, Broken, Idle, Same, Making,
     Reclaiming, DeleteSteps, ReconcileSteps, storage, Project
<1>5. World'
  BY <1>1 DEF TagDirectories, World, Ready, Control, TypeOK, QuotaIsJournalled, Making,
     Reclaiming, storage, Project
<1> QED
  BY <1>2, <1>3, <1>4, <1>5

\* The container comes into being on limited storage.
LEMMA CommitContainerKeeps ==
  ASSUME IndInv, CommitContainer
  PROVE  IndInv'
<1> USE DEF IndInv
<1>1. ControlType' /\ (Idle \/ Broken)
  <2>1. CASE Answered("ok") /\ UNCHANGED faults
    BY <2>1, AnsweredEnds
  <2>2. CASE Fault /\ Failed
    <3>1. faults' \in 0 .. MaxFaults
      BY <2>2, ContainersAssumption DEF Fault, TypeOK
    <3> QED
      BY <2>2, <3>1, FailedEnds
  <2> QED
    BY <2>1, <2>2 DEF CommitContainer
<1>6. target \in Sandboxes
  BY DEF CommitContainer, Control, ReconcileSteps
<1>2. TypeOK'
  BY <1>1, <1>6 DEF CommitContainer, TypeOK, ControlType, storage
<1>3. Control'
  BY <1>1 DEF CommitContainer, Control, Broken, Idle, Same, Making, Reclaiming, DeleteSteps,
     ReconcileSteps
<1>4. Ready'
  BY <1>1 DEF CommitContainer, Ready, Control, World, TypeOK, Broken, Idle, Same, Making,
     Reclaiming, DeleteSteps, ReconcileSteps, storage
<1>5. World'
  BY <1>1 DEF CommitContainer, World, Ready, Control, TypeOK, QuotaIsJournalled, Making,
     Reclaiming, storage
<1> QED
  BY <1>2, <1>3, <1>4, <1>5

\* A task is deleted.
LEMMA DeleteTaskKeeps ==
  ASSUME IndInv, DeleteTask
  PROVE  IndInv'
<1> USE DEF IndInv
<1>1. ControlType' /\ ((pc' = (IF kind = "start" THEN "quota" ELSE "network") /\ Same) \/ Broken)
  BY ProceedEnds DEF DeleteTask, TypeOK, Steps, CreateSteps, StartSteps, DeleteSteps, ReconcileSteps
<1>2. TypeOK'
  BY <1>1 DEF DeleteTask, TypeOK, ControlType, storage
<1>3. Control'
  BY <1>1 DEF DeleteTask, Control, Broken, Idle, Same, Making, Reclaiming, DeleteSteps,
     ReconcileSteps
<1>4. Ready'
  BY <1>1 DEF DeleteTask, Ready, Control, World, TypeOK, Broken, Idle, Same, Making, Reclaiming,
     DeleteSteps, ReconcileSteps, storage
<1>5. World'
  BY <1>1 DEF DeleteTask, World, Ready, Control, TypeOK, QuotaIsJournalled, Making, Reclaiming,
     storage
<1> QED
  BY <1>2, <1>3, <1>4, <1>5

\* A task is made on storage that was checked.
LEMMA NewTaskKeeps ==
  ASSUME IndInv, NewTask
  PROVE  IndInv'
<1> USE DEF IndInv
<1>1. ControlType' /\ ((pc' = "runtask" /\ Same) \/ Broken)
  BY ProceedEnds DEF NewTask, TypeOK, Steps, CreateSteps, StartSteps, DeleteSteps, ReconcileSteps
<1>2. TypeOK'
  BY <1>1 DEF NewTask, TypeOK, ControlType, storage
<1>3. Control'
  BY <1>1 DEF NewTask, Control, Broken, Idle, Same, Making, Reclaiming, DeleteSteps, ReconcileSteps
<1>4. Ready'
  BY <1>1 DEF NewTask, Ready, Control, World, TypeOK, Broken, Idle, Same, Making, Reclaiming,
     DeleteSteps, ReconcileSteps, storage
<1>5. World'
  BY <1>1 DEF NewTask, World, Ready, Control, TypeOK, QuotaIsJournalled, Making, Reclaiming, storage
<1> QED
  BY <1>2, <1>3, <1>4, <1>5

\* The task runs.
LEMMA RunTaskKeeps ==
  ASSUME IndInv, RunTask
  PROVE  IndInv'
<1> USE DEF IndInv
<1>1. ControlType' /\ ((pc' = "describe" /\ Same) \/ Broken)
  BY ProceedEnds DEF RunTask, TypeOK, Steps, CreateSteps, StartSteps, DeleteSteps, ReconcileSteps
<1>2. TypeOK'
  BY <1>1 DEF RunTask, TypeOK, ControlType, storage
<1>3. Control'
  BY <1>1 DEF RunTask, Control, Broken, Idle, Same, Making, Reclaiming, DeleteSteps, ReconcileSteps
<1>4. Ready'
  BY <1>1 DEF RunTask, Ready, Control, World, TypeOK, Broken, Idle, Same, Making, Reclaiming,
     DeleteSteps, ReconcileSteps, storage
<1>5. World'
  BY <1>1 DEF RunTask, World, Ready, Control, TypeOK, QuotaIsJournalled, Making, Reclaiming, storage
<1> QED
  BY <1>2, <1>3, <1>4, <1>5

\* A deletion removes the snapshot of a sandbox without a task.
LEMMA DeleteSnapshotKeeps ==
  ASSUME IndInv, DeleteSnapshot
  PROVE  IndInv'
<1> USE DEF IndInv
<1>1. ControlType' /\ ((pc' = "uncontain" /\ Same) \/ Broken)
  BY ProceedEnds DEF DeleteSnapshot, TypeOK, Steps, CreateSteps, StartSteps, DeleteSteps,
     ReconcileSteps
<1>2. TypeOK'
  BY <1>1 DEF DeleteSnapshot, TypeOK, ControlType, storage
<1>3. Control'
  BY <1>1 DEF DeleteSnapshot, Control, Broken, Idle, Same, Making, Reclaiming, DeleteSteps,
     ReconcileSteps
<1>4. Ready'
  BY <1>1 DEF DeleteSnapshot, Ready, Control, World, TypeOK, Broken, Idle, Same, Making,
     Reclaiming, DeleteSteps, ReconcileSteps, storage
<1>5. World'
  BY <1>1 DEF DeleteSnapshot, World, Ready, Control, TypeOK, QuotaIsJournalled, Making,
     Reclaiming, storage
<1> QED
  BY <1>2, <1>3, <1>4, <1>5

\* A deletion removes the container.
LEMMA DeleteContainerKeeps ==
  ASSUME IndInv, DeleteContainer
  PROVE  IndInv'
<1> USE DEF IndInv
<1>1. ControlType' /\ ((pc' = "reclaim" /\ Same) \/ Broken)
  BY ProceedEnds DEF DeleteContainer, TypeOK, Steps, CreateSteps, StartSteps, DeleteSteps,
     ReconcileSteps
<1>2. TypeOK'
  BY <1>1 DEF DeleteContainer, TypeOK, ControlType, storage
<1>3. Control'
  BY <1>1 DEF DeleteContainer, Control, Broken, Idle, Same, Making, Reclaiming, DeleteSteps,
     ReconcileSteps
<1>4. Ready'
  BY <1>1 DEF DeleteContainer, Ready, Control, World, TypeOK, Broken, Idle, Same, Making,
     Reclaiming, DeleteSteps, ReconcileSteps, storage
<1>5. World'
  BY <1>1 DEF DeleteContainer, World, Ready, Control, TypeOK, QuotaIsJournalled, Making,
     Reclaiming, storage
<1> QED
  BY <1>2, <1>3, <1>4, <1>5

\* A failed create removes its snapshot.
LEMMA RollbackKeeps ==
  ASSUME IndInv, Rollback
  PROVE  IndInv'
<1> USE DEF IndInv
<1>1. ControlType' /\ (Idle)
  BY AnsweredEnds DEF Rollback, TypeOK, Steps, CreateSteps, StartSteps, DeleteSteps, ReconcileSteps
<1>2. TypeOK'
  BY <1>1 DEF Rollback, TypeOK, ControlType, storage
<1>3. Control'
  BY <1>1 DEF Rollback, Control, Broken, Idle, Same, Making, Reclaiming, DeleteSteps, ReconcileSteps
<1>4. Ready'
  BY <1>1 DEF Rollback, Ready, Control, World, TypeOK, Broken, Idle, Same, Making, Reclaiming,
     DeleteSteps, ReconcileSteps, storage
<1>5. World'
  BY <1>1 DEF Rollback, World, Ready, Control, TypeOK, QuotaIsJournalled, Making, Reclaiming,
     storage
<1> QED
  BY <1>2, <1>3, <1>4, <1>5

\* A task that did not start is removed.
LEMMA UndoTaskKeeps ==
  ASSUME IndInv, UndoTask
  PROVE  IndInv'
<1> USE DEF IndInv
<1>1. ControlType' /\ (Idle)
  BY AnsweredEnds DEF UndoTask, TypeOK, Steps, CreateSteps, StartSteps, DeleteSteps, ReconcileSteps
<1>2. TypeOK'
  BY <1>1 DEF UndoTask, TypeOK, ControlType, storage
<1>3. Control'
  BY <1>1 DEF UndoTask, Control, Broken, Idle, Same, Making, Reclaiming, DeleteSteps, ReconcileSteps
<1>4. Ready'
  BY <1>1 DEF UndoTask, Ready, Control, World, TypeOK, Broken, Idle, Same, Making, Reclaiming,
     DeleteSteps, ReconcileSteps, storage
<1>5. World'
  BY <1>1 DEF UndoTask, World, Ready, Control, TypeOK, QuotaIsJournalled, Making, Reclaiming,
     storage
<1> QED
  BY <1>2, <1>3, <1>4, <1>5

\* The container decides what a request does.
LEMMA LoadKeeps ==
  ASSUME IndInv, Load
  PROVE  IndInv'
<1> USE DEF IndInv
<1>1. /\ ControlType'
      /\ \/ Idle
         \/ pc' = "untask" /\ target \in container /\ kind # "create" /\ Same
         \/ pc' = "orphan" /\ target \notin container /\ kind \in {"create", "delete"} /\ Same
  BY GotoEnds, AnsweredEnds DEF Load, TypeOK, Steps, CreateSteps, StartSteps, DeleteSteps,
     ReconcileSteps
<1>2. TypeOK'
  BY <1>1 DEF Load, TypeOK, ControlType, storage
<1>3. Control'
  BY <1>1 DEF Load, Control, Broken, Idle, Same, Making, Reclaiming, DeleteSteps, ReconcileSteps
<1>4. Ready'
  BY <1>1 DEF Load, Ready, Control, World, TypeOK, Broken, Idle, Same, Making, Reclaiming,
     DeleteSteps, ReconcileSteps, storage
<1>5. World'
  BY WorldStays DEF Load
<1> QED
  BY <1>2, <1>3, <1>4, <1>5

\* Reclaiming looks at the journal, the directory and the usage.
LEMMA reclaimQuotaKeeps ==
  ASSUME IndInv, reclaimQuota
  PROVE  IndInv'
<1> USE DEF IndInv
<1>1. /\ ControlType'
      /\ \/ pc' = AfterReclaim /\ journal[target] = None /\ Same
         \/ pc' = "clear" /\ journal[target] # None /\ Reclaimed(journal[target]) /\ Same
  BY GotoEnds DEF reclaimQuota, TypeOK, Steps, CreateSteps, StartSteps, DeleteSteps,
     ReconcileSteps, AfterReclaim, Reclaimed
<1>2. TypeOK'
  BY <1>1 DEF reclaimQuota, TypeOK, ControlType, storage, AfterReclaim, Reclaimed
<1>3. Control'
  BY <1>1 DEF reclaimQuota, Control, Broken, Idle, Same, Making, Reclaiming, DeleteSteps,
     ReconcileSteps, AfterReclaim, Reclaimed
<1>4. Ready'
  BY <1>1 DEF reclaimQuota, Ready, Control, World, TypeOK, Broken, Idle, Same, Making,
     Reclaiming, DeleteSteps, ReconcileSteps, storage, AfterReclaim, Reclaimed
<1>5. World'
  BY WorldStays DEF reclaimQuota
<1> QED
  BY <1>2, <1>3, <1>4, <1>5

\* Storage that is not reclaimed in time fails the request.
LEMMA ReclaimTimesOutKeeps ==
  ASSUME IndInv, ReclaimTimesOut
  PROVE  IndInv'
<1> USE DEF IndInv
<1>1. ControlType' /\ (Broken)
  BY FailedEnds DEF ReclaimTimesOut, TypeOK, Steps, CreateSteps, StartSteps, DeleteSteps,
     ReconcileSteps
<1>2. TypeOK'
  BY <1>1 DEF ReclaimTimesOut, TypeOK, ControlType, storage
<1>3. Control'
  BY <1>1 DEF ReclaimTimesOut, Control, Broken, Idle, Same, Making, Reclaiming, DeleteSteps,
     ReconcileSteps
<1>4. Ready'
  BY <1>1 DEF ReclaimTimesOut, Ready, Control, World, TypeOK, Broken, Idle, Same, Making,
     Reclaiming, DeleteSteps, ReconcileSteps, storage
<1>5. World'
  BY WorldStays DEF ReclaimTimesOut
<1> QED
  BY <1>2, <1>3, <1>4, <1>5

\* The image is there, or the create fails.
LEMMA GetImageKeeps ==
  ASSUME IndInv, GetImage
  PROVE  IndInv'
<1> USE DEF IndInv
<1>1. ControlType' /\ (Idle \/ (pc' = "prepare" /\ made < MaxProjects /\ Same))
  BY GotoEnds, AnsweredEnds DEF GetImage, TypeOK, Steps, CreateSteps, StartSteps, DeleteSteps,
     ReconcileSteps
<1>2. TypeOK'
  BY <1>1 DEF GetImage, TypeOK, ControlType, storage
<1>3. Control'
  BY <1>1 DEF GetImage, Control, Broken, Idle, Same, Making, Reclaiming, DeleteSteps, ReconcileSteps
<1>4. Ready'
  BY <1>1 DEF GetImage, Ready, Control, World, TypeOK, Broken, Idle, Same, Making, Reclaiming,
     DeleteSteps, ReconcileSteps, storage
<1>5. World'
  BY WorldStays DEF GetImage
<1> QED
  BY <1>2, <1>3, <1>4, <1>5

\* A start goes on with limited storage only.
LEMMA checkQuotaKeeps ==
  ASSUME IndInv, checkQuota
  PROVE  IndInv'
<1> USE DEF IndInv
<1>1. ControlType' /\ (Idle \/ (pc' = "network" /\ snapshot[target] # None /\ Same))
  BY GotoEnds, AnsweredEnds DEF checkQuota, Enforced, Steps, StartSteps
<1>2. TypeOK'
  BY <1>1 DEF checkQuota, TypeOK, ControlType, storage
<1>3. Control'
  BY <1>1 DEF checkQuota, Control, Broken, Idle, Same, Making, Reclaiming, DeleteSteps,
     ReconcileSteps
<1>4. Ready'
  <2>1. kind = "start" /\ target \in container /\ UNCHANGED <<container, snapshot>>
    BY DEF checkQuota, Control, Ready, storage
  <2>2. CASE Idle
    BY <2>2 DEF Idle, Ready, Making, Reclaiming
  <2>3. CASE pc' = "network" /\ snapshot[target] # None /\ Same
    BY <2>1, <2>3 DEF Ready, Same, Making, Reclaiming
  <2> QED
    BY <1>1, <2>2, <2>3
<1>5. World'
  BY WorldStays DEF checkQuota
<1> QED
  BY <1>2, <1>3, <1>4, <1>5

\* The network is set up or removed.
LEMMA NetworkKeeps ==
  ASSUME IndInv, Network
  PROVE  IndInv'
<1> USE DEF IndInv
<1>1. ControlType' /\ pc' = (CASE kind = "start" -> "newtask"
                                  [] kind = "stop" -> "describe"
                                  [] kind = "delete" -> "unsnapshot") /\ Same
  <2>1. kind \in {"start", "stop", "delete"}
    BY DEF Network, Control
  <2> QED
    BY <2>1, GotoEnds DEF Network, Steps, StartSteps, DeleteSteps
<1>2. TypeOK'
  BY <1>1 DEF Network, TypeOK, ControlType, storage
<1>3. Control'
  BY <1>1 DEF Network, Control, Broken, Idle, Same, Making, Reclaiming, DeleteSteps, ReconcileSteps
<1>4. Ready'
  BY <1>1 DEF Network, Ready, Control, World, TypeOK, Broken, Idle, Same, Making, Reclaiming,
     DeleteSteps, ReconcileSteps, storage
<1>5. World'
  BY WorldStays DEF Network
<1> QED
  BY <1>2, <1>3, <1>4, <1>5

\* The answer of a start or a stop.
LEMMA DescribeKeeps ==
  ASSUME IndInv, Describe
  PROVE  IndInv'
<1> USE DEF IndInv
<1>1. ControlType' /\ (Idle)
  BY AnsweredEnds DEF Describe, TypeOK, Steps, CreateSteps, StartSteps, DeleteSteps, ReconcileSteps
<1>2. TypeOK'
  BY <1>1 DEF Describe, TypeOK, ControlType, storage
<1>3. Control'
  BY <1>1 DEF Describe, Control, Broken, Idle, Same, Making, Reclaiming, DeleteSteps, ReconcileSteps
<1>4. Ready'
  BY <1>1 DEF Describe, Ready, Control, World, TypeOK, Broken, Idle, Same, Making, Reclaiming,
     DeleteSteps, ReconcileSteps, storage
<1>5. World'
  BY WorldStays DEF Describe
<1> QED
  BY <1>2, <1>3, <1>4, <1>5

\* The answer of a deletion.
LEMMA ForgetHistoryKeeps ==
  ASSUME IndInv, ForgetHistory
  PROVE  IndInv'
<1> USE DEF IndInv
<1>1. ControlType' /\ (Idle)
  BY AnsweredEnds DEF ForgetHistory, TypeOK, Steps, CreateSteps, StartSteps, DeleteSteps,
     ReconcileSteps
<1>2. TypeOK'
  BY <1>1 DEF ForgetHistory, TypeOK, ControlType, storage
<1>3. Control'
  BY <1>1 DEF ForgetHistory, Control, Broken, Idle, Same, Making, Reclaiming, DeleteSteps,
     ReconcileSteps
<1>4. Ready'
  BY <1>1 DEF ForgetHistory, Ready, Control, World, TypeOK, Broken, Idle, Same, Making,
     Reclaiming, DeleteSteps, ReconcileSteps, storage
<1>5. World'
  BY WorldStays DEF ForgetHistory
<1> QED
  BY <1>2, <1>3, <1>4, <1>5

\* A call fails without an effect.
LEMMA FailsKeeps ==
  ASSUME IndInv, Fails
  PROVE  IndInv'
<1> USE DEF IndInv
<1>1. ControlType' /\ Broken
  <2>1. faults' \in 0 .. MaxFaults
    BY ContainersAssumption DEF Fails, Fault, TypeOK
  <2> QED
    BY <2>1, FailedEnds DEF Fails
<1>2. TypeOK'
  BY <1>1 DEF Fails, TypeOK, ControlType, storage
<1>3. Control'
  BY <1>1 DEF Fails, Control, Broken, Idle, Same, Making, Reclaiming, DeleteSteps, ReconcileSteps
<1>4. Ready'
  BY <1>1 DEF Fails, Ready, Control, World, TypeOK, Broken, Idle, Same, Making, Reclaiming,
     DeleteSteps, ReconcileSteps, storage
<1>5. World'
  BY WorldStays DEF Fails
<1> QED
  BY <1>2, <1>3, <1>4, <1>5

\* A request takes the lock.
LEMMA RequestKeeps ==
  ASSUME IndInv, NEW k \in {"create", "start", "stop", "delete"}, NEW s \in Sandboxes, Request(k, s)
  PROVE  IndInv'
<1> USE DEF IndInv
<1>1. TypeOK'
  BY ContainersAssumption DEF Request, State, TypeOK, storage, control, Steps, CreateSteps,
     StartSteps, DeleteSteps, ReconcileSteps
<1>2. Control'
  BY DEF Request, State, Control, Making, Reclaiming, DeleteSteps, ReconcileSteps, control
<1>3. Ready'
  BY ContainersAssumption DEF Request, State, Ready, Control, World, TypeOK, Making, Reclaiming,
     DeleteSteps, ReconcileSteps, storage, control
<1>4. World'
  BY WorldStays DEF Request
<1> QED
  BY <1>1, <1>2, <1>3, <1>4

\* A reconciliation takes the lock.
LEMMA ReconcileKeeps ==
  ASSUME IndInv, Reconcile
  PROVE  IndInv'
<1> USE DEF IndInv
<1>1. TypeOK'
  BY ContainersAssumption DEF Reconcile, Orphans, TypeOK, storage, control, Steps, CreateSteps,
     StartSteps, DeleteSteps, ReconcileSteps
<1>2. Control'
  BY DEF Reconcile, Orphans, Control, Making, Reclaiming, DeleteSteps, ReconcileSteps, control
<1>3. Ready'
  BY ContainersAssumption DEF Reconcile, Orphans, Ready, Control, World, TypeOK, Making,
     Reclaiming, DeleteSteps, ReconcileSteps, storage, control
<1>4. World'
  BY WorldStays DEF Reconcile
<1> QED
  BY <1>1, <1>2, <1>3, <1>4

\* The next snapshot without a container.
LEMMA NextOrphanKeeps ==
  ASSUME IndInv, NEW s \in Sandboxes, NextOrphan(s)
  PROVE  IndInv'
<1> USE DEF IndInv
<1>1. TypeOK'
  BY ContainersAssumption DEF NextOrphan, TypeOK, storage, control, Steps, CreateSteps,
     StartSteps, DeleteSteps, ReconcileSteps
<1>2. Control'
  BY DEF NextOrphan, Control, Making, Reclaiming, DeleteSteps, ReconcileSteps, control
<1>3. Ready'
  BY ContainersAssumption DEF NextOrphan, Ready, Control, World, TypeOK, Making, Reclaiming,
     DeleteSteps, ReconcileSteps, storage, control
<1>4. World'
  BY WorldStays DEF NextOrphan
<1> QED
  BY <1>1, <1>2, <1>3, <1>4

\* The journal is listed.
LEMMA ListQuotasKeeps ==
  ASSUME IndInv, ListQuotas
  PROVE  IndInv'
<1> USE DEF IndInv
<1>1. TypeOK'
  BY ContainersAssumption DEF ListQuotas, TypeOK, storage, control, Steps, CreateSteps,
     StartSteps, DeleteSteps, ReconcileSteps
<1>2. Control'
  BY DEF ListQuotas, Control, Making, Reclaiming, DeleteSteps, ReconcileSteps, control
<1>3. Ready'
  BY ContainersAssumption DEF ListQuotas, Ready, Control, World, TypeOK, Making, Reclaiming,
     DeleteSteps, ReconcileSteps, storage, control
<1>4. World'
  BY WorldStays DEF ListQuotas
<1> QED
  BY <1>1, <1>2, <1>3, <1>4

\* The next journalled project.
LEMMA NextQuotaKeeps ==
  ASSUME IndInv, NEW s \in Sandboxes, NextQuota(s)
  PROVE  IndInv'
<1> USE DEF IndInv
<1>1. TypeOK'
  BY ContainersAssumption DEF NextQuota, InUse, TypeOK, storage, control, Steps, CreateSteps,
     StartSteps, DeleteSteps, ReconcileSteps
<1>2. Control'
  BY DEF NextQuota, InUse, Control, Making, Reclaiming, DeleteSteps, ReconcileSteps, control
<1>3. Ready'
  <2>1. pc' = "quotas" \/ (pc' = "reclaim" /\ target' = s /\ s \notin container /\ container' = container)
    BY DEF NextQuota, InUse
  <2> QED
    BY <2>1 DEF Ready, Making, Reclaiming
<1>4. World'
  BY WorldStays DEF NextQuota
<1> QED
  BY <1>1, <1>2, <1>3, <1>4

\* A reconciliation ends.
LEMMA ReconciledKeeps ==
  ASSUME IndInv, Reconciled
  PROVE  IndInv'
<1> USE DEF IndInv
<1>1. TypeOK'
  BY ContainersAssumption DEF Reconciled, ReconcileEnds, TypeOK, storage, control, Steps,
     CreateSteps, StartSteps, DeleteSteps, ReconcileSteps
<1>2. Control'
  BY DEF Reconciled, ReconcileEnds, Control, Making, Reclaiming, DeleteSteps, ReconcileSteps,
     control
<1>3. Ready'
  BY ContainersAssumption DEF Reconciled, ReconcileEnds, Ready, Control, World, TypeOK, Making,
     Reclaiming, DeleteSteps, ReconcileSteps, storage, control
<1>4. World'
  BY WorldStays DEF Reconciled
<1> QED
  BY <1>1, <1>2, <1>3, <1>4

\* A directory goes that no snapshot has.
LEMMA RemoveDirectoryKeeps ==
  ASSUME IndInv, NEW p \in Projects, RemoveDirectory(p)
  PROVE  IndInv'
<1> USE DEF IndInv
<1>1. TypeOK'
  BY ContainersAssumption DEF RemoveDirectory, TypeOK, storage, control, Steps, CreateSteps,
     StartSteps, DeleteSteps, ReconcileSteps
<1>2. Control'
  BY DEF RemoveDirectory, Control, Making, Reclaiming, DeleteSteps, ReconcileSteps, control
<1>3. Ready'
  BY ContainersAssumption DEF RemoveDirectory, Ready, Control, World, TypeOK, Making, Reclaiming,
     DeleteSteps, ReconcileSteps, storage, control
<1>4. World'
  BY ContainersAssumption DEF RemoveDirectory, World, TypeOK, QuotaIsJournalled, storage
<1> QED
  BY <1>1, <1>2, <1>3, <1>4

\* The usage of a removed directory is given up.
LEMMA UnchargeKeeps ==
  ASSUME IndInv, NEW p \in Projects, Uncharge(p)
  PROVE  IndInv'
<1> USE DEF IndInv
<1>1. TypeOK'
  BY ContainersAssumption DEF Uncharge, TypeOK, storage, control, Steps, CreateSteps, StartSteps,
     DeleteSteps, ReconcileSteps
<1>2. Control'
  BY DEF Uncharge, Control, Making, Reclaiming, DeleteSteps, ReconcileSteps, control
<1>3. Ready'
  <2>1. /\ UNCHANGED <<container, task, snapshot, limited, journal, made, kind, target, pc, todo>>
        /\ charged' \subseteq charged /\ charged \ charged' \subseteq {p}
    BY DEF Uncharge, control
  <2>2. pc = "commit" => snapshot[target] # p
    BY DEF Uncharge, Ready, Control, World, Making, ReconcileSteps
  <2> QED
    BY <2>1, <2>2 DEF Ready
<1>4. World'
  BY ContainersAssumption DEF Uncharge, World, TypeOK, QuotaIsJournalled, storage
<1> QED
  BY <1>1, <1>2, <1>3, <1>4

\* A task exits.
LEMMA TaskExitsKeeps ==
  ASSUME IndInv, NEW s \in Sandboxes, NEW t \in {"stopped", "none"}, TaskExits(s, t)
  PROVE  IndInv'
<1> USE DEF IndInv
<1>1. TypeOK'
  BY ContainersAssumption DEF TaskExits, TypeOK, storage, control, Steps, CreateSteps,
     StartSteps, DeleteSteps, ReconcileSteps
<1>2. Control'
  BY DEF TaskExits, Control, Making, Reclaiming, DeleteSteps, ReconcileSteps, control
<1>3. Ready'
  BY ContainersAssumption DEF TaskExits, Ready, Control, World, TypeOK, Making, Reclaiming,
     DeleteSteps, ReconcileSteps, storage, control
<1>4. World'
  BY ContainersAssumption DEF TaskExits, World, TypeOK, QuotaIsJournalled, storage
<1> QED
  BY <1>1, <1>2, <1>3, <1>4

\* The adapter dies.
LEMMA CrashKeeps ==
  ASSUME IndInv, Crash
  PROVE  IndInv'
<1> USE DEF IndInv
<1>1. TypeOK'
  BY ContainersAssumption DEF Crash, Fault, Ended, TypeOK, storage, control, Steps, CreateSteps,
     StartSteps, DeleteSteps, ReconcileSteps
<1>2. Control'
  BY DEF Crash, Fault, Ended, Control, Making, Reclaiming, DeleteSteps, ReconcileSteps, control
<1>3. Ready'
  BY ContainersAssumption DEF Crash, Fault, Ended, Ready, Control, World, TypeOK, Making,
     Reclaiming, DeleteSteps, ReconcileSteps, storage, control
<1>4. World'
  BY WorldStays DEF Crash
<1> QED
  BY <1>1, <1>2, <1>3, <1>4

\* The host goes down.
LEMMA RebootKeeps ==
  ASSUME IndInv, Reboot
  PROVE  IndInv'
<1> USE DEF IndInv
<1>1. TypeOK'
  BY ContainersAssumption DEF Reboot, Fault, Ended, TypeOK, storage, control, Steps, CreateSteps,
     StartSteps, DeleteSteps, ReconcileSteps
<1>2. Control'
  BY DEF Reboot, Fault, Ended, Control, Making, Reclaiming, DeleteSteps, ReconcileSteps, control
<1>3. Ready'
  BY ContainersAssumption DEF Reboot, Fault, Ended, Ready, Control, World, TypeOK, Making,
     Reclaiming, DeleteSteps, ReconcileSteps, storage, control
<1>4. World'
  BY ContainersAssumption DEF Reboot, Fault, Ended, World, TypeOK, QuotaIsJournalled, storage
<1> QED
  BY <1>1, <1>2, <1>3, <1>4

-----------------------------------------------------------------------------
\* Nothing exists at first.
LEMMA InitInv ==
  ASSUME Init
  PROVE  IndInv
<1>1. TypeOK
  BY ContainersAssumption DEF Init, TypeOK, Steps
<1>2. Control /\ Ready
  BY DEF Init, Control, Ready, Making, Reclaiming, DeleteSteps, ReconcileSteps
<1>3. World
  BY DEF Init, World, QuotaIsJournalled
<1> QED
  BY <1>1, <1>2, <1>3 DEF IndInv

\* Every step of a request keeps the invariant.
LEMMA StepKeeps ==
  ASSUME IndInv, Step
  PROVE  IndInv'
BY LoadKeeps, RemoveOrphanKeeps, reclaimQuotaKeeps, ReclaimTimesOutKeeps,
   ClearLimitsKeeps, RemoveJournalKeeps, GetImageKeeps,
   PrepareSnapshotKeeps, prepareQuotaKeeps, SetLimitsKeeps,
   TagDirectoriesKeeps, CommitContainerKeeps, RollbackKeeps,
   DeleteTaskKeeps, checkQuotaKeeps, NetworkKeeps, NewTaskKeeps,
   RunTaskKeeps, DescribeKeeps, UndoTaskKeeps, DeleteSnapshotKeeps,
   DeleteContainerKeeps, ForgetHistoryKeeps, ListQuotasKeeps,
   ReconciledKeeps, NextOrphanKeeps, NextQuotaKeeps
   DEF Step

\* So does every step of the system.
LEMMA NextKeeps ==
  ASSUME IndInv, [Next]_vars
  PROVE  IndInv'
<1>1. CASE Next
  BY <1>1, RequestKeeps, ReconcileKeeps, StepKeeps, FailsKeeps, RemoveDirectoryKeeps,
     UnchargeKeeps, TaskExitsKeeps, CrashKeeps, RebootKeeps DEF Next
<1>2. CASE UNCHANGED vars
  <2>1. TypeOK'
    BY <1>2 DEF IndInv, TypeOK, vars, storage, control
  <2>2. Control'
    BY <1>2 DEF IndInv, Control, vars, control
  <2>3. UNCHANGED <<container, task, snapshot, limited, charged, journal, made, kind, target, pc, todo>>
    BY <1>2 DEF vars, storage, control
  <2>4. Ready'
    BY <2>3 DEF IndInv, Ready
  <2>5. World'
    BY <1>2, WorldStays DEF IndInv, vars
  <2> QED
    BY <2>1, <2>2, <2>4, <2>5 DEF IndInv
<1> QED
  BY <1>1, <1>2

\* The invariant of the container calls, for any number of sandboxes,
\* snapshots, failed calls, crashes and reboots.
THEOREM Invariance == Spec => []IndInv
<1>1. Init => IndInv
  BY InitInv
<1>2. IndInv /\ [Next]_vars => IndInv'
  BY NextKeeps
<1> QED
  BY <1>1, <1>2, PTL DEF Spec

\* Type correctness of the container calls (runtime.go, quota.go).
THEOREM TypeCorrect == Spec => []TypeOK
<1>1. IndInv => TypeOK
  BY DEF IndInv
<1> QED
  BY <1>1, Invariance, PTL

\* A task only ever exists on storage that is limited, tagged and journalled
\* (checkQuota before NewTask), whatever fails and whenever.
THEOREM TasksAreLimited == Spec => []TaskIsLimited
<1>1. IndInv => TaskIsLimited
  BY DEF IndInv, World, TaskIsLimited
<1> QED
  BY <1>1, Invariance, PTL

\* What is charged is limited, and what is limited is journalled, at every
\* point of prepareQuota, of reclaimQuota and of a crash between their steps.
THEOREM QuotasAreJournalled == Spec => []QuotaIsJournalled
<1>1. IndInv => QuotaIsJournalled
  BY DEF IndInv, World
<1> QED
  BY <1>1, Invariance, PTL

\* A container's snapshot goes with its deletion or with the create that
\* failed to make it, never with a reconciliation.
THEOREM ContainersKeepFiles == Spec => FilesAreKept
<1> DEFINE Kept ==
      \A s \in container :
        snapshot[s] # None /\ snapshot'[s] # snapshot[s] =>
          target = s /\ (kind = "delete" \/ (kind = "create" /\ pc = "rollback"))
<1>1. IndInv /\ [Next]_vars => [Kept]_vars
  <2> SUFFICES ASSUME IndInv, Next, NEW s \in container,
                      snapshot[s] # None, snapshot'[s] # snapshot[s]
               PROVE  target = s /\ (kind = "delete" \/ (kind = "create" /\ pc = "rollback"))
    OBVIOUS
  <2> USE DEF IndInv, TypeOK
  <2>1. CASE RemoveOrphan
    BY <2>1 DEF RemoveOrphan, Ready, Reclaiming
  <2>2. CASE PrepareSnapshot
    BY <2>2 DEF PrepareSnapshot, Ready
  <2>3. CASE Rollback
    BY <2>3 DEF Rollback, Control
  <2>4. CASE DeleteSnapshot
    BY <2>4 DEF DeleteSnapshot, Control, DeleteSteps
  <2>5. Next => RemoveOrphan \/ PrepareSnapshot \/ Rollback \/ DeleteSnapshot \/ UNCHANGED snapshot
    BY DEF Next, Step, storage, Request, Reconcile, Load, reclaimQuota, ReclaimTimesOut,
       ClearLimits,
       RemoveJournal, GetImage, prepareQuota, SetLimits, TagDirectories, CommitContainer, DeleteTask,
       checkQuota, Network, NewTask, RunTask, Describe, UndoTask, DeleteContainer, ForgetHistory,
       ListQuotas, Reconciled, NextOrphan, NextQuota, Fails, RemoveDirectory, Uncharge, TaskExits,
       Crash, Reboot
  <2> QED
    BY <2>1, <2>2, <2>3, <2>4, <2>5
<1> QED
  BY <1>1, Invariance, PTL DEF Spec, FilesAreKept

-----------------------------------------------------------------------------
(* The calls keep the contract of the adapter.                             *)

CallKinds == {"create", "start", "stop", "delete"}
InContainer == {"untask", "network", "describe", "unsnapshot", "uncontain"}

\* How the state of a sandbox goes with the one its request began in.
Begun ==
  /\ kind = None <=> pc = "idle"
  /\ kind = None => target = None
  /\ pc = "describe" => kind \in {"start", "stop"}
  /\ kind \in {None, "reconcile"} => from = None
  /\ kind \in CallKinds => target \in Sandboxes
  /\ pc \in {"load", "untask"} => from = State(target)
  /\ kind = "create" /\ pc # "load" => from \in {"absent", "residue"}
  /\ kind = "start" /\ pc # "load" => from = "stopped" /\ target \in container
  /\ pc \in InContainer => target \in container /\ from \in {"stopped", "running"}
  /\ pc \in {"network", "describe"} /\ kind = "stop" => task[target] = "none"
  /\ pc \in {"reclaim", "clear", "unrecord", "history", "uncontain"} => snapshot[target] = None
  /\ kind = "delete" /\ pc \in Reclaiming \cup {"history"} => target \notin container
  /\ kind = "delete" /\ pc \in Reclaiming \cup {"history"} =>
       from # None /\ (from = "absent" => snapshot[target] = None /\ journal[target] = None)
  /\ pc = "history" => journal[target] = None

\* A request that began with this state may leave that one and fail.
MayLeave(t) == Service!Error(t) \in Service!Results(kind, from)

\* What RuntimeContract allows a request that fails.
LEMMA ErrorsAllowed ==
  /\ \A f \in {"absent", "residue"}, t \in {"absent", "residue", "stopped"} :
       Service!Error(t) \in Service!Results("create", f)
  /\ \A k \in CallKinds, f \in {"absent", "residue", "stopped", "running"} :
       Service!Error(f) \in Service!Results(k, f)
  /\ \A t \in {"stopped", "running"} : Service!Error(t) \in Service!Results("start", "stopped")
  /\ \A f \in {"stopped", "running"} : Service!Error("stopped") \in Service!Results("stop", f)
  /\ \A f \in {"stopped", "running"}, t \in {"absent", "residue", "stopped"} :
       Service!Error(t) \in Service!Results("delete", f)
  /\ \A f : Service!Error("absent") \in Service!Results("delete", f)
BY DEF CallKinds, Service!Error, Service!Results, Service!CreateResults, Service!StartResults,
   Service!StopResults, Service!DeleteResults, Service!Present

\* What it allows a request that succeeds.
LEMMA AnswersAllowed ==
  /\ \A f \in {"stopped", "running"} : Service!Ok(f) \in Service!Results("create", f)
  /\ \A f \in {"absent", "residue"} : Service!Ok("stopped") \in Service!Results("create", f)
  /\ \A f \in {"stopped", "running"} : Service!Ok("running") \in Service!Results("start", f)
  /\ \A f \in {"stopped", "running"} : Service!Ok("stopped") \in Service!Results("stop", f)
  /\ \A f : Service!Ok("absent") \in Service!Results("delete", f)
BY DEF Service!Ok, Service!Results, Service!CreateResults, Service!StartResults,
   Service!StopResults, Service!DeleteResults, Service!Present

\* At every step the request may fail with its sandbox as it is.
LEMMA MayFail ==
  ASSUME IndInv, Begun, kind \in CallKinds
  PROVE  MayLeave(State(target))
<1>1. target \in Sandboxes /\ pc # "idle" /\ pc \in Steps
  BY ContainersAssumption DEF Begun, IndInv, TypeOK, CallKinds
<1>2. CASE pc \in {"load", "untask"}
  <2>1. State(target) \in {"absent", "residue", "stopped", "running"}
    BY DEF State
  <2> QED
    BY <1>2, <2>1, ErrorsAllowed DEF Begun, MayLeave
<1>3. CASE kind = "create" /\ pc # "load"
  <2>1. target \in container => task[target] = "none"
    BY <1>1, <1>3 DEF IndInv, Begun, Control, Ready, Steps, CreateSteps, StartSteps, DeleteSteps,
       ReconcileSteps, Making, Reclaiming
  <2>2. State(target) \in {"absent", "residue", "stopped"}
    BY <2>1 DEF State
  <2> QED
    BY <1>3, <2>2, ErrorsAllowed DEF Begun, MayLeave
<1>4. CASE kind = "start" /\ pc # "load"
  <2>1. State(target) \in {"stopped", "running"}
    BY <1>4 DEF Begun, State
  <2> QED
    BY <1>4, <2>1, ErrorsAllowed DEF Begun, MayLeave
<1>5. CASE kind = "stop" /\ pc \notin {"load", "untask"}
  <2>1. pc \in {"network", "describe"}
    BY <1>1, <1>5 DEF IndInv, Control, Steps, CreateSteps, StartSteps, DeleteSteps,
       ReconcileSteps, Making, Reclaiming
  <2>2. State(target) = "stopped"
    BY <1>5, <2>1 DEF Begun, InContainer, State
  <2> QED
    BY <1>5, <2>1, <2>2, ErrorsAllowed DEF Begun, InContainer, MayLeave
<1>6. CASE kind = "delete" /\ pc \notin {"load", "untask"}
  <2>1. pc \in {"network", "describe", "unsnapshot", "uncontain", "history"} \cup Reclaiming
    BY <1>1, <1>6 DEF IndInv, Control, Steps, CreateSteps, StartSteps, DeleteSteps,
       ReconcileSteps, Making, Reclaiming
  <2>2. pc # "describe"
    BY <1>6 DEF Begun
  <2>3. CASE pc \in {"network", "unsnapshot", "uncontain"}
    <3>1. State(target) = "stopped"
      BY <1>6, <2>3 DEF Begun, InContainer, State, IndInv, Ready
    <3> QED
      BY <1>6, <2>3, <3>1, ErrorsAllowed DEF Begun, InContainer, MayLeave
  <2>4. CASE pc \in Reclaiming \cup {"history"}
    <3>1. State(target) \in {"absent", "residue"}
      BY <1>6, <2>4 DEF Begun, State
    <3>2. from = "absent" => State(target) = "absent"
      BY <1>6, <2>4 DEF Begun, State
    <3>3. from \in {"absent", "residue", "stopped", "running"}
      BY <1>6, <2>4 DEF Begun, IndInv, TypeOK
    <3> QED
      BY <1>6, <3>1, <3>2, <3>3, ErrorsAllowed DEF MayLeave, CallKinds
  <2> QED
    BY <2>1, <2>2, <2>3, <2>4
<1> QED
  BY <1>2, <1>3, <1>4, <1>5, <1>6 DEF CallKinds

-----------------------------------------------------------------------------
(* Steps of the service.                                                   *)

\* What the API sees of every sandbox.
Now == [s \in Sandboxes |-> State(s)]

OthersStay == \A s \in Sandboxes : s # target => Now'[s] = Now[s]

\* A request goes on and leaves its sandbox in a state it may fail with.
LEMMA ServiceWorks ==
  ASSUME kind \in CallKinds, target \in Sandboxes, UNCHANGED <<kind, target, from, reply>>,
         OthersStay, MayLeave(Now'[target])
  PROVE  Service!Next
<1>1. kind # None /\ kind # "reconcile"
  BY ContainersAssumption DEF CallKinds
<1>2. Now' = [Now EXCEPT ![target] = Now'[target]]
  BY DEF OthersStay, Now
<1>3. Now'[target] \in Service!Unanswered(kind, from)
  BY DEF MayLeave, Service!Unanswered, Service!Error
<1>4. Service!Work
  BY <1>1, <1>2, <1>3 DEF Service!Work, Now
<1> QED
  BY <1>4 DEF Service!Next

\* A request is answered for the state it leaves.
LEMMA ServiceAnswers ==
  ASSUME kind \in CallKinds, target \in Sandboxes, NEW answer \in {"ok", "error"},
         Answered(answer), OthersStay,
         [answer |-> answer, state |-> Now'[target]] \in Service!Results(kind, from)
  PROVE  Service!Next
<1>1. kind # None /\ kind # "reconcile" /\ None # "reconcile"
  BY ContainersAssumption DEF CallKinds
<1>2. Now' = [Now EXCEPT ![target] = Now'[target]]
  BY DEF OthersStay, Now
<1>3. Service!Answer(answer)
  BY <1>1, <1>2 DEF Service!Answer, Answered, Now
<1> QED
  BY <1>3 DEF Service!Next

\* A request goes on, and nothing can be seen of it.
LEMMA ServiceStutters ==
  ASSUME UNCHANGED <<kind, target, from, reply>>, Now' = Now
  PROVE  UNCHANGED Service!vars
BY DEF Service!vars, Now

\* A reconciliation begins, goes on or ends, and removes what is left of a
\* sandbox or not.
LEMMA ServiceSweeps ==
  ASSUME kind \in {None, "reconcile"}, kind' \in {None, "reconcile"},
         kind = None => target = None, kind' = None => target' = None,
         UNCHANGED <<from, reply>>,
         \/ Now' = Now
         \/ \E s \in Sandboxes : Now[s] = "residue" /\ Now' = [Now EXCEPT ![s] = "absent"]
  PROVE  [Service!Next]_(Service!vars)
<1>1. CASE Now' = Now
  BY <1>1 DEF Service!vars, Now
<1>2. ASSUME NEW s \in Sandboxes, Now[s] = "residue", Now' = [Now EXCEPT ![s] = "absent"]
      PROVE  Service!Next
  <2>1. Service!Sweep(s)
    BY <1>2 DEF Service!Sweep, Now
  <2> QED
    BY <2>1 DEF Service!Next
<1> QED
  BY <1>1, <1>2

-----------------------------------------------------------------------------
(* How a request goes on.                                                  *)

\* After its answer there is no request.
LEMMA AnsweredBegun ==
  ASSUME NEW answer, Answered(answer)
  PROVE  Begun'
BY ContainersAssumption DEF Answered, Begun, CallKinds, InContainer, Reclaiming

\* A request that fails is rolled back or answered.
LEMMA FailedCases ==
  ASSUME kind \in CallKinds, Failed
  PROVE  \/ pc \in Making /\ Goto("rollback")
         \/ pc = "runtask" /\ Goto("undo")
         \/ Answered("error")
BY DEF Failed, Making, CallKinds

\* It is still the request that began.
LEMMA RolledBackBegun ==
  ASSUME IndInv, Begun,
         \/ pc \in Making /\ Goto("rollback")
         \/ pc = "runtask" /\ Goto("undo") /\ UNCHANGED container
  PROVE  Begun'
BY ContainersAssumption DEF IndInv, Control, Begun, Goto, CallKinds, InContainer, Making, Reclaiming

\* A step is one of the service, or none, and the request is still the one
\* that began.
Served == Begun' /\ [Service!Next]_(Service!vars)

\* A step of a request that goes on or fails, from a state it may fail with.
LEMMA EffectServes ==
  ASSUME IndInv, Begun, kind \in CallKinds, OthersStay, MayLeave(Now'[target]),
         NEW step, Goto(step) \/ Failed, Goto(step) => Begun',
         pc = "runtask" => UNCHANGED container
  PROVE  Served
<1>1. target \in Sandboxes
  BY DEF Begun
<1>2. ASSUME Goto(step) \/ Goto("rollback") \/ Goto("undo")
      PROVE  Service!Next
  BY <1>1, <1>2, ServiceWorks DEF Goto
<1>3. ASSUME Answered("error")
      PROVE  Service!Next
  <2>1. [answer |-> "error", state |-> Now'[target]] \in Service!Results(kind, from)
    BY DEF MayLeave, Service!Error
  <2> QED
    BY <1>1, <1>3, <2>1, ServiceAnswers
<1>4. Service!Next
  BY <1>2, <1>3, FailedCases
<1>5. Begun'
  BY FailedCases, AnsweredBegun, RolledBackBegun
<1> QED
  BY <1>4, <1>5 DEF Served

\* The API sees what containers, tasks, snapshots and journal are.
LEMMA NowStays ==
  ASSUME UNCHANGED <<container, task, snapshot, journal>>
  PROVE  Now' = Now
BY DEF Now, State

\* The same of a step that changes nothing the API sees.
LEMMA QuietServes ==
  ASSUME IndInv, Begun, kind \in CallKinds, UNCHANGED <<container, task, snapshot, journal>>,
         NEW step, Goto(step) \/ Failed, Goto(step) => Begun'
  PROVE  Served
<1>1. Now' = Now
  BY NowStays
<1>2. OthersStay /\ Now'[target] = State(target)
  BY <1>1 DEF OthersStay, Now, Begun
<1>3. MayLeave(Now'[target])
  BY <1>2, MayFail
<1> QED
  BY <1>2, <1>3, EffectServes

\* An answer that changes nothing the API sees.
LEMMA QuietAnswers ==
  ASSUME IndInv, Begun, kind \in CallKinds, UNCHANGED <<container, task, snapshot, journal>>,
         NEW answer \in {"ok", "error"}, Answered(answer),
         \/ answer = "error"
         \/ Service!Ok(State(target)) \in Service!Results(kind, from)
  PROVE  Served
<1>1. Now' = Now /\ target \in Sandboxes
  BY NowStays DEF Begun
<1>2. OthersStay /\ Now'[target] = State(target)
  BY <1>1 DEF OthersStay, Now
<1>3. [answer |-> answer, state |-> Now'[target]] \in Service!Results(kind, from)
  BY <1>2, MayFail DEF MayLeave, Service!Error, Service!Ok
<1> QED
  BY <1>1, <1>2, <1>3, ServiceAnswers, AnsweredBegun DEF Served

\* A step of a reconciliation, which is no request.
LEMMA SweepServes ==
  ASSUME IndInv, Begun, kind = "reconcile",
         \/ Now' = Now
         \/ target \in Sandboxes /\ Now[target] = "residue" /\ Now' = [Now EXCEPT ![target] = "absent"],
         NEW step, Goto(step) \/ (pc \notin Making /\ pc # "runtask" /\ Failed), Goto(step) => Begun'
  PROVE  Served
<1>1. Goto(step) \/ ReconcileEnds(FALSE)
  BY DEF Failed, Making
<1>2. /\ kind' \in {None, "reconcile"} /\ UNCHANGED <<from, reply>>
      /\ kind' = None => target' = None
  BY <1>1, ContainersAssumption DEF Goto, ReconcileEnds
<1>3. [Service!Next]_(Service!vars)
  BY <1>2, ContainersAssumption, ServiceSweeps
<1>4. ReconcileEnds(FALSE) => Begun'
  BY ContainersAssumption DEF ReconcileEnds, Begun, CallKinds, InContainer, Reclaiming
<1> QED
  BY <1>1, <1>3, <1>4 DEF Served

\* A request or a reconciliation is under way in every step but the first.
LEMMA Underway ==
  ASSUME IndInv, Begun, pc # "idle"
  PROVE  /\ kind \in CallKinds \cup {"reconcile"}
         /\ pc \notin ReconcileSteps => target \in Sandboxes
BY DEF IndInv, TypeOK, Control, Begun, CallKinds

-----------------------------------------------------------------------------
(* Every step is one of the service: requests.                             *)

LEMMA RequestServes ==
  ASSUME IndInv, Begun, NEW k \in CallKinds, NEW s \in Sandboxes, Request(k, s)
  PROVE  Served
<1>1. kind = None /\ target = None /\ None # "reconcile" /\ k # "reconcile"
  BY ContainersAssumption DEF Request, Begun, CallKinds
<1>2. Now' = Now
  BY NowStays DEF Request, storage
<1>3. Service!Begin(k, s)
  BY <1>1, <1>2 DEF Service!Begin, Request, Now
<1>4. Service!Next
  BY <1>3 DEF Service!Next, Service!Calls, CallKinds
<1>5. State(s)' = State(s)
  BY DEF Request, storage, State
<1>6. Begun'
  BY <1>5, ContainersAssumption DEF Request, Begun, CallKinds, InContainer, Reclaiming
<1> QED
  BY <1>4, <1>6 DEF Served

LEMMA LoadServes ==
  ASSUME IndInv, Begun, Load
  PROVE  Served
<1>1. kind \in CallKinds /\ target \in Sandboxes /\ from = State(target)
  BY DEF Load, IndInv, Control, Begun, CallKinds, ReconcileSteps
<1>2. UNCHANGED <<container, task, snapshot, journal>>
  BY DEF Load, storage
<1>3. State(target)' = State(target) \/ target' # target
  BY <1>2 DEF State
<1>4. CASE Answered("error")
  BY <1>1, <1>2, <1>4, QuietAnswers
<1>5. CASE Answered("ok")
  <2>1. reply' = "ok"
    BY <1>5 DEF Answered
  <2>2. Service!Ok(State(target)) \in Service!Results(kind, from)
    <3>1. CASE kind = "create"
      <4>1. target \in container
        BY <1>1, <1>5, <3>1 DEF Load, Goto, Answered, CallKinds
      <4> QED
        BY <1>1, <3>1, <4>1, AnswersAllowed DEF State
    <3>2. CASE kind # "create"
      <4>1. kind = "start" /\ target \in container /\ task[target] = "running"
        BY <1>1, <1>5, <3>2 DEF Load, Goto, Answered, CallKinds
      <4> QED
        BY <1>1, <4>1, AnswersAllowed DEF State
    <3> QED
      BY <3>1, <3>2
  <2> QED
    BY <1>1, <1>2, <1>5, <2>2, QuietAnswers
<1>6. CASE Goto("untask")
  <2>1. target \in container /\ kind \in {"start", "stop", "delete"}
        /\ (kind = "start" => task[target] # "running")
    BY <1>1, <1>6 DEF Load, Goto, Answered, CallKinds
  <2>2. from \in {"stopped", "running"} /\ (kind = "start" => from = "stopped")
    BY <1>1, <2>1 DEF State
  <2>3. Begun'
    BY <1>1, <1>2, <1>3, <1>6, <2>1, <2>2, ContainersAssumption
       DEF Begun, Goto, CallKinds, InContainer, Reclaiming
  <2> QED
    BY <1>1, <1>2, <1>6, <2>3, QuietServes
<1>7. CASE Goto("orphan")
  <2>1. target \notin container /\ kind \in {"create", "delete"}
    BY <1>1, <1>7 DEF Load, Goto, Answered, CallKinds
  <2>2. from \in {"absent", "residue"}
        /\ (from = "absent" => snapshot[target] = None /\ journal[target] = None)
    BY <1>1, <2>1 DEF State
  <2>3. Begun'
    BY <1>1, <1>2, <1>7, <2>1, <2>2, ContainersAssumption
       DEF Begun, Goto, CallKinds, InContainer, Reclaiming
  <2> QED
    BY <1>1, <1>2, <1>7, <2>3, QuietServes
<1> QED
  BY <1>1, <1>4, <1>5, <1>6, <1>7 DEF Load, CallKinds

LEMMA FailsServes ==
  ASSUME IndInv, Begun, Fails
  PROVE  Served
<1>1. UNCHANGED <<container, task, snapshot, journal>> /\ Failed /\ pc # "idle"
  BY DEF Fails, storage
<1>2. CASE kind \in CallKinds
  <2> DEFINE step == "none"
  <2>1. ~Goto(step) \/ Begun'
    BY <1>1, <1>2, FailedCases, AnsweredBegun, RolledBackBegun
  <2> QED
    BY <1>1, <1>2, <2>1, QuietServes
<1>3. CASE kind = "reconcile"
  <2>1. pc \notin Making /\ pc # "runtask"
    BY <1>3 DEF IndInv, Control, Making
  <2>2. ~Goto("none")
    BY <1>1, <1>3, <2>1 DEF Goto, Failed, ReconcileEnds, Making
  <2> QED
    BY <1>1, <1>3, <2>1, <2>2, NowStays, SweepServes
<1> QED
  BY <1>1, <1>2, <1>3, Underway

-----------------------------------------------------------------------------
(* What a sandbox without a container has left.                            *)

LEMMA RemoveOrphanServes ==
  ASSUME IndInv, Begun, RemoveOrphan
  PROVE  Served
<1> DEFINE step == IF kind = "reconcile" THEN "snapshots" ELSE "reclaim"
<1>1. /\ target \in Sandboxes /\ target \notin container
      /\ kind \in {"create", "delete", "reconcile"} /\ pc = "orphan"
      /\ snapshot' = [snapshot EXCEPT ![target] = None]
      /\ UNCHANGED <<container, task, journal>>
      /\ Goto(step) \/ Failed
  BY DEF RemoveOrphan, Proceed, IndInv, Control, Ready, Reclaiming, ReconcileSteps
<1>2. snapshot \in [Sandboxes -> Projects \cup {None}] /\ from \in {"absent", "residue", "stopped", "running", None}
  BY DEF IndInv, TypeOK
<1>3. OthersStay
  BY <1>1, <1>2 DEF OthersStay, Now, State
<1>4. /\ Now'[target] = IF journal[target] # None THEN "residue" ELSE "absent"
      /\ Now[target] = IF snapshot[target] # None \/ journal[target] # None THEN "residue" ELSE "absent"
  BY <1>1, <1>2 DEF Now, State
<1>5. CASE kind \in CallKinds
  <2>1. MayLeave(Now'[target])
    <3>1. CASE kind = "create"
      BY <1>1, <1>4, <3>1, ErrorsAllowed DEF MayLeave, Begun
    <3>2. CASE kind = "delete"
      <4>1. from \in {"absent", "residue", "stopped", "running"} /\ (from = "absent" => journal[target] = None)
        BY <1>1, <1>2, <3>2 DEF Begun, Reclaiming
      <4> QED
        BY <1>4, <3>2, <4>1, ErrorsAllowed DEF MayLeave, CallKinds
    <3> QED
      BY <1>1, <1>5, <3>1, <3>2, ContainersAssumption DEF CallKinds
  <2>2. Goto(step) => Begun'
    BY <1>1, <1>2, <1>5, ContainersAssumption
       DEF Goto, Begun, CallKinds, InContainer, Reclaiming
  <2> QED
    BY <1>1, <1>3, <1>5, <2>1, <2>2, EffectServes
<1>6. CASE kind = "reconcile"
  <2>1. Now' = Now \/ (Now[target] = "residue" /\ Now' = [Now EXCEPT ![target] = "absent"])
    BY <1>1, <1>3, <1>4 DEF OthersStay, Now
  <2>2. Goto(step) => Begun'
    BY <1>1, <1>6, ContainersAssumption DEF Goto, Begun, CallKinds, InContainer, Reclaiming
  <2>3. pc \notin Making /\ pc # "runtask"
    BY <1>1 DEF Making
  <2> QED
    BY <1>1, <1>6, <2>1, <2>2, <2>3, SweepServes
<1> QED
  BY <1>1, <1>5, <1>6 DEF CallKinds

LEMMA reclaimQuotaServes ==
  ASSUME IndInv, Begun, reclaimQuota
  PROVE  Served
<1> DEFINE step == IF journal[target] = None THEN AfterReclaim ELSE "clear"
<1>1. /\ target \in Sandboxes /\ target \notin container
      /\ kind \in {"create", "delete", "reconcile"} /\ pc = "reclaim"
      /\ UNCHANGED <<container, task, snapshot, journal>>
      /\ Goto(step)
  BY DEF reclaimQuota, storage, IndInv, Control, Ready, Reclaiming, ReconcileSteps
<1>2. Begun'
  BY <1>1, ContainersAssumption DEF Goto, AfterReclaim, Begun, CallKinds, InContainer, Reclaiming
<1>3. CASE kind \in CallKinds
  BY <1>1, <1>2, <1>3, QuietServes
<1>4. CASE kind = "reconcile"
  BY <1>1, <1>2, <1>4, NowStays, SweepServes
<1> QED
  BY <1>1, <1>3, <1>4 DEF CallKinds

LEMMA ReclaimTimesOutServes ==
  ASSUME IndInv, Begun, ReclaimTimesOut
  PROVE  Served
<1>1. /\ UNCHANGED <<container, task, snapshot, journal>> /\ Failed /\ pc = "reclaim"
      /\ kind \in {"create", "delete", "reconcile"}
  BY DEF ReclaimTimesOut, storage, IndInv, Control, Reclaiming
<1>2. pc \notin Making /\ pc # "runtask"
  BY <1>1 DEF Making
<1>3. ~Goto("none")
  BY <1>1 DEF Goto, Failed, ReconcileEnds, Answered
<1>4. CASE kind \in CallKinds
  BY <1>1, <1>3, <1>4, QuietServes
<1>5. CASE kind = "reconcile"
  BY <1>1, <1>2, <1>3, <1>5, NowStays, SweepServes
<1> QED
  BY <1>1, <1>4, <1>5 DEF CallKinds

LEMMA ClearLimitsServes ==
  ASSUME IndInv, Begun, ClearLimits
  PROVE  Served
<1>1. /\ target \in Sandboxes /\ kind \in {"create", "delete", "reconcile"} /\ pc = "clear"
      /\ UNCHANGED <<container, task, snapshot, journal>>
      /\ Goto("unrecord") \/ Failed
  BY DEF ClearLimits, Proceed, IndInv, Control, Reclaiming, ReconcileSteps
<1>2. Goto("unrecord") => Begun'
  BY <1>1, ContainersAssumption DEF Goto, Begun, CallKinds, InContainer, Reclaiming
<1>3. pc \notin Making /\ pc # "runtask"
  BY <1>1 DEF Making
<1>4. CASE kind \in CallKinds
  BY <1>1, <1>2, <1>4, QuietServes
<1>5. CASE kind = "reconcile"
  BY <1>1, <1>2, <1>3, <1>5, NowStays, SweepServes
<1> QED
  BY <1>1, <1>4, <1>5 DEF CallKinds

LEMMA RemoveJournalServes ==
  ASSUME IndInv, Begun, RemoveJournal
  PROVE  Served
<1>1. /\ target \in Sandboxes /\ target \notin container
      /\ kind \in {"create", "delete", "reconcile"} /\ pc = "unrecord"
      /\ journal' = [journal EXCEPT ![target] = None]
      /\ UNCHANGED <<container, task, snapshot>>
      /\ Goto(AfterReclaim) \/ Failed
  BY DEF RemoveJournal, Proceed, IndInv, Control, Ready, Reclaiming, ReconcileSteps
<1>2. /\ journal \in [Sandboxes -> Projects \cup {None}]
      /\ journal[target] # None /\ snapshot[target] = None
  BY <1>1 DEF IndInv, TypeOK, Ready, Begun
<1>3. OthersStay
  BY <1>1, <1>2 DEF OthersStay, Now, State
<1>4. Now'[target] = "absent" /\ Now[target] = "residue"
  BY <1>1, <1>2 DEF Now, State
<1>5. Goto(AfterReclaim) => Begun'
  BY <1>1, <1>2, ContainersAssumption
     DEF Goto, AfterReclaim, Begun, CallKinds, InContainer, Reclaiming
<1>6. pc \notin Making /\ pc # "runtask"
  BY <1>1 DEF Making
<1>7. CASE kind \in CallKinds
  <2>1. MayLeave(Now'[target])
    BY <1>1, <1>4, <1>7, ErrorsAllowed, ContainersAssumption DEF MayLeave, Begun, CallKinds
  <2> QED
    BY <1>1, <1>3, <1>5, <1>7, <2>1, EffectServes
<1>8. CASE kind = "reconcile"
  <2>1. Now' = [Now EXCEPT ![target] = "absent"]
    BY <1>1, <1>3, <1>4 DEF OthersStay, Now
  <2> QED
    BY <1>1, <1>4, <1>5, <1>6, <1>8, <2>1, SweepServes
<1> QED
  BY <1>1, <1>7, <1>8 DEF CallKinds

-----------------------------------------------------------------------------
(* Create.                                                                 *)

LEMMA GetImageServes ==
  ASSUME IndInv, Begun, GetImage
  PROVE  Served
<1>1. /\ target \in Sandboxes /\ kind = "create" /\ pc = "image" /\ kind \in CallKinds
      /\ UNCHANGED <<container, task, snapshot, journal>>
      /\ Goto("prepare") \/ Answered("error")
  BY DEF GetImage, storage, IndInv, Control, ReconcileSteps, CallKinds
<1>2. Goto("prepare") => Begun'
  BY <1>1, ContainersAssumption DEF Goto, Begun, CallKinds, InContainer, Reclaiming
<1> QED
  BY <1>1, <1>2, QuietServes, QuietAnswers

LEMMA PrepareSnapshotServes ==
  ASSUME IndInv, Begun, PrepareSnapshot
  PROVE  Served
<1>1. /\ target \in Sandboxes /\ target \notin container
      /\ kind = "create" /\ kind \in CallKinds /\ pc = "prepare"
      /\ snapshot' = [snapshot EXCEPT ![target] = made + 1]
      /\ UNCHANGED <<container, task, journal>>
      /\ Goto("record") \/ Failed
  BY DEF PrepareSnapshot, Proceed, IndInv, Control, Ready, ReconcileSteps, CallKinds
<1>2. snapshot \in [Sandboxes -> Projects \cup {None}]
  BY DEF IndInv, TypeOK
<1>3. OthersStay
  BY <1>1, <1>2 DEF OthersStay, Now, State
<1>4. Now'[target] \in {"absent", "residue"}
  BY <1>1, <1>2 DEF Now, State
<1>5. MayLeave(Now'[target])
  BY <1>1, <1>4, ErrorsAllowed DEF MayLeave, Begun
<1>6. Goto("record") => Begun'
  BY <1>1, ContainersAssumption DEF Goto, Begun, CallKinds, InContainer, Reclaiming
<1> QED
  BY <1>1, <1>3, <1>5, <1>6, EffectServes

LEMMA prepareQuotaServes ==
  ASSUME IndInv, Begun, prepareQuota
  PROVE  Served
<1>1. /\ target \in Sandboxes /\ target \notin container
      /\ kind = "create" /\ kind \in CallKinds /\ pc = "record"
      /\ journal' = [journal EXCEPT ![target] = Project(target)]
      /\ UNCHANGED <<container, task, snapshot>>
      /\ Goto("limit") \/ Failed
  BY DEF prepareQuota, Proceed, IndInv, Control, Ready, ReconcileSteps, Making, CallKinds
<1>2. journal \in [Sandboxes -> Projects \cup {None}]
  BY DEF IndInv, TypeOK
<1>3. OthersStay
  BY <1>1, <1>2 DEF OthersStay, Now, State
<1>4. Now'[target] \in {"absent", "residue"}
  BY <1>1, <1>2 DEF Now, State
<1>5. MayLeave(Now'[target])
  BY <1>1, <1>4, ErrorsAllowed DEF MayLeave, Begun
<1>6. Goto("limit") => Begun'
  BY <1>1, ContainersAssumption DEF Goto, Begun, CallKinds, InContainer, Reclaiming
<1> QED
  BY <1>1, <1>3, <1>5, <1>6, EffectServes

LEMMA SetLimitsServes ==
  ASSUME IndInv, Begun, SetLimits
  PROVE  Served
<1>1. /\ target \in Sandboxes /\ kind = "create" /\ kind \in CallKinds /\ pc = "limit"
      /\ UNCHANGED <<container, task, snapshot, journal>>
      /\ Goto("tag") \/ Failed
  BY DEF SetLimits, Proceed, IndInv, Control, ReconcileSteps, Making, CallKinds
<1>2. Goto("tag") => Begun'
  BY <1>1, ContainersAssumption DEF Goto, Begun, CallKinds, InContainer, Reclaiming
<1> QED
  BY <1>1, <1>2, QuietServes

LEMMA TagDirectoriesServes ==
  ASSUME IndInv, Begun, TagDirectories
  PROVE  Served
<1>1. /\ target \in Sandboxes /\ kind = "create" /\ kind \in CallKinds /\ pc = "tag"
      /\ UNCHANGED <<container, task, snapshot, journal>>
      /\ Goto("commit") \/ Failed
  BY DEF TagDirectories, Proceed, IndInv, Control, ReconcileSteps, Making, CallKinds
<1>2. Goto("commit") => Begun'
  BY <1>1, ContainersAssumption DEF Goto, Begun, CallKinds, InContainer, Reclaiming
<1> QED
  BY <1>1, <1>2, QuietServes

LEMMA CommitContainerServes ==
  ASSUME IndInv, Begun, CommitContainer
  PROVE  Served
<1>1. /\ target \in Sandboxes /\ target \notin container
      /\ kind = "create" /\ kind \in CallKinds /\ pc = "commit"
      /\ container' = container \cup {target}
      /\ UNCHANGED <<task, snapshot, journal>>
      /\ Answered("ok") \/ Failed
  BY DEF CommitContainer, storage, IndInv, Control, Ready, ReconcileSteps, Making, CallKinds
<1>2. task[target] = "none" /\ from \in {"absent", "residue"}
  BY <1>1 DEF IndInv, World, Begun
<1>3. OthersStay
  BY <1>1 DEF OthersStay, Now, State
<1>4. Now'[target] = "stopped"
  BY <1>1, <1>2 DEF Now, State
<1>5. CASE Answered("ok")
  <2>1. [answer |-> "ok", state |-> Now'[target]] \in Service!Results(kind, from)
    BY <1>1, <1>2, <1>4, AnswersAllowed DEF Service!Ok
  <2> QED
    BY <1>1, <1>3, <1>5, <2>1, ServiceAnswers, AnsweredBegun DEF Served
<1>6. CASE Failed
  <2>1. MayLeave(Now'[target])
    BY <1>1, <1>2, <1>4, ErrorsAllowed DEF MayLeave
  <2>2. ~Goto("none")
    BY <1>1, <1>6 DEF Failed, Goto
  <2> QED
    BY <1>1, <1>3, <1>6, <2>1, <2>2, EffectServes
<1> QED
  BY <1>1, <1>5, <1>6

LEMMA RollbackServes ==
  ASSUME IndInv, Begun, Rollback
  PROVE  Served
<1>1. /\ target \in Sandboxes /\ task[target] = "none"
      /\ kind = "create" /\ kind \in CallKinds /\ pc = "rollback"
      /\ snapshot' = [snapshot EXCEPT ![target] = None]
      /\ UNCHANGED <<container, task, journal>>
      /\ Answered("error") /\ from \in {"absent", "residue"}
  BY DEF Rollback, IndInv, Control, Ready, Begun, ReconcileSteps, CallKinds
<1>2. snapshot \in [Sandboxes -> Projects \cup {None}]
  BY DEF IndInv, TypeOK
<1>3. OthersStay
  BY <1>1, <1>2 DEF OthersStay, Now, State
<1>4. Now'[target] \in {"absent", "residue", "stopped"}
  BY <1>1 DEF Now, State
<1>5. [answer |-> "error", state |-> Now'[target]] \in Service!Results(kind, from)
  BY <1>1, <1>4, ErrorsAllowed DEF Service!Error
<1> QED
  BY <1>1, <1>3, <1>5, ServiceAnswers, AnsweredBegun DEF Served

-----------------------------------------------------------------------------
(* Start, stop and delete.                                                 *)

LEMMA DeleteTaskServes ==
  ASSUME IndInv, Begun, DeleteTask
  PROVE  Served
<1> DEFINE step == IF kind = "start" THEN "quota" ELSE "network"
<1>1. /\ target \in Sandboxes /\ target \in container
      /\ kind \in {"start", "stop", "delete"} /\ kind \in CallKinds /\ pc = "untask"
      /\ task' = [task EXCEPT ![target] = "none"]
      /\ UNCHANGED <<container, snapshot, journal>>
      /\ Goto(step) \/ Failed
      /\ from \in {"stopped", "running"} /\ (kind = "start" => from = "stopped")
  BY DEF DeleteTask, Proceed, storage, IndInv, Control, Ready, Begun, InContainer, ReconcileSteps, CallKinds
<1>2. task \in [Sandboxes -> {"none", "created", "running", "stopped"}]
  BY DEF IndInv, TypeOK
<1>3. OthersStay
  BY <1>1, <1>2 DEF OthersStay, Now, State
<1>4. Now'[target] = "stopped"
  BY <1>1, <1>2 DEF Now, State
<1>5. MayLeave(Now'[target])
  BY <1>1, <1>4, ErrorsAllowed DEF MayLeave
<1>6. Goto(step) => Begun'
  BY <1>1, <1>2, ContainersAssumption DEF Goto, Begun, CallKinds, InContainer, Reclaiming
<1> QED
  BY <1>1, <1>3, <1>5, <1>6, EffectServes

LEMMA checkQuotaServes ==
  ASSUME IndInv, Begun, checkQuota
  PROVE  Served
<1>1. /\ target \in Sandboxes /\ kind = "start" /\ kind \in CallKinds /\ pc = "quota"
      /\ UNCHANGED <<container, task, snapshot, journal>>
      /\ Goto("network") \/ Answered("error")
  BY DEF checkQuota, storage, IndInv, Control, ReconcileSteps, CallKinds
<1>2. Goto("network") => Begun'
  BY <1>1, ContainersAssumption DEF Goto, Begun, CallKinds, InContainer, Reclaiming
<1> QED
  BY <1>1, <1>2, QuietServes, QuietAnswers

LEMMA NetworkServes ==
  ASSUME IndInv, Begun, Network
  PROVE  Served
<1> DEFINE step == CASE kind = "start" -> "newtask"
                     [] kind = "stop" -> "describe"
                     [] kind = "delete" -> "unsnapshot"
<1>1. /\ target \in Sandboxes /\ kind \in {"start", "stop", "delete"} /\ kind \in CallKinds
      /\ pc = "network"
      /\ UNCHANGED <<container, task, snapshot, journal>>
      /\ Goto(step)
  BY DEF Network, storage, IndInv, Control, ReconcileSteps, CallKinds
<1>2. Goto(step) => Begun'
  BY <1>1, ContainersAssumption DEF Goto, Begun, CallKinds, InContainer, Reclaiming
<1> QED
  BY <1>1, <1>2, QuietServes

LEMMA NewTaskServes ==
  ASSUME IndInv, Begun, NewTask
  PROVE  Served
<1>1. /\ target \in Sandboxes /\ target \in container
      /\ kind = "start" /\ kind \in CallKinds /\ pc = "newtask"
      /\ task' = [task EXCEPT ![target] = "created"]
      /\ UNCHANGED <<container, snapshot, journal>>
      /\ Goto("runtask") \/ Failed
      /\ from = "stopped"
  BY DEF NewTask, Proceed, storage, IndInv, Control, Ready, Begun, ReconcileSteps, CallKinds
<1>2. task \in [Sandboxes -> {"none", "created", "running", "stopped"}]
  BY DEF IndInv, TypeOK
<1>3. OthersStay
  BY <1>1, <1>2 DEF OthersStay, Now, State
<1>4. Now'[target] = "stopped"
  BY <1>1, <1>2 DEF Now, State
<1>5. MayLeave(Now'[target])
  BY <1>1, <1>4, ErrorsAllowed DEF MayLeave
<1>6. Goto("runtask") => Begun'
  BY <1>1, ContainersAssumption DEF Goto, Begun, CallKinds, InContainer, Reclaiming
<1> QED
  BY <1>1, <1>3, <1>5, <1>6, EffectServes

LEMMA RunTaskServes ==
  ASSUME IndInv, Begun, RunTask
  PROVE  Served
<1>1. /\ target \in Sandboxes /\ target \in container
      /\ kind = "start" /\ kind \in CallKinds /\ pc = "runtask"
      /\ task' = [task EXCEPT ![target] = "running"]
      /\ UNCHANGED <<container, snapshot, journal>>
      /\ Goto("describe") \/ Failed
      /\ from = "stopped"
  BY DEF RunTask, Proceed, storage, IndInv, Control, Ready, Begun, ReconcileSteps, CallKinds
<1>2. task \in [Sandboxes -> {"none", "created", "running", "stopped"}]
  BY DEF IndInv, TypeOK
<1>3. OthersStay
  BY <1>1, <1>2 DEF OthersStay, Now, State
<1>4. Now'[target] = "running"
  BY <1>1, <1>2 DEF Now, State
<1>5. MayLeave(Now'[target])
  BY <1>1, <1>4, ErrorsAllowed DEF MayLeave
<1>6. Goto("describe") => Begun'
  BY <1>1, ContainersAssumption DEF Goto, Begun, CallKinds, InContainer, Reclaiming
<1> QED
  BY <1>1, <1>3, <1>5, <1>6, EffectServes

\* The task a start reports may have exited since.
LEMMA DescribeServes ==
  ASSUME IndInv, Begun, Describe
  PROVE  Served
<1>1. /\ target \in Sandboxes /\ target \in container
      /\ kind \in {"start", "stop"} /\ kind \in CallKinds /\ pc = "describe"
      /\ UNCHANGED <<container, task, snapshot, journal>>
      /\ Answered("ok") /\ from \in {"stopped", "running"}
  BY DEF Describe, storage, IndInv, Control, Begun, InContainer, ReconcileSteps, CallKinds
<1>2. CASE kind = "stop"
  <2>1. State(target) = "stopped"
    BY <1>1, <1>2 DEF Begun, State
  <2> QED
    BY <1>1, <1>2, <2>1, AnswersAllowed, QuietAnswers
<1>3. CASE kind = "start"
  <2>1. Service!Shows("running", Now[target])
    BY <1>1 DEF Service!Shows, Now, State
  <2>2. Service!Ok("running") \in Service!Results(kind, from)
    BY <1>1, <1>3, AnswersAllowed
  <2>3. Now' = Now
    BY <1>1, NowStays
  <2>4. kind # None /\ kind # "reconcile" /\ None # "reconcile"
    BY <1>1, ContainersAssumption DEF CallKinds
  <2>5. Service!Ok("running").answer = "ok" /\ Service!Ok("running").state = "running"
    BY DEF Service!Ok
  <2>6. Service!Answer("ok")
    BY <1>1, <2>1, <2>2, <2>3, <2>4, <2>5 DEF Service!Answer, Answered, Now
  <2> QED
    BY <1>1, <2>6, AnsweredBegun DEF Served, Service!Next
<1> QED
  BY <1>1, <1>2, <1>3

LEMMA UndoTaskServes ==
  ASSUME IndInv, Begun, UndoTask
  PROVE  Served
<1>1. /\ target \in Sandboxes /\ target \in container
      /\ kind = "start" /\ kind \in CallKinds /\ pc = "undo"
      /\ task' = [task EXCEPT ![target] = "none"]
      /\ UNCHANGED <<container, snapshot, journal>>
      /\ Answered("error") /\ from = "stopped"
  BY DEF UndoTask, storage, IndInv, Control, Ready, Begun, ReconcileSteps, CallKinds
<1>2. task \in [Sandboxes -> {"none", "created", "running", "stopped"}]
  BY DEF IndInv, TypeOK
<1>3. OthersStay
  BY <1>1, <1>2 DEF OthersStay, Now, State
<1>4. Now'[target] = "stopped"
  BY <1>1, <1>2 DEF Now, State
<1>5. [answer |-> "error", state |-> Now'[target]] \in Service!Results(kind, from)
  BY <1>1, <1>4, ErrorsAllowed DEF Service!Error
<1> QED
  BY <1>1, <1>3, <1>5, ServiceAnswers, AnsweredBegun DEF Served

LEMMA DeleteSnapshotServes ==
  ASSUME IndInv, Begun, DeleteSnapshot
  PROVE  Served
<1>1. /\ target \in Sandboxes /\ target \in container /\ task[target] = "none"
      /\ kind = "delete" /\ kind \in CallKinds /\ pc = "unsnapshot"
      /\ snapshot' = [snapshot EXCEPT ![target] = None]
      /\ UNCHANGED <<container, task, journal>>
      /\ Goto("uncontain") \/ Failed
      /\ from \in {"stopped", "running"}
  BY DEF DeleteSnapshot, Proceed, IndInv, Control, Ready, Begun, InContainer, DeleteSteps, ReconcileSteps, CallKinds
<1>2. snapshot \in [Sandboxes -> Projects \cup {None}]
  BY DEF IndInv, TypeOK
<1>3. OthersStay
  BY <1>1, <1>2 DEF OthersStay, Now, State
<1>4. Now'[target] = "stopped"
  BY <1>1 DEF Now, State
<1>5. MayLeave(Now'[target])
  BY <1>1, <1>4, ErrorsAllowed DEF MayLeave
<1>6. Goto("uncontain") => Begun'
  BY <1>1, <1>2, ContainersAssumption DEF Goto, Begun, CallKinds, InContainer, Reclaiming
<1> QED
  BY <1>1, <1>3, <1>5, <1>6, EffectServes

LEMMA DeleteContainerServes ==
  ASSUME IndInv, Begun, DeleteContainer
  PROVE  Served
<1>1. /\ target \in Sandboxes /\ kind = "delete" /\ kind \in CallKinds /\ pc = "uncontain"
      /\ container' = container \ {target}
      /\ UNCHANGED <<task, snapshot, journal>>
      /\ Goto("reclaim") \/ Failed
      /\ from \in {"stopped", "running"} /\ snapshot[target] = None
  BY DEF DeleteContainer, Proceed, storage, IndInv, Control, Begun, InContainer, DeleteSteps, ReconcileSteps, CallKinds
<1>2. OthersStay
  BY <1>1 DEF OthersStay, Now, State
<1>3. Now'[target] \in {"absent", "residue"}
  BY <1>1 DEF Now, State
<1>4. MayLeave(Now'[target])
  BY <1>1, <1>3, ErrorsAllowed DEF MayLeave
<1>5. Goto("reclaim") => Begun'
  BY <1>1, ContainersAssumption DEF Goto, Begun, CallKinds, InContainer, Reclaiming
<1> QED
  BY <1>1, <1>2, <1>4, <1>5, EffectServes

LEMMA ForgetHistoryServes ==
  ASSUME IndInv, Begun, ForgetHistory
  PROVE  Served
<1>1. /\ kind = "delete" /\ kind \in CallKinds /\ pc = "history"
      /\ UNCHANGED <<container, task, snapshot, journal>>
      /\ Answered("ok")
  BY DEF ForgetHistory, storage, IndInv, Control, DeleteSteps, CallKinds
<1>2. State(target) = "absent"
  BY <1>1 DEF Begun, State
<1> QED
  BY <1>1, <1>2, AnswersAllowed, QuietAnswers

-----------------------------------------------------------------------------
(* Reconciliation and the rest of the world.                               *)

\* The steps of a reconciliation that change nothing but its control.
LEMMA ReconcilingServes ==
  ASSUME IndInv, Begun,
         \/ Reconcile \/ ListQuotas \/ Reconciled
         \/ \E s \in Sandboxes : NextOrphan(s) \/ NextQuota(s)
  PROVE  Served
<1>1. /\ UNCHANGED <<container, task, snapshot, journal, from, reply>>
      /\ kind \in {None, "reconcile"} /\ kind' \in {None, "reconcile"}
      /\ kind' = None => target' = None
  BY ContainersAssumption DEF Reconcile, ListQuotas, Reconciled, ReconcileEnds, NextOrphan, NextQuota, storage,
     IndInv, Control, ReconcileSteps, Begun
<1>2. [Service!Next]_(Service!vars)
  BY <1>1, NowStays, ServiceSweeps DEF Begun
<1>3. Reconcile => Begun'
  BY ContainersAssumption DEF Reconcile, storage, Begun, CallKinds, InContainer, Reclaiming
<1>4. ListQuotas => Begun'
  BY ContainersAssumption DEF ListQuotas, storage, IndInv, Control, ReconcileSteps, Begun, CallKinds, InContainer, Reclaiming
<1>5. Reconciled => Begun'
  BY <1>1, ContainersAssumption DEF Reconciled, ReconcileEnds, storage, Begun, CallKinds, InContainer, Reclaiming
<1>6. ASSUME NEW s \in Sandboxes, NextOrphan(s)
      PROVE  Begun'
  BY <1>6, ContainersAssumption DEF NextOrphan, storage, IndInv, Control, ReconcileSteps, Begun, CallKinds, InContainer, Reclaiming
<1>7. ASSUME NEW s \in Sandboxes, NextQuota(s)
      PROVE  Begun'
  BY <1>7, ContainersAssumption DEF NextQuota, InUse, storage, IndInv, Control, ReconcileSteps, Begun, CallKinds, InContainer, Reclaiming
<1> QED
  BY <1>2, <1>3, <1>4, <1>5, <1>6, <1>7 DEF Served

\* Nothing is seen of directories and usage.
LEMMA StorageServes ==
  ASSUME IndInv, Begun,
         \/ UNCHANGED vars
         \/ \E p \in Projects : RemoveDirectory(p) \/ Uncharge(p)
  PROVE  Served
<1>1. UNCHANGED <<container, task, snapshot, journal, kind, target, pc, from, reply>>
  BY DEF RemoveDirectory, Uncharge, vars, storage, control
<1>2. UNCHANGED Service!vars
  BY <1>1, NowStays, ServiceStutters
<1>3. State(target)' = State(target)
  BY <1>1 DEF State
<1>4. Begun'
  BY <1>1, <1>3 DEF Begun
<1> QED
  BY <1>2, <1>4 DEF Served

LEMMA TaskExitsServes ==
  ASSUME IndInv, Begun, NEW s \in Sandboxes, NEW t \in {"stopped", "none"}, TaskExits(s, t)
  PROVE  Served
<1>1. /\ s \in container /\ task[s] = "running" /\ task' = [task EXCEPT ![s] = t]
      /\ task \in [Sandboxes -> {"none", "created", "running", "stopped"}]
      /\ UNCHANGED <<container, snapshot, journal, kind, target, pc, reply>>
      /\ from' = IF target = s /\ kind # "reconcile" THEN "stopped" ELSE from
  BY DEF TaskExits, storage, IndInv, TypeOK, World
<1>2. Now[s] = "running" /\ Now' = [x \in Sandboxes |-> IF x \in {s} THEN "stopped" ELSE Now[x]]
  BY <1>1 DEF Now, State
<1>3. s # None
  BY ContainersAssumption
<1>4. Service!Exit({s})
  BY <1>1, <1>2, <1>3 DEF Service!Exit, Now
<1>5. Service!Next
  BY <1>4 DEF Service!Next
<1>6. Begun'
  <2>1. pc \in {"load", "untask"} => from' = State(target)'
    BY <1>1, ContainersAssumption DEF Begun, State, IndInv, Control
  <2>2. target = s /\ kind # "reconcile" => kind \in {"start", "stop", "delete"} \/ pc = "load"
    <3> SUFFICES ASSUME target = s, kind = "create", pc # "load"
                 PROVE  FALSE
      BY <1>3 DEF IndInv, TypeOK, Begun
    <3>1. pc \in CreateSteps
      BY DEF IndInv, TypeOK, Begun, Control, InContainer, Steps, StartSteps, DeleteSteps, ReconcileSteps
    <3> QED
      BY <1>1, <3>1 DEF IndInv, Ready, CreateSteps, Making, Reclaiming
  <2>3. UNCHANGED <<kind, target, pc, container, snapshot, journal>>
    BY <1>1
  <2>4. pc \in {"network", "describe"} /\ kind = "stop" => task'[target] = "none"
    BY <1>1 DEF Begun
  <2>5. kind \in {None, "reconcile"} => from' = None
    BY <1>1, <1>3 DEF Begun
  <2>6. from' = from \/ (from' = "stopped" /\ s = target /\ kind # "reconcile")
    BY <1>1
  <2> QED
    BY <1>1, <2>1, <2>2, <2>3, <2>4, <2>5, <2>6, ContainersAssumption DEF Begun, CallKinds, InContainer
<1> QED
  BY <1>5, <1>6 DEF Served

\* Nobody is there to be answered.
LEMMA EndedBegun ==
  ASSUME Ended
  PROVE  Begun'
BY ContainersAssumption DEF Ended, Begun, CallKinds, InContainer, Reclaiming

LEMMA CrashServes ==
  ASSUME IndInv, Begun, Crash
  PROVE  Served
<1>1. Now' = Now
  BY NowStays DEF Crash, storage
<1>2. /\ kind' = None /\ target' = None /\ from' = None /\ reply' = reply
      /\ None # "reconcile"
  BY ContainersAssumption DEF Crash, Ended
<1>3. CASE kind \in CallKinds
  <2>1. kind # None /\ kind # "reconcile"
    BY <1>3, ContainersAssumption DEF CallKinds
  <2>2. Service!Vanish
    BY <1>1, <1>2, <2>1 DEF Service!Vanish, Now
  <2> QED
    BY <2>2, EndedBegun DEF Served, Service!Next, Crash
<1>4. CASE kind \in {None, "reconcile"}
  <2>1. from = None
    BY <1>4 DEF Begun
  <2>2. [Service!Next]_(Service!vars)
    BY <1>1, <1>2, <1>4, <2>1, ServiceSweeps DEF Begun
  <2> QED
    BY <2>2, EndedBegun DEF Served, Crash
<1> QED
  BY <1>3, <1>4 DEF IndInv, TypeOK, CallKinds

LEMMA RebootServes ==
  ASSUME IndInv, Begun, Reboot
  PROVE  Served
<1> DEFINE S == {s \in Sandboxes : Now[s] = "running"}
<1>1. /\ kind' = None /\ target' = None /\ from' = None /\ reply' = reply
      /\ task' = [s \in Sandboxes |-> "none"] /\ UNCHANGED <<container, snapshot, journal>>
      /\ None # "reconcile"
  BY ContainersAssumption DEF Reboot, Ended, storage
<1>2. ASSUME NEW s \in Sandboxes
      PROVE  Now'[s] = IF s \in S THEN "stopped" ELSE Now[s]
  BY <1>1 DEF Now, State
<1>3. Now' = [s \in Sandboxes |-> IF s \in S THEN "stopped" ELSE Now[s]]
  BY <1>2 DEF Now
<1>4. Service!Exit(S)
  BY <1>1, <1>3 DEF Service!Exit, Now
<1>5. Service!Next
  BY <1>4 DEF Service!Next
<1> QED
  BY <1>5, EndedBegun DEF Served, Reboot

-----------------------------------------------------------------------------
(* Containers implements RuntimeService.                                   *)

LEMMA InitServes ==
  ASSUME Init
  PROVE  Begun /\ Service!Init
<1>1. Begun
  BY ContainersAssumption DEF Init, Begun, CallKinds, InContainer, Reclaiming
<1>2. Service!Init
  BY ContainersAssumption DEF Init, Service!Init, State
<1> QED
  BY <1>1, <1>2

LEMMA StepServes ==
  ASSUME IndInv, Begun, Step
  PROVE  Served
BY LoadServes, RemoveOrphanServes, reclaimQuotaServes, ReclaimTimesOutServes, ClearLimitsServes,
   RemoveJournalServes, GetImageServes, PrepareSnapshotServes, prepareQuotaServes, SetLimitsServes,
   TagDirectoriesServes, CommitContainerServes, RollbackServes, DeleteTaskServes, checkQuotaServes,
   NetworkServes, NewTaskServes, RunTaskServes, DescribeServes, UndoTaskServes, DeleteSnapshotServes,
   DeleteContainerServes, ForgetHistoryServes, ReconcilingServes
   DEF Step

LEMMA NextServes ==
  ASSUME IndInv, Begun, [Next]_vars
  PROVE  Served
BY RequestServes, StepServes, FailsServes, ReconcilingServes, StorageServes, TaskExitsServes,
   CrashServes, RebootServes
   DEF Next, CallKinds

\* Containers implements RuntimeService, call by call: whatever fails, exits,
\* crashes or is swept in between, every request of the adapter works within
\* the results RuntimeContract allows for the state its sandbox was in when
\* it began, and is answered truthfully or not at all. With it the model of
\* the API (Lifecycle), which takes an adapter's results from that contract,
\* speaks about this adapter.
THEOREM Refinement == Spec => ImplementsService
<1>1. Init => Begun /\ Service!Init
  BY InitServes
<1>2. IndInv /\ Begun /\ [Next]_vars => Begun' /\ [Service!Next]_(Service!vars)
  BY NextServes DEF Served
<1> QED
  BY <1>1, <1>2, Invariance, PTL DEF Spec, ImplementsService, Service!Spec
=============================================================================
