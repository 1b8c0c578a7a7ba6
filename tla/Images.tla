------------------------------- MODULE Images --------------------------------
(***************************************************************************)
(* Managed images: ImageManager and ImageStore of the API                  *)
(* (src/images/builder.cr, src/images/store.cr) and the image calls of the *)
(* adapter (images.go). A submitted build waits for the build lock, runs   *)
(* buildctl, is imported by the adapter and becomes READY; deletions and   *)
(* sandboxes run beside it. The adapter's imageMu orders imports, deletes  *)
(* and container creations. SQLite statements are atomic and do not fail.  *)
(***************************************************************************)
EXTENDS Integers, FiniteSets

CONSTANTS
  Images,      \* identifiers submit can draw
  Sandboxes,   \* sandboxes that can be created from them
  Deleters,    \* concurrent DELETE /v1/images/:id requests
  None,
  MaxPending,  \* builds that may be pending, eight in the code
  MaxUploads   \* bound: submissions whose body is being read

ASSUME ImagesAssumption ==
  /\ IsFiniteSet(Images)
  /\ None \notin Images
  /\ MaxPending \in Nat /\ MaxUploads \in Nat

VARIABLES
  row,         \* table images
  use,         \* table sandbox_images: the image a sandbox has reserved
  container,   \* sandboxes whose container exists
  stored,      \* references present in containerd
  requested,   \* import requests that wait in the adapter
  importing,   \* the import that holds imageMu, or None
  up,          \* whether the API process runs
  uploads,     \* submissions between the two checks of @pending
  pending,     \* @pending
  job,         \* what the build fiber of an image does
  dirs,        \* build directories on disk
  deleting     \* the image a delete request has begun to delete

table == <<row, use>>
api == <<up, uploads, pending, job, dirs, deleting>>
adapter == <<container, stored, requested, importing>>
vars == <<table, api, adapter>>

RowStates == {"none", "BUILDING", "READY", "ERROR", "DELETING", "DELETED"}
\* A job is prepared in submit, waits for the lock, runs buildctl, waits for
\* the import, cleans up after a failure, and is done.
JobStates == {"none", "prepare", "queued", "build", "import", "clean", "done"}
\* Mutant of Locked: a finished build keeps the lock.
LockedForEver == {"build", "import", "clean", "done"}
Locked == {"build", "import", "clean"}

TypeOK ==
  /\ row \in [Images -> RowStates]
  /\ use \in [Sandboxes -> Images \cup {None}]
  /\ container \subseteq Sandboxes
  /\ stored \subseteq Images
  /\ requested \subseteq Images
  /\ importing \in Images \cup {None}
  /\ up \in BOOLEAN
  /\ uploads \in 0..MaxUploads
  /\ pending \in Nat
  /\ job \in [Images -> JobStates]
  /\ dirs \subseteq Images
  /\ deleting \in [Deleters -> Images \cup {None}]

Init ==
  /\ row = [i \in Images |-> "none"]
  /\ use = [s \in Sandboxes |-> None]
  /\ container = {} /\ stored = {} /\ requested = {} /\ importing = None
  /\ up = FALSE /\ uploads = 0 /\ pending = 0
  /\ job = [i \in Images |-> "none"]
  /\ dirs = {}
  /\ deleting = [d \in Deleters |-> None]

InFlight == {i \in Images : job[i] \notin {"none", "done"}}

-----------------------------------------------------------------------------
(* submit.                                                                 *)

\* The first check; reading the body lets other fibers run.
Upload ==
  /\ up
  /\ pending < MaxPending
  /\ uploads < MaxUploads
  /\ uploads' = uploads + 1
  /\ UNCHANGED <<table, adapter, up, pending, job, dirs, deleting>>

\* The body is malformed or too large.
UploadRejected ==
  /\ uploads > 0
  /\ uploads' = uploads - 1
  /\ UNCHANGED <<table, adapter, up, pending, job, dirs, deleting>>

\* Mutant of SlotFree: the check made before the body was read is trusted.
SlotFreeEarlier == TRUE

\* The second check.
SlotFree == pending < MaxPending

\* A slot is taken before the fiber can be suspended again.
Prepare(i) ==
  /\ uploads > 0
  /\ SlotFree
  /\ job[i] = "none" /\ row[i] = "none"
  /\ uploads' = uploads - 1
  /\ pending' = pending + 1
  /\ job' = [job EXCEPT ![i] = "prepare"]
  /\ dirs' = dirs \cup {i}
  /\ UNCHANGED <<table, adapter, up, deleting>>

\* The context does not extract. The identifier is never drawn again.
PrepareFails(i) ==
  /\ job[i] = "prepare"
  /\ pending' = pending - 1
  /\ job' = [job EXCEPT ![i] = "done"]
  /\ dirs' = dirs \ {i}
  /\ UNCHANGED <<table, adapter, up, uploads, deleting>>

Submit(i) ==
  /\ job[i] = "prepare"
  /\ row' = [row EXCEPT ![i] = "BUILDING"]
  /\ job' = [job EXCEPT ![i] = "queued"]
  /\ UNCHANGED <<use, adapter, up, uploads, pending, dirs, deleting>>

-----------------------------------------------------------------------------
(* The build fiber.                                                        *)

LockBuild(i) ==
  /\ job[i] = "queued"
  /\ \A j \in Images : job[j] \notin Locked
  /\ job' = [job EXCEPT ![i] = "build"]
  /\ UNCHANGED <<table, adapter, up, uploads, pending, dirs, deleting>>

\* buildctl exits with success and the import is requested, or it fails or
\* runs into its timeout.
Built(i, ok) ==
  /\ job[i] = "build"
  /\ job' = [job EXCEPT ![i] = IF ok THEN "import" ELSE "clean"]
  /\ requested' = IF ok THEN requested \cup {i} ELSE requested
  /\ UNCHANGED <<table, container, stored, importing, up, uploads, pending, dirs, deleting>>

\* The ensure clause: the slot and the directory are given back.
EndJob(i) ==
  /\ job' = [job EXCEPT ![i] = "done"]
  /\ pending' = pending - 1
  /\ dirs' = dirs \ {i}

\* The import succeeds and is answered.
Imported(i) ==
  /\ job[i] = "import" /\ importing = i
  /\ stored' = stored \cup {i}
  /\ importing' = None
  /\ row' = [row EXCEPT ![i] = IF @ = "BUILDING" THEN "READY" ELSE @]
  /\ EndJob(i)
  /\ UNCHANGED <<use, container, requested, up, uploads, deleting>>

\* The import fails and removes the reference again, or fails to.
ImportFails(i, left) ==
  /\ job[i] = "import" /\ importing = i
  /\ left \subseteq {i}
  /\ stored' = (stored \ {i}) \cup left
  /\ importing' = None
  /\ job' = [job EXCEPT ![i] = "clean"]
  /\ UNCHANGED <<table, container, requested, up, uploads, pending, dirs, deleting>>

\* The connection fails; the request may wait in the adapter or be under way.
ImportLost(i) ==
  /\ job[i] = "import"
  /\ job' = [job EXCEPT ![i] = "clean"]
  /\ UNCHANGED <<table, adapter, up, uploads, pending, dirs, deleting>>

\* Mutant of MuFree: the delete call does not take imageMu.
MuIgnored == TRUE

\* A call that takes imageMu waits for a running import.
MuFree == importing = None

\* The reference of a failed build is removed, or that fails too; either way
\* the failure is recorded.
Cleaned(i, gone) ==
  /\ job[i] = "clean"
  /\ gone => MuFree
  /\ stored' = IF gone THEN stored \ {i} ELSE stored
  /\ row' = [row EXCEPT ![i] = "ERROR"]
  /\ EndJob(i)
  /\ UNCHANGED <<use, container, requested, importing, up, uploads, deleting>>

-----------------------------------------------------------------------------
(* The adapter's side of an import.                                        *)

\* The archive must be found in its build directory, the reference must not
\* exist yet.
ImportBegins(i) ==
  /\ i \in requested
  /\ MuFree
  /\ i \in dirs /\ i \notin stored
  /\ requested' = requested \ {i}
  /\ importing' = i
  /\ UNCHANGED <<table, api, container, stored>>

\* The archive is gone, the request is cancelled, or the adapter dies.
ImportRefused(i) ==
  /\ i \in requested
  /\ requested' = requested \ {i}
  /\ job' = [job EXCEPT ![i] = IF @ = "import" THEN "clean" ELSE @]
  /\ UNCHANGED <<table, container, stored, importing, up, uploads, pending, dirs, deleting>>

\* An import nobody waits for any more ends, one way or the other.
LateImportEnds(left) ==
  /\ importing # None /\ job[importing] # "import"
  /\ left \subseteq {importing}
  /\ stored' = (stored \ {importing}) \cup left
  /\ importing' = None
  /\ UNCHANGED <<table, api, container, requested>>

-----------------------------------------------------------------------------
(* Deletion.                                                               *)

\* Mutant of Unused: stopped sandboxes are forgotten.
UnusedByContainers(i) == \A s \in container : use[s] # i

Unused(i) == \A s \in Sandboxes : use[s] # i

BeginDelete(d, i) ==
  /\ up
  /\ deleting[d] = None
  /\ row[i] \in {"READY", "ERROR", "DELETING"}
  /\ Unused(i)
  /\ row' = [row EXCEPT ![i] = "DELETING"]
  /\ deleting' = [deleting EXCEPT ![d] = i]
  /\ UNCHANGED <<use, adapter, up, uploads, pending, job, dirs>>

\* The adapter has looked for containers that use the reference.
Deleted(d) ==
  LET i == deleting[d] IN
  /\ i # None
  /\ MuFree
  /\ \A s \in container : use[s] # i
  /\ stored' = stored \ {i}
  /\ row' = [row EXCEPT ![i] = "DELETED"]
  /\ deleting' = [deleting EXCEPT ![d] = None]
  /\ UNCHANGED <<use, container, requested, importing, up, uploads, pending, job, dirs>>

\* The adapter fails, or its answer is lost: the row stays DELETING.
DeleteFails(d, gone) ==
  LET i == deleting[d] IN
  /\ i # None
  /\ gone => MuFree /\ \A s \in container : use[s] # i
  /\ stored' = IF gone THEN stored \ {i} ELSE stored
  /\ deleting' = [deleting EXCEPT ![d] = None]
  /\ UNCHANGED <<table, container, requested, importing, up, uploads, pending, job, dirs>>

-----------------------------------------------------------------------------
(* Sandboxes, as far as they need images; Lifecycle has the details.       *)

Reserve(s, i) ==
  /\ up
  /\ use[s] = None
  /\ row[i] = "READY"
  /\ use' = [use EXCEPT ![s] = i]
  /\ UNCHANGED <<row, api, adapter>>

\* Managed references are never pulled.
CreateContainer(s) ==
  /\ s \notin container
  /\ use[s] # None
  /\ MuFree
  /\ use[s] \in stored
  /\ container' = container \cup {s}
  /\ UNCHANGED <<table, api, stored, requested, importing>>

DeleteContainer(s) ==
  /\ s \in container
  /\ container' = container \ {s}
  /\ UNCHANGED <<table, api, stored, requested, importing>>

\* The reservation is released when the adapter has confirmed the deletion.
Release(s) ==
  /\ up
  /\ use[s] # None /\ s \notin container
  /\ use' = [use EXCEPT ![s] = None]
  /\ UNCHANGED <<row, api, adapter>>

-----------------------------------------------------------------------------
(* The API process.                                                        *)

Crash ==
  /\ up
  /\ up' = FALSE /\ uploads' = 0 /\ pending' = 0
  /\ job' = [i \in Images |-> IF job[i] = "none" THEN "none" ELSE "done"]
  /\ deleting' = [d \in Deleters |-> None]
  /\ UNCHANGED <<table, adapter, dirs>>

\* Mutant of Interrupted: an unfinished deletion is taken for a build.
InterruptedWork == {"BUILDING", "DELETING"}
Interrupted == {"BUILDING"}

\* ImageManager.new removes the directories, then ends interrupted builds.
Boot ==
  /\ ~ up
  /\ up' = TRUE
  /\ dirs' = {}
  /\ row' = [i \in Images |-> IF row[i] \in Interrupted THEN "ERROR" ELSE row[i]]
  /\ UNCHANGED <<use, adapter, uploads, pending, job, deleting>>

Builds ==
  \E i \in Images :
    \/ Prepare(i)
    \/ PrepareFails(i)
    \/ Submit(i)
    \/ LockBuild(i)
    \/ \E ok \in BOOLEAN : Built(i, ok)
    \/ Imported(i)
    \/ \E left \in SUBSET Images : ImportFails(i, left)
    \/ ImportLost(i)
    \/ \E gone \in BOOLEAN : Cleaned(i, gone)
    \/ ImportBegins(i)
    \/ ImportRefused(i)

Deletions ==
  \E d \in Deleters :
    \/ \E i \in Images : BeginDelete(d, i)
    \/ Deleted(d)
    \/ \E gone \in BOOLEAN : DeleteFails(d, gone)

Uses ==
  \E s \in Sandboxes :
    \/ \E i \in Images : Reserve(s, i)
    \/ CreateContainer(s)
    \/ DeleteContainer(s)
    \/ Release(s)

Next ==
  \/ Upload
  \/ UploadRejected
  \/ Builds
  \/ \E left \in SUBSET Images : LateImportEnds(left)
  \/ Deletions
  \/ Uses
  \/ Crash
  \/ Boot

Spec == Init /\ [][Next]_vars

-----------------------------------------------------------------------------
(* Properties.                                                             *)

\* @pending counts the builds that hold a slot, their directories are the
\* only ones on disk while the process runs, and there are never more than
\* the queue may hold although bodies are read between check and increment.
SlotsAreCounted ==
  /\ pending = Cardinality(InFlight)
  /\ pending <= MaxPending
  /\ up => dirs = InFlight

\* A READY image can be used: its reference is in containerd.
ReadyIsStored == \A i \in Images : row[i] = "READY" => i \in stored

\* A tombstone leaves nothing behind, even when an import outlived the API
\* process or the connection that asked for it.
DeletedIsRemoved ==
  \A i \in Images : row[i] = "DELETED" => i \notin stored /\ importing # i

\* The rows tell the truth about containerd: a READY image is there, and of a
\* DELETED one nothing is left nor can appear, whatever order imports,
\* cleanups and deletions reach the adapter in.
StoreAgrees == ReadyIsStored /\ DeletedIsRemoved

\* The image under a container stays READY and stored until the container is
\* gone, whatever is deleted concurrently.
ContainersKeepImage ==
  \A s \in container : use[s] # None /\ row[use[s]] = "READY" /\ use[s] \in stored

\* Rows live the life ImageTable promises.
Table == INSTANCE ImageTable
ImplementsTable == Table!Spec

\* Every build ends: mutex and adapter let the queue drain, and a process
\* that died is started again.
JobStep(i) ==
  \/ Submit(i) \/ PrepareFails(i)
  \/ \E ok \in BOOLEAN : Built(i, ok)
  \/ Imported(i) \/ ImportLost(i) \/ (\E left \in SUBSET Images : ImportFails(i, left))
  \/ \E gone \in BOOLEAN : Cleaned(i, gone)
Fairness ==
  /\ \A i \in Images : WF_vars(JobStep(i)) /\ SF_vars(LockBuild(i))
  /\ WF_vars(Boot)
FairSpec == Spec /\ Fairness

\* A client that polls an accepted build sees READY or ERROR in the end.
BuildsEnd ==
  \A i \in Images : row[i] = "BUILDING" ~> row[i] \in {"READY", "ERROR"}
=============================================================================
