# Verification of sandcube

sandcube runs sandboxes on one host. Two processes do the work. The **API**
(Crystal, `src/src/`) keeps a journal in SQLite and decides what should exist.
The **adapter** (Go, `src/services/containerd-runtime/`) owns containerd, the
network, the quotas and the process history and makes it exist. A supervisor
starts both. The API calls the adapter over a Unix socket. Either side can be
killed at any time, answers can be lost, and both recover from what they wrote
down. This directory models that recovery in TLA+, checks it with TLC and proves
the central invariants with TLAPS. `PROJECT.json` lists components, runs, the
lines each definition models, hazards and theorems.

## Inventory

| Component | State | Operations | What makes it hard | Module |
| --- | --- | --- | --- | --- |
| Lifecycle journal and reconciler (`reliability.cr`) | `sandboxes`, `lifecycle_requests`, `sandbox_images` | create, start, stop, restart, delete, retry, sweep | intent and effect are separate; calls are lost, repeated and finish late; crash between any two steps | `Lifecycle` |
| Capacity reservations (`capacity.cr`) | reservations in `sandboxes` | admission | reservations must cover what the adapter may still be doing | `Reservations`, `Lifecycle` |
| Image manager (`images/builder.cr`, `images/store.cr`) | `images`, `@pending`, the build lock, build directories | submit, build, import, delete, restart | fibers interleave with deletions, sandboxes and imports of a dead API | `Images`, `ImageTable` |
| Image calls (`images.go`) | references in containerd | import, delete | imports outlive the API that asked for them | `Images` |
| Container calls (`runtime.go`) | containers, tasks, snapshots | create, start, stop, delete | each call is a sequence that can stop anywhere; answers are lost | `Containers`, `RuntimeService`, `RuntimeContract` |
| Process history (`processes.go`, `reliability.go`, exec in `runtime.go`) | `process.json`, `r.processes`, watchers, runtime execs | launch, watch, kill, timed wait, settle, forget, recover | watchers and waiters run without the lifecycle lock; storage and runtime fail separately; crash anywhere | `Processes` |
| Adapter sweep (`reliability.go`) | records, snapshots, quotas, networks | `/reconcile`, also at startup | must not remove what a sandbox still needs | `Containers`, `Endpoints`, `Processes`; `Lifecycle` (as one call) |
| Adapter server (`main.go`) | lifecycle lock, socket lock | routing, timeouts | the lock is held across waits | part of every module of the adapter |
| API service and startup (`service.cr`, `main.cr`) | `api.lock` | routing, boot order | single API process | part of `Lifecycle` |
| Log collector (`logger.go`, log answers in `processes.go`) | log files, markers | capture, truncate, finish, wait, read | a process of its own that fails, dies or falls behind the watcher | `Logs` |
| Sandbox network (`network.go`) | address records, nft tables, namespaces, links, tracked connections | set up, remove, reconcile | many external commands, several adapters on a host, address reuse | `Endpoints` |
| Disk quotas (`quota.go`) | journal, limits, tags | prepare, check, reclaim, reconcile | storage goes later than its snapshot; crash between any two steps | `Containers` |
| Supervisor (`cli/supervisor.cr`) | children | start, monitor, shutdown | signals and exits during startup | `Supervisor` |
| File access (`files.go`) | files in a snapshot, overlay mounts | read, write, mkdir, delete | a running task changes the same names between two calls | `Files` |
| CLI, host setup, bundle, build contexts, metrics | files on the host | | sequential, or no state of their own | not modelled |

What correctness means for the parts that are modelled:

- *Journal*: capacity is never overcommitted and covers every use; an effect is
  journalled before it is asked for; a deletion is final, complete and eventually
  happens; a stored response never changes.
- *Images*: a READY image can be used and a DELETED one has left nothing; builds
  never exceed their slots and always end; sandboxes keep their image.
- *Processes*: a command is executed at most once; the history never invents or
  loses an exit; live processes are watched after a restart; deadlines survive one.
- *Containers and quotas*: a task only runs on limited storage; limits outlast what
  they limit; files of a container are kept; every call keeps the contract the
  journal relies on.
- *Network*: an interface is up only behind its firewall; an address has one owner,
  who inherits no connections; everything that exists is recorded and removed in the end.
- *Logs*: the first bytes are kept, loss is marked, the workload is never blocked.
- *Files*: an upload replaces a name as a whole or not at all; a request always ends.
- *Supervisor*: dependencies start first and stop last; every child is reaped.

## Modules

`RuntimeContract` says what a call of the adapter may answer and what container
state it may leave (`CreateResults` … `DeleteResults`), for calls that answer,
fail, or whose answer is lost (`Unanswered`). `Reservations` sums reservations.

`Lifecycle` models `Reliability`. Its variables are the tables, column by
column (`status`, `intent`, `config`, `expiry`, `reserved`, `imageRef`,
`keyOwner`, `keyAction`, `response`, `imageStatus`), the containers (`runtime`),
the call of a dead API that the adapter still executes (`late`) and the holder of
the lifecycle lock (`op`, whose `pc` names the call it waits for). Requests are
`AskAdmission`, `AcceptCreate`, `AcceptStart`, `AcceptStop`, `Refuse` and `Retry`;
`Created`, `RestartStopped`, `Finish`, `Refused`, `CreateRefused` and `Lost` are
the ways a call inside `converge` ends; `StartSweep` … `AdapterFails` are the steps
of `reconcile`; `Crash`, `CrashDuringCall`, `CrashLeavesCall`, `LateFinish` and
`Boot` are the life of the process.

`Images` models `ImageManager`, `ImageStore` and `images.go`. Its variables are the
tables, `@pending`, one build fiber per image (`job`), the delete requests, and in
the adapter the references, the waiting imports and the holder of `imageMu`.
`ImageTable` is the abstract life of a row. `Images` implements it, and `Lifecycle` uses it
for the rows its sandboxes depend on (`ImageMoves`): that `store.failed` and `store.deleted`,
which have no guard of their own, only act on rows in the right state is shown of the image
manager and not assumed.

`Processes` models the history of one sandbox: the runtime's side (`container`,
`task`, `exec`), the files (`disk`), and the adapter's memory (`tracked`, `mem`,
`handle`, `done`, `watcher`, `waiter`, `op`). `outcome`, `runs` and `overdue` record
what really happened to a process. A launch is the steps of `op` from `setup` to
`started` or `fail`; the `Watch…` actions are the loop of `watchProcess`; `Wait…`
are `waitExec`; `Boot`, the `Recover…` actions, `Reattach` and `Recovered` are the
startup of the adapter.

`Containers` models `Create`, `Start`, `Stop`, `Delete` and `Reconcile` of the adapter
with `prepareQuota`, `checkQuota` and `reclaimQuota`. `pc` is the next call to containerd,
the kernel or the journal; `container`, `task`, `snapshot`, `dir`, `limited`, `charged` and
`journal` are what those calls change. Every call may fail without an effect (`Fails`) or
take effect and lose its answer (the second disjunct of `Proceed`); `RemoveDirectory` and
`Uncharge` are the snapshotter and XFS, which lag behind; `Crash` and `Reboot` may come
between any two steps. `RuntimeService` turns `RuntimeContract` into a state machine, and
`ImplementsService` says that `Containers` implements it: the results that `Lifecycle`
assumes of a call are those the detailed calls have.

`Endpoints` models `setupNetwork`, `removeNetwork` and `reconcileNetworks` of adapters that
share a host, command by command: the record on disk, and in the kernel the table, the
namespace, the link, the route and the tracked connections (`flows`). `networkLock` is the
lock of the host (`holder`). Setup removes what it finds first, as the code does.

`Logs` models one process, its two pipes, the collector of the shim (`logger.go`), the
watcher that waits a second for `logs.done`, and a reader of the answer, who reads files
and markers one after the other. A stream is the number of bytes written; a file is the
set of positions stored.

`Files` models `File` and `fileAt`: the temporary mount or the task's own (`via`), the
descriptor of the inspected file, its reopening and the bounded read,
the upload through a temporary name, and the end: the deferred removal of that name
(`Cleanup`) and of the mount (`Unmount`), both of which may fail. The task makes, links, writes and removes names
at any time.

`Supervisor` models `Supervisor` and the service's use of it: `Start`, `Probe`, `Ready`,
`TimesOut` during startup, `Stops` from monitoring, `Terminate`, `Kill` and `Stopped` in
shutdown, with children that begin to serve, exit and are reaped at any time.

### Abstractions and assumptions

- SQLite transactions are atomic and durable and do not fail. `atomicJSON` replaces
  a file atomically; it may report an error before or after that (`Saved`), since the directory
  is synced last.
- One API process and one adapter run at a time (file locks). The lifecycle lock of
  the API makes one worker of all requests and the sweep. The adapter's lock
  serialises its calls, so only a call already under way when the API dies can act
  later (`late`).
- A graceful shutdown is a crash at a convenient moment. In `Lifecycle` a death of
  the adapter shows as a lost answer; in `Images` as a lost or refused import.
- Replies that change nothing (conflicts, replays of a stored response, requests with
  a different fingerprint) are left out, as are messages, counters and logs.
- Identifiers of images, sandboxes and processes are random and not reused.
- In `Processes` one sandbox stands for all: records, locks and settling are per
  sandbox. When a task ends its processes end with it, and deleting a task deletes
  their runtime records. A call to the runtime is atomic; where the code ignores or
  retries its failure, success and failure are both possible.
- In `Containers`, network and process history are steps that may fail; their own state is
  in `Endpoints` and `Processes`. The number of a snapshot directory is its project and is
  never used again. A container, a task or a snapshot is there or not; labels and the OCI
  specification are left out.
- In `Endpoints` a command of a killed adapter has ended before the next adapter starts, and
  the host is used by sandcube adapters only. Hashes of names may collide.
- In `Logs` writes to pipes and files are atomic up to the buffer; a failed write stores
  nothing or part of the chunk, as `os.File` may. A pipe that cannot be read is still drained,
  unless that fails too (`ReadFails`). How the shim treats a pipe whose reader is gone is not in
  this repository: the model lets nothing be written to it and the command go on.
- In `Files` the sandbox leaves the adapter's temporary names alone (they are random). The
  request holds the lifecycle lock, so a task is neither started nor stopped meanwhile.
  A temporary mount that a dead adapter or a failed unmount left stays. `Containers`
  does not know of such mounts: the fairness of `Uncharge` assumes that none holds a removed
  directory.
- In `Supervisor` a killed child exits, and the death of the supervisor itself is not modelled.
  A signal to a child that has just ended changes nothing: `Child#signal` rescues `IO::Error`,
  and the model relies on the standard library raising no other exception there. One that did
  would leave `shutdown` (`supervisor.cr:84`) with the earlier children still running.

## Runs

| Run | Instance | Shows |
| --- | --- | --- |
| `lifecycle` | two sandboxes, one key, one image, cpu for one sandbox | the safety properties of the journal; 1.1 million states |
| `lifecycle_live` | one sandbox, one stray container | expired, deleted and unknown sandboxes disappear |
| `images` | three images, two slots, two deleters, two sandboxes | slots, references and rows agree; rows implement `ImageTable`; accepted builds end |
| `processes` | a detached and a synchronous process, one crash, a runtime that may lose the task | the safety properties of the history; 2.7 million states |
| `processes_live` | one synchronous process, two crashes | exits are recorded and deadlines enforced |
| `endpoints` | two adapters, three sandboxes, two subnets, one fault | firewall, ownership, records and removal of leftovers; 211,000 states |
| `containers` | two sandboxes, three snapshots, three faults | limits, journal, files, the contract of the calls, reclamation; 340,000 states |
| `logs` | two streams of up to three bytes, limit, buffer and pipe of two, one fault | what is stored, marked and answered; drained pipes; 665,000 states |
| `files` | two names, two temporary names, four inodes, one fault | atomic uploads, one overlay, bounded reads, requests that end; 1.2 million states |
| `supervisor` | four children | order of startup and shutdown, reaping, exit status, ending; 11,000 states |

Where several definitions state one idea, the run checks their conjunction under the name of
the idea: `ReservationsHold` (`NoOvercommit`, `UseIsReserved`, `ImageInUse`), `JournalLeads`
(`PendingHasIntent`, `CallIsJournalled`), `PromisesAreKept` (`ResponsesAreStable`,
`DeletionIsFinal`), `EndedSandboxesGo` (`ExpiredIsDeleted`, `DeletionCompletes`), `StoreAgrees`
(`ReadyIsStored`, `DeletedIsRemoved`), `OnceAndRecorded` (`AtMostOnce`, `ExecHasRecord`),
`HistoryIsTrue` (`ExitIsTrue`, `DoneIsDurable`), `LiveIsHeld` (`LiveIsWatched`,
`RunningHasHandle`), `HistoryIsFinal` (`ExitCodeIsFinal`, `DoneIsFinal`, `DeletedStaysDeleted`),
`AddressIsExclusive` (`OneOwner`, `NoInheritedFlows`), `StoredOrMarked` (`FirstBytesAreKept`,
`NoSilentLoss`) and `EndsClean` (`EveryChildIsReaped`, `SuccessNeedsSignal`). The type
invariants are proved for every module; only the run `files` repeats its own, since it bounds
what a read returns.

The instances are the smallest in which the hazards occur: two sandboxes for one
unit of cpu make admissions compete; one key is enough for a retry at every moment,
since keys do not interact; three images over two slots make a build wait for a slot
and for the lock; two processes make a stop wait for one while another is already
done, and the crash can fall between any two steps. Two adapters with a sandbox that hashes
to the other's subnet, and one sandbox more than subnets, make addresses collide, be reused
and run out. Three snapshots let a sandbox be created again after a rollback while the other
one exists; three faults allow a lost answer, a failed rollback and a crash in one life.
Three bytes against a limit of two reach below, exactly and above it, within a chunk and
between two. Four children are those the service starts. `MaxUploads`, `MaxCrashes`,
`MaxFaults`, `MaxProjects` and `MaxOutput` are bounds of the model and not of the code;
MaxPending is eight in the code, the pool has 32768 subnets and the limit is 1 MiB.
`supervisor` does not check deadlock, since the service ends.

Two further runs check a sentence of the documentation and find it violated. Each is listed
under `findings` with the sentence:

| Run | What the code does |
| --- | --- |
| `missing_is_marked` | a pending start or stop of a lost container is refused in every sweep before the inspection that would mark it |
| `stop_waits_for_exits` | Stop without a task does not settle processes; a Delete that follows removes the history under a watcher, which then retries its save for ever |

### Known disagreements

Nine more sentences are stated as definitions of their modules, and none of them holds.
They are not kept as runs. To reproduce a counterexample, replace the properties in the
module's configuration by the one named here (as INVARIANT, or as PROPERTY where marked)
and leave out SYMMETRY.

| Definition | Configuration | Sentence | What the code does |
| --- | --- | --- | --- |
| `ResponseDescribesOperation` | `MCLifecycle.cfg` | `docs/reliability.md:23` "Stored responses describe the original operation" | `converge` (`reliability.cr:158`) fills every open response of the sandbox, also that of the operation a deletion superseded; `ResponsesFit` is what holds |
| `GetReadsActualState` | `MCLifecycle.cfg` | `README.md:114` "Reads actual runtime state" | GET (`reliability.cr:241`) returns the row, which lags behind the runtime until the next sweep |
| `ExitSavedBeforeDeletion` (PROPERTY) | `MCProcesses.cfg` | `docs/reliability.md:33` "Exit metadata is saved before runtime process deletion." | Start (`runtime.go:235`) deletes a dead task together with exits nobody has saved |
| `NullWhileRunning` | `MCProcesses.cfg` | `docs/files-processes.md:41` "`exit_code` and `completed_at` are null while running" | a reattached process (`reliability.go:240`) keeps the completion time of its failed launch |
| `HistoryIsDurable` | `MCProcesses.cfg` | `docs/files-processes.md:49` "Process history and logs are durable on disk" | `waitExec` (`runtime.go:428`) marks a timeout in memory only |
| `ExitedIsFinal` (PROPERTY) | `MCProcesses.cfg` | `docs/reliability.md:33` "If containerd has already lost the process record, history reports an unknown exit as an error" | a save whose error comes after the rename (`reliability.go:36`) is repeated; when the runtime loses the process meanwhile (`processes.go:223`), the record on disk goes from exited to error and keeps the exit code that is known |
| `RetryIsIdempotent` | `MCEndpoints.cfg` | `docs/resources-networking.md:39` "completed teardown with an old journal record is retried idempotently" | a record does not reserve its address, so a repeated removal (`network.go:234`) clears the connections of the next owner |
| `CreateIsIdempotent` (PROPERTY) | `MCContainers.cfg` | `docs/reliability.md:17` "Create is idempotent at the adapter boundary" | a create whose last answer is lost removes the snapshot of the container it made (`runtime.go:177`); the repeated create answers ok, and every start fails in `checkQuota` |
| `MountedOnce` | `MCFiles.cfg` | `files.go:70` "Mounting the same upper/work dirs a second time gives separate overlay caches and can corrupt live updates." | an adapter that dies during a file request, or fails to unmount, leaves its temporary mount (`files.go:103`), beside which the next task is started |

### Fairness

`lifecycle_live`: the holder of the lock goes on, because calls to the adapter have
timeouts on both sides (weak fairness); the timer asks for a sweep every 15 seconds
and the lock is first come, first served (strong fairness of `StartSweep`); the
inventory and a deletion that are tried for ever succeed in the end (strong fairness);
a dead API is restarted. Nothing is assumed of clients. `images`: fibers run on,
`buildctl` and the import have timeouts, the build lock is fair. `processes_live`:
goroutines run on, requests end by their timeout, a save tried again and again
succeeds, sweeps are requested periodically, a dead adapter is restarted. Deleting a
sandbox and starting one are never forced. `endpoints`: a request goes on, since commands
have timeouts; the lock of the host and that of the adapter are not kept from a waiting
reconciliation for ever, which the API asks for every 15 seconds (strong fairness).
`containers`: the same, and the snapshotter and XFS get to what they owe. `logs`: the
goroutines of the collector run on; nothing is assumed of the workload. `files`: the request
runs on, unless it has opened a pipe that blocks. `supervisor`: its fiber runs on, a child
that has exited is reaped, and a killed child exits; a child that is only asked to stop need
not.

## Proofs

All theorems hold for any constants that satisfy the named assumptions of their
module, which only say that sets are finite where a cardinality or sum needs it, that
`None` is no member, and that quantities are natural numbers.

`LifecycleProofs`: `IndInv` joins types with what a row, a call under way (`op`) and a
late call may be in each phase. The late call is why the stated invariants are not
inductive: `DeletedIsGone` needs that no create or start of that sandbox can still
finish, `UseIsReserved` that reservations are released only after a call that settles
the container. `NeverOvercommitted` rests on it and on facts about `Sum`, which come first
(it is a natural number, splits by a row and is monotonic).
`ResponsesNeverChange` and `DeletionsAreFinal` are about steps. `ResponsesAlwaysFit` needs a
second invariant, `Fit`: while a request is open, its row is at that operation or condemned, so
that whoever completes the operation stores what the request asked for.

`ImagesProofs`: `JobInv`, `RowInv`, `UseInv` and `SlotInv` say which row goes with
which state of a fiber, which references can be in containerd or appear there, that a
reserved image is READY, and that `pending` counts the builds in flight. Together they
are inductive and give the safety theorems and `Refinement`.

`ProcessesProofs`: `PhaseInv` says what each phase of the adapter and each step of a
request imply for the sandbox, and `ProcInv` says of every process how the runtime
(`RunInv`), a launch under way (`LaunchInv`), the record on disk and in memory
(`RecordInv`), the watcher (`WatchInv`) and whoever looks after it (`LiveInv`) go
together. The stated invariants need each other: that a command runs once needs that an
untracked identifier has no record, which after a crash needs that the runtime knows no
process without one. `HistoryIsFinal` needs that an exit code on disk is also the one the
watcher has in memory: a failed save may have replaced the file, and the next one must not
replace it by less. Most steps touch one process or only end processes; `SameInv`,
`OneProcess`, `EndedInv` and `QuietInv` prove those cases once. All ten safety properties
of `Processes` are theorems.

`EndpointsProofs`: the invariant says, for each step of a setup or removal, which of record,
table, namespace, link, route and connections may exist, that only the holder of the lock is
between those steps, and that a sandbox has one adapter. `OneOwner` needs it because the
choice of a subnet looks at tables and routes only. All of its safety properties are theorems, `Journalled` among them, which no run repeats.

`ContainersProofs`: `Control` says which request takes which step, `Ready` what a step may
rely on from those before it, `World` what always holds of storage, containers and tasks. A
container with a snapshot is limited, tagged and journalled: that is what makes
`TaskIsLimited` inductive, and it survives because limits are only cleared for a project
nothing is charged to. `ContainersKeepFiles` follows from `Ready` for orphans.

`Refinement` shows that `Containers` implements `RuntimeService`. What the API sees of a
sandbox is `State`, and a reconciliation is no call. The contract speaks of the state a call
began in, so the proof needs a second invariant, `Begun`: how containers, tasks, snapshots and
journal at each step go with that state (a start was of a stopped container, a deletion of an
absent sandbox finds nothing left). From it follows `MayFail`: at every step the request may
give up with the sandbox as it is. A step then maps to one of the service. An effect is `Work`
(`EffectServes`), an answer `Answer`, a removal by a reconciliation `Sweep`, a crash `Vanish`,
an exit or a reboot `Exit`, and a change of storage nobody sees a stutter. `Lifecycle` takes
the results of calls from the same contract, which is thereby shown of this adapter.

`FilesProofs`: the invariant says that inodes referred to exist (`Held`), that the inode of a
temporary name has no other name (`Private`), what the request has at each step (`Control`),
and that all temporary names but its own are owed to deaths of the adapter or removals that
failed (`Counted`).
`UploadIsAtomic` is not inductive without `Private`: another name could refer to the file that
is being written. All safety properties of `Files` are theorems, for any names, inodes, sizes
and number of faults.

`LogsProofs`: the invariant relates bytes written, taken and stored and the remaining budget
of a stream, and what the watcher and the reader have seen since. `SupervisorProofs`: the
invariant says which children are known, have answered and may still be alive at each step.

The inductive invariants were checked with TLC on the instances above before they were
proved. Every safety property, action property and refinement that a passing run checks is a
theorem. Liveness stays with TLC, since the prover does not handle fairness and ENABLED.

## Not modelled

The command line, host provisioning, the bundle, build contexts and packaging are sequential
work without shared or recoverable state. Metrics and file listings only read. Validation and
routing of requests, wording, the contents of firewall rules and of the OCI specification,
and the encoding of the quota system calls have no state a property could relate. The death
of the supervisor with children left behind depends on the init system that restarts it.
