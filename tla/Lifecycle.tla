------------------------------ MODULE Lifecycle ------------------------------
(***************************************************************************)
(* The sandbox lifecycle coordinator (src/reliability.cr): the journal in  *)
(* SQLite, the retry records, the capacity reservations, the converge      *)
(* procedure that drives the containerd adapter, and the reconcile sweep.  *)
(*                                                                         *)
(* One mutex serialises requests and sweeps, so there is one worker, op.   *)
(* A step is what the worker does between two suspensions: it receives the *)
(* answer of a runtime request, does the database work that follows, and   *)
(* sends the next runtime request. The process can die in every state.     *)
(***************************************************************************)
EXTENDS Integers, FiniteSets, Reservations, RuntimeContract

CONSTANTS
  Sandboxes,   \* identifiers that create can draw
  Strays,      \* managed containers the journal has never heard of
  Keys,        \* idempotency keys clients use
  Configs,     \* create bodies
  Images,      \* rows of the images table
  None,        \* the absent sandbox, key or image
  Demand,      \* cpu, memory and disk a config asks for
  ImageOf,     \* managed image of a config, or None for a public reference
  HasTtl,      \* whether a config carries ttl_seconds
  Capacity     \* the host's persisted budgets

Resources == {"cpu", "memory", "disk"}
Compute == {"cpu", "memory"}

ASSUME ConstantsAssumption ==
  /\ IsFiniteSet(Sandboxes)
  /\ Sandboxes \cap Strays = {}
  /\ None \notin Sandboxes \cup Strays \cup Keys \cup Images
  /\ Demand \in [Configs -> [Resources -> Nat]]
  /\ ImageOf \in [Configs -> Images \cup {None}]
  /\ HasTtl \in [Configs -> BOOLEAN]
  /\ Capacity \in [Resources -> Nat]

VARIABLES
  \* table sandboxes; status "none" means there is no row
  status, intent, config, expiry, reserved,
  \* table sandbox_images
  imageRef,
  \* table lifecycle_requests; response "none" means there is no row and
  \* "pending" is the NULL response
  keyOwner, keyAction, response,
  \* table images
  imageStatus,
  \* the adapter: container states, and the request of a dead API process
  \* that the adapter is still executing
  runtime, late,
  \* the holder of the lifecycle mutex
  op

rows == <<status, intent, config, expiry, reserved, imageRef>>
retries == <<keyOwner, keyAction, response>>
journal == <<rows, retries, imageStatus>>
adapter == <<runtime, late>>
vars == <<journal, adapter, op>>

-----------------------------------------------------------------------------
(* Types.                                                                  *)

Containers == Sandboxes \cup Strays
Actions == {"create", "start", "stop", "restart", "delete"}
Intents == Actions \cup {"none"}
Statuses == {"none", "creating", "starting", "running", "stopping", "stopped",
             "deleting", "deleted", "error"}
Finals == {"running", "stopped", "deleted"}
Responses == {"none", "pending", "failed"} \cup Finals
\* The image rows, moved by the image manager.
Table == INSTANCE ImageTable WITH row <- imageStatus
\* pc names the runtime request the worker waits for, or the sweep's place.
PCs == {"down", "idle", "admit", "list", "pick", "inspect", "release", "purge",
        "adapter"} \cup Calls

Idle == [pc |-> "idle", sweep |-> FALSE, cur |-> None, intent |-> "none",
         todo |-> {}, orphans |-> {},
         action |-> "none", target |-> None, key |-> None]
NoCall == [call |-> "none", id |-> None]

\* sweep: the worker is a sweep; cur, intent: converge's sandbox and intent;
\* todo, orphans: what the sweep has still to visit; the rest: the request.
Workers == [pc : PCs, sweep : BOOLEAN, cur : Containers \cup {None},
            intent : Intents, todo : SUBSET Sandboxes,
            orphans : SUBSET Containers, action : Intents,
            target : Sandboxes \cup Configs \cup {None},
            key : Keys \cup {None}]

TypeOK ==
  /\ status \in [Sandboxes -> Statuses]
  /\ intent \in [Sandboxes -> Intents]
  /\ config \in [Sandboxes -> Configs \cup {None}]
  /\ expiry \in [Sandboxes -> {"never", "ahead", "past"}]
  /\ reserved \in [Sandboxes -> [Resources -> Nat]]
  /\ imageRef \in [Sandboxes -> Images \cup {None}]
  /\ keyOwner \in [Keys -> Sandboxes \cup {None}]
  /\ keyAction \in [Keys -> Intents]
  /\ response \in [Keys -> Responses]
  /\ imageStatus \in [Images -> Table!RowStates]
  /\ runtime \in [Containers -> RuntimeStates]
  /\ late \in [call : Calls \cup {"none"}, id : Containers \cup {None}]
  /\ op \in Workers

Nothing == [r \in Resources |-> 0]

Init ==
  /\ status = [s \in Sandboxes |-> "none"]
  /\ intent = [s \in Sandboxes |-> "none"]
  /\ config = [s \in Sandboxes |-> None]
  /\ expiry = [s \in Sandboxes |-> "never"]
  /\ reserved = [s \in Sandboxes |-> Nothing]
  /\ imageRef = [s \in Sandboxes |-> None]
  /\ keyOwner = [k \in Keys |-> None]
  /\ keyAction = [k \in Keys |-> "none"]
  /\ response = [k \in Keys |-> "none"]
  /\ Table!Init
  /\ runtime = [c \in Containers |-> "absent"]
  /\ late = NoCall
  /\ op = [Idle EXCEPT !.pc = "down"]

-----------------------------------------------------------------------------
(* Database helpers.                                                       *)

\* Capacity#reserve: the request fits beside all the other rows.
Fits(id, want) ==
  \A r \in Resources : want[r] <= Capacity[r] - Sum(reserved, Sandboxes \ {id}, r)

\* The retry record, inserted in the transaction that records the intent.
Remember(k, id, a) ==
  IF k = None
    THEN UNCHANGED retries
    ELSE /\ keyOwner' = [keyOwner EXCEPT ![k] = id]
         /\ keyAction' = [keyAction EXCEPT ![k] = a]
         /\ response' = [response EXCEPT ![k] = "pending"]

\* Mutant of Respond: WHERE response IS NULL is forgotten.
RespondAgain(id, what) ==
  /\ response' = [k \in Keys |-> IF keyOwner[k] = id THEN what ELSE response[k]]
  /\ UNCHANGED <<keyOwner, keyAction>>

\* Answers every retry record of id that has no response yet.
Respond(id, what) ==
  /\ response' = [k \in Keys |-> IF keyOwner[k] = id /\ response[k] = "pending"
                                   THEN what ELSE response[k]]
  /\ UNCHANGED <<keyOwner, keyAction>>

Fresh(k) == k \in Keys => response[k] = "none"

-----------------------------------------------------------------------------
(* The worker.                                                             *)

\* converge reads the intent and sends the first runtime request for it.
Converge(o, id, i) ==
  [o EXCEPT !.cur = id, !.intent = i, !.pc = IF i = "restart" THEN "stop" ELSE i]

\* Where the worker goes when it is done with one sandbox.
Return(o) ==
  IF o.sweep THEN [o EXCEPT !.pc = "pick", !.cur = None, !.intent = "none"]
             ELSE Idle

\* A sweep inspects the sandbox after a converge that did not delete it.
Converged(o, final) ==
  IF o.sweep /\ final # "deleted"
    THEN [o EXCEPT !.pc = "inspect", !.intent = "none"]
    ELSE Return(o)

\* The state a completed intent leaves in the journal.
Final(i) ==
  CASE i = "delete" -> "deleted"
    [] i = "stop" -> "stopped"
    [] i \in {"create", "start", "restart"} -> "running"

\* The state the journal shows while an accepted transition is pending.
Pending(a) ==
  CASE a = "start" -> "starting"
    [] a \in {"stop", "restart"} -> "stopping"
    [] a = "delete" -> "deleting"

\* The adapter's answer r to the lifecycle request the worker waits for. Its
\* lifecycle mutex makes the request wait for the one a dead API left behind.
Answer(r) ==
  /\ op.pc \in Calls
  /\ late = NoCall
  /\ r \in Results(op.pc, runtime[op.cur])
  /\ runtime' = [runtime EXCEPT ![op.cur] = r.state]
  /\ UNCHANGED late

-----------------------------------------------------------------------------
(* Requests.                                                               *)

\* A retry whose first attempt left no response: finish the work it recorded.
Retry(k) ==
  /\ op.pc = "idle"
  /\ response[k] = "pending"
  /\ intent[keyOwner[k]] # "none"
  /\ op' = Converge(Idle, keyOwner[k], intent[keyOwner[k]])
  /\ UNCHANGED <<journal, adapter>>

\* Requests that consume capacity first ask the adapter for its inventory.
AskAdmission(a, target, k) ==
  /\ op.pc = "idle"
  /\ Fresh(k)
  /\ a \in {"create", "start", "restart"}
  /\ target \in IF a = "create" THEN Configs ELSE Sandboxes
  /\ op' = [Idle EXCEPT !.pc = "admit", !.action = a, !.target = target, !.key = k]
  /\ UNCHANGED <<journal, adapter>>

\* Every container the adapter lists has a live row in the journal.
Accounted ==
  \A c \in Containers : runtime[c] \in Present =>
    c \in Sandboxes /\ status[c] \notin {"none", "deleted"}

\* The transaction that accepts a create, and the first runtime request.
AcceptCreate(id) ==
  /\ op.pc = "admit" /\ op.action = "create"
  /\ Accounted
  /\ status[id] = "none"
  /\ LET c == op.target IN
       /\ ImageOf[c] # None => imageStatus[ImageOf[c]] = "READY"
       /\ Fits(id, Demand[c])
       /\ status' = [status EXCEPT ![id] = "creating"]
       /\ intent' = [intent EXCEPT ![id] = "create"]
       /\ config' = [config EXCEPT ![id] = c]
       /\ expiry' = [expiry EXCEPT ![id] = IF HasTtl[c] THEN "ahead" ELSE "never"]
       /\ reserved' = [reserved EXCEPT ![id] = Demand[c]]
       /\ imageRef' = [imageRef EXCEPT ![id] = ImageOf[c]]
  /\ Remember(op.key, id, "create")
  /\ op' = Converge(Idle, id, "create")
  /\ UNCHANGED <<imageStatus, adapter>>

\* Mutant of Allowed: any operation may supersede pending work.
AllowedWhilePending(id, a) ==
  /\ status[id] # "none"
  /\ status[id] = "deleted" => a = "delete"

\* Only a deletion may supersede pending work, and only a deletion is accepted
\* for a deleted row.
Allowed(id, a) ==
  /\ status[id] # "none"
  /\ intent[id] # "none" => a = "delete"
  /\ status[id] = "deleted" => a = "delete"

\* The transaction that accepts a transition of an existing sandbox.
Accept(id, a, k) ==
  /\ Allowed(id, a)
  /\ IF a \in {"start", "restart"}
       THEN /\ Fits(id, Demand[config[id]])
            /\ reserved' = [reserved EXCEPT ![id] = Demand[config[id]]]
       ELSE UNCHANGED reserved
  /\ status' = [status EXCEPT ![id] = Pending(a)]
  /\ intent' = [intent EXCEPT ![id] = a]
  /\ Remember(k, id, a)
  /\ op' = Converge(Idle, id, a)
  /\ UNCHANGED <<config, expiry, imageRef, imageStatus, adapter>>

AcceptStart ==
  /\ op.pc = "admit" /\ op.action \in {"start", "restart"}
  /\ Accounted
  /\ Accept(op.target, op.action, op.key)

\* The inventory fails or is incomplete, the image is not ready, capacity is
\* exhausted or the row does not allow the transition.
Refuse ==
  /\ op.pc = "admit"
  /\ op' = Idle
  /\ UNCHANGED <<journal, adapter>>

AcceptStop(id, a, k) ==
  /\ op.pc = "idle"
  /\ Fresh(k)
  /\ a \in {"stop", "delete"}
  /\ Accept(id, a, k)

-----------------------------------------------------------------------------
(* converge.                                                               *)

\* A create continues with the start.
Created(r) ==
  /\ op.pc = "create"
  /\ Answer(r) /\ r.answer = "ok"
  /\ op' = [op EXCEPT !.pc = "start"]
  /\ UNCHANGED journal

\* Mutant of RestartStopped: the boundary between stop and start is not saved.
RestartUnrecorded(r) ==
  /\ op.pc = "stop" /\ op.intent = "restart"
  /\ Answer(r) /\ r.answer = "ok"
  /\ op' = [op EXCEPT !.pc = "start"]
  /\ UNCHANGED journal

\* A restart records that only its start is left.
RestartStopped(r) ==
  /\ op.pc = "stop" /\ op.intent = "restart"
  /\ Answer(r) /\ r.answer = "ok"
  /\ intent' = [intent EXCEPT ![op.cur] = "start"]
  /\ op' = [op EXCEPT !.pc = "start"]
  /\ UNCHANGED <<status, config, expiry, reserved, imageRef, retries, imageStatus>>

\* Mutant of Kept: a stopped sandbox gives its disk back too.
KeptNothing(final, held) ==
  [r \in Resources |-> IF final \in {"stopped", "deleted"} THEN 0 ELSE held[r]]

\* What the completion keeps of a row's reservation.
Kept(final, held) ==
  [r \in Resources |-> IF \/ final = "deleted"
                          \/ (final = "stopped" /\ r \in Compute)
                         THEN 0 ELSE held[r]]

\* The transaction that completes an intent.
Finish(r) ==
  /\ op.pc \in {"start", "delete"} \/ (op.pc = "stop" /\ op.intent # "restart")
  /\ Answer(r) /\ r.answer = "ok"
  /\ LET id == op.cur
         final == Final(op.intent)
     IN /\ status' = [status EXCEPT ![id] = final]
        /\ intent' = [intent EXCEPT ![id] = "none"]
        /\ reserved' = [reserved EXCEPT ![id] = Kept(final, reserved[id])]
        /\ imageRef' = [imageRef EXCEPT ![id] = IF final = "deleted" THEN None ELSE @]
        /\ Respond(id, final)
        /\ op' = Converged(op, final)
  /\ UNCHANGED <<config, expiry, imageStatus>>

\* A refused request leaves the intent for the next retry or sweep.
Refused(r) ==
  /\ op.intent # "create"
  /\ Answer(r) /\ r.answer = "error"
  /\ op' = Return(op)
  /\ UNCHANGED journal

\* A refused create is compensated: its retries get the error, and converge
\* runs again for the deletion.
CreateRefused(r) ==
  /\ op.intent = "create"
  /\ Answer(r) /\ r.answer = "error"
  /\ intent' = [intent EXCEPT ![op.cur] = "delete"]
  /\ status' = [status EXCEPT ![op.cur] = "deleting"]
  /\ Respond(op.cur, "failed")
  /\ op' = Converge(op, op.cur, "delete")
  /\ UNCHANGED <<config, expiry, reserved, imageRef, imageStatus>>

\* The adapter dies, or the connection fails: nobody knows what was done.
Lost(s) ==
  /\ op.pc \in Calls
  /\ late = NoCall
  /\ s \in Unanswered(op.pc, runtime[op.cur])
  /\ runtime' = [runtime EXCEPT ![op.cur] = s]
  /\ op' = Return(op)
  /\ UNCHANGED <<journal, late>>

-----------------------------------------------------------------------------
(* The reconcile sweep.                                                    *)

StartSweep ==
  /\ op.pc = "idle"
  /\ op' = [Idle EXCEPT !.pc = "list", !.sweep = TRUE]
  /\ UNCHANGED <<journal, adapter>>

\* Mutant of ToVisit: rows on their way to deletion are taken for deleted.
ToVisitSettled == {s \in Sandboxes : status[s] \notin {"none", "deleted", "deleting"}}

\* The rows a sweep visits.
ToVisit == {s \in Sandboxes : status[s] \notin {"none", "deleted"} \/ intent[s] # "none"}

\* Mutant of Orphans: a container without any row is left alone.
OrphansOfTombstones == {s \in Sandboxes : status[s] = "deleted" /\ runtime[s] \in Present}

\* Containers that are listed and neither to be visited nor alive in the journal.
Orphans ==
  {c \in Containers : /\ runtime[c] \in Present
                      /\ c \notin ToVisit
                      /\ c \in Sandboxes => status[c] \in {"none", "deleted"}}

\* The inventory is answered without the adapter's lifecycle mutex; the rows
\* to visit are read right after it.
Listed ==
  /\ op.pc = "list"
  /\ op' = [op EXCEPT !.pc = "pick", !.todo = ToVisit, !.orphans = Orphans]
  /\ UNCHANGED <<journal, adapter>>

\* A failed inventory is never taken for an empty runtime.
ListFails ==
  /\ op.pc = "list"
  /\ op' = Idle
  /\ UNCHANGED <<journal, adapter>>

Expired(id) == expiry[id] = "past"

\* The loop over the rows takes the next one.
Take(o, id) == [o EXCEPT !.todo = @ \ {id}]

\* Visit one row: an expired one is condemned, whatever it was doing.
Visit(id) ==
  /\ op.pc = "pick" /\ id \in op.todo
  /\ IF Expired(id)
       THEN /\ intent' = [intent EXCEPT ![id] = "delete"]
            /\ status' = [status EXCEPT ![id] = "deleting"]
            /\ op' = Converge(Take(op, id), id, "delete")
       ELSE /\ op' = IF intent[id] # "none"
                       THEN Converge(Take(op, id), id, intent[id])
                       ELSE [Take(op, id) EXCEPT !.pc = "inspect", !.cur = id]
            /\ UNCHANGED <<status, intent>>
  /\ UNCHANGED <<config, expiry, reserved, imageRef, retries, imageStatus, adapter>>

\* The container answers. The reservation is released in a second statement.
Inspected ==
  /\ op.pc = "inspect"
  /\ late = NoCall
  /\ runtime[op.cur] \in Present
  /\ status' = [status EXCEPT ![op.cur] = runtime[op.cur]]
  /\ op' = IF runtime[op.cur] = "stopped" THEN [op EXCEPT !.pc = "release"] ELSE Return(op)
  /\ UNCHANGED <<intent, config, expiry, reserved, imageRef, retries, imageStatus, adapter>>

Release ==
  /\ op.pc = "release"
  /\ reserved' = [reserved EXCEPT ![op.cur] = Kept("stopped", @)]
  /\ op' = Return(op)
  /\ UNCHANGED <<status, intent, config, expiry, imageRef, retries, imageStatus, adapter>>

\* The adapter answers 404.
Missing ==
  /\ op.pc = "inspect"
  /\ late = NoCall
  /\ runtime[op.cur] \notin Present
  /\ status' = [status EXCEPT ![op.cur] = "error"]
  /\ op' = Return(op)
  /\ UNCHANGED <<intent, config, expiry, reserved, imageRef, retries, imageStatus, adapter>>

InspectFails ==
  /\ op.pc = "inspect"
  /\ op' = Return(op)
  /\ UNCHANGED <<journal, adapter>>

\* After the rows, the orphans of the inventory taken at the beginning.
VisitOrphan(c) ==
  /\ op.pc = "pick" /\ op.todo = {} /\ c \in op.orphans
  /\ op' = [op EXCEPT !.pc = "purge", !.cur = c, !.orphans = @ \ {c}]
  /\ UNCHANGED <<journal, adapter>>

Purge(r) ==
  /\ op.pc = "purge"
  /\ late = NoCall
  /\ r \in DeleteResults(runtime[op.cur])
  /\ runtime' = [runtime EXCEPT ![op.cur] = r.state]
  /\ imageRef' = [s \in Sandboxes |->
                    IF r.answer = "ok" /\ s = op.cur THEN None ELSE imageRef[s]]
  /\ op' = Return(op)
  /\ UNCHANGED <<status, intent, config, expiry, reserved, retries, imageStatus, late>>

\* Last, the adapter removes storage and records that have no container.
AskAdapter ==
  /\ op.pc = "pick" /\ op.todo = {} /\ op.orphans = {}
  /\ op' = [op EXCEPT !.pc = "adapter"]
  /\ UNCHANGED <<journal, adapter>>

\* Containers in S lose what was left of them.
Sweep(S) == runtime' = [c \in Containers |-> IF c \in S THEN "absent" ELSE runtime[c]]

Residue == {c \in Containers : runtime[c] = "residue"}

AdapterReconciled ==
  /\ op.pc = "adapter"
  /\ late = NoCall
  /\ Sweep(Residue)
  /\ op' = Idle
  /\ UNCHANGED <<journal, late>>

AdapterFails(S) ==
  /\ op.pc = "adapter"
  /\ S \subseteq Residue
  /\ late = NoCall \/ S = {}
  /\ Sweep(S)
  /\ op' = Idle
  /\ UNCHANGED <<journal, late>>

-----------------------------------------------------------------------------
(* Crash and start of the API process.                                     *)

\* The call the adapter executes for the worker, if any.
Outstanding == IF op.pc = "purge" THEN "delete" ELSE op.pc

\* The process dies. Its request has been executed, or never will be, or the
\* adapter is still at it when the next process starts.
Crash ==
  /\ op.pc # "down"
  /\ op' = [Idle EXCEPT !.pc = "down"]
  /\ UNCHANGED <<journal, adapter>>

CrashDuringCall(s) ==
  /\ Outstanding \in Calls
  /\ late = NoCall
  /\ s \in Unanswered(Outstanding, runtime[op.cur])
  /\ runtime' = [runtime EXCEPT ![op.cur] = s]
  /\ op' = [Idle EXCEPT !.pc = "down"]
  /\ UNCHANGED <<journal, late>>

CrashLeavesCall ==
  /\ Outstanding \in Calls
  /\ late = NoCall
  /\ late' = [call |-> Outstanding, id |-> op.cur]
  /\ op' = [Idle EXCEPT !.pc = "down"]
  /\ UNCHANGED <<journal, runtime>>

LateFinish(s) ==
  /\ late # NoCall
  /\ s \in Unanswered(late.call, runtime[late.id])
  /\ runtime' = [runtime EXCEPT ![late.id] = s]
  /\ late' = NoCall
  /\ UNCHANGED <<journal, op>>

\* Builds do not survive the process. The first sweep runs before it listens.
Boot ==
  /\ op.pc = "down"
  /\ Table!Interrupt
  /\ op' = [Idle EXCEPT !.pc = "list", !.sweep = TRUE]
  /\ UNCHANGED <<rows, retries, adapter>>

-----------------------------------------------------------------------------
(* The image rows, as far as sandboxes depend on them. Their life is the   *)
(* abstract one of ImageTable, which the image manager is shown to         *)
(* implement (Images, ImplementsTable): store.failed and store.deleted     *)
(* have no guard of their own, their callers see to it. Images are not     *)
(* under the lifecycle mutex: only SQLite's transactions order them.       *)

\* A row moves; begin_delete refuses an image with a reservation.
ImageMoves(i) ==
  /\ op.pc # "down"
  /\ Table!Move(i)
  /\ imageStatus'[i] = "DELETING" => \A s \in Sandboxes : imageRef[s] # i
  /\ UNCHANGED <<rows, retries, adapter, op>>

-----------------------------------------------------------------------------
(* The world around the API.                                               *)

\* The sandbox's main process ends by itself.
TaskExits(c) ==
  /\ runtime[c] = "running"
  /\ runtime' = [runtime EXCEPT ![c] = "stopped"]
  /\ UNCHANGED <<journal, late, op>>

\* A container disappears behind the API's back; its storage may stay.
ContainerLost(c, s) ==
  /\ runtime[c] \in Present
  /\ runtime' = [runtime EXCEPT ![c] = s]
  /\ UNCHANGED <<journal, late, op>>

\* A managed container turns up that this journal does not know, as after a
\* restore of an older database.
StrayAppears(c) ==
  /\ runtime[c] = "absent"
  /\ runtime' = [runtime EXCEPT ![c] = "running"]
  /\ UNCHANGED <<journal, late, op>>

\* A restarted adapter reconciles before it listens.
AdapterStarts ==
  /\ late = NoCall
  /\ Residue # {}
  /\ Sweep(Residue)
  /\ UNCHANGED <<journal, late, op>>

\* The deadline of a sandbox passes.
Expire(id) ==
  /\ expiry[id] = "ahead"
  /\ expiry' = [expiry EXCEPT ![id] = "past"]
  /\ UNCHANGED <<status, intent, config, reserved, imageRef, retries, imageStatus, adapter, op>>

-----------------------------------------------------------------------------
Requests ==
  \/ \E k \in Keys : Retry(k)
  \/ \E a \in Actions, t \in Configs \cup Sandboxes, k \in Keys \cup {None} :
       AskAdmission(a, t, k)
  \/ \E id \in Sandboxes : AcceptCreate(id)
  \/ AcceptStart
  \/ Refuse
  \/ \E id \in Sandboxes, a \in Actions, k \in Keys \cup {None} : AcceptStop(id, a, k)

Answers == [answer : {"ok", "error"}, state : RuntimeStates]

Answered ==
  \E r \in Answers :
    \/ Created(r)
    \/ RestartStopped(r)
    \/ Finish(r)
    \/ Refused(r)
    \/ CreateRefused(r)

Convergence ==
  \/ Answered
  \/ \E s \in RuntimeStates : Lost(s)

Sweeping ==
  \/ StartSweep
  \/ Listed
  \/ ListFails
  \/ \E id \in Sandboxes : Visit(id)
  \/ Inspected
  \/ Release
  \/ Missing
  \/ InspectFails
  \/ \E c \in Containers : VisitOrphan(c)
  \/ \E r \in Answers : Purge(r)
  \/ AskAdapter
  \/ AdapterReconciled
  \/ \E S \in SUBSET Containers : AdapterFails(S)

Crashes ==
  \/ Crash
  \/ \E s \in RuntimeStates : CrashDuringCall(s)
  \/ CrashLeavesCall

Restarts ==
  \/ \E s \in RuntimeStates : LateFinish(s)
  \/ Boot

Environment ==
  \/ \E c \in Containers : TaskExits(c)
  \/ \E c \in Containers, s \in {"residue", "absent"} : ContainerLost(c, s)
  \/ \E c \in Strays : StrayAppears(c)
  \/ AdapterStarts
  \/ \E id \in Sandboxes : Expire(id)

Next ==
  \/ Requests
  \/ Convergence
  \/ Sweeping
  \/ Crashes
  \/ Restarts
  \/ \E i \in Images : ImageMoves(i)
  \/ Environment

Spec == Init /\ [][Next]_vars

-----------------------------------------------------------------------------
(* Safety.                                                                 *)

\* The reservations of all rows together never exceed the host's budgets,
\* whatever crashes, retries and sweeps interleave with admissions
\* (Capacity#reserve sums the other rows inside the intent transaction).
NoOvercommit == \A r \in Resources : Sum(reserved, Sandboxes, r) <= Capacity[r]

\* What the host really uses is reserved: a running task has its cpu and
\* memory reserved, and anything left on disk its disk ("Uncertain cleanup
\* retains its reservation", capacity.cr:19). The release in a sweep acts on
\* an inspection made earlier, and lost answers hide what the adapter did.
UseIsReserved ==
  \A s \in Sandboxes :
    /\ runtime[s] = "running" =>
         \A r \in Compute : reserved[s][r] = Demand[config[s]][r]
    /\ runtime[s] # "absent" => reserved[s]["disk"] = Demand[config[s]]["disk"]

\* A retry record without response belongs to a row with pending work, so
\* that a retry finds work to finish and then reads a response that is there
\* (Reliability#request reads it as a String right after converge).
PendingHasIntent ==
  \A k \in Keys : response[k] = "pending" => intent[keyOwner[k]] # "none"

\* Every lifecycle request the adapter executes is covered by an intent that
\* was committed before and that repeats it after a crash ("Lifecycle intent
\* commits before runtime IO, so recovery survives crashes").
CallIsJournalled ==
  op.pc \in Calls =>
    CASE op.pc = "create" -> intent[op.cur] = "create"
      [] op.pc = "start"  -> intent[op.cur] \in {"create", "start"}
      [] op.pc = "stop"   -> intent[op.cur] \in {"stop", "restart"}
      [] op.pc = "delete" -> intent[op.cur] = "delete"

\* The journal is ahead of the runtime: a call under way was recorded first,
\* and what is pending has the intent that a sweep resumes it from.
JournalLeads == PendingHasIntent /\ CallIsJournalled

\* A row that says deleted is final: nothing is left of the sandbox and it
\* holds neither capacity nor an image (the completion in converge).
DeletedIsGone ==
  \A s \in Sandboxes : status[s] = "deleted" =>
    /\ runtime[s] = "absent"
    /\ reserved[s] = Nothing
    /\ imageRef[s] = None
    /\ intent[s] = "none"

\* An image with a sandbox on the host stays ready: its deletion and the
\* admission of the sandbox check each other's table in one transaction, and
\* the reference outlives crashes and failed deletions.
ImageInUse ==
  \A s \in Sandboxes :
    runtime[s] # "absent" /\ ImageOf[config[s]] # None =>
      imageStatus[ImageOf[config[s]]] = "READY"

\* What sandboxes hold of the host is accounted for: the rows never promise
\* more than the host has, they cover whatever a container may be using, also
\* through a call of a dead API, and a reserved image stays READY.
ReservationsHold == NoOvercommit /\ UseIsReserved /\ ImageInUse

\* A stored response is never replaced ("Stored responses describe the
\* original operation"): converge fills only those that are NULL.
ResponsesAreStable ==
  [][\A k \in Keys : response[k] \notin {"none", "pending"} =>
       response'[k] = response[k]]_vars

\* No step takes a deletion back: neither a retry, nor a sweep's inspection,
\* nor a later request revives a condemned sandbox.
Condemned(s) == intent[s] = "delete" \/ status[s] = "deleted"
DeletionIsFinal ==
  [][\A s \in Sandboxes : Condemned(s) => Condemned(s)']_vars

\* A stored response fits its request, whoever completes the operation, after
\* whatever crashes and retries (converge answers all open requests of a row):
\* it is the state the request leads to, or says that the sandbox was deleted,
\* which is then so. An error is only stored for a create, and its sandbox goes.
ResponsesFit ==
  \A k \in Keys :
    /\ response[k] \in {"running", "stopped"} => response[k] = Final(keyAction[k])
    /\ response[k] = "failed" => keyAction[k] = "create"
    /\ response[k] \in {"deleted", "failed"} => Condemned(keyOwner[k])

\* What a client was told stays true: a stored response is not replaced, and
\* a sandbox that was deleted does not come back, by retries or late calls.
PromisesAreKept == ResponsesAreStable /\ DeletionIsFinal

-----------------------------------------------------------------------------
(* Liveness. The host process is eventually left running and the adapter   *)
(* is not unavailable for ever; nothing is assumed about clients.          *)

\* The holder of the mutex goes on: every runtime request is answered or its
\* connection fails (the adapter's timeouts, the client's read timeout).
Proceed ==
  /\ op.pc \notin {"idle", "down"}
  /\ AcceptStart \/ Refuse \/ Convergence \/ Sweeping \/ \E id \in Sandboxes : AcceptCreate(id)

\* A deletion of c that is tried again and again succeeds in the end.
Succeeds(c) ==
  \E r \in Answers : r.answer = "ok" /\ op.cur = c /\ op.pc \in {"delete", "purge"}
                     /\ (Finish(r) \/ Purge(r))

Fairness ==
  /\ WF_vars(Boot)
  /\ WF_vars(\E s \in RuntimeStates : LateFinish(s))
  /\ WF_vars(Proceed)
  \* The mutex is first come, first served, and the timer asks for it again.
  /\ SF_vars(StartSweep)
  /\ SF_vars(Listed)
  /\ \A c \in Containers : SF_vars(Succeeds(c))
  /\ <>[][~Crashes]_vars

FairSpec == Spec /\ Fairness

\* In addition, no request is lost every time and no inspection always fails.
ReachableSpec == FairSpec /\ SF_vars(Answered) /\ SF_vars(Inspected \/ Missing)

\* A sandbox past its deadline is deleted in the end, whatever it was doing
\* and whatever clients keep asking for (the expiry check in reconcile).
ExpiredIsDeleted ==
  \A s \in Sandboxes : expiry[s] = "past" ~> status[s] = "deleted"

\* An accepted deletion, a compensated create included, is carried through
\* without any help from the client.
DeletionCompletes ==
  \A s \in Sandboxes : intent[s] = "delete" ~> status[s] = "deleted"

\* A sandbox whose time has passed, or whose deletion was accepted, is gone
\* in the end, although calls fail, are lost and the API crashes.
EndedSandboxesGo == ExpiredIsDeleted /\ DeletionCompletes

\* A container the journal does not know is removed: sweeps cannot be starved
\* by requests, nor be stuck with another sandbox that keeps failing.
StraysAreRemoved ==
  \A c \in Strays : runtime[c] \in Present ~> runtime[c] \notin Present

-----------------------------------------------------------------------------
(* Statements of the documentation the code does not live up to.           *)

\* "Stored responses describe the original operation": the response of a
\* completed operation shows the state that operation leads to.
ResponseDescribesOperation ==
  \A k \in Keys : response[k] \in Finals => response[k] = Final(keyAction[k])

\* "Reads actual runtime state" of GET /v1/sandboxes/:id, which returns the
\* row: between operations the row's running or stopped is the runtime's.
GetReadsActualState ==
  \A s \in Sandboxes :
    op.pc = "idle" /\ status[s] \in Present => runtime[s] = status[s]

\* "marks missing containers as `error`": the row of a container that is gone
\* says so in the end, unless it is deleted or the container comes back.
MissingIsMarked ==
  \A s \in Sandboxes :
    status[s] \notin {"none", "deleted"} /\ runtime[s] \notin Present
      ~> status[s] \in {"error", "deleted"} \/ runtime[s] \in Present
=============================================================================
