--------------------------- MODULE LifecycleProofs ---------------------------
(***************************************************************************)
(* The safety properties of Lifecycle hold for every set of sandboxes,     *)
(* keys, configs and images, and for every demand and capacity.            *)
(*                                                                         *)
(* IndInv is the inductive invariant. It ties the worker to the journal    *)
(* (WorkerInv), the journal to the adapter (RowInv) and the request a dead *)
(* process left behind to both (LateInv).                                  *)
(***************************************************************************)
EXTENDS Lifecycle, FiniteSetTheorems, TLAPS

\* The worker acts on the intent the journal holds, and the release of a
\* reservation acts on an inspection that is still true.
WorkerInv ==
  /\ op.pc \in Calls \cup {"inspect", "release"} => op.cur \in Sandboxes
  /\ op.pc = "create" => op.intent = "create" /\ intent[op.cur] = "create"
  /\ op.pc = "start" => \/ op.intent = "create" /\ intent[op.cur] = "create"
                        \/ op.intent \in {"start", "restart"} /\ intent[op.cur] = "start"
  /\ op.pc = "stop" => op.intent \in {"stop", "restart"} /\ intent[op.cur] = op.intent
  /\ op.pc = "delete" => op.intent = "delete" /\ intent[op.cur] = "delete"
  /\ op.pc \in {"inspect", "release"} =>
       intent[op.cur] = "none" /\ status[op.cur] \notin {"none", "deleted"}
  /\ op.pc = "release" => late = NoCall /\ runtime[op.cur] # "running"
  /\ op.pc = "purge" => op.cur \in Strays
  /\ op.pc = "list" => op.cur = None
  /\ op.pc = "admit" => \/ op.action = "create" /\ op.target \in Configs
                        \/ op.action \in {"start", "restart"} /\ op.target \in Sandboxes
  /\ op.pc = "admit" => Fresh(op.key)
  /\ \A s \in op.todo : status[s] \notin {"none", "deleted"} /\ s # op.cur
  /\ op.orphans \subseteq Strays

\* What a row says, and what it holds for the container it describes.
RowInv ==
  \A s \in Sandboxes :
    /\ status[s] = "none" => /\ intent[s] = "none"
                             /\ runtime[s] = "absent"
    /\ status[s] # "none" => config[s] \in Configs
    /\ intent[s] \in {"create", "start", "restart"} => reserved[s] = Demand[config[s]]
    /\ intent[s] = "create" \/ runtime[s] # "absent" => imageRef[s] = ImageOf[config[s]]
    /\ imageRef[s] # None => imageStatus[imageRef[s]] = "READY"

\* A late start or create finds its resources and its image still held.
LateInv ==
  /\ late.call = "none" => late = NoCall
  /\ late.call # "none" => /\ late.id \in Containers
                           /\ late.id \in Sandboxes => status[late.id] # "none"
  /\ late.call \in {"create", "start"} =>
       /\ late.id \in Sandboxes
       /\ status[late.id] # "deleted"
       /\ reserved[late.id] = Demand[config[late.id]]
  /\ late.call = "create" => imageRef[late.id] = ImageOf[config[late.id]]

\* A retry without response has a row with work to finish.
RetryInv ==
  \A k \in Keys : response[k] = "pending" =>
    keyOwner[k] \in Sandboxes /\ intent[keyOwner[k]] # "none"

IndInv ==
  /\ TypeOK
  /\ WorkerInv
  /\ RetryInv
  /\ RowInv
  /\ LateInv
  /\ UseIsReserved
  /\ DeletedIsGone

-----------------------------------------------------------------------------
(* How a sum of reservations changes when one row changes; f and g are any *)
(* two tables.                                                             *)

\* The interval that stands for n units.
LEMMA UnitsOfOne ==
  ASSUME NEW n \in Nat
  PROVE  IsFiniteSet(1..n) /\ Cardinality(1..n) = n
<1> DEFINE a == 1
<1>1. a \in Int /\ n \in Int
  OBVIOUS
<1>2. /\ IsFiniteSet(a..n)
      /\ Cardinality(a..n) = IF a > n THEN 0 ELSE n - a + 1
  <2> HIDE DEF a
  <2> QED
    BY <1>1, FS_Interval
<1> QED
  BY <1>2

\* The sum of finitely many natural numbers is one.
LEMMA SumIsNatural ==
  ASSUME NEW S, IsFiniteSet(S), NEW f, NEW r,
         \A s \in S : f[s][r] \in Nat
  PROVE  IsFiniteSet(Units(f, S, r)) /\ Sum(f, S, r) \in Nat
<1> DEFINE Part(s) == {s} \X (1..f[s][r])
           Parts == {Part(s) : s \in S}
           part == [s \in S |-> Part(s)]
<1>1. part \in Surjection(S, Parts)
  BY DEF Surjection
<1>2. IsFiniteSet(Parts)
  BY <1>1, FS_Surjection
<1>3. ASSUME NEW T \in Parts
      PROVE  IsFiniteSet(T)
  <2>1. PICK s \in S : T = Part(s)
    OBVIOUS
  <2>2. IsFiniteSet({s}) /\ IsFiniteSet(1..f[s][r])
    BY FS_Singleton, UnitsOfOne
  <2> QED
    BY <2>1, <2>2, FS_Product
<1>4. IsFiniteSet(UNION Parts)
  BY <1>2, <1>3, FS_UNION
<1> QED
  BY <1>4, FS_CardinalityType DEF Units, Sum

\* A row counts with its own value beside the sum of the others.
LEMMA SumSplits ==
  ASSUME NEW S, IsFiniteSet(S), NEW f, NEW r, NEW s \in S,
         \A t \in S : f[t][r] \in Nat
  PROVE  Sum(f, S, r) = Sum(f, S \ {s}, r) + f[s][r]
<1> DEFINE Own == {s} \X (1..f[s][r])
           Rest == Units(f, S \ {s}, r)
<1>1. IsFiniteSet(S \ {s})
  BY FS_Difference
<1>2. IsFiniteSet(Rest) /\ Cardinality(Rest) \in Nat
  BY <1>1, SumIsNatural DEF Sum
<1>3. IsFiniteSet(Own) /\ Cardinality(Own) = f[s][r]
  <2>1. IsFiniteSet({s}) /\ Cardinality({s}) = 1
    BY FS_Singleton
  <2>2. IsFiniteSet(1..f[s][r]) /\ Cardinality(1..f[s][r]) = f[s][r]
    BY UnitsOfOne
  <2>3. IsFiniteSet(Own) /\ Cardinality(Own) = Cardinality({s}) * Cardinality(1..f[s][r])
    BY <2>1, <2>2, FS_Product
  <2> QED
    BY <2>1, <2>2, <2>3
<1>4. Units(f, S, r) = Rest \cup Own
  BY DEF Units
<1>5. Rest \cap Own = {}
  BY DEF Units
<1>6. Cardinality(Rest \cap Own) = 0
  BY <1>5, FS_EmptySet
<1>7. Cardinality(Rest \cup Own) = Cardinality(Rest) + Cardinality(Own) - Cardinality(Rest \cap Own)
  BY <1>2, <1>3, FS_Union
<1> QED
  BY <1>2, <1>3, <1>4, <1>6, <1>7 DEF Sum

\* Lowering rows does not raise the sum.
LEMMA SumIsMonotonic ==
  ASSUME NEW S, IsFiniteSet(S), NEW f, NEW g, NEW r,
         \A s \in S : f[s][r] \in Nat /\ g[s][r] \in Nat /\ g[s][r] <= f[s][r]
  PROVE  Sum(g, S, r) <= Sum(f, S, r)
<1>1. IsFiniteSet(Units(f, S, r))
  BY SumIsNatural
<1>2. Units(g, S, r) \subseteq Units(f, S, r)
  <2>1. ASSUME NEW s \in S
        PROVE  {s} \X (1..g[s][r]) \subseteq {s} \X (1..f[s][r])
    OBVIOUS
  <2> QED
    BY <2>1 DEF Units
<1> QED
  BY <1>1, <1>2, FS_Subset DEF Sum

-----------------------------------------------------------------------------
(* What the adapter's answers can do to a container.                       *)

\* Only a start brings a task to life and only a create brings a sandbox
\* into being, whether they are answered or not.
LEMMA ResultFacts ==
  ASSUME NEW call \in Calls, NEW s \in RuntimeStates, NEW r \in Results(call, s)
  PROVE  /\ r.state \in RuntimeStates
         /\ r.state = "running" => s = "running" \/ call = "start"
         /\ r.state # "absent" => s # "absent" \/ call = "create"
         /\ r.answer = "ok" /\ call = "delete" => r.state = "absent"
         /\ r.answer = "ok" /\ call = "stop" => r.state = "stopped"
<1>1. CASE call = "create"
  BY <1>1 DEF Results, CreateResults, Ok, Error, Present, RuntimeStates
<1>2. CASE call = "start"
  BY <1>2 DEF Results, StartResults, Ok, Error, Present, RuntimeStates
<1>3. CASE call = "stop"
  BY <1>3 DEF Results, StopResults, Ok, Error, Present, RuntimeStates
<1>4. CASE call = "delete"
  BY <1>4 DEF Results, DeleteResults, Ok, Error, Present, RuntimeStates
<1> QED
  BY <1>1, <1>2, <1>3, <1>4 DEF Calls

LEMMA UnansweredFacts ==
  ASSUME NEW call \in Calls, NEW s \in RuntimeStates, NEW t \in Unanswered(call, s)
  PROVE  /\ t \in RuntimeStates
         /\ t = "running" => s = "running" \/ call = "start"
         /\ t # "absent" => s # "absent" \/ call = "create"
BY ResultFacts DEF Unanswered

-----------------------------------------------------------------------------
(* The worker record.                                                      *)

LEMMA WorkerTypes ==
  ASSUME NEW o \in Workers
  PROVE  /\ Idle \in Workers
         /\ [Idle EXCEPT !.pc = "down"] \in Workers
         /\ [Idle EXCEPT !.pc = "list", !.sweep = TRUE] \in Workers
         /\ Return(o) \in Workers
         /\ \A final : Converged(o, final) \in Workers
         /\ \A id \in Containers, i \in Actions : Converge(o, id, i) \in Workers
         /\ \A pc \in PCs : [o EXCEPT !.pc = pc] \in Workers
<1> USE DEF Workers, PCs, Intents, Actions, Calls
<1>1. Idle \in Workers
  BY DEF Idle
<1>2. [Idle EXCEPT !.pc = "down"] \in Workers /\ [Idle EXCEPT !.pc = "list", !.sweep = TRUE] \in Workers
  BY DEF Idle
<1>3. Return(o) \in Workers
  <2>1. [o EXCEPT !.pc = "pick", !.cur = None, !.intent = "none"] \in Workers
    OBVIOUS
  <2> HIDE DEF Workers
  <2> QED
    BY <1>1, <2>1, Zenon DEF Return
<1>4. \A final : Converged(o, final) \in Workers
  BY <1>3 DEF Converged
<1>5. ASSUME NEW id \in Containers, NEW i \in Actions
      PROVE  Converge(o, id, i) \in Workers
  <2>1. CASE i = "restart"
    BY <2>1 DEF Converge
  <2>2. CASE i # "restart"
    <3>1. i \in PCs
      BY <2>2
    <3>2. [o EXCEPT !.cur = id, !.intent = i, !.pc = i] \in Workers
      BY <3>1
    <3> HIDE DEF Workers
    <3> QED
      BY <2>2, <3>2 DEF Converge
  <2> QED
    BY <2>1, <2>2
<1>6. \A pc \in PCs : [o EXCEPT !.pc = pc] \in Workers
  OBVIOUS
<1> HIDE DEF Workers, PCs, Intents, Actions, Calls
<1> QED
  BY <1>1, <1>2, <1>3, <1>4, <1>5, <1>6

-----------------------------------------------------------------------------
(* Steps of the adapter.                                                   *)

\* The row pays for a task, and for storage, that may come into being.
Backed(s) == status[s] \notin {"none", "deleted"} /\ reserved[s] = Demand[config[s]]

\* Containers change only in ways the journal is prepared for.
RuntimeStep ==
  /\ runtime' \in [Containers -> RuntimeStates]
  /\ \A s \in Sandboxes :
       /\ runtime'[s] = "running" => runtime[s] = "running" \/ Backed(s)
       /\ runtime'[s] # "absent" =>
            \/ runtime[s] # "absent"
            \/ Backed(s) /\ imageRef[s] = ImageOf[config[s]]

\* The worker's request, answered or not, is such a step.
LEMMA CallStep ==
  ASSUME IndInv, op.pc \in Calls,
         NEW t \in Unanswered(op.pc, runtime[op.cur]),
         runtime' = [runtime EXCEPT ![op.cur] = t]
  PROVE  RuntimeStep
<1>1. op.cur \in Sandboxes /\ op.cur \in Containers
  BY DEF IndInv, WorkerInv, Containers
<1>2. runtime[op.cur] \in RuntimeStates /\ runtime \in [Containers -> RuntimeStates]
  BY <1>1 DEF IndInv, TypeOK
<1>3. /\ t \in RuntimeStates
      /\ t = "running" => runtime[op.cur] = "running" \/ op.pc = "start"
      /\ t # "absent" => runtime[op.cur] # "absent" \/ op.pc = "create"
  BY <1>2, UnansweredFacts
<1>4. op.pc \in {"create", "start"} => Backed(op.cur)
  BY <1>1 DEF IndInv, WorkerInv, RowInv, DeletedIsGone, Backed
<1>5. op.pc = "create" => imageRef[op.cur] = ImageOf[config[op.cur]]
  BY <1>1 DEF IndInv, WorkerInv, RowInv
<1> QED
  BY <1>1, <1>2, <1>3, <1>4, <1>5 DEF RuntimeStep, Containers

\* So is the end of the request a dead process left behind.
LEMMA LateStep ==
  ASSUME IndInv, late # NoCall,
         NEW t \in Unanswered(late.call, runtime[late.id]),
         runtime' = [runtime EXCEPT ![late.id] = t]
  PROVE  RuntimeStep
<1>1. late.call \in Calls /\ late.id \in Containers
  BY DEF IndInv, LateInv, TypeOK
<1>2. runtime[late.id] \in RuntimeStates /\ runtime \in [Containers -> RuntimeStates]
  BY <1>1 DEF IndInv, TypeOK
<1>3. /\ t \in RuntimeStates
      /\ t = "running" => runtime[late.id] = "running" \/ late.call = "start"
      /\ t # "absent" => runtime[late.id] # "absent" \/ late.call = "create"
  BY <1>1, <1>2, UnansweredFacts
<1>4. late.call \in {"create", "start"} => Backed(late.id)
  BY <1>1 DEF IndInv, LateInv, Backed
<1>5. late.call = "create" => imageRef[late.id] = ImageOf[config[late.id]]
  BY DEF IndInv, LateInv
<1> QED
  BY <1>1, <1>2, <1>3, <1>4, <1>5 DEF RuntimeStep, Containers

\* A step of the adapter alone keeps what the journal says true.
LEMMA RuntimeStepKeepsRows ==
  ASSUME IndInv, RuntimeStep, UNCHANGED journal
  PROVE  RetryInv' /\ RowInv' /\ UseIsReserved' /\ DeletedIsGone'
<1> USE DEF journal, rows, retries
<1>1. RetryInv'
  BY DEF IndInv, RetryInv
<1>2. RowInv'
  BY DEF IndInv, RowInv, RuntimeStep, Backed
<1>3. UseIsReserved'
  BY DEF IndInv, UseIsReserved, RuntimeStep, Backed, Compute
<1>4. DeletedIsGone'
  BY DEF IndInv, DeletedIsGone, RuntimeStep, Backed
<1> QED
  BY <1>1, <1>2, <1>3, <1>4

\* A step of the worker alone has only the worker's part to show.
LEMMA WorkerStep ==
  ASSUME IndInv, UNCHANGED <<journal, adapter>>, op' \in Workers, WorkerInv'
  PROVE  IndInv'
<1> USE DEF journal, rows, retries, adapter
<1>1. TypeOK'
  BY DEF IndInv, TypeOK
<1>2. RetryInv' /\ LateInv'
  BY DEF IndInv, RetryInv, LateInv
<1>3. RowInv' /\ UseIsReserved' /\ DeletedIsGone'
  BY DEF IndInv, RowInv, UseIsReserved, DeletedIsGone
<1> QED
  BY <1>1, <1>2, <1>3 DEF IndInv

\* A worker that holds nothing, or begins a sweep, satisfies WorkerInv.
LEMMA QuietWorker ==
  ASSUME \/ op' = Idle
         \/ op' = [Idle EXCEPT !.pc = "down"]
         \/ op' = [Idle EXCEPT !.pc = "list", !.sweep = TRUE]
  PROVE  WorkerInv' /\ op' \in Workers
<1>1. op'.pc \in {"idle", "down", "list"} /\ op'.todo = {} /\ op'.orphans = {} /\ op'.cur = None
  <2>1. CASE op' = Idle
    BY <2>1 DEF Idle
  <2>2. CASE op' = [Idle EXCEPT !.pc = "down"]
    BY <2>2 DEF Idle
  <2>3. CASE op' = [Idle EXCEPT !.pc = "list", !.sweep = TRUE]
    BY <2>3 DEF Idle
  <2> QED
    BY <2>1, <2>2, <2>3
<1>2. WorkerInv'
  BY <1>1 DEF WorkerInv, Calls
<1>3. Idle \in Workers
  BY DEF Idle, Workers, PCs, Intents, Actions
<1>4. op' \in Workers
  BY <1>3, WorkerTypes
<1> QED
  BY <1>2, <1>4

\* So does one that is done with a sandbox.
LEMMA ReturnedWorker ==
  ASSUME IndInv, op' = Return(op),
         \A s \in op.todo : status'[s] \notin {"none", "deleted"}
  PROVE  WorkerInv' /\ op' \in Workers
<1>1. op \in Workers
  BY DEF IndInv, TypeOK
<1>2. op' \in Workers
  BY <1>1, WorkerTypes
<1>3. CASE op.sweep
  <2>1. op' = [op EXCEPT !.pc = "pick", !.cur = None, !.intent = "none"]
    BY <1>3 DEF Return
  <2>2. op'.pc = "pick" /\ op'.cur = None /\ op'.todo = op.todo /\ op'.orphans = op.orphans
    BY <1>1, <2>1 DEF Workers
  <2>3. None \notin op.todo
    BY <1>1, ConstantsAssumption DEF Workers
  <2> QED
    BY <1>2, <2>2, <2>3 DEF IndInv, WorkerInv, Calls
<1>4. CASE ~ op.sweep
  BY <1>4, QuietWorker DEF Return
<1> QED
  BY <1>3, <1>4

\* So does one that takes up the intent in the journal.
LEMMA ConvergingWorker ==
  ASSUME NEW o \in Workers, NEW id \in Sandboxes, NEW i \in Actions,
         op' = Converge(o, id, i), intent'[id] = i,
         \A s \in o.todo : status'[s] \notin {"none", "deleted"} /\ s # id,
         o.orphans \subseteq Strays
  PROVE  WorkerInv' /\ op' \in Workers
<1>1. op' \in Workers
  BY WorkerTypes DEF Containers
<1>2. /\ op'.pc = IF i = "restart" THEN "stop" ELSE i
      /\ op'.intent = i /\ op'.cur = id
      /\ op'.todo = o.todo /\ op'.orphans = o.orphans
  BY DEF Converge, Workers
<1>3. WorkerInv'
  <2>1. CASE i = "restart"
    BY <1>2, <2>1 DEF WorkerInv, Calls
  <2>2. CASE i # "restart"
    BY <1>2, <2>2 DEF WorkerInv, Calls, Actions
  <2> QED
    BY <2>1, <2>2
<1> QED
  BY <1>1, <1>3

-----------------------------------------------------------------------------
(* Init.                                                                   *)

LEMMA InitInv == Init => IndInv
<1> SUFFICES ASSUME Init PROVE IndInv
  OBVIOUS
<1>1. op \in Workers /\ WorkerInv
  BY DEF Init, Idle, Workers, PCs, Intents, Actions, WorkerInv, Calls
<1>2. TypeOK
  BY <1>1 DEF Init, TypeOK, Statuses, Intents, Responses, Table!Init, Table!RowStates, RuntimeStates,
              NoCall, Nothing
<1>3. RetryInv /\ LateInv
  BY DEF Init, RetryInv, LateInv, NoCall
<1>4. RowInv /\ UseIsReserved /\ DeletedIsGone
  BY DEF Init, RowInv, UseIsReserved, DeletedIsGone, Containers
<1> QED
  BY <1>1, <1>2, <1>3, <1>4 DEF IndInv

-----------------------------------------------------------------------------
(* Requests.                                                               *)

\* Recording a retry for a row with an intent keeps RetryInv and the types.
LEMMA Remembered ==
  ASSUME IndInv, NEW k \in Keys \cup {None}, NEW id \in Sandboxes, NEW a \in Actions,
         Remember(k, id, a), intent'[id] = a,
         \A s \in Sandboxes \ {id} : intent'[s] = intent[s]
  PROVE  /\ RetryInv'
         /\ keyOwner' \in [Keys -> Sandboxes \cup {None}]
         /\ keyAction' \in [Keys -> Intents]
         /\ response' \in [Keys -> Responses]
<1>1. a # "none"
  BY DEF Actions
<1>2. CASE k = None
  BY <1>1, <1>2 DEF IndInv, TypeOK, RetryInv, Remember, retries
<1>3. CASE k # None
  <2>1. /\ k \in Keys
        /\ keyOwner' = [keyOwner EXCEPT ![k] = id]
        /\ keyAction' = [keyAction EXCEPT ![k] = a]
        /\ response' = [response EXCEPT ![k] = "pending"]
    BY <1>3 DEF Remember
  <2> QED
    BY <1>1, <2>1 DEF IndInv, TypeOK, RetryInv, Intents, Responses
<1> QED
  BY <1>2, <1>3

LEMMA AcceptCreateInv ==
  ASSUME IndInv, NEW id \in Sandboxes, AcceptCreate(id)
  PROVE  IndInv'
<1> DEFINE c == op.target
<1>1. /\ c \in Configs /\ op.key \in Keys \cup {None}
      /\ status[id] = "none" /\ runtime[id] = "absent"
  BY DEF IndInv, WorkerInv, TypeOK, Workers, AcceptCreate, RowInv
<1>2. /\ Demand[c] \in [Resources -> Nat] /\ ImageOf[c] \in Images \cup {None}
      /\ ImageOf[c] # None => imageStatus[ImageOf[c]] = "READY"
  BY <1>1, ConstantsAssumption DEF AcceptCreate
<1>3. /\ status' = [status EXCEPT ![id] = "creating"]
      /\ intent' = [intent EXCEPT ![id] = "create"]
      /\ config' = [config EXCEPT ![id] = c]
      /\ expiry' = [expiry EXCEPT ![id] = IF HasTtl[c] THEN "ahead" ELSE "never"]
      /\ reserved' = [reserved EXCEPT ![id] = Demand[c]]
      /\ imageRef' = [imageRef EXCEPT ![id] = ImageOf[c]]
      /\ UNCHANGED <<imageStatus, runtime, late>>
  BY DEF AcceptCreate, adapter
<1>4. /\ RetryInv'
      /\ keyOwner' \in [Keys -> Sandboxes \cup {None}]
      /\ keyAction' \in [Keys -> Intents]
      /\ response' \in [Keys -> Responses]
  <2>1. intent'[id] = "create" /\ \A s \in Sandboxes \ {id} : intent'[s] = intent[s]
    BY <1>3 DEF IndInv, TypeOK
  <2>2. "create" \in Actions /\ Remember(op.key, id, "create")
    BY DEF Actions, AcceptCreate
  <2> QED
    BY <1>1, <2>1, <2>2, Remembered
<1>5. WorkerInv' /\ op' \in Workers
  <2>1. Idle \in Workers /\ Idle.todo = {} /\ Idle.orphans = {}
    BY DEF Idle, Workers, PCs, Intents, Actions
  <2>2. op' = Converge(Idle, id, "create") /\ "create" \in Actions
    BY DEF AcceptCreate, Actions
  <2>3. intent'[id] = "create"
    BY <1>3 DEF IndInv, TypeOK
  <2> QED
    BY <2>1, <2>2, <2>3, ConvergingWorker
<1>6. TypeOK'
  <2>1. expiry' \in [Sandboxes -> {"never", "ahead", "past"}]
    BY <1>3 DEF IndInv, TypeOK
  <2> QED
    BY <1>1, <1>2, <1>3, <1>4, <1>5, <2>1 DEF IndInv, TypeOK, Statuses, Intents, Actions
<1>7. RowInv'
  BY <1>1, <1>2, <1>3 DEF IndInv, TypeOK, RowInv
<1>8. LateInv'
  BY <1>1, <1>3 DEF IndInv, TypeOK, LateInv, NoCall
<1>9. UseIsReserved' /\ DeletedIsGone'
  BY <1>1, <1>3 DEF IndInv, TypeOK, UseIsReserved, DeletedIsGone
<1> QED
  BY <1>4, <1>5, <1>6, <1>7, <1>8, <1>9 DEF IndInv

LEMMA AcceptInv ==
  ASSUME IndInv, NEW id \in Sandboxes, NEW a \in Actions \ {"create"},
         NEW k \in Keys \cup {None}, Accept(id, a, k)
  PROVE  IndInv'
<1> DEFINE want == Demand[config[id]]
<1>1. status[id] # "none" /\ config[id] \in Configs /\ want \in [Resources -> Nat]
  BY ConstantsAssumption DEF IndInv, RowInv, Accept, Allowed
<1>2. Pending(a) \in {"starting", "stopping", "deleting"}
  BY DEF Pending, Actions
<1>3. /\ status' = [status EXCEPT ![id] = Pending(a)]
      /\ intent' = [intent EXCEPT ![id] = a]
      /\ UNCHANGED <<config, expiry, imageRef, imageStatus, runtime, late>>
  BY DEF Accept, Allowed, adapter
<1>4. /\ a \in {"start", "restart"} => reserved' = [reserved EXCEPT ![id] = want]
      /\ a \notin {"start", "restart"} => reserved' = reserved
  BY DEF Accept, Allowed
<1>5. intent'[id] = a /\ \A s \in Sandboxes \ {id} : intent'[s] = intent[s]
  BY <1>3 DEF IndInv, TypeOK
<1>6. /\ RetryInv'
      /\ keyOwner' \in [Keys -> Sandboxes \cup {None}]
      /\ keyAction' \in [Keys -> Intents]
      /\ response' \in [Keys -> Responses]
  <2>1. Remember(k, id, a)
    BY DEF Accept, Allowed
  <2> QED
    BY <1>5, <2>1, Remembered
<1>7. WorkerInv' /\ op' \in Workers
  <2>1. Idle \in Workers /\ Idle.todo = {} /\ Idle.orphans = {}
    BY DEF Idle, Workers, PCs, Intents, Actions
  <2>2. op' = Converge(Idle, id, a)
    BY DEF Accept, Allowed
  <2> QED
    BY <1>5, <2>1, <2>2, ConvergingWorker
<1>8. reserved' \in [Sandboxes -> [Resources -> Nat]]
  BY <1>1, <1>4 DEF IndInv, TypeOK
<1>9. TypeOK'
  BY <1>2, <1>3, <1>6, <1>7, <1>8 DEF IndInv, TypeOK, Statuses, Intents
<1>10. RowInv'
  BY <1>1, <1>2, <1>3, <1>4 DEF IndInv, TypeOK, RowInv
<1>11. LateInv'
  BY <1>1, <1>2, <1>3, <1>4 DEF IndInv, TypeOK, LateInv, NoCall
<1>12. UseIsReserved'
  BY <1>1, <1>3, <1>4 DEF IndInv, TypeOK, UseIsReserved
<1>13. DeletedIsGone'
  BY <1>1, <1>2, <1>3, <1>4 DEF IndInv, TypeOK, DeletedIsGone
<1> QED
  BY <1>6, <1>7, <1>9, <1>10, <1>11, <1>12, <1>13 DEF IndInv

LEMMA RequestsInv ==
  ASSUME IndInv, Requests
  PROVE  IndInv'
<1> USE DEF Requests
<1>1. ASSUME NEW k \in Keys, Retry(k)
      PROVE  IndInv'
  <2> DEFINE id == keyOwner[k]
  <2>1. id \in Sandboxes /\ intent[id] \in Actions
    BY <1>1 DEF Retry, IndInv, RetryInv, TypeOK, Intents
  <2>2. Idle \in Workers /\ Idle.todo = {} /\ Idle.orphans = {}
    BY DEF Idle, Workers, PCs, Intents, Actions
  <2>3. UNCHANGED <<journal, adapter>> /\ op' = Converge(Idle, id, intent[id])
    BY <1>1 DEF Retry
  <2>4. intent' = intent
    BY <2>3 DEF journal, rows
  <2>5. WorkerInv' /\ op' \in Workers
    BY <2>1, <2>2, <2>3, <2>4, ConvergingWorker
  <2> QED
    BY <2>3, <2>5, WorkerStep
<1>2. ASSUME NEW a \in Actions, NEW target \in Configs \cup Sandboxes,
             NEW k \in Keys \cup {None}, AskAdmission(a, target, k)
      PROVE  IndInv'
  <2>1. /\ a \in {"create", "start", "restart"}
        /\ target \in IF a = "create" THEN Configs ELSE Sandboxes
        /\ op' = [Idle EXCEPT !.pc = "admit", !.action = a, !.target = target, !.key = k]
        /\ UNCHANGED <<journal, adapter>>
    BY <1>2 DEF AskAdmission
  <2>2. op' \in Workers
    BY <2>1 DEF Idle, Workers, PCs, Intents, Actions
  <2>3. /\ op'.pc = "admit" /\ op'.action = a /\ op'.target = target
        /\ op'.todo = {} /\ op'.orphans = {}
    BY <2>1 DEF Idle
  <2>4. op'.key = k /\ Fresh(k)'
    BY <1>2, <2>1 DEF AskAdmission, Idle, Fresh, journal, retries
  <2>5. WorkerInv'
    BY <2>1, <2>3, <2>4 DEF WorkerInv, Calls, Fresh
  <2> QED
    BY <2>1, <2>2, <2>5, WorkerStep
<1>3. CASE \E id \in Sandboxes : AcceptCreate(id)
  BY <1>3, AcceptCreateInv
<1>4. CASE AcceptStart
  <2>1. /\ op.target \in Sandboxes /\ op.action \in Actions \ {"create"}
        /\ op.key \in Keys \cup {None}
    BY <1>4 DEF AcceptStart, IndInv, WorkerInv, TypeOK, Workers, Actions
  <2> QED
    BY <1>4, <2>1, AcceptInv DEF AcceptStart
<1>5. CASE Refuse
  BY <1>5, QuietWorker, WorkerStep DEF Refuse
<1>6. ASSUME NEW id \in Sandboxes, NEW a \in Actions, NEW k \in Keys \cup {None},
             AcceptStop(id, a, k)
      PROVE  IndInv'
  BY <1>6, AcceptInv DEF AcceptStop
<1> QED
  BY <1>1, <1>2, <1>3, <1>4, <1>5, <1>6

-----------------------------------------------------------------------------
(* converge.                                                               *)

\* An answer is one of the unanswered outcomes, and more is known about it.
LEMMA AnswerStep ==
  ASSUME IndInv, NEW r, Answer(r)
  PROVE  /\ RuntimeStep /\ late = NoCall /\ late' = late
         /\ op.cur \in Sandboxes /\ op.cur \in Containers
         /\ runtime' = [runtime EXCEPT ![op.cur] = r.state]
         /\ r.answer = "ok" /\ op.pc = "delete" => runtime'[op.cur] = "absent"
         /\ r.answer = "ok" /\ op.pc = "stop" => runtime'[op.cur] = "stopped"
<1>1. /\ op.pc \in Calls /\ late = NoCall /\ late' = late
      /\ r \in Results(op.pc, runtime[op.cur])
      /\ runtime' = [runtime EXCEPT ![op.cur] = r.state]
  BY DEF Answer
<1>2. op.cur \in Sandboxes /\ op.cur \in Containers
  BY <1>1 DEF IndInv, WorkerInv, Containers
<1>3. runtime[op.cur] \in RuntimeStates /\ runtime'[op.cur] = r.state
  BY <1>1, <1>2 DEF IndInv, TypeOK
<1>4. r.state \in Unanswered(op.pc, runtime[op.cur])
  BY <1>1 DEF Unanswered
<1>5. RuntimeStep
  BY <1>1, <1>4, CallStep
<1>6. /\ r.answer = "ok" /\ op.pc = "delete" => r.state = "absent"
      /\ r.answer = "ok" /\ op.pc = "stop" => r.state = "stopped"
  BY <1>1, <1>3, ResultFacts
<1> QED
  BY <1>1, <1>2, <1>3, <1>5, <1>6

LEMMA CreatedInv ==
  ASSUME IndInv, NEW r, Created(r)
  PROVE  IndInv'
<1>1. /\ RuntimeStep /\ late = NoCall /\ late' = late /\ UNCHANGED journal
      /\ op.pc = "create" /\ op' = [op EXCEPT !.pc = "start"]
  BY AnswerStep DEF Created
<1>2. op \in Workers /\ "start" \in PCs
  BY DEF IndInv, TypeOK, PCs, Calls
<1>3. op' \in Workers
  BY <1>1, <1>2, WorkerTypes
<1>4. /\ op'.pc = "start" /\ op'.intent = op.intent /\ op'.cur = op.cur
      /\ op'.todo = op.todo /\ op'.orphans = op.orphans
  BY <1>1, <1>2 DEF Workers
<1>5. WorkerInv'
  BY <1>1, <1>4 DEF IndInv, WorkerInv, Calls, journal, rows
<1>6. TypeOK'
  BY <1>1, <1>3 DEF IndInv, TypeOK, RuntimeStep, journal, rows, retries
<1>7. LateInv'
  BY <1>1 DEF LateInv, NoCall
<1> QED
  BY <1>1, <1>5, <1>6, <1>7, RuntimeStepKeepsRows DEF IndInv

LEMMA RestartStoppedInv ==
  ASSUME IndInv, NEW r, RestartStopped(r)
  PROVE  IndInv'
<1> DEFINE id == op.cur
<1>1. /\ RuntimeStep /\ late = NoCall /\ late' = late /\ id \in Sandboxes
      /\ op.pc = "stop" /\ op.intent = "restart" /\ op' = [op EXCEPT !.pc = "start"]
      /\ intent' = [intent EXCEPT ![id] = "start"]
      /\ UNCHANGED <<status, config, expiry, reserved, imageRef, retries, imageStatus>>
  BY AnswerStep DEF RestartStopped
<1>2. op \in Workers /\ "start" \in PCs
  BY DEF IndInv, TypeOK, PCs, Calls
<1>3. op' \in Workers
  BY <1>1, <1>2, WorkerTypes
<1>4. /\ op'.pc = "start" /\ op'.intent = "restart" /\ op'.cur = id
      /\ op'.todo = op.todo /\ op'.orphans = op.orphans
  BY <1>1, <1>2 DEF Workers
<1>5. intent[id] = "restart" /\ intent'[id] = "start"
  BY <1>1 DEF IndInv, WorkerInv, TypeOK
<1>6. WorkerInv'
  BY <1>1, <1>4, <1>5 DEF IndInv, WorkerInv, Calls
<1>7. TypeOK'
  BY <1>1, <1>3 DEF IndInv, TypeOK, RuntimeStep, retries, Intents, Actions
<1>8. LateInv'
  BY <1>1 DEF LateInv, NoCall
<1>9. RetryInv'
  BY <1>1, <1>5 DEF IndInv, TypeOK, RetryInv, retries
<1>10. RowInv'
  BY <1>1, <1>5 DEF IndInv, TypeOK, RowInv, RuntimeStep, Backed
<1>11. UseIsReserved'
  BY <1>1 DEF IndInv, UseIsReserved, RuntimeStep, Backed, Compute
<1>12. DeletedIsGone'
  BY <1>1, <1>5 DEF IndInv, TypeOK, DeletedIsGone, RuntimeStep, Backed
<1> QED
  BY <1>6, <1>7, <1>8, <1>9, <1>10, <1>11, <1>12 DEF IndInv

\* Filling in responses answers every retry of the row.
LEMMA Responded ==
  ASSUME IndInv, NEW id \in Sandboxes, NEW what \in Responses \ {"pending"},
         Respond(id, what),
         \A s \in Sandboxes \ {id} : intent'[s] = intent[s]
  PROVE  /\ RetryInv'
         /\ keyOwner' \in [Keys -> Sandboxes \cup {None}]
         /\ keyAction' \in [Keys -> Intents]
         /\ response' \in [Keys -> Responses]
<1>1. /\ response' = [k \in Keys |-> IF keyOwner[k] = id /\ response[k] = "pending"
                                       THEN what ELSE response[k]]
      /\ UNCHANGED <<keyOwner, keyAction>>
  BY DEF Respond
<1>2. response' \in [Keys -> Responses]
  BY <1>1 DEF IndInv, TypeOK
<1>3. RetryInv'
  BY <1>1 DEF IndInv, RetryInv
<1> QED
  BY <1>1, <1>2, <1>3 DEF IndInv, TypeOK

LEMMA FinishInv ==
  ASSUME IndInv, NEW r, Finish(r)
  PROVE  IndInv'
<1> DEFINE id == op.cur
           final == Final(op.intent)
<1>1. /\ RuntimeStep /\ late = NoCall /\ late' = late /\ id \in Sandboxes
      /\ op.pc = "delete" => runtime'[id] = "absent"
      /\ op.pc = "stop" => runtime'[id] = "stopped"
  BY AnswerStep DEF Finish
<1>2. /\ status' = [status EXCEPT ![id] = final]
      /\ intent' = [intent EXCEPT ![id] = "none"]
      /\ reserved' = [reserved EXCEPT ![id] = Kept(final, reserved[id])]
      /\ imageRef' = [imageRef EXCEPT ![id] = IF final = "deleted" THEN None ELSE @]
      /\ Respond(id, final)
      /\ op' = Converged(op, final)
      /\ UNCHANGED <<config, expiry, imageStatus>>
  BY DEF Finish
<1>3. /\ \/ op.pc = "delete" /\ final = "deleted"
         \/ op.pc = "stop" /\ final = "stopped"
         \/ op.pc = "start" /\ final = "running"
      /\ intent[id] # "none"
  <2>1. \/ op.pc = "delete" /\ op.intent = "delete" /\ intent[id] = "delete"
        \/ op.pc = "stop" /\ op.intent = "stop" /\ intent[id] = "stop"
        \/ /\ op.pc = "start" /\ op.intent \in {"create", "start", "restart"}
           /\ intent[id] \in {"create", "start"}
    BY DEF Finish, IndInv, WorkerInv
  <2>2. CASE op.pc = "delete"
    BY <2>1, <2>2 DEF Final
  <2>3. CASE op.pc = "stop"
    BY <2>1, <2>3 DEF Final
  <2>4. CASE op.pc = "start"
    BY <2>1, <2>4 DEF Final
  <2> QED
    BY <2>1, <2>2, <2>3, <2>4
<1>4. reserved[id] \in [Resources -> Nat]
  BY <1>1 DEF IndInv, TypeOK
<1>5. /\ Kept(final, reserved[id]) \in [Resources -> Nat]
      /\ final = "deleted" => Kept(final, reserved[id]) = Nothing
      /\ final = "running" => Kept(final, reserved[id]) = reserved[id]
      /\ final # "deleted" => Kept(final, reserved[id])["disk"] = reserved[id]["disk"]
  BY <1>3, <1>4 DEF Kept, Nothing, Resources, Compute
<1>6. /\ RetryInv'
      /\ keyOwner' \in [Keys -> Sandboxes \cup {None}]
      /\ keyAction' \in [Keys -> Intents]
      /\ response' \in [Keys -> Responses]
  <2>1. final \in Responses \ {"pending"}
    BY <1>3 DEF Responses, Finals
  <2>2. \A s \in Sandboxes \ {id} : intent'[s] = intent[s]
    BY <1>2 DEF IndInv, TypeOK
  <2> QED
    BY <1>1, <1>2, <2>1, <2>2, Responded
<1>7. /\ status'[id] = final /\ intent'[id] = "none"
      /\ \A s \in Sandboxes \ {id} : status'[s] = status[s]
      /\ op.todo \subseteq Sandboxes /\ id \notin op.todo
      /\ \A s \in op.todo : status'[s] \notin {"none", "deleted"}
  BY <1>1, <1>2 DEF IndInv, TypeOK, Workers, WorkerInv
<1>8. op' \in Workers /\ WorkerInv'
  <2>1. op \in Workers
    BY DEF IndInv, TypeOK
  <2>2. CASE op.sweep /\ final # "deleted"
    <3>1. op' = [op EXCEPT !.pc = "inspect", !.intent = "none"]
      BY <1>2, <2>2 DEF Converged
    <3>2. op' \in Workers
      BY <2>1, <3>1 DEF Workers, PCs, Intents
    <3>3. /\ op'.pc = "inspect" /\ op'.cur = id
          /\ op'.todo = op.todo /\ op'.orphans = op.orphans /\ op.todo \subseteq Sandboxes
      BY <2>1, <3>1 DEF Workers
    <3>4. WorkerInv'
      BY <1>1, <1>3, <1>7, <2>2, <3>3 DEF IndInv, WorkerInv, Calls
    <3> QED
      BY <3>2, <3>4
  <2>3. CASE ~ (op.sweep /\ final # "deleted")
    BY <1>2, <1>7, <2>3, ReturnedWorker DEF Converged
  <2> QED
    BY <2>2, <2>3
<1>9. imageRef' \in [Sandboxes -> Images \cup {None}]
  BY <1>1, <1>2 DEF IndInv, TypeOK
<1>10. TypeOK'
  <2>1. final \in Statuses
    BY <1>3 DEF Statuses
  <2> QED
    BY <1>1, <1>2, <1>5, <1>6, <1>8, <1>9, <2>1 DEF IndInv, TypeOK, RuntimeStep, Intents
<1>11. LateInv'
  BY <1>1 DEF LateInv, NoCall
<1>12. RowInv'
  <2> SUFFICES ASSUME NEW s \in Sandboxes
               PROVE  RowInv!(s)'
    BY DEF RowInv
  <2>1. CASE s # id
    BY <1>1, <1>2, <2>1 DEF IndInv, TypeOK, RowInv, RuntimeStep, Backed
  <2>2. CASE s = id
    <3>1. status[id] # "none"
      BY <1>1, <1>3 DEF IndInv, RowInv
    <3>2. imageRef'[id] = IF final = "deleted" THEN None ELSE imageRef[id]
      BY <1>1, <1>2 DEF IndInv, TypeOK
    <3>3. RowInv!(id) /\ RuntimeStep!2!(id)
      BY <1>1 DEF IndInv, RowInv, RuntimeStep
    <3> QED
      BY <1>1, <1>2, <1>3, <1>7, <2>2, <3>1, <3>2, <3>3 DEF Backed
  <2> QED
    BY <2>1, <2>2
<1>13. UseIsReserved'
  <2> SUFFICES ASSUME NEW s \in Sandboxes
               PROVE  UseIsReserved!(s)'
    BY DEF UseIsReserved
  <2>1. CASE s # id
    BY <1>1, <1>2, <2>1 DEF IndInv, TypeOK, UseIsReserved, RuntimeStep, Backed, Compute
  <2>2. CASE s = id
    <3>1. reserved'[id] = Kept(final, reserved[id]) /\ config'[id] = config[id]
      BY <1>1, <1>2 DEF IndInv, TypeOK
    <3>2. runtime'[id] # "absent" => reserved[id]["disk"] = Demand[config[id]]["disk"]
      BY <1>1 DEF IndInv, UseIsReserved, RuntimeStep, Backed
    <3>3. runtime'[id] = "running" =>
            \A q \in Compute : reserved[id][q] = Demand[config[id]][q]
      BY <1>1 DEF IndInv, UseIsReserved, RuntimeStep, Backed
    <3> QED
      BY <1>1, <1>3, <1>5, <2>2, <3>1, <3>2, <3>3
  <2> QED
    BY <2>1, <2>2
<1>14. DeletedIsGone'
  <2>1. final = "deleted" => /\ runtime'[id] = "absent" /\ reserved'[id] = Nothing
                             /\ imageRef'[id] = None /\ intent'[id] = "none"
    BY <1>1, <1>2, <1>3, <1>5 DEF IndInv, TypeOK
  <2> QED
    BY <1>1, <1>2, <2>1 DEF IndInv, TypeOK, DeletedIsGone, RuntimeStep, Backed
<1> QED
  BY <1>6, <1>8, <1>10, <1>11, <1>12, <1>13, <1>14 DEF IndInv

LEMMA CreateRefusedInv ==
  ASSUME IndInv, NEW r, CreateRefused(r)
  PROVE  IndInv'
<1> DEFINE id == op.cur
<1>1. /\ RuntimeStep /\ late = NoCall /\ late' = late /\ id \in Sandboxes
      /\ intent' = [intent EXCEPT ![id] = "delete"]
      /\ status' = [status EXCEPT ![id] = "deleting"]
      /\ Respond(id, "failed")
      /\ op' = Converge(op, id, "delete")
      /\ UNCHANGED <<config, expiry, reserved, imageRef, imageStatus>>
      /\ op.pc \in Calls /\ op.intent = "create"
  BY AnswerStep DEF CreateRefused, Answer
<1>2. intent[id] = "create" /\ status[id] # "none"
  BY <1>1 DEF IndInv, WorkerInv, RowInv, Calls
<1>3. /\ intent'[id] = "delete" /\ status'[id] = "deleting"
      /\ \A s \in Sandboxes \ {id} : intent'[s] = intent[s] /\ status'[s] = status[s]
  BY <1>1 DEF IndInv, TypeOK
<1>4. /\ RetryInv'
      /\ keyOwner' \in [Keys -> Sandboxes \cup {None}]
      /\ keyAction' \in [Keys -> Intents]
      /\ response' \in [Keys -> Responses]
  <2>1. "failed" \in Responses \ {"pending"}
    BY DEF Responses
  <2> QED
    BY <1>1, <1>3, <2>1, Responded
<1>5. WorkerInv' /\ op' \in Workers
  <2>1. op \in Workers /\ op.todo \subseteq Sandboxes /\ "delete" \in Actions
    BY DEF IndInv, TypeOK, Workers, Actions
  <2>2. op.orphans \subseteq Strays
        /\ \A s \in op.todo : status'[s] \notin {"none", "deleted"} /\ s # id
    BY <1>3, <2>1 DEF IndInv, WorkerInv
  <2> QED
    BY <1>1, <1>3, <2>1, <2>2, ConvergingWorker
<1>6. TypeOK'
  BY <1>1, <1>4, <1>5 DEF IndInv, TypeOK, RuntimeStep, Statuses, Intents, Actions
<1>7. LateInv'
  BY <1>1 DEF LateInv, NoCall
<1>8. RowInv'
  <2> SUFFICES ASSUME NEW s \in Sandboxes
               PROVE  RowInv!(s)'
    BY DEF RowInv
  <2>1. RowInv!(s) /\ RuntimeStep!2!(s)
    BY <1>1 DEF IndInv, RowInv, RuntimeStep
  <2>2. CASE s = id
    BY <1>1, <1>2, <1>3, <2>1, <2>2 DEF Backed
  <2>3. CASE s # id
    BY <1>1, <1>3, <2>1, <2>3 DEF Backed
  <2> QED
    BY <2>2, <2>3
<1>9. UseIsReserved'
  BY <1>1 DEF IndInv, UseIsReserved, RuntimeStep, Backed, Compute
<1>10. DeletedIsGone'
  BY <1>1, <1>3 DEF IndInv, DeletedIsGone, RuntimeStep, Backed
<1> QED
  BY <1>4, <1>5, <1>6, <1>7, <1>8, <1>9, <1>10 DEF IndInv

\* A step of the adapter while the worker lets go of its sandbox.
LEMMA ReturnInv ==
  ASSUME IndInv, RuntimeStep, UNCHANGED journal, op' = Return(op) \/ op' = Idle,
         late' = late \/ late' = NoCall
  PROVE  IndInv'
<1> USE DEF journal, rows, retries
<1>1. WorkerInv' /\ op' \in Workers
  <2>1. \A s \in op.todo : status'[s] \notin {"none", "deleted"}
    BY DEF IndInv, WorkerInv
  <2> QED
    BY <2>1, ReturnedWorker, QuietWorker
<1>2. LateInv'
  <2>1. CASE late' = NoCall
    BY <2>1 DEF LateInv, NoCall
  <2>2. CASE late' = late
    BY <2>2 DEF IndInv, LateInv
  <2> QED
    BY <2>1, <2>2
<1>3. late' \in [call : Calls \cup {"none"}, id : Containers \cup {None}]
  BY DEF IndInv, TypeOK, NoCall
<1>4. TypeOK'
  BY <1>1, <1>3 DEF IndInv, TypeOK, RuntimeStep
<1> QED
  BY <1>1, <1>2, <1>4, RuntimeStepKeepsRows DEF IndInv

LEMMA ConvergenceInv ==
  ASSUME IndInv, Convergence
  PROVE  IndInv'
<1>1. ASSUME NEW r, Created(r) \/ RestartStopped(r) \/ Finish(r) \/ CreateRefused(r)
      PROVE  IndInv'
  BY <1>1, CreatedInv, RestartStoppedInv, FinishInv, CreateRefusedInv
<1>2. ASSUME NEW r, Refused(r)
      PROVE  IndInv'
  BY <1>2, AnswerStep, ReturnInv DEF Refused
<1>3. ASSUME NEW s, Lost(s)
      PROVE  IndInv'
  BY <1>3, CallStep, ReturnInv DEF Lost
<1> QED
  BY <1>1, <1>2, <1>3 DEF Convergence, Answered

-----------------------------------------------------------------------------
(* The sweep.                                                              *)

\* Removing leftovers is a step of the adapter the journal is prepared for.
LEMMA SweepStep ==
  ASSUME IndInv, NEW S, Sweep(S)
  PROVE  RuntimeStep
BY DEF IndInv, TypeOK, Sweep, RuntimeStep, RuntimeStates, Containers

\* The sweep begins: the worker alone moves.
LEMMA SweepBeginsInv ==
  ASSUME IndInv, StartSweep \/ Listed \/ ListFails
  PROVE  IndInv'
<1>1. CASE StartSweep
  BY <1>1, QuietWorker, WorkerStep DEF StartSweep
<1>2. CASE ListFails
  BY <1>2, QuietWorker, WorkerStep DEF ListFails
<1>3. CASE Listed
  <2>1. /\ op' = [op EXCEPT !.pc = "pick", !.todo = ToVisit, !.orphans = Orphans]
        /\ UNCHANGED <<journal, adapter>>
    BY <1>3 DEF Listed
  <2>2. \A s \in ToVisit : s \in Sandboxes /\ status[s] \notin {"none", "deleted"}
    BY DEF IndInv, RowInv, DeletedIsGone, ToVisit
  <2>3. Orphans \subseteq Strays /\ Orphans \subseteq Containers
    BY DEF IndInv, RowInv, DeletedIsGone, Present, Containers, Orphans
  <2>4. op \in Workers /\ op.cur = None /\ None \notin ToVisit
    BY <1>3, ConstantsAssumption DEF IndInv, TypeOK, WorkerInv, Listed, ToVisit
  <2>5. /\ op' \in Workers /\ op'.pc = "pick" /\ op'.cur = None
        /\ op'.todo = ToVisit /\ op'.orphans = Orphans
    BY <2>1, <2>2, <2>3, <2>4 DEF Workers, PCs
  <2>6. WorkerInv'
    BY <2>1, <2>2, <2>3, <2>4, <2>5 DEF WorkerInv, Calls, journal, rows
  <2> QED
    BY <2>1, <2>5, <2>6, WorkerStep
<1> QED
  BY <1>1, <1>2, <1>3

LEMMA VisitInv ==
  ASSUME IndInv, NEW id \in Sandboxes, Visit(id)
  PROVE  IndInv'
<1> DEFINE o == Take(op, id)
<1>1. op \in Workers /\ o \in Workers /\ o.todo = op.todo \ {id} /\ o.orphans = op.orphans
  BY DEF IndInv, TypeOK, Workers, Take
<1>2. /\ o.orphans \subseteq Strays /\ o.todo \subseteq Sandboxes /\ id \notin o.todo
      /\ status[id] \notin {"none", "deleted"}
  BY <1>1 DEF Visit, IndInv, WorkerInv, Workers
<1> HIDE DEF o
<1>3. CASE expiry[id] = "past"
  <2>1. /\ intent' = [intent EXCEPT ![id] = "delete"]
        /\ status' = [status EXCEPT ![id] = "deleting"]
        /\ op' = Converge(o, id, "delete")
        /\ UNCHANGED <<config, expiry, reserved, imageRef, retries, imageStatus, runtime, late>>
    BY <1>3 DEF Visit, Expired, adapter, o
  <2>2. /\ intent'[id] = "delete" /\ status'[id] = "deleting"
        /\ \A s \in Sandboxes \ {id} : intent'[s] = intent[s] /\ status'[s] = status[s]
    BY <2>1 DEF IndInv, TypeOK
  <2>3. \A s \in o.todo : status'[s] \notin {"none", "deleted"} /\ s # id
    BY <1>1, <1>2, <2>2 DEF IndInv, WorkerInv
  <2>4. WorkerInv' /\ op' \in Workers
    BY <1>1, <1>2, <2>1, <2>2, <2>3, ConvergingWorker DEF Actions
  <2>5. TypeOK'
    BY <2>1, <2>4 DEF IndInv, TypeOK, retries, Statuses, Intents, Actions
  <2>6. RetryInv' /\ LateInv'
    BY <2>1, <2>2 DEF IndInv, RetryInv, LateInv, retries, NoCall
  <2>7. RowInv'
    <3> SUFFICES ASSUME NEW s \in Sandboxes
                 PROVE  RowInv!(s)'
      BY DEF RowInv
    <3>1. RowInv!(s)
      BY DEF IndInv, RowInv
    <3>2. CASE s = id
      BY <1>2, <2>1, <2>2, <3>1, <3>2
    <3>3. CASE s # id
      BY <2>1, <2>2, <3>1, <3>3
    <3> QED
      BY <3>2, <3>3
  <2>8. UseIsReserved' /\ DeletedIsGone'
    BY <2>1, <2>2 DEF IndInv, UseIsReserved, DeletedIsGone
  <2> QED
    BY <2>4, <2>5, <2>6, <2>7, <2>8 DEF IndInv
<1>4. CASE expiry[id] # "past"
  <2>1. /\ UNCHANGED <<journal, adapter>>
        /\ op' = IF intent[id] # "none" THEN Converge(o, id, intent[id])
                                        ELSE [o EXCEPT !.pc = "inspect", !.cur = id]
    BY <1>4 DEF Visit, Expired, journal, rows, adapter, o
  <2>2. UNCHANGED <<status, intent>>
    BY <2>1 DEF journal, rows
  <2>3. \A s \in o.todo : status'[s] \notin {"none", "deleted"} /\ s # id
    BY <1>1, <2>2 DEF IndInv, WorkerInv
  <2>4. CASE intent[id] # "none"
    <3>1. intent[id] \in Actions
      BY <2>4 DEF IndInv, TypeOK, Intents
    <3>2. WorkerInv' /\ op' \in Workers
      BY <1>1, <1>2, <2>1, <2>2, <2>3, <2>4, <3>1, ConvergingWorker
    <3> QED
      BY <2>1, <3>2, WorkerStep
  <2>5. CASE intent[id] = "none"
    <3>1. op' = [o EXCEPT !.pc = "inspect", !.cur = id]
      BY <2>1, <2>5
    <3>2. op' \in Workers
      BY <1>1, <3>1 DEF Workers, PCs, Containers
    <3>3. op'.pc = "inspect" /\ op'.cur = id /\ op'.todo = o.todo /\ op'.orphans = o.orphans
      BY <1>1, <3>1 DEF Workers
    <3>4. WorkerInv'
      BY <1>2, <2>2, <2>3, <2>5, <3>3 DEF WorkerInv, Calls
    <3> QED
      BY <2>1, <3>2, <3>4, WorkerStep
  <2> QED
    BY <2>4, <2>5
<1> QED
  BY <1>3, <1>4

LEMMA InspectionInv ==
  ASSUME IndInv, Inspected \/ Release \/ Missing \/ InspectFails
  PROVE  IndInv'
<1> DEFINE id == op.cur
<1>1. /\ op \in Workers /\ id \in Sandboxes /\ id \in Containers
      /\ intent[id] = "none" /\ status[id] \notin {"none", "deleted"}
      /\ op.todo \subseteq Sandboxes /\ id \notin op.todo
  BY DEF IndInv, TypeOK, Workers, WorkerInv, Containers, Inspected, Release, Missing, InspectFails
\* Only the status changes, to one the row may have.
<1>2. ASSUME NEW st \in {"running", "stopped", "error"},
             status' = [status EXCEPT ![id] = st],
             UNCHANGED <<intent, config, expiry, reserved, imageRef, retries, imageStatus, adapter>>,
             op' \in Workers, WorkerInv'
      PROVE  IndInv'
  <2> USE DEF retries, adapter
  <2>1. TypeOK'
    BY <1>2 DEF IndInv, TypeOK, Statuses
  <2>2. RetryInv'
    BY <1>2 DEF IndInv, RetryInv
  <2>3. status'[id] = st /\ \A s \in Sandboxes \ {id} : status'[s] = status[s]
    BY <1>1, <1>2 DEF IndInv, TypeOK
  <2>4. LateInv'
    BY <1>2, <2>3 DEF IndInv, LateInv, NoCall
  <2>5. RowInv'
    <3> SUFFICES ASSUME NEW s \in Sandboxes
                 PROVE  RowInv!(s)'
      BY DEF RowInv
    <3>1. RowInv!(s)
      BY DEF IndInv, RowInv
    <3>2. CASE s = id
      BY <1>1, <1>2, <2>3, <3>1, <3>2
    <3>3. CASE s # id
      BY <1>2, <2>3, <3>1, <3>3
    <3> QED
      BY <3>2, <3>3
  <2>6. UseIsReserved' /\ DeletedIsGone'
    BY <1>2, <2>3 DEF IndInv, UseIsReserved, DeletedIsGone
  <2> QED
    BY <1>2, <2>1, <2>2, <2>4, <2>5, <2>6 DEF IndInv
<1>3. CASE Inspected
  <2>1. /\ late = NoCall /\ runtime[id] \in {"running", "stopped"}
        /\ status' = [status EXCEPT ![id] = runtime[id]]
        /\ UNCHANGED <<intent, config, expiry, reserved, imageRef, retries, imageStatus, adapter>>
        /\ op' = IF runtime[id] = "stopped" THEN [op EXCEPT !.pc = "release"] ELSE Return(op)
    BY <1>3 DEF Inspected, Present
  <2>2. /\ status'[id] = runtime[id]
        /\ \A s \in op.todo : status'[s] \notin {"none", "deleted"}
    BY <1>1, <2>1 DEF IndInv, TypeOK, WorkerInv
  <2>3. op' \in Workers /\ WorkerInv'
    <3>1. CASE runtime[id] = "stopped"
      <4>1. op' = [op EXCEPT !.pc = "release"] /\ UNCHANGED <<runtime, late>>
        BY <2>1, <3>1 DEF adapter
      <4>2. /\ op' \in Workers /\ op'.pc = "release" /\ op'.cur = id
            /\ op'.todo = op.todo /\ op'.orphans = op.orphans
        BY <1>1, <4>1 DEF Workers, PCs
      <4> QED
        BY <1>1, <2>1, <2>2, <3>1, <4>1, <4>2 DEF IndInv, WorkerInv, Calls
    <3>2. CASE runtime[id] # "stopped"
      BY <2>1, <2>2, <3>2, ReturnedWorker
    <3> QED
      BY <3>1, <3>2
  <2> QED
    BY <1>2, <2>1, <2>3
<1>4. CASE Missing
  <2>1. /\ status' = [status EXCEPT ![id] = "error"]
        /\ UNCHANGED <<intent, config, expiry, reserved, imageRef, retries, imageStatus, adapter>>
        /\ op' = Return(op)
    BY <1>4 DEF Missing
  <2>2. \A s \in op.todo : status'[s] \notin {"none", "deleted"}
    BY <1>1, <2>1 DEF IndInv, TypeOK, WorkerInv
  <2> QED
    BY <1>2, <2>1, <2>2, ReturnedWorker
<1>5. CASE InspectFails
  <2>1. UNCHANGED <<journal, adapter>> /\ op' = Return(op)
    BY <1>5 DEF InspectFails
  <2>2. \A s \in op.todo : status'[s] \notin {"none", "deleted"}
    BY <2>1 DEF IndInv, WorkerInv, journal, rows
  <2> QED
    BY <2>1, <2>2, ReturnedWorker, WorkerStep
\* The reservation is released: nothing runs, and no start is under way.
<1>6. CASE Release
  <2> DEFINE left == Kept("stopped", reserved[id])
  <2>1. /\ op.pc = "release" /\ op' = Return(op)
        /\ reserved' = [reserved EXCEPT ![id] = left]
        /\ UNCHANGED <<status, intent, config, expiry, imageRef, retries, imageStatus, runtime, late>>
    BY <1>1, <1>6 DEF Release, IndInv, TypeOK, adapter
  <2>2. runtime[id] # "running" /\ late = NoCall
    BY <2>1 DEF IndInv, WorkerInv
  <2>3. left \in [Resources -> Nat] /\ left["disk"] = reserved[id]["disk"]
    BY <1>1 DEF IndInv, TypeOK, Kept, Resources, Compute
  <2> HIDE DEF left
  <2>4. op' \in Workers /\ WorkerInv'
    <3>1. \A s \in op.todo : status'[s] \notin {"none", "deleted"}
      BY <2>1 DEF IndInv, WorkerInv
    <3> QED
      BY <2>1, <3>1, ReturnedWorker
  <2>5. TypeOK'
    BY <2>1, <2>3, <2>4 DEF IndInv, TypeOK, retries
  <2>6. RetryInv' /\ LateInv'
    BY <2>1, <2>2 DEF IndInv, RetryInv, LateInv, NoCall, retries
  <2>7. reserved'[id] = left /\ \A s \in Sandboxes \ {id} : reserved'[s] = reserved[s]
    BY <1>1, <2>1 DEF IndInv, TypeOK
  <2>8. RowInv'
    BY <1>1, <2>1, <2>7 DEF IndInv, RowInv
  <2>9. UseIsReserved'
    <3>1. UseIsReserved
      BY DEF IndInv
    <3> QED
      BY <1>1, <2>1, <2>2, <2>3, <2>7, <3>1 DEF UseIsReserved
  <2>10. DeletedIsGone'
    <3>1. DeletedIsGone
      BY DEF IndInv
    <3> QED
      BY <1>1, <2>1, <2>7, <3>1 DEF DeletedIsGone
  <2> QED
    BY <2>4, <2>5, <2>6, <2>8, <2>9, <2>10 DEF IndInv
<1> QED
  BY <1>3, <1>4, <1>5, <1>6

\* The end of the sweep. Orphans are strays, so the journal is not concerned.
LEMMA CleanupInv ==
  ASSUME IndInv,
         \/ \E c \in Containers : VisitOrphan(c)
         \/ \E r \in Answers : Purge(r)
         \/ AskAdapter
         \/ AdapterReconciled
         \/ \E S \in SUBSET Containers : AdapterFails(S)
  PROVE  IndInv'
<1>0. op \in Workers
  BY DEF IndInv, TypeOK
<1>1. ASSUME NEW c \in Containers, VisitOrphan(c)
      PROVE  IndInv'
  <2>1. /\ op' = [op EXCEPT !.pc = "purge", !.cur = c, !.orphans = @ \ {c}]
        /\ UNCHANGED <<journal, adapter>> /\ op.todo = {} /\ c \in op.orphans
    BY <1>1 DEF VisitOrphan
  <2>2. /\ op' \in Workers /\ op'.pc = "purge" /\ op'.cur = c /\ op'.todo = {}
        /\ op'.orphans = op.orphans \ {c}
    BY <1>0, <2>1 DEF Workers, PCs
  <2>3. WorkerInv'
    BY <2>1, <2>2 DEF IndInv, WorkerInv, Calls
  <2> QED
    BY <2>1, <2>2, <2>3, WorkerStep
<1>2. ASSUME NEW r \in Answers, Purge(r)
      PROVE  IndInv'
  <2>1. /\ op.cur \in Strays /\ op.cur \in Containers /\ op.cur \notin Sandboxes
        /\ late = NoCall /\ late' = late /\ op' = Return(op)
        /\ runtime' = [runtime EXCEPT ![op.cur] = r.state]
        /\ UNCHANGED <<status, intent, config, expiry, reserved, retries, imageStatus>>
    BY <1>2, ConstantsAssumption DEF Purge, IndInv, WorkerInv, Containers
  <2>2. imageRef' = imageRef
    BY <1>2, <2>1 DEF Purge, IndInv, TypeOK
  <2>3. UNCHANGED journal
    BY <2>1, <2>2 DEF journal, rows
  <2>4. RuntimeStep
    <3>1. runtime \in [Containers -> RuntimeStates] /\ r.state \in RuntimeStates
      BY <1>2 DEF IndInv, TypeOK, Answers
    <3>2. \A s \in Sandboxes : runtime'[s] = runtime[s]
      BY <2>1, <3>1 DEF Containers
    <3> QED
      BY <2>1, <3>1, <3>2 DEF RuntimeStep
  <2> QED
    BY <2>1, <2>3, <2>4, ReturnInv
<1>3. CASE AskAdapter
  <2>1. op' = [op EXCEPT !.pc = "adapter"] /\ UNCHANGED <<journal, adapter>> /\ op.todo = {}
    BY <1>3 DEF AskAdapter
  <2>2. op' \in Workers /\ op'.pc = "adapter" /\ op'.todo = {} /\ op'.orphans = op.orphans
    BY <1>0, <2>1 DEF Workers, PCs
  <2>3. WorkerInv'
    BY <2>2 DEF IndInv, WorkerInv, Calls
  <2> QED
    BY <2>1, <2>2, <2>3, WorkerStep
<1>4. CASE AdapterReconciled
  BY <1>4, SweepStep, ReturnInv DEF AdapterReconciled
<1>5. ASSUME NEW S \in SUBSET Containers, AdapterFails(S)
      PROVE  IndInv'
  BY <1>5, SweepStep, ReturnInv DEF AdapterFails
<1> QED
  BY <1>1, <1>2, <1>3, <1>4, <1>5

LEMMA SweepingInv ==
  ASSUME IndInv, Sweeping
  PROVE  IndInv'
BY SweepBeginsInv, VisitInv, InspectionInv, CleanupInv DEF Sweeping

-----------------------------------------------------------------------------
(* Crashes, images and the environment.                                    *)

LEMMA CrashesInv ==
  ASSUME IndInv, Crashes
  PROVE  IndInv'
<1>1. CASE Crash
  BY <1>1, QuietWorker, WorkerStep DEF Crash
<1>2. /\ op.pc = "purge" => op.cur \in Strays
      /\ op.pc \in Calls => op.cur \in Sandboxes
      /\ op.pc # "purge" => Outstanding = op.pc
      /\ op.pc = "purge" => Outstanding = "delete"
  BY DEF IndInv, WorkerInv, Outstanding
<1>3. ASSUME NEW s \in RuntimeStates, CrashDuringCall(s)
      PROVE  IndInv'
  <2>1. /\ Outstanding \in Calls /\ s \in Unanswered(Outstanding, runtime[op.cur])
        /\ runtime' = [runtime EXCEPT ![op.cur] = s]
        /\ op' = [Idle EXCEPT !.pc = "down"] /\ UNCHANGED <<journal, late>>
    BY <1>3 DEF CrashDuringCall
  <2>2. RuntimeStep
    <3>1. CASE op.pc = "purge"
      <4>1. op.cur \in Containers /\ op.cur \notin Sandboxes
        BY <1>2, <3>1, ConstantsAssumption DEF Containers
      <4> QED
        BY <2>1, <4>1 DEF IndInv, TypeOK, RuntimeStep
    <3>2. CASE op.pc # "purge"
      BY <1>2, <2>1, <3>2, CallStep
    <3> QED
      BY <3>1, <3>2
  <2>3. WorkerInv' /\ op' \in Workers
    BY <2>1, QuietWorker
  <2>4. LateInv'
    BY <2>1 DEF IndInv, LateInv, journal, rows
  <2>5. TypeOK'
    BY <2>1, <2>2, <2>3 DEF IndInv, TypeOK, RuntimeStep, journal, rows, retries
  <2> QED
    BY <2>1, <2>2, <2>3, <2>4, <2>5, RuntimeStepKeepsRows DEF IndInv
<1>4. CASE CrashLeavesCall
  <2>1. /\ Outstanding \in Calls /\ late' = [call |-> Outstanding, id |-> op.cur]
        /\ op' = [Idle EXCEPT !.pc = "down"] /\ UNCHANGED <<journal, runtime>>
    BY <1>4 DEF CrashLeavesCall
  <2>2. WorkerInv' /\ op' \in Workers
    BY <2>1, QuietWorker
  <2>3. op.cur \in Containers
    BY <1>2, <2>1 DEF Containers
  <2>4. LateInv'
    <3>1. CASE op.pc = "purge"
      <4>1. late'.call = "delete" /\ late'.id \in Containers /\ late'.id \notin Sandboxes
        BY <1>2, <2>1, <2>3, <3>1, ConstantsAssumption
      <4> QED
        BY <4>1 DEF LateInv
    <3>2. CASE op.pc # "purge"
      <4>1. late'.call = op.pc /\ late'.id = op.cur /\ op.cur \in Sandboxes /\ op.pc \in Calls
        BY <1>2, <2>1, <3>2
      <4>2. intent[op.cur] # "none"
        BY <4>1 DEF IndInv, WorkerInv, Calls
      <4>3. status[op.cur] # "none" /\ status[op.cur] # "deleted"
        BY <4>1, <4>2 DEF IndInv, RowInv, DeletedIsGone
      <4>4. op.pc \in {"create", "start"} => reserved[op.cur] = Demand[config[op.cur]]
        BY <4>1 DEF IndInv, WorkerInv, RowInv
      <4>5. op.pc = "create" => imageRef[op.cur] = ImageOf[config[op.cur]]
        BY <4>1 DEF IndInv, WorkerInv, RowInv
      <4> QED
        BY <2>1, <2>3, <4>1, <4>3, <4>4, <4>5 DEF LateInv, Calls, NoCall, journal, rows
    <3> QED
      BY <3>1, <3>2
  <2>5. TypeOK'
    BY <2>1, <2>2, <2>3 DEF IndInv, TypeOK, journal, rows, retries
  <2>6. RuntimeStep
    BY <2>1 DEF IndInv, TypeOK, RuntimeStep
  <2> QED
    BY <2>1, <2>2, <2>4, <2>5, <2>6, RuntimeStepKeepsRows DEF IndInv
<1> QED
  BY <1>1, <1>3, <1>4 DEF Crashes

LEMMA RestartsInv ==
  ASSUME IndInv, Restarts
  PROVE  IndInv'
<1>1. ASSUME NEW s \in RuntimeStates, LateFinish(s)
      PROVE  IndInv'
  <2>1. /\ late # NoCall /\ s \in Unanswered(late.call, runtime[late.id])
        /\ runtime' = [runtime EXCEPT ![late.id] = s]
        /\ late' = NoCall /\ UNCHANGED <<journal, op>>
    BY <1>1 DEF LateFinish
  <2>2. RuntimeStep
    BY <2>1, LateStep
  <2>3. WorkerInv'
    BY <2>1 DEF IndInv, WorkerInv, Fresh, journal, rows, retries
  <2>4. LateInv'
    BY <2>1 DEF LateInv, NoCall
  <2>5. TypeOK'
    BY <2>1, <2>2 DEF IndInv, TypeOK, RuntimeStep, NoCall, journal, rows, retries
  <2> QED
    BY <2>1, <2>2, <2>3, <2>4, <2>5, RuntimeStepKeepsRows DEF IndInv
<1>2. CASE Boot
  <2>1. /\ imageStatus' = [i \in Images |->
                             IF imageStatus[i] = "BUILDING" THEN "ERROR" ELSE imageStatus[i]]
        /\ op' = [Idle EXCEPT !.pc = "list", !.sweep = TRUE]
        /\ UNCHANGED <<rows, retries, adapter>>
    BY <1>2 DEF Boot, Table!Interrupt
  <2> USE DEF rows, retries, adapter
  <2>2. WorkerInv' /\ op' \in Workers
    BY <2>1, QuietWorker
  <2>3. TypeOK'
    BY <2>1, <2>2 DEF IndInv, TypeOK, Table!RowStates
  <2>4. RetryInv' /\ LateInv'
    BY <2>1 DEF IndInv, RetryInv, LateInv
  <2>5. RowInv'
    BY <2>1 DEF IndInv, TypeOK, RowInv
  <2>6. UseIsReserved' /\ DeletedIsGone'
    BY <2>1 DEF IndInv, UseIsReserved, DeletedIsGone
  <2> QED
    BY <2>2, <2>3, <2>4, <2>5, <2>6 DEF IndInv
<1> QED
  BY <1>1, <1>2 DEF Restarts

\* An image leaves READY only when no row refers to it.
LEMMA ImageMovesInv ==
  ASSUME IndInv, \E i \in Images : ImageMoves(i)
  PROVE  IndInv'
<1>1. PICK i \in Images, to \in Table!RowStates :
        /\ imageStatus[i] = "READY" => \A s \in Sandboxes : imageRef[s] # i
        /\ imageStatus' = [imageStatus EXCEPT ![i] = to]
        /\ UNCHANGED <<rows, retries, adapter, op>>
  <2>1. PICK i \in Images : ImageMoves(i)
    OBVIOUS
  <2>2. PICK e \in Table!Edges : imageStatus[i] = e[1] /\ imageStatus' = [imageStatus EXCEPT ![i] = e[2]]
    BY <2>1 DEF ImageMoves, Table!Move
  <2>3. e[2] \in Table!RowStates /\ (e[1] = "READY" => e[2] = "DELETING")
    BY DEF Table!Edges, Table!RowStates
  <2>4. imageStatus'[i] = e[2]
    BY <2>2 DEF IndInv, TypeOK
  <2> QED
    BY <2>1, <2>2, <2>3, <2>4 DEF ImageMoves
<1> USE DEF rows, retries, adapter
<1>2. TypeOK'
  BY <1>1 DEF IndInv, TypeOK
<1>3. WorkerInv' /\ RetryInv' /\ LateInv'
  <2>1. WorkerInv'
    BY <1>1 DEF IndInv, WorkerInv, Fresh
  <2>2. RetryInv' /\ LateInv'
    BY <1>1 DEF IndInv, RetryInv, LateInv
  <2> QED
    BY <2>1, <2>2
<1>4. RowInv'
  <2> SUFFICES ASSUME NEW s \in Sandboxes
               PROVE  RowInv!(s)'
    BY DEF RowInv
  <2>1. RowInv!(s) /\ imageStatus \in [Images -> Table!RowStates] /\ imageRef[s] \in Images \cup {None}
    BY DEF IndInv, TypeOK, RowInv
  <2>2. imageRef[s] # None => imageStatus'[imageRef[s]] = "READY"
    BY <1>1, <2>1
  <2> QED
    BY <1>1, <2>1, <2>2
<1>5. UseIsReserved' /\ DeletedIsGone'
  BY <1>1 DEF IndInv, UseIsReserved, DeletedIsGone
<1> QED
  BY <1>2, <1>3, <1>4, <1>5 DEF IndInv

LEMMA EnvironmentInv ==
  ASSUME IndInv, Environment
  PROVE  IndInv'
\* The adapter alone moves, and starts nothing.
<1>1. ASSUME RuntimeStep, UNCHANGED <<journal, late, op>>,
             \A s \in Sandboxes : runtime'[s] = "running" => runtime[s] = "running"
      PROVE  IndInv'
  <2>1. WorkerInv'
    BY <1>1 DEF IndInv, WorkerInv, Fresh, journal, rows, retries
  <2>2. TypeOK' /\ LateInv'
    BY <1>1 DEF IndInv, TypeOK, LateInv, RuntimeStep, journal, rows, retries
  <2> QED
    BY <1>1, <2>1, <2>2, RuntimeStepKeepsRows DEF IndInv
\* One container that is not a sandbox's, or that exists, changes.
<1>2. ASSUME NEW c \in Containers, NEW to \in RuntimeStates,
             runtime' = [runtime EXCEPT ![c] = to],
             c \in Sandboxes => runtime[c] # "absent" /\ to # "running",
             UNCHANGED <<journal, late, op>>
      PROVE  IndInv'
  <2>1. runtime \in [Containers -> RuntimeStates] /\ Sandboxes \subseteq Containers
    BY DEF IndInv, TypeOK, Containers
  <2>2. runtime' \in [Containers -> RuntimeStates]
    BY <1>2, <2>1
  <2>3. \A s \in Sandboxes : /\ runtime'[s] = "running" => runtime[s] = "running"
                             /\ runtime'[s] # "absent" => runtime[s] # "absent"
    BY <1>2, <2>1
  <2>4. RuntimeStep
    <3>1. ASSUME NEW s \in Sandboxes
          PROVE  RuntimeStep!2!(s)
      BY <2>3
    <3> QED
      BY <2>2, <3>1 DEF RuntimeStep
  <2> QED
    BY <1>1, <1>2, <2>3, <2>4
<1>3. ASSUME NEW c \in Containers, TaskExits(c)
      PROVE  IndInv'
  BY <1>2, <1>3 DEF TaskExits, RuntimeStates
<1>4. ASSUME NEW c \in Containers, NEW s \in {"residue", "absent"}, ContainerLost(c, s)
      PROVE  IndInv'
  BY <1>2, <1>4 DEF ContainerLost, Present, RuntimeStates
<1>5. ASSUME NEW c \in Strays, StrayAppears(c)
      PROVE  IndInv'
  <2>1. c \in Containers /\ c \notin Sandboxes
    BY ConstantsAssumption DEF Containers
  <2> QED
    BY <1>2, <1>5, <2>1 DEF StrayAppears, RuntimeStates
<1>6. CASE AdapterStarts
  <2>1. Sweep(Residue) /\ UNCHANGED <<journal, late, op>>
    BY <1>6 DEF AdapterStarts
  <2>2. \A s \in Sandboxes : runtime'[s] = "running" => runtime[s] = "running"
    BY <2>1 DEF Sweep, Containers
  <2>3. RuntimeStep
    BY <2>1, SweepStep
  <2> QED
    BY <1>1, <2>1, <2>2, <2>3
<1>7. ASSUME NEW id \in Sandboxes, Expire(id)
      PROVE  IndInv'
  <2>1. /\ expiry' = [expiry EXCEPT ![id] = "past"]
        /\ UNCHANGED <<status, intent, config, reserved, imageRef, retries, imageStatus, adapter, op>>
    BY <1>7 DEF Expire
  <2> USE DEF retries, adapter
  <2>2. TypeOK'
    BY <2>1 DEF IndInv, TypeOK
  <2>3. WorkerInv'
    BY <2>1 DEF IndInv, WorkerInv, Fresh
  <2>4. RetryInv' /\ LateInv'
    BY <2>1 DEF IndInv, RetryInv, LateInv
  <2>5. RowInv'
    BY <2>1 DEF IndInv, RowInv
  <2>6. UseIsReserved' /\ DeletedIsGone'
    BY <2>1 DEF IndInv, UseIsReserved, DeletedIsGone
  <2> QED
    BY <2>2, <2>3, <2>4, <2>5, <2>6 DEF IndInv
<1> QED
  BY <1>3, <1>4, <1>5, <1>6, <1>7 DEF Environment

-----------------------------------------------------------------------------
(* The theorems.                                                           *)

LEMMA NextInv == IndInv /\ [Next]_vars => IndInv'
<1> SUFFICES ASSUME IndInv, [Next]_vars
             PROVE  IndInv'
  OBVIOUS
<1>1. CASE Next
  BY <1>1, RequestsInv, ConvergenceInv, SweepingInv, CrashesInv, RestartsInv,
     ImageMovesInv, EnvironmentInv DEF Next
<1>2. CASE UNCHANGED vars
  <2> USE <1>2 DEF vars, journal, rows, retries, adapter
  <2>1. WorkerInv'
    BY DEF IndInv, WorkerInv, Fresh
  <2>2. op' \in Workers
    BY DEF IndInv, TypeOK
  <2> QED
    BY <2>1, <2>2, WorkerStep
<1> QED
  BY <1>1, <1>2

\* IndInv holds in every state of Lifecycle, for all values of the constants.
THEOREM Invariance == Spec => []IndInv
BY InitInv, NextInv, PTL DEF Spec

\* Every variable keeps its type, whatever crashes, losses and requests occur.
THEOREM TypeCorrect == Spec => []TypeOK
<1>1. IndInv => TypeOK
  BY DEF IndInv
<1> QED
  BY <1>1, Invariance, PTL

\* Cpu and memory of every running task, and the disk of everything left on
\* the host, are reserved in the journal at all times.
THEOREM UseIsAlwaysReserved == Spec => []UseIsReserved
<1>1. IndInv => UseIsReserved
  BY DEF IndInv
<1> QED
  BY <1>1, Invariance, PTL

\* A row that says deleted has nothing left on the host and holds nothing.
THEOREM DeletedIsAlwaysGone == Spec => []DeletedIsGone
<1>1. IndInv => DeletedIsGone
  BY DEF IndInv
<1> QED
  BY <1>1, Invariance, PTL

\* No lifecycle request reaches the adapter without its intent in the journal.
THEOREM CallsAreJournalled == Spec => []CallIsJournalled
<1>1. IndInv => CallIsJournalled
  BY DEF IndInv, WorkerInv, CallIsJournalled, Calls
<1> QED
  BY <1>1, Invariance, PTL

\* A retry that finds no response always finds work that will produce one.
THEOREM PendingAlwaysHasIntent == Spec => []PendingHasIntent
<1>1. IndInv => PendingHasIntent
  BY DEF IndInv, RetryInv, PendingHasIntent
<1> QED
  BY <1>1, Invariance, PTL

\* An image is ready as long as anything built from it is on the host.
THEOREM ImagesInUseAreReady == Spec => []ImageInUse
<1>1. IndInv => ImageInUse
  BY DEF IndInv, RowInv, ImageInUse
<1> QED
  BY <1>1, Invariance, PTL

-----------------------------------------------------------------------------
(* Capacity.                                                               *)

\* How a step may change the reservations: one row takes what fits beside the
\* others, or gives something back.
LedgerMove ==
  \/ reserved' = reserved
  \/ \E id \in Sandboxes, w \in [Resources -> Nat] :
       /\ reserved' = [reserved EXCEPT ![id] = w]
       /\ Fits(id, w) \/ \A r \in Resources : w[r] <= reserved[id][r]

LEMMA StepsMoveLedger == IndInv /\ [Next]_vars => LedgerMove
<1> SUFFICES ASSUME IndInv, [Next]_vars
             PROVE  LedgerMove
  OBVIOUS
<1>1. reserved \in [Sandboxes -> [Resources -> Nat]]
  BY DEF IndInv, TypeOK
<1>2. ASSUME NEW id \in Sandboxes, AcceptCreate(id)
      PROVE  LedgerMove
  <2>1. op.target \in Configs
    BY <1>2 DEF AcceptCreate, IndInv, WorkerInv
  <2>2. Demand[op.target] \in [Resources -> Nat]
    BY <2>1, ConstantsAssumption
  <2> QED
    BY <1>2, <2>2 DEF AcceptCreate, LedgerMove
<1>3. ASSUME NEW id \in Sandboxes, NEW a, NEW k, Accept(id, a, k)
      PROVE  LedgerMove
  <2>1. config[id] \in Configs
    BY <1>3 DEF Accept, Allowed, IndInv, RowInv
  <2>2. Demand[config[id]] \in [Resources -> Nat]
    BY <2>1, ConstantsAssumption
  <2> QED
    BY <1>3, <2>2 DEF Accept, Allowed, LedgerMove
<1>4. ASSUME NEW final, NEW id \in Sandboxes
      PROVE  /\ Kept(final, reserved[id]) \in [Resources -> Nat]
             /\ \A r \in Resources : Kept(final, reserved[id])[r] <= reserved[id][r]
  <2>1. reserved[id] \in [Resources -> Nat]
    BY <1>1
  <2>2. \A r \in Resources : Kept(final, reserved[id])[r] \in {0, reserved[id][r]}
    BY DEF Kept
  <2>3. \A r \in Resources : 0 <= reserved[id][r]
    BY <2>1
  <2>4. Kept(final, reserved[id]) \in [Resources -> Nat]
    BY <2>1 DEF Kept
  <2> QED
    BY <2>1, <2>2, <2>3, <2>4
<1>5. ASSUME NEW r, Finish(r)
      PROVE  LedgerMove
  <2>1. op.cur \in Sandboxes
    BY <1>5 DEF Finish, Answer, IndInv, WorkerInv
  <2> QED
    BY <1>4, <1>5, <2>1 DEF Finish, LedgerMove
<1>6. CASE Release
  <2>1. op.cur \in Sandboxes
    BY <1>6 DEF Release, IndInv, WorkerInv
  <2>2. reserved' = [reserved EXCEPT ![op.cur] = Kept("stopped", reserved[op.cur])]
    BY <1>1, <1>6, <2>1 DEF Release
  <2> QED
    BY <1>4, <2>1, <2>2 DEF LedgerMove
<1>7. CASE Requests
  <2>1. ASSUME NEW k \in Keys, Retry(k)
        PROVE  LedgerMove
    BY <2>1 DEF Retry, journal, rows, LedgerMove
  <2>2. ASSUME NEW a, NEW target, NEW k, AskAdmission(a, target, k)
        PROVE  LedgerMove
    BY <2>2 DEF AskAdmission, journal, rows, LedgerMove
  <2>3. CASE AcceptStart
    BY <1>3, <2>3 DEF AcceptStart, IndInv, WorkerInv
  <2>4. CASE Refuse
    BY <2>4 DEF Refuse, journal, rows, LedgerMove
  <2> QED
    BY <1>2, <1>3, <1>7, <2>1, <2>2, <2>3, <2>4 DEF Requests, AcceptStop
<1>8. CASE Convergence
  BY <1>5, <1>8 DEF Convergence, Answered, Created, RestartStopped, Refused, CreateRefused, Lost,
                    journal, rows, LedgerMove
<1>9. CASE Sweeping
  BY <1>6, <1>9 DEF Sweeping, StartSweep, Listed, ListFails, Visit, Inspected, Missing,
                    InspectFails, VisitOrphan, Purge, AskAdapter, AdapterReconciled,
                    AdapterFails, journal, rows, LedgerMove
<1>10. CASE Crashes \/ Restarts \/ \E i \in Images : ImageMoves(i)
  BY <1>10 DEF Crashes, Crash, CrashDuringCall, CrashLeavesCall, Restarts, LateFinish, Boot,
               ImageMoves, journal, rows, LedgerMove
<1>11. CASE Environment
  BY <1>11 DEF Environment, TaskExits, ContainerLost, StrayAppears, AdapterStarts, Expire,
               journal, rows, LedgerMove
<1>12. CASE UNCHANGED vars
  BY <1>12 DEF vars, journal, rows, LedgerMove
<1> QED
  BY <1>7, <1>8, <1>9, <1>10, <1>11, <1>12 DEF Next

LEMMA LedgerMoveKeepsBudget ==
  ASSUME TypeOK, NoOvercommit, LedgerMove
  PROVE  NoOvercommit'
<1> SUFFICES ASSUME NEW r \in Resources
             PROVE  Sum(reserved', Sandboxes, r) <= Capacity[r]
  BY DEF NoOvercommit, Sum, Units
<1>1. /\ IsFiniteSet(Sandboxes) /\ Capacity[r] \in Nat
      /\ reserved \in [Sandboxes -> [Resources -> Nat]]
      /\ Sum(reserved, Sandboxes, r) <= Capacity[r]
  BY ConstantsAssumption DEF TypeOK, NoOvercommit
<1>2. CASE reserved' = reserved
  BY <1>1, <1>2
<1>3. ASSUME NEW id \in Sandboxes, NEW w \in [Resources -> Nat],
             reserved' = [reserved EXCEPT ![id] = w]
      PROVE  /\ reserved'[id][r] = w[r]
             /\ \A s \in Sandboxes : reserved[s][r] \in Nat /\ reserved'[s][r] \in Nat
             /\ \A s \in Sandboxes \ {id} : reserved'[s][r] = reserved[s][r]
  BY <1>1, <1>3
<1>4. ASSUME NEW id \in Sandboxes, NEW w \in [Resources -> Nat],
             reserved' = [reserved EXCEPT ![id] = w], Fits(id, w)
      PROVE  Sum(reserved', Sandboxes, r) <= Capacity[r]
  <2>1. w[r] <= Capacity[r] - Sum(reserved, Sandboxes \ {id}, r)
    BY <1>4 DEF Fits
  <2>2. /\ \A s \in Sandboxes : reserved[s][r] \in Nat /\ reserved'[s][r] \in Nat
        /\ \A s \in Sandboxes \ {id} : reserved'[s][r] = reserved[s][r]
        /\ reserved'[id][r] <= Capacity[r] - Sum(reserved, Sandboxes \ {id}, r)
    BY <1>3, <1>4, <2>1
  <2>3. Sum(reserved', Sandboxes \ {id}, r) = Sum(reserved, Sandboxes \ {id}, r)
    BY <2>2 DEF Sum, Units
  <2>4. Sum(reserved', Sandboxes, r) = Sum(reserved', Sandboxes \ {id}, r) + reserved'[id][r]
    BY <1>1, <2>2, SumSplits
  <2>5. Sum(reserved, Sandboxes \ {id}, r) \in Nat
    BY <1>1, <2>2, FS_Difference, SumIsNatural
  <2>6. reserved'[id][r] \in Nat
    BY <2>2
  <2> QED
    BY <1>1, <2>2, <2>3, <2>4, <2>5, <2>6
<1>5. ASSUME NEW id \in Sandboxes, NEW w \in [Resources -> Nat],
             reserved' = [reserved EXCEPT ![id] = w],
             \A q \in Resources : w[q] <= reserved[id][q]
      PROVE  Sum(reserved', Sandboxes, r) <= Capacity[r]
  <2>1. \A s \in Sandboxes : reserved'[s][r] <= reserved[s][r]
    BY <1>1, <1>3, <1>5
  <2>2. Sum(reserved', Sandboxes, r) <= Sum(reserved, Sandboxes, r)
    BY <1>1, <1>3, <1>5, <2>1, SumIsMonotonic
  <2>3. Sum(reserved', Sandboxes, r) \in Nat /\ Sum(reserved, Sandboxes, r) \in Nat
    BY <1>1, <1>3, <1>5, SumIsNatural
  <2> QED
    BY <1>1, <2>2, <2>3
<1> QED
  BY <1>2, <1>4, <1>5 DEF LedgerMove

\* The host is never overcommitted: for every capacity and every demand, the
\* reservations of all rows together stay within the budgets.
THEOREM NeverOvercommitted == Spec => []NoOvercommit
<1>1. Init => NoOvercommit
  <2> SUFFICES ASSUME Init, NEW r \in Resources
               PROVE  Sum(reserved, Sandboxes, r) <= Capacity[r]
    BY DEF NoOvercommit
  <2>1. \A s \in Sandboxes : reserved[s][r] = 0
    BY DEF Init, Nothing
  <2>2. Units(reserved, Sandboxes, r) = {}
    BY <2>1 DEF Units
  <2> QED
    BY <2>2, FS_EmptySet, ConstantsAssumption DEF Sum
<1>2. IndInv /\ NoOvercommit /\ [Next]_vars => NoOvercommit'
  BY StepsMoveLedger, LedgerMoveKeepsBudget DEF IndInv
<1> QED
  BY <1>1, <1>2, Invariance, PTL DEF Spec

-----------------------------------------------------------------------------
(* Action properties.                                                      *)

\* No step replaces a stored response.
THEOREM ResponsesNeverChange == Spec => ResponsesAreStable
<1> DEFINE Stable == \A k \in Keys : response[k] \notin {"none", "pending"} =>
                       response'[k] = response[k]
<1>1. ASSUME IndInv, [Next]_vars
      PROVE  Stable
  <2>1. response \in [Keys -> Responses]
    BY <1>1 DEF IndInv, TypeOK
  <2>2. ASSUME NEW k, NEW id, NEW a, Remember(k, id, a), k \in Keys => response[k] = "none"
        PROVE  Stable
    BY <2>1, <2>2 DEF Remember, retries
  <2>3. ASSUME NEW id, NEW what, Respond(id, what)
        PROVE  Stable
    BY <2>3 DEF Respond
  <2>4. CASE Requests
    <3>1. ASSUME NEW id, AcceptCreate(id)
          PROVE  Stable
      <4>1. Remember(op.key, id, "create") /\ (op.key \in Keys => response[op.key] = "none")
        BY <1>1, <3>1 DEF AcceptCreate, IndInv, WorkerInv, Fresh
      <4> QED
        BY <2>2, <4>1
    <3>2. ASSUME NEW id, NEW a, NEW k, AcceptStop(id, a, k)
          PROVE  Stable
      BY <2>2, <3>2 DEF AcceptStop, Accept, Allowed, Fresh
    <3>3. CASE AcceptStart
      <4>1. /\ Remember(op.key, op.target, op.action)
            /\ op.key \in Keys => response[op.key] = "none"
        BY <1>1, <3>3 DEF AcceptStart, Accept, Allowed, IndInv, WorkerInv, Fresh
      <4> QED
        BY <2>2, <4>1
    <3>4. CASE \/ \E k \in Keys : Retry(k)
               \/ \E a \in Actions, x \in Configs \cup Sandboxes, k \in Keys \cup {None} :
                    AskAdmission(a, x, k)
               \/ Refuse
      BY <3>4 DEF Retry, AskAdmission, Refuse, journal, retries
    <3> QED
      BY <2>4, <3>1, <3>2, <3>3, <3>4 DEF Requests
  <2>5. CASE Convergence
    BY <2>3, <2>5 DEF Convergence, Answered, Created, RestartStopped, Finish, Refused,
                      CreateRefused, Lost, journal, retries
  <2>6. CASE Sweeping
    BY <2>6 DEF Sweeping, StartSweep, Listed, ListFails, Visit, Inspected, Release, Missing,
                InspectFails, VisitOrphan, Purge, AskAdapter, AdapterReconciled, AdapterFails,
                journal, retries
  <2>7. CASE Crashes \/ Restarts \/ \E i \in Images : ImageMoves(i)
    BY <2>7 DEF Crashes, Crash, CrashDuringCall, CrashLeavesCall, Restarts, LateFinish, Boot,
                ImageMoves, journal, retries
  <2>8. CASE Environment
    BY <2>8 DEF Environment, TaskExits, ContainerLost, StrayAppears, AdapterStarts, Expire,
                journal, retries
  <2>9. CASE UNCHANGED vars
    BY <2>9 DEF vars, journal, retries
  <2> QED
    BY <1>1, <2>4, <2>5, <2>6, <2>7, <2>8, <2>9 DEF Next
<1> QED
  BY <1>1, Invariance, PTL DEF Spec, ResponsesAreStable

\* No step takes a deletion back.
LEMMA CondemnedStay ==
  ASSUME IndInv, [Next]_vars
  PROVE  \A s \in Sandboxes : Condemned(s) => Condemned(s)'
<1> DEFINE Final1 == \A s \in Sandboxes : Condemned(s) => Condemned(s)'
           Rows == UNCHANGED <<status, intent>>
<1>0. Rows => Final1
  BY DEF Condemned
\* A step that touches one row condemns it, or finds it not condemned.
<1>1. ASSUME NEW id \in Sandboxes, NEW st, NEW i,
             status' = [status EXCEPT ![id] = st], intent' = [intent EXCEPT ![id] = i],
             i = "delete" \/ st = "deleted" \/ ~ Condemned(id)
      PROVE  Final1
  BY <1>1 DEF IndInv, TypeOK, Condemned
<1>2. ASSUME NEW id \in Sandboxes, AcceptCreate(id)
      PROVE  Final1
  BY <1>1, <1>2 DEF AcceptCreate, IndInv, RowInv, Condemned
<1>3. ASSUME NEW id \in Sandboxes, NEW a, NEW k, Accept(id, a, k)
      PROVE  Final1
  BY <1>1, <1>3 DEF Accept, Allowed, Condemned
<1>4. CASE Requests
  <2>1. CASE AcceptStart
    BY <1>3, <2>1 DEF AcceptStart, IndInv, WorkerInv
  <2>2. CASE \/ \E k \in Keys : Retry(k)
             \/ \E a \in Actions, x \in Configs \cup Sandboxes, k \in Keys \cup {None} :
                  AskAdmission(a, x, k)
             \/ Refuse
    BY <1>0, <2>2 DEF Retry, AskAdmission, Refuse, journal, rows
  <2> QED
    BY <1>2, <1>3, <1>4, <2>1, <2>2 DEF Requests, AcceptStop
<1>5. ASSUME NEW r, RestartStopped(r)
      PROVE  Final1
  <2>1. /\ op.cur \in Sandboxes /\ intent[op.cur] = "restart"
        /\ status' = status /\ intent' = [intent EXCEPT ![op.cur] = "start"]
    BY <1>5 DEF RestartStopped, IndInv, WorkerInv, Calls
  <2>2. ~ Condemned(op.cur) /\ status' = [status EXCEPT ![op.cur] = status[op.cur]]
    BY <2>1 DEF IndInv, TypeOK, DeletedIsGone, Condemned
  <2> QED
    BY <1>1, <2>1, <2>2
<1>6. ASSUME NEW r, Finish(r)
      PROVE  Final1
  <2>1. /\ op.cur \in Sandboxes /\ intent[op.cur] # "none"
        /\ intent[op.cur] = "delete" => op.intent = "delete"
    BY <1>6 DEF Finish, Answer, IndInv, WorkerInv, Calls
  <2>2. status[op.cur] # "deleted"
    BY <2>1 DEF IndInv, DeletedIsGone
  <2>3. intent[op.cur] = "delete" => Final(op.intent) = "deleted"
    BY <2>1 DEF Final
  <2>4. /\ status' = [status EXCEPT ![op.cur] = Final(op.intent)]
        /\ intent' = [intent EXCEPT ![op.cur] = "none"]
    BY <1>6 DEF Finish
  <2> QED
    BY <1>1, <2>1, <2>2, <2>3, <2>4 DEF Condemned
<1>7. ASSUME NEW r, CreateRefused(r)
      PROVE  Final1
  BY <1>1, <1>7 DEF CreateRefused, Answer, IndInv, WorkerInv
<1>8. CASE Convergence
  BY <1>0, <1>5, <1>6, <1>7, <1>8 DEF Convergence, Answered, Created, Refused, Lost, journal, rows
<1>9. ASSUME NEW id \in Sandboxes, Visit(id)
      PROVE  Final1
  BY <1>0, <1>1, <1>9 DEF Visit
<1>10. CASE Inspected \/ Missing
  <2>1. op.cur \in Sandboxes /\ ~ Condemned(op.cur) /\ intent' = intent
    BY <1>10 DEF Inspected, Missing, IndInv, WorkerInv, Condemned
  <2>2. intent' = [intent EXCEPT ![op.cur] = intent[op.cur]]
    BY <2>1 DEF IndInv, TypeOK
  <2> QED
    BY <1>1, <1>10, <2>1, <2>2 DEF Inspected, Missing
<1>11. CASE Sweeping
  BY <1>0, <1>9, <1>10, <1>11
     DEF Sweeping, StartSweep, Listed, ListFails, Release, InspectFails, VisitOrphan, Purge,
         AskAdapter, AdapterReconciled, AdapterFails, journal, rows
<1>12. CASE Crashes \/ Restarts \/ \E i \in Images : ImageMoves(i)
  BY <1>0, <1>12
     DEF Crashes, Crash, CrashDuringCall, CrashLeavesCall, Restarts, LateFinish, Boot,
         ImageMoves, journal, rows
<1>13. CASE Environment
  BY <1>0, <1>13 DEF Environment, TaskExits, ContainerLost, StrayAppears, AdapterStarts, Expire,
                     journal, rows
<1>14. CASE UNCHANGED vars
  BY <1>0, <1>14 DEF vars, journal, rows
<1> QED
  BY <1>4, <1>8, <1>11, <1>12, <1>13, <1>14 DEF Next

\* A condemned sandbox stays condemned, whatever retries, sweeps and requests do.
THEOREM DeletionsAreFinal == Spec => DeletionIsFinal
<1>1. IndInv /\ [Next]_vars => \A s \in Sandboxes : Condemned(s) => Condemned(s)'
  BY CondemnedStay
<1> QED
  BY <1>1, Invariance, PTL DEF Spec, DeletionIsFinal

-----------------------------------------------------------------------------
(* What responses say.                                                     *)

\* An open request is what its row is at, or a deletion has superseded it.
Worked(k) ==
  \/ intent[keyOwner[k]] \in {keyAction[k], "delete"}
  \/ keyAction[k] = "restart" /\ intent[keyOwner[k]] = "start"

\* A response that fits, of a key that was used.
Fit(k) ==
  /\ response[k] # "none" => keyOwner[k] \in Sandboxes /\ keyAction[k] \in Actions
  /\ response[k] = "pending" => Worked(k)
  /\ response[k] \in {"running", "stopped"} => response[k] = Final(keyAction[k])
  /\ response[k] = "failed" => keyAction[k] = "create"
  /\ response[k] \in {"deleted", "failed"} => Condemned(keyOwner[k])

\* A row goes on with what it is at, or is condemned.
Proceeds(s) ==
  \/ intent'[s] \in {intent[s], "delete"}
  \/ intent[s] = "restart" /\ intent'[s] = "start"

\* A step that leaves a key alone, and its row at what it is at.
LEMMA KeyStays ==
  ASSUME NEW k, Fit(k), keyOwner'[k] = keyOwner[k], keyAction'[k] = keyAction[k],
         response'[k] = response[k],
         response[k] = "pending" => Proceeds(keyOwner[k]),
         \A s \in Sandboxes : Condemned(s) => Condemned(s)'
  PROVE  Fit(k)'
  BY DEF Fit, Worked, Proceeds, Actions

\* A request is accepted for a row with nothing to do, or condemns it.
LEMMA KeyRemembered ==
  ASSUME IndInv, NEW k \in Keys, Fit(k), \A s \in Sandboxes : Condemned(s) => Condemned(s)',
         NEW used \in Keys \cup {None}, NEW id \in Sandboxes, NEW a \in Actions,
         Remember(used, id, a), intent' = [intent EXCEPT ![id] = a],
         intent[id] # "none" => a = "delete"
  PROVE  Fit(k)'
<1>1. intent'[id] = a /\ \A s \in Sandboxes : s # id => intent'[s] = intent[s]
  BY DEF IndInv, TypeOK
<1>2. CASE k = used
  <2>1. keyOwner'[k] = id /\ keyAction'[k] = a /\ response'[k] = "pending"
    BY <1>2, ConstantsAssumption DEF Remember, IndInv, TypeOK
  <2> QED
    BY <1>1, <2>1 DEF Fit, Worked
<1>3. CASE k # used
  <2>1. keyOwner'[k] = keyOwner[k] /\ keyAction'[k] = keyAction[k] /\ response'[k] = response[k]
    BY <1>3 DEF Remember, retries, IndInv, TypeOK
  <2>2. response[k] = "pending" => keyOwner[k] \in Sandboxes /\ intent[keyOwner[k]] # "none"
    BY DEF IndInv, RetryInv
  <2>3. response[k] = "pending" => Proceeds(keyOwner[k])
    BY <1>1, <2>2 DEF Proceeds
  <2> QED
    BY <2>1, <2>3, KeyStays
<1> QED
  BY <1>2, <1>3

\* An operation ends with a response that fits every open request of its row.
LEMMA KeyAnswered ==
  ASSUME IndInv, NEW k \in Keys, Fit(k), \A s \in Sandboxes : Condemned(s) => Condemned(s)',
         NEW id \in Sandboxes, NEW what \in {"running", "stopped", "deleted", "failed"},
         Respond(id, what), \A s \in Sandboxes : s # id => intent'[s] = intent[s],
         what \in {"running", "stopped"} /\ Worked(k) /\ keyOwner[k] = id => what = Final(keyAction[k]),
         what = "failed" /\ Worked(k) /\ keyOwner[k] = id => keyAction[k] = "create",
         what \in {"deleted", "failed"} => Condemned(id)'
  PROVE  Fit(k)'
<1>1. /\ response'[k] = IF keyOwner[k] = id /\ response[k] = "pending" THEN what ELSE response[k]
      /\ keyOwner'[k] = keyOwner[k] /\ keyAction'[k] = keyAction[k]
  BY DEF Respond
<1>2. CASE keyOwner[k] = id /\ response[k] = "pending"
  <2>1. response'[k] = what /\ Worked(k) /\ keyAction[k] \in Actions
    BY <1>1, <1>2 DEF Fit
  <2>2. what \in {"deleted", "failed"} => Condemned(keyOwner[k])'
    BY <1>1, <1>2
  <2> QED
    BY <1>1, <1>2, <2>1, <2>2 DEF Fit
<1>3. CASE ~ (keyOwner[k] = id /\ response[k] = "pending")
  <2>1. response[k] = "pending" => Proceeds(keyOwner[k])
    BY <1>3 DEF Fit, Proceeds
  <2> QED
    BY <1>1, <1>3, <2>1, KeyStays
<1> QED
  BY <1>2, <1>3

\* The completion of an operation.
LEMMA FinishFits ==
  ASSUME IndInv, NEW r, Finish(r), NEW k \in Keys, Fit(k),
         \A s \in Sandboxes : Condemned(s) => Condemned(s)'
  PROVE  Fit(k)'
<1> DEFINE final == Final(op.intent)
<1>0. PICK id \in Sandboxes : id = op.cur
  BY DEF Finish, Answer, IndInv, WorkerInv
<1>1. /\ Respond(id, final)
      /\ status' = [status EXCEPT ![id] = final] /\ intent' = [intent EXCEPT ![id] = "none"]
  BY <1>0 DEF Finish
<1>2. /\ status'[id] = final
      /\ \A s \in Sandboxes : s # id => intent'[s] = intent[s]
  BY <1>1 DEF IndInv, TypeOK
<1>3. \/ op.intent = "delete" /\ intent[id] = "delete"
      \/ op.intent = "stop" /\ intent[id] = "stop"
      \/ op.intent \in {"create", "start", "restart"} /\ intent[id] \in {"create", "start"}
  BY <1>0 DEF Finish, Answer, Calls, IndInv, WorkerInv
<1>4. CASE op.intent = "delete"
  <2>1. final = "deleted" /\ Condemned(id)'
    BY <1>2, <1>4 DEF Final, Condemned
  <2> QED
    BY <1>1, <1>2, <2>1, KeyAnswered
<1>5. CASE op.intent = "stop"
  <2>1. final = "stopped"
    BY <1>5 DEF Final
  <2>2. Worked(k) /\ keyOwner[k] = id => keyAction[k] = "stop"
    BY <1>3, <1>5 DEF Worked
  <2>3. Worked(k) /\ keyOwner[k] = id => final = Final(keyAction[k])
    BY <1>5, <2>2
  <2> QED
    BY <1>1, <1>2, <2>1, <2>3, KeyAnswered
<1>6. CASE op.intent \in {"create", "start", "restart"}
  <2>1. final = "running"
    BY <1>6 DEF Final
  <2>2. Worked(k) /\ keyOwner[k] = id => keyAction[k] \in {"create", "start", "restart"}
    BY <1>3, <1>6 DEF Worked
  <2>3. Worked(k) /\ keyOwner[k] = id => final = Final(keyAction[k])
    BY <2>1, <2>2 DEF Final
  <2> QED
    BY <1>1, <1>2, <2>1, <2>3, KeyAnswered
<1> QED
  BY <1>3, <1>4, <1>5, <1>6

\* Every step keeps the responses fitting.
LEMMA StepsFit ==
  ASSUME IndInv, [Next]_vars, NEW k \in Keys, Fit(k)
  PROVE  Fit(k)'
<1>1. \A s \in Sandboxes : Condemned(s) => Condemned(s)'
  BY CondemnedStay
<1>2. response[k] = "pending" => keyOwner[k] \in Sandboxes
  BY DEF Fit
<1>3. ASSUME UNCHANGED retries, \A s \in Sandboxes : Proceeds(s)
      PROVE  Fit(k)'
  BY <1>1, <1>2, <1>3, KeyStays DEF retries
<1>4. ASSUME UNCHANGED <<intent, retries>>
      PROVE  Fit(k)'
  BY <1>3, <1>4 DEF Proceeds
<1>5. ASSUME NEW id \in Sandboxes, NEW a \in Actions, NEW used \in Keys \cup {None},
             Accept(id, a, used)
      PROVE  Fit(k)'
  BY <1>1, <1>5, KeyRemembered DEF Accept, Allowed
<1>6. CASE Requests
  <2>1. ASSUME NEW id \in Sandboxes, AcceptCreate(id)
        PROVE  Fit(k)'
    <3>1. op.key \in Keys \cup {None} /\ intent[id] = "none" /\ "create" \in Actions
      BY <2>1 DEF AcceptCreate, IndInv, TypeOK, Workers, RowInv, Actions
    <3>2. Remember(op.key, id, "create") /\ intent' = [intent EXCEPT ![id] = "create"]
      BY <2>1 DEF AcceptCreate
    <3> QED
      BY <1>1, <3>1, <3>2, KeyRemembered
  <2>2. CASE AcceptStart
    <3>1. op.target \in Sandboxes /\ op.action \in Actions /\ op.key \in Keys \cup {None}
      BY <2>2 DEF AcceptStart, IndInv, WorkerInv, TypeOK, Workers, Actions
    <3> QED
      BY <1>5, <2>2, <3>1 DEF AcceptStart
  <2>3. CASE \/ \E q \in Keys : Retry(q)
             \/ \E a \in Actions, x \in Configs \cup Sandboxes, q \in Keys \cup {None} :
                  AskAdmission(a, x, q)
             \/ Refuse
    BY <1>4, <2>3 DEF Retry, AskAdmission, Refuse, journal, rows
  <2> QED
    BY <1>5, <1>6, <2>1, <2>2, <2>3 DEF Requests, AcceptStop
<1>7. CASE Convergence
  <2>1. ASSUME NEW r, RestartStopped(r)
        PROVE  Fit(k)'
    <3>1. /\ op.cur \in Sandboxes /\ intent[op.cur] = "restart"
          /\ intent' = [intent EXCEPT ![op.cur] = "start"] /\ UNCHANGED retries
      BY <2>1 DEF RestartStopped, IndInv, WorkerInv, Calls
    <3>2. \A s \in Sandboxes : Proceeds(s)
      BY <3>1 DEF IndInv, TypeOK, Proceeds
    <3> QED
      BY <1>3, <3>1, <3>2
  <2>2. ASSUME NEW r, CreateRefused(r)
        PROVE  Fit(k)'
    <3>0. PICK id \in Sandboxes : id = op.cur
      BY <2>2 DEF CreateRefused, Answer, IndInv, WorkerInv
    <3>1. /\ Respond(id, "failed") /\ intent' = [intent EXCEPT ![id] = "delete"]
          /\ intent[id] = "create"
      BY <2>2, <3>0 DEF CreateRefused, Answer, Calls, IndInv, WorkerInv
    <3>2. intent'[id] = "delete" /\ \A s \in Sandboxes : s # id => intent'[s] = intent[s]
      BY <3>1 DEF IndInv, TypeOK
    <3>3. Condemned(id)'
      BY <3>2 DEF Condemned
    <3>4. Worked(k) /\ keyOwner[k] = id => keyAction[k] = "create"
      BY <3>1 DEF Worked
    <3> QED
      BY <1>1, <3>1, <3>2, <3>3, <3>4, KeyAnswered
  <2>3. ASSUME NEW r, Finish(r)
        PROVE  Fit(k)'
    BY <1>1, <2>3, FinishFits
  <2> QED
    BY <1>4, <1>7, <2>1, <2>2, <2>3
       DEF Convergence, Answered, Created, Refused, Lost, journal, rows
<1>8. ASSUME NEW id \in Sandboxes, Visit(id)
      PROVE  Fit(k)'
  <2>1. UNCHANGED retries /\ (intent' = intent \/ intent' = [intent EXCEPT ![id] = "delete"])
    BY <1>8 DEF Visit
  <2>2. \A s \in Sandboxes : Proceeds(s)
    BY <2>1 DEF IndInv, TypeOK, Proceeds
  <2> QED
    BY <1>3, <2>1, <2>2
<1>9. CASE Sweeping
  BY <1>4, <1>8, <1>9
     DEF Sweeping, StartSweep, Listed, ListFails, Inspected, Release, Missing, InspectFails,
         VisitOrphan, Purge, AskAdapter, AdapterReconciled, AdapterFails, journal, rows
<1>10. CASE Crashes \/ Restarts \/ \E i \in Images : ImageMoves(i)
  BY <1>4, <1>10
     DEF Crashes, Crash, CrashDuringCall, CrashLeavesCall, Restarts, LateFinish, Boot,
         ImageMoves, journal, rows
<1>11. CASE Environment
  BY <1>4, <1>11 DEF Environment, TaskExits, ContainerLost, StrayAppears, AdapterStarts, Expire,
                     journal, rows
<1>12. CASE UNCHANGED vars
  BY <1>4, <1>12 DEF vars, journal, rows
<1> QED
  BY <1>6, <1>7, <1>9, <1>10, <1>11, <1>12 DEF Next

\* A stored response is the outcome of its request or of the deletion that
\* superseded it, for any keys and sandboxes and whoever completes the work.
THEOREM ResponsesAlwaysFit == Spec => []ResponsesFit
<1> DEFINE AllFit == \A k \in Keys : Fit(k)
<1>1. Init => AllFit
  BY DEF Init, Fit
<1>2. IndInv /\ AllFit /\ [Next]_vars => AllFit'
  BY StepsFit
<1>3. AllFit => ResponsesFit
  BY DEF Fit, ResponsesFit
<1> QED
  BY <1>1, <1>2, <1>3, Invariance, PTL DEF Spec

\* Capacity and images are reserved before they are used and released after,
\* for any number of sandboxes, keys and images.
THEOREM ReservationsAlwaysHold == Spec => []ReservationsHold
<1>1. NoOvercommit /\ UseIsReserved /\ ImageInUse => ReservationsHold
  BY DEF ReservationsHold
<1> QED
  BY <1>1, NeverOvercommitted, UseIsAlwaysReserved, ImagesInUseAreReady, PTL

\* Calls of converge are journalled first, and pending rows can be resumed.
THEOREM JournalAlwaysLeads == Spec => []JournalLeads
<1>1. PendingHasIntent /\ CallIsJournalled => JournalLeads
  BY DEF JournalLeads
<1> QED
  BY <1>1, PendingAlwaysHasIntent, CallsAreJournalled, PTL

\* No step of the API replaces a response or revives a deleted sandbox.
THEOREM PromisesAreAlwaysKept == Spec => PromisesAreKept
BY ResponsesNeverChange, DeletionsAreFinal DEF PromisesAreKept
=============================================================================
