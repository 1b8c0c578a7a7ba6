---------------------------- MODULE EndpointsProofs ---------------------------
(***************************************************************************)
(* The safety properties of Endpoints for every set of adapters and        *)
(* sandboxes, any size of the pool and any number of faults.               *)
(***************************************************************************)
EXTENDS Endpoints, TLAPS

\* The host's lock is held by the adapter that works on the kernel.
Held == \A a \in Adapters : pc[a] \in Locked <=> holder = a

\* An operation is about a sandbox of its own adapter that does not run.
Busy == Locked \cup {"lock", "task"}
Targeted ==
  \A a \in Adapters :
    /\ pc[a] \in Busy => /\ target[a] \in Sandboxes
                         /\ Owner[target[a]] = a
                         /\ target[a] \notin running
    /\ \A s \in todo[a] : Owner[s] = a

\* What a step of an operation on s may rely on.
Ready(step, s) ==
  /\ step \in Removal => record[s] # None
  /\ step \in Removal \ {"unlink"} => s \notin link /\ route[s] = None
  /\ step \in {"conntrack", "unfilter", "forget"} => s \notin netns
  /\ step \in {"unfilter", "forget"} => \A d \in Addrs : s \notin flows[d]
  /\ step = "forget" => table[s] = None
  /\ step = "record" => record[s] = None
  /\ step = "filter" => /\ record[s] # None /\ table[s] = None /\ s \notin link
                        /\ \A t \in Sandboxes : table[t] # record[s]
  /\ step \in {"name", "veth", "up", "resolver", "task"} =>
       record[s] # None /\ table[s] = record[s]
  /\ step \in {"veth", "up", "resolver", "task"} => s \in netns
  /\ step \in {"up", "resolver", "task"} => s \in link
  /\ step \in {"resolver", "task"} => route[s] # None

Kept == \A a \in Adapters : pc[a] \in Busy => Ready(pc[a], target[a])

\* A routed link exists and is filtered for the same address.
Routes == \A s \in Sandboxes : route[s] # None => s \in link /\ table[s] = route[s]

Tables == \A s, t \in Sandboxes : table[s] # None /\ table[s] = table[t] => s = t

World == Routes /\ Tables /\ NoInheritedFlows /\ Journalled /\ RunningIsConnected

IndInv == TypeOK /\ Held /\ Targeted /\ Kept /\ World

-----------------------------------------------------------------------------
(* The operation of one adapter moves; those of the others stay.           *)

\* The operation of a goes to step next, on the same sandbox.
Goes(a, next) ==
  /\ pc' = [pc EXCEPT ![a] = next]
  /\ UNCHANGED <<phase, kind, target, todo, holder, faults>>

\* The operation of a, or its part for one sandbox, is over and the host's
\* lock given back.
Over(a) ==
  /\ phase' \in [Adapters -> {"down", "boot", "up"}]
  /\ \E step \in {"idle", "next"} : pc' = [pc EXCEPT ![a] = step]
  /\ target' = [target EXCEPT ![a] = None]
  /\ kind' \in [Adapters -> {"none", "start", "stop", "reconcile"}]
  /\ todo' \in {todo, [todo EXCEPT ![a] = {}]}
  /\ holder' = IF holder = a THEN None ELSE holder
  /\ faults' \in 0 .. MaxFaults

\* The types of what an operation consists of.
ControlOK ==
  /\ phase \in [Adapters -> {"down", "boot", "up"}]
  /\ kind \in [Adapters -> {"none", "start", "stop", "reconcile"}]
  /\ target \in [Adapters -> Sandboxes \cup {None}]
  /\ pc \in [Adapters -> Steps]
  /\ todo \in [Adapters -> SUBSET Sandboxes]
  /\ holder \in Adapters \cup {None}
  /\ faults \in 0 .. MaxFaults

\* A fault counts up to its bound.
LEMMA FaultCounts ==
  ASSUME faults \in 0 .. MaxFaults, Fault
  PROVE  faults' \in 0 .. MaxFaults
BY EndpointsAssumption DEF Fault

\* A failed operation is over.
LEMMA FailedIsOver ==
  ASSUME IndInv, NEW a \in Adapters, Fault, Ended(a, FALSE), Released(a)
  PROVE  Over(a)
<1>1. faults' \in 0 .. MaxFaults
  BY FaultCounts DEF IndInv, TypeOK
<1>2. phase' \in [Adapters -> {"down", "boot", "up"}]
  BY DEF IndInv, TypeOK, Ended
<1> QED BY <1>1, <1>2 DEF IndInv, TypeOK, Over, Ended, Released

\* A command that took effect is followed by the next one, or by the end.
LEMMA ProceedMoves ==
  ASSUME IndInv, NEW a \in Adapters, NEW next, Proceed(a, next)
  PROVE  Goes(a, next) \/ Over(a)
<1>1. CASE pc' = [pc EXCEPT ![a] = next] /\ UNCHANGED <<phase, kind, target, todo, holder, faults>>
  BY <1>1 DEF Goes
<1>2. CASE Fault /\ Ended(a, FALSE) /\ Released(a)
  BY <1>2, FailedIsOver
<1> QED BY <1>1, <1>2 DEF Proceed

\* What an operation that goes on within the lock, or ends, leaves of the
\* invariant, when the tasks stay as they are.
LEMMA MoveKeepsControl ==
  ASSUME IndInv, NEW a \in Adapters, NEW next \in Locked, pc[a] \in Locked,
         Goes(a, next) \/ Over(a), running' = running
  PROVE  ControlOK' /\ Held' /\ Targeted'
<1>1. CASE Goes(a, next)
  BY <1>1 DEF IndInv, TypeOK, Held, Targeted, Goes, ControlOK, Busy, Locked, Steps, Removal, Setup
<1>2. CASE Over(a)
  <2>1. ControlOK'
    BY <1>2, EndpointsAssumption DEF IndInv, TypeOK, Over, ControlOK, Steps
  <2>2. Held'
    BY <1>2, EndpointsAssumption DEF IndInv, TypeOK, Held, Over, Locked, Removal, Setup
  <2>3. Targeted'
    BY <1>2 DEF IndInv, TypeOK, Targeted, Over, Busy, Locked, Removal, Setup
  <2> QED BY <2>1, <2>2, <2>3
<1> QED BY <1>1, <1>2

\* What a command for s leaves alone.
OnlyOf(s) ==
  \A t \in Sandboxes \ {s} :
    /\ record'[t] = record[t] /\ table'[t] = table[t] /\ route'[t] = route[t]
    /\ t \in netns' <=> t \in netns
    /\ t \in link' <=> t \in link

\* The other adapters do not hold the lock, and their sandboxes are others.
LEMMA MoveKeepsOthers ==
  ASSUME IndInv, NEW a \in Adapters, NEW next \in Locked, pc[a] \in Locked,
         NEW s \in Sandboxes, s = target[a],
         Goes(a, next) \/ Over(a), OnlyOf(s), Ready(next, s)'
  PROVE  Kept'
<1> SUFFICES ASSUME NEW b \in Adapters, pc'[b] \in Busy
             PROVE  Ready(pc[b], target[b])'
  BY DEF Kept
<1>1. CASE b = a
  <2>1. Goes(a, next)
    BY <1>1 DEF IndInv, TypeOK, Over, Busy, Locked, Removal, Setup
  <2>2. pc'[b] = next /\ target'[b] = s
    BY <1>1, <2>1 DEF IndInv, TypeOK, Goes
  <2> QED BY <2>1, <2>2
<1>2. CASE b # a
  <2>1. pc'[b] = pc[b] /\ target'[b] = target[b]
    BY <1>2 DEF IndInv, TypeOK, Goes, Over
  <2>2. pc[b] \in {"lock", "task"}
    BY <1>2, <2>1 DEF IndInv, Held, Busy
  <2>3. /\ target[b] \in Sandboxes \ {target[a]}
        /\ Ready(pc[b], target[b])
    BY <1>2, <2>1, <2>2 DEF IndInv, Targeted, Kept, Busy
  <2> QED BY <2>1, <2>2, <2>3 DEF Ready, OnlyOf, Removal
<1> QED BY <1>1, <1>2

\* The rest of the invariant for a command of a, from what it does to the
\* kernel and the records.
LEMMA CommandKeeps ==
  ASSUME IndInv, NEW a \in Adapters, NEW next \in Locked, pc[a] \in Locked,
         NEW s \in Sandboxes, s = target[a],
         Proceed(a, next), running' = running, OnlyOf(s), Ready(next, s)',
         record' \in [Sandboxes -> Addrs \cup {None}],
         table' \in [Sandboxes -> Addrs \cup {None}],
         route' \in [Sandboxes -> Addrs \cup {None}],
         netns' \subseteq Sandboxes, link' \subseteq Sandboxes,
         flows' \in [Addrs -> SUBSET Sandboxes],
         World'
  PROVE  IndInv'
<1>1. Goes(a, next) \/ Over(a)
  BY ProceedMoves
<1>2. ControlOK' /\ Held' /\ Targeted'
  BY <1>1, MoveKeepsControl
<1>3. Kept'
  BY <1>1, MoveKeepsOthers
<1>4. TypeOK'
  BY <1>2 DEF IndInv, TypeOK, ControlOK
<1> QED BY <1>2, <1>3, <1>4 DEF IndInv

-----------------------------------------------------------------------------
(* Removal.                                                                *)

\* The facts about the sandbox of an operation that holds the lock.
LEMMA Mine ==
  ASSUME IndInv, NEW a \in Adapters, pc[a] \in Locked
  PROVE  /\ target[a] \in Sandboxes /\ target[a] \notin running
         /\ Ready(pc[a], target[a])
BY DEF IndInv, Targeted, Kept, Busy

\* DeleteLink keeps the invariant.
LEMMA DeleteLinkStep ==
  ASSUME IndInv, NEW a \in Adapters, DeleteLink(a)
  PROVE  IndInv'
<1>1. PICK s \in Sandboxes : s = target[a]
  BY Mine DEF DeleteLink, At, Locked, Removal
<1>2. pc[a] = "unlink" /\ s \notin running /\ record[s] # None
  BY <1>1, Mine DEF DeleteLink, At, Locked, Removal, Ready
<1>3. OnlyOf(s)
  BY <1>1 DEF IndInv, TypeOK, OnlyOf, DeleteLink
<1>4. Ready("unname", s)'
  BY <1>1, <1>2 DEF IndInv, TypeOK, DeleteLink, Ready, Removal
<1>5. World'
  BY <1>1, <1>2 DEF IndInv, TypeOK, DeleteLink, World, Routes, Tables, NoInheritedFlows, Journalled,
     RunningIsConnected
<1>6. "unname" \in Locked /\ pc[a] \in Locked
  BY <1>2 DEF Locked, Removal
<1> QED BY <1>1, <1>3, <1>4, <1>5, <1>6, CommandKeeps DEF IndInv, TypeOK, DeleteLink

\* DeleteNetns keeps the invariant.
LEMMA DeleteNetnsStep ==
  ASSUME IndInv, NEW a \in Adapters, DeleteNetns(a)
  PROVE  IndInv'
<1>1. PICK s \in Sandboxes : s = target[a]
  BY Mine DEF DeleteNetns, At, Locked, Removal
<1>2. pc[a] = "unname" /\ s \notin running /\ record[s] # None /\ s \notin link /\ route[s] = None
  BY <1>1, Mine DEF DeleteNetns, At, Locked, Removal, Setup, Ready
<1>3. OnlyOf(s)
  BY <1>1 DEF IndInv, TypeOK, OnlyOf, DeleteNetns
<1>4. Ready("conntrack", s)'
  BY <1>1, <1>2 DEF IndInv, TypeOK, DeleteNetns, Ready, Removal, World, Journalled, NoInheritedFlows
<1>5. World'
  BY <1>1, <1>2 DEF IndInv, TypeOK, DeleteNetns, World, Routes, Tables, NoInheritedFlows, Journalled,
     RunningIsConnected
<1>6. "conntrack" \in Locked /\ pc[a] \in Locked
  BY <1>2 DEF Locked, Removal
<1> QED BY <1>1, <1>3, <1>4, <1>5, <1>6, CommandKeeps DEF IndInv, TypeOK, DeleteNetns

\* clearConntrack keeps the invariant.
LEMMA clearConntrackStep ==
  ASSUME IndInv, NEW a \in Adapters, clearConntrack(a)
  PROVE  IndInv'
<1>1. PICK s \in Sandboxes : s = target[a]
  BY Mine DEF clearConntrack, At, Locked, Removal
<1>2. pc[a] = "conntrack" /\ s \notin running /\ record[s] # None /\ s \notin link /\ route[s] = None /\ s \notin netns
  BY <1>1, Mine DEF clearConntrack, At, Locked, Removal, Setup, Ready
<1>3. OnlyOf(s)
  BY <1>1 DEF IndInv, TypeOK, OnlyOf, clearConntrack
<1>4. Ready("unfilter", s)'
  BY <1>1, <1>2, EndpointsAssumption DEF IndInv, TypeOK, clearConntrack, Ready, Removal, World, Journalled, NoInheritedFlows
<1>5. World'
  BY <1>1, <1>2 DEF IndInv, TypeOK, clearConntrack, World, Routes, Tables, NoInheritedFlows, Journalled,
     RunningIsConnected
<1>6. "unfilter" \in Locked /\ pc[a] \in Locked
  BY <1>2 DEF Locked, Removal
<1> QED BY <1>1, <1>3, <1>4, <1>5, <1>6, CommandKeeps DEF IndInv, TypeOK, clearConntrack

\* DeleteTable keeps the invariant.
LEMMA DeleteTableStep ==
  ASSUME IndInv, NEW a \in Adapters, DeleteTable(a)
  PROVE  IndInv'
<1>1. PICK s \in Sandboxes : s = target[a]
  BY Mine DEF DeleteTable, At, Locked, Removal
<1>2. pc[a] = "unfilter" /\ s \notin running /\ record[s] # None /\ s \notin link /\ route[s] = None /\ s \notin netns /\ (\A d \in Addrs : s \notin flows[d])
  BY <1>1, Mine DEF DeleteTable, At, Locked, Removal, Setup, Ready
<1>3. OnlyOf(s)
  BY <1>1 DEF IndInv, TypeOK, OnlyOf, DeleteTable
<1>4. Ready("forget", s)'
  BY <1>1, <1>2 DEF IndInv, TypeOK, DeleteTable, Ready, Removal, World, Journalled, NoInheritedFlows
<1>5. World'
  BY <1>1, <1>2 DEF IndInv, TypeOK, DeleteTable, World, Routes, Tables, NoInheritedFlows, Journalled,
     RunningIsConnected
<1>6. "forget" \in Locked /\ pc[a] \in Locked
  BY <1>2 DEF Locked, Removal
<1> QED BY <1>1, <1>3, <1>4, <1>5, <1>6, CommandKeeps DEF IndInv, TypeOK, DeleteTable

-----------------------------------------------------------------------------
(* Setup.                                                                  *)

\* AddTable keeps the invariant.
LEMMA AddTableStep ==
  ASSUME IndInv, NEW a \in Adapters, AddTable(a)
  PROVE  IndInv'
<1>1. PICK s \in Sandboxes : s = target[a]
  BY Mine DEF AddTable, At, Locked, Setup
<1>2. pc[a] = "filter" /\ s \notin running /\ record[s] # None /\ table[s] = None /\ s \notin link /\ (\A t \in Sandboxes : table[t] # record[s])
  BY <1>1, Mine DEF AddTable, At, Locked, Removal, Setup, Ready
<1>3. OnlyOf(s)
  BY <1>1 DEF IndInv, TypeOK, OnlyOf, AddTable
<1>4. Ready("name", s)'
  BY <1>1, <1>2 DEF IndInv, TypeOK, AddTable, Ready, Removal, World, Journalled, NoInheritedFlows
<1>5. World'
  BY <1>1, <1>2, EndpointsAssumption DEF IndInv, TypeOK, AddTable, World, Routes, Tables, NoInheritedFlows, Journalled,
     RunningIsConnected
<1>6. "name" \in Locked /\ pc[a] \in Locked
  BY <1>2 DEF Locked, Setup
<1> QED BY <1>1, <1>3, <1>4, <1>5, <1>6, CommandKeeps DEF IndInv, TypeOK, AddTable

\* AddNetns keeps the invariant.
LEMMA AddNetnsStep ==
  ASSUME IndInv, NEW a \in Adapters, AddNetns(a)
  PROVE  IndInv'
<1>1. PICK s \in Sandboxes : s = target[a]
  BY Mine DEF AddNetns, At, Locked, Setup
<1>2. pc[a] = "name" /\ s \notin running /\ record[s] # None /\ table[s] = record[s]
  BY <1>1, Mine DEF AddNetns, At, Locked, Removal, Setup, Ready
<1>3. OnlyOf(s)
  BY <1>1 DEF IndInv, TypeOK, OnlyOf, AddNetns
<1>4. Ready("veth", s)'
  BY <1>1, <1>2 DEF IndInv, TypeOK, AddNetns, Ready, Removal, World, Journalled, NoInheritedFlows
<1>5. World'
  BY <1>1, <1>2 DEF IndInv, TypeOK, AddNetns, World, Routes, Tables, NoInheritedFlows, Journalled,
     RunningIsConnected
<1>6. "veth" \in Locked /\ pc[a] \in Locked
  BY <1>2 DEF Locked, Setup
<1> QED BY <1>1, <1>3, <1>4, <1>5, <1>6, CommandKeeps DEF IndInv, TypeOK, AddNetns

\* AddLink keeps the invariant.
LEMMA AddLinkStep ==
  ASSUME IndInv, NEW a \in Adapters, AddLink(a)
  PROVE  IndInv'
<1>1. PICK s \in Sandboxes : s = target[a]
  BY Mine DEF AddLink, At, Locked, Setup
<1>2. pc[a] = "veth" /\ s \notin running /\ record[s] # None /\ table[s] = record[s] /\ s \in netns
  BY <1>1, Mine DEF AddLink, At, Locked, Removal, Setup, Ready
<1>3. OnlyOf(s)
  BY <1>1 DEF IndInv, TypeOK, OnlyOf, AddLink
<1>4. Ready("up", s)'
  BY <1>1, <1>2 DEF IndInv, TypeOK, AddLink, Ready, Removal, World, Journalled, NoInheritedFlows
<1>5. World'
  BY <1>1, <1>2 DEF IndInv, TypeOK, AddLink, World, Routes, Tables, NoInheritedFlows, Journalled,
     RunningIsConnected
<1>6. "up" \in Locked /\ pc[a] \in Locked
  BY <1>2 DEF Locked, Setup
<1> QED BY <1>1, <1>3, <1>4, <1>5, <1>6, CommandKeeps DEF IndInv, TypeOK, AddLink

\* LinkUp keeps the invariant.
LEMMA LinkUpStep ==
  ASSUME IndInv, NEW a \in Adapters, LinkUp(a)
  PROVE  IndInv'
<1>1. PICK s \in Sandboxes : s = target[a]
  BY Mine DEF LinkUp, At, Locked, Setup
<1>2. pc[a] = "up" /\ s \notin running /\ record[s] # None /\ table[s] = record[s] /\ s \in netns /\ s \in link
  BY <1>1, Mine DEF LinkUp, At, Locked, Removal, Setup, Ready
<1>3. OnlyOf(s)
  BY <1>1 DEF IndInv, TypeOK, OnlyOf, LinkUp
<1>4. Ready("resolver", s)'
  BY <1>1, <1>2 DEF IndInv, TypeOK, LinkUp, Ready, Removal, World, Journalled, NoInheritedFlows
<1>5. World'
  BY <1>1, <1>2 DEF IndInv, TypeOK, LinkUp, World, Routes, Tables, NoInheritedFlows, Journalled,
     RunningIsConnected
<1>6. "resolver" \in Locked /\ pc[a] \in Locked
  BY <1>2 DEF Locked, Setup
<1> QED BY <1>1, <1>3, <1>4, <1>5, <1>6, CommandKeeps DEF IndInv, TypeOK, LinkUp

\* The address written is in the pool, and no firewall holds it.
LEMMA WriteRecordStep ==
  ASSUME IndInv, NEW a \in Adapters, WriteRecord(a)
  PROVE  IndInv'
<1>1. PICK s \in Sandboxes : s = target[a]
  BY Mine DEF WriteRecord, At, Locked, Setup
<1>2. pc[a] = "record" /\ s \notin running /\ record[s] = None
  BY <1>1, Mine DEF WriteRecord, At, Locked, Setup, Ready
<1>3. PICK d \in Addrs : Free(d) /\ record' = [record EXCEPT ![s] = d]
  <2>1. PICK offset \in Addrs : /\ Free(Subnet(s, offset))
                              /\ record' = [record EXCEPT ![s] = Subnet(s, offset)]
    BY <1>1 DEF WriteRecord
  <2>2. Subnet(s, offset) \in Addrs
    BY EndpointsAssumption DEF Subnet, Addrs
  <2> QED BY <2>1, <2>2
<1>4. UNCHANGED <<kernel, running>> /\ Proceed(a, "filter")
  BY DEF WriteRecord
<1>5. OnlyOf(s)
  BY <1>3, <1>4 DEF IndInv, TypeOK, OnlyOf, kernel
<1>6. table[s] = None /\ s \notin link
  BY <1>2 DEF IndInv, World, Journalled
<1>7. Ready("filter", s)'
  BY <1>3, <1>4, <1>6, EndpointsAssumption DEF IndInv, TypeOK, Ready, Removal, kernel, Free, Filtered
<1>8. World'
  BY <1>2, <1>3, <1>4, <1>6, EndpointsAssumption DEF IndInv, TypeOK, World, Routes, Tables, NoInheritedFlows,
     Journalled, RunningIsConnected, kernel
<1>9. "filter" \in Locked /\ pc[a] \in Locked
  BY <1>2 DEF Locked, Setup
<1> QED BY <1>1, <1>3, <1>4, <1>5, <1>7, <1>8, <1>9, CommandKeeps DEF IndInv, TypeOK, kernel

-----------------------------------------------------------------------------
(* Steps that leave the kernel and the records alone, or end an operation. *)

\* What the kernel and the records satisfy, when they do not change and no
\* task is added.
LEMMA WorldStays ==
  ASSUME IndInv, UNCHANGED <<record, kernel>>, running' \subseteq running
  PROVE  World'
BY DEF IndInv, World, Routes, Tables, NoInheritedFlows, Journalled, RunningIsConnected, kernel

\* What a step may rely on depends on the kernel and the records alone.
LEMMA ReadyStays ==
  ASSUME NEW step, NEW s, Ready(step, s), UNCHANGED <<record, kernel>>
  PROVE  Ready(step, s)'
BY DEF Ready, kernel

\* An operation that is over, when the kernel and the records stay.
LEMMA OverKeeps ==
  ASSUME IndInv, NEW a \in Adapters, Over(a), UNCHANGED <<record, kernel>>,
         running' \subseteq running
  PROVE  IndInv'
<1>1. World'
  BY WorldStays
<1>2. ControlOK'
  BY EndpointsAssumption DEF IndInv, TypeOK, Over, ControlOK, Steps
<1>3. Held'
  BY EndpointsAssumption DEF IndInv, TypeOK, Held, Over, Locked, Removal, Setup
<1>4. Targeted'
  BY DEF IndInv, TypeOK, Targeted, Over, Busy, Locked, Removal, Setup
<1>5. Kept'
  <2> SUFFICES ASSUME NEW b \in Adapters, pc'[b] \in Busy
               PROVE  Ready(pc[b], target[b])'
    BY DEF Kept
  <2>1. b # a
    BY DEF IndInv, TypeOK, Over, Busy, Locked, Removal, Setup
  <2>2. pc'[b] = pc[b] /\ target'[b] = target[b]
    BY <2>1 DEF IndInv, TypeOK, Over
  <2>3. Ready(pc[b], target[b])
    BY <2>2 DEF IndInv, Kept
  <2> QED BY <2>2, <2>3 DEF Ready, kernel
<1>6. TypeOK'
  BY <1>2 DEF IndInv, TypeOK, ControlOK, kernel
<1> QED BY <1>1, <1>3, <1>4, <1>5, <1>6 DEF IndInv

\* An operation of a that is begun or goes on outside the kernel: what it
\* has to show is about its own adapter.
LEMMA TurnKeeps ==
  ASSUME IndInv, NEW a \in Adapters, NEW next \in Steps, UNCHANGED <<record, kernel>>,
         running' \subseteq running, ControlOK', pc' = [pc EXCEPT ![a] = next],
         \A b \in Adapters \ {a} : /\ target'[b] = target[b] /\ todo'[b] = todo[b]
                                   /\ holder' = b <=> holder = b,
         next \in Locked <=> holder' = a,
         next \in Busy => /\ target'[a] \in Sandboxes /\ Owner[target'[a]] = a
                          /\ target'[a] \notin running'
                          /\ Ready(next, target[a])',
         \A s \in todo'[a] : Owner[s] = a
  PROVE  IndInv'
<1>0. \A b \in Adapters : pc'[b] = IF b = a THEN next ELSE pc[b]
  BY DEF IndInv, TypeOK
<1>1. World'
  BY WorldStays
<1>2. Held'
  BY <1>0 DEF IndInv, Held
<1>3. Targeted'
  <2> SUFFICES ASSUME NEW b \in Adapters
               PROVE  /\ pc'[b] \in Busy => /\ target'[b] \in Sandboxes
                                            /\ Owner[target'[b]] = b
                                            /\ target'[b] \notin running'
                      /\ \A s \in todo'[b] : Owner[s] = b
    BY DEF Targeted
  <2>1. CASE b = a
    BY <2>1, <1>0
  <2>2. CASE b # a
    BY <2>2, <1>0 DEF IndInv, Targeted
  <2> QED BY <2>1, <2>2
<1>4. Kept'
  <2> SUFFICES ASSUME NEW b \in Adapters, pc'[b] \in Busy
               PROVE  Ready(pc[b], target[b])'
    BY DEF Kept
  <2>1. CASE b = a
    <3>1. pc'[b] = next /\ Ready(next, target[a])'
      BY <2>1, <1>0
    <3> QED BY <3>1, <2>1
  <2>2. CASE b # a
    <3>1. pc'[b] = pc[b] /\ target'[b] = target[b] /\ Ready(pc[b], target[b])
      BY <2>2, <1>0 DEF IndInv, Kept
    <3> QED BY <3>1 DEF Ready, kernel
  <2> QED BY <2>1, <2>2
<1>5. TypeOK'
  BY DEF IndInv, TypeOK, ControlOK, kernel
<1> QED BY <1>1, <1>2, <1>3, <1>4, <1>5 DEF IndInv

\* The step before the lock is held relies on nothing.
LEMMA LockNeedsNothing ==
  ASSUME NEW s, NEW step \in {"lock", "read"}
  PROVE  Ready(step, s)
BY DEF Ready, Removal

\* BeginStart keeps the invariant.
LEMMA BeginStartStep ==
  ASSUME IndInv, NEW a \in Adapters, NEW s \in Sandboxes, BeginStart(a, s)
  PROVE  IndInv'
<1>1. /\ pc[a] = "idle" /\ holder # a
      /\ "lock" \in Steps /\ "lock" \in Busy /\ "lock" \notin Locked
  BY DEF IndInv, Held, BeginStart, At, Steps, Busy, Locked, Removal, Setup
<1>2. ControlOK'
  BY <1>1 DEF IndInv, TypeOK, ControlOK, BeginStart
<1>3. target'[a] = s /\ \A b \in Adapters \ {a} : target'[b] = target[b]
  BY DEF IndInv, TypeOK, BeginStart
<1>4. Ready("lock", target[a])'
  BY DEF Ready, Removal
<1>5. /\ UNCHANGED <<record, kernel>> /\ running' \subseteq running
      /\ pc' = [pc EXCEPT ![a] = "lock"]
      /\ todo' = todo /\ holder' = holder /\ Owner[s] = a /\ s \notin running'
  BY DEF BeginStart
<1>6. \A r \in todo'[a] : Owner[r] = a
  BY <1>5 DEF IndInv, Targeted
<1>7. \A b \in Adapters \ {a} : /\ target'[b] = target[b] /\ todo'[b] = todo[b]
                                /\ holder' = b <=> holder = b
  BY <1>3, <1>5
<1> QED BY <1>1, <1>2, <1>3, <1>4, <1>5, <1>6, <1>7, TurnKeeps

\* BeginStop keeps the invariant.
LEMMA BeginStopStep ==
  ASSUME IndInv, NEW a \in Adapters, NEW s \in Sandboxes, BeginStop(a, s)
  PROVE  IndInv'
<1>1. /\ pc[a] = "idle" /\ holder # a
      /\ "lock" \in Steps /\ "lock" \in Busy /\ "lock" \notin Locked
  BY DEF IndInv, Held, BeginStop, At, Steps, Busy, Locked, Removal, Setup
<1>2. ControlOK'
  BY <1>1 DEF IndInv, TypeOK, ControlOK, BeginStop
<1>3. target'[a] = s /\ \A b \in Adapters \ {a} : target'[b] = target[b]
  BY DEF IndInv, TypeOK, BeginStop
<1>4. Ready("lock", target[a])'
  BY DEF Ready, Removal
<1>5. /\ UNCHANGED <<record, kernel>> /\ running' \subseteq running
      /\ pc' = [pc EXCEPT ![a] = "lock"]
      /\ todo' = todo /\ holder' = holder /\ Owner[s] = a /\ s \notin running'
  BY DEF BeginStop
<1>6. \A r \in todo'[a] : Owner[r] = a
  BY <1>5 DEF IndInv, Targeted
<1>7. \A b \in Adapters \ {a} : /\ target'[b] = target[b] /\ todo'[b] = todo[b]
                                /\ holder' = b <=> holder = b
  BY <1>3, <1>5
<1> QED BY <1>1, <1>2, <1>3, <1>4, <1>5, <1>6, <1>7, TurnKeeps

\* BeginReconcile keeps the invariant.
LEMMA BeginReconcileStep ==
  ASSUME IndInv, NEW a \in Adapters, BeginReconcile(a)
  PROVE  IndInv'
<1>1. /\ pc[a] = "idle" /\ holder # a
      /\ "next" \in Steps /\ "next" \notin Busy /\ "next" \notin Locked
  BY DEF IndInv, Held, BeginReconcile, At, Steps, Busy, Locked, Removal, Setup
<1>2. ControlOK'
  BY <1>1 DEF IndInv, TypeOK, ControlOK, BeginReconcile
<1>3. /\ \A s \in todo'[a] : Owner[s] = a
      /\ \A b \in Adapters \ {a} : todo'[b] = todo[b]
  BY DEF IndInv, TypeOK, BeginReconcile
<1> QED BY <1>1, <1>2, <1>3, TurnKeeps DEF BeginReconcile

\* NextRecord keeps the invariant.
LEMMA NextRecordStep ==
  ASSUME IndInv, NEW a \in Adapters, NEW s \in Sandboxes, NextRecord(a, s)
  PROVE  IndInv'
<1>1. /\ pc[a] = "next" /\ s \in todo[a] /\ holder # a /\ Owner[s] = a
      /\ {"lock", "next"} \subseteq Steps \ Locked
      /\ "lock" \in Busy /\ "next" \notin Busy
  BY DEF IndInv, Held, Targeted, NextRecord, At, Steps, Busy, Locked, Removal, Setup
<1>2. /\ todo' = [todo EXCEPT ![a] = todo[a] \ {s}]
      /\ UNCHANGED <<record, kernel, running, phase, kind, holder, faults>>
  BY DEF NextRecord
<1>3. /\ \A t \in todo'[a] : Owner[t] = a
      /\ \A b \in Adapters \ {a} : todo'[b] = todo[b]
  BY <1>2 DEF IndInv, TypeOK, Targeted
<1>4. CASE s \notin running
  <2>1. target' = [target EXCEPT ![a] = s] /\ pc' = [pc EXCEPT ![a] = "lock"]
    BY <1>4 DEF NextRecord, Orphaned
  <2>2. ControlOK'
    BY <1>1, <1>2, <2>1 DEF IndInv, TypeOK, ControlOK
  <2>3. target'[a] = s /\ \A b \in Adapters \ {a} : target'[b] = target[b]
    BY <2>1 DEF IndInv, TypeOK
  <2>4. Ready("lock", target[a])'
    BY DEF Ready, Removal
  <2>5. \A b \in Adapters \ {a} : /\ target'[b] = target[b] /\ todo'[b] = todo[b]
                                  /\ holder' = b <=> holder = b
    BY <1>2, <1>3, <2>3
  <2>6. /\ "lock" \in Steps /\ "lock" \notin Locked /\ holder' # a
        /\ running' \subseteq running /\ UNCHANGED <<record, kernel>>
    BY <1>1, <1>2
  <2>7. /\ target'[a] \in Sandboxes /\ Owner[target'[a]] = a /\ target'[a] \notin running'
        /\ pc' = [pc EXCEPT ![a] = "lock"] /\ \A r \in todo'[a] : Owner[r] = a
    BY <1>1, <1>2, <1>3, <1>4, <2>1, <2>3
  <2> QED BY <2>2, <2>4, <2>5, <2>6, <2>7, TurnKeeps
<1>5. CASE s \in running
  <2>1. UNCHANGED <<target, pc>> /\ pc' = [pc EXCEPT ![a] = "next"]
    BY <1>1, <1>5 DEF NextRecord, Orphaned, IndInv, TypeOK
  <2>2. ControlOK'
    BY <1>1, <1>2, <2>1 DEF IndInv, TypeOK, ControlOK
  <2>3. \A b \in Adapters \ {a} : /\ target'[b] = target[b] /\ todo'[b] = todo[b]
                                  /\ holder' = b <=> holder = b
    BY <1>2, <1>3, <2>1
  <2>4. /\ "next" \in Steps /\ "next" \notin Locked /\ "next" \notin Busy /\ holder' # a
        /\ running' \subseteq running /\ UNCHANGED <<record, kernel>>
        /\ pc' = [pc EXCEPT ![a] = "next"] /\ \A r \in todo'[a] : Owner[r] = a
    BY <1>1, <1>2, <1>3, <2>1
  <2> QED BY <2>2, <2>3, <2>4, TurnKeeps
<1> QED BY <1>4, <1>5

\* networkLock keeps the invariant.
LEMMA networkLockStep ==
  ASSUME IndInv, NEW a \in Adapters, networkLock(a)
  PROVE  IndInv'
<1>1. /\ pc[a] = "lock" /\ holder = None
      /\ "read" \in Steps /\ "read" \in Busy /\ "read" \in Locked /\ "lock" \in Busy
  BY DEF networkLock, At, Steps, Busy, Locked
<1>2. ControlOK'
  BY <1>1 DEF IndInv, TypeOK, ControlOK, networkLock
<1>3. /\ target[a] \in Sandboxes /\ Owner[target[a]] = a /\ target[a] \notin running
      /\ \A s \in todo[a] : Owner[s] = a
  BY <1>1 DEF IndInv, Targeted
<1>4. Ready("read", target[a])'
  BY DEF Ready, Removal
<1>5. \A b \in Adapters \ {a} : holder' = b <=> holder = b
  BY <1>1, EndpointsAssumption DEF networkLock
<1> QED BY <1>1, <1>2, <1>3, <1>4, <1>5, TurnKeeps DEF networkLock

\* A request that ends, well or not, outside the kernel.
LEMMA EndedIsOver ==
  ASSUME IndInv, NEW a \in Adapters, NEW ok \in BOOLEAN, Ended(a, ok),
         holder' = IF holder = a THEN None ELSE holder, faults' \in 0 .. MaxFaults
  PROVE  Over(a)
<1>1. phase' \in [Adapters -> {"down", "boot", "up"}]
  BY DEF IndInv, TypeOK, Ended
<1> QED BY <1>1 DEF IndInv, TypeOK, Over, Ended

\* Reconciled keeps the invariant.
LEMMA ReconciledStep ==
  ASSUME IndInv, NEW a \in Adapters, Reconciled(a)
  PROVE  IndInv'
<1>1. holder # a
  BY DEF IndInv, Held, Reconciled, At, Locked, Removal, Setup
<1>2. Over(a)
  BY <1>1, EndedIsOver DEF Reconciled, IndInv, TypeOK
<1> QED BY <1>2, OverKeeps DEF Reconciled

\* Exhausted keeps the invariant.
LEMMA ExhaustedStep ==
  ASSUME IndInv, NEW a \in Adapters, Exhausted(a)
  PROVE  IndInv'
<1>1. Over(a)
  BY EndedIsOver DEF Exhausted, Released, IndInv, TypeOK
<1> QED BY <1>1, OverKeeps DEF Exhausted

\* Fails keeps the invariant.
LEMMA FailsStep ==
  ASSUME IndInv, NEW a \in Adapters, Fails(a)
  PROVE  IndInv'
BY FailedIsOver, OverKeeps DEF Fails

\* Crash keeps the invariant.
LEMMA CrashStep ==
  ASSUME IndInv, NEW a \in Adapters, Crash(a)
  PROVE  IndInv'
<1>1. faults' \in 0 .. MaxFaults
  BY FaultCounts DEF Crash, IndInv, TypeOK
<1>2. Over(a)
  BY <1>1 DEF Crash, Released, Over, IndInv, TypeOK
<1> QED BY <1>2, OverKeeps DEF Crash

\* The end of a removal: setup goes on with the record, or the lock is given
\* back.
LEMMA RemovedMoves ==
  ASSUME IndInv, NEW a \in Adapters, pc[a] \in Locked, Removed(a)
  PROVE  Goes(a, "record") \/ Over(a)
<1>1. holder = a
  BY DEF IndInv, Held
<1>2. CASE kind[a] = "start"
  BY <1>2 DEF Removed, Goes
<1>3. CASE kind[a] = "stop"
  BY <1>1, <1>3, EndedIsOver DEF Removed, IndInv, TypeOK
<1>4. CASE kind[a] \notin {"start", "stop"}
  BY <1>1, <1>4 DEF Removed, Over, IndInv, TypeOK
<1> QED BY <1>2, <1>3, <1>4

\* ReadRecord keeps the invariant.
LEMMA ReadRecordStep ==
  ASSUME IndInv, NEW a \in Adapters, ReadRecord(a)
  PROVE  IndInv'
<1>1. PICK s \in Sandboxes : s = target[a]
  BY Mine DEF ReadRecord, At, Locked
<1>2. /\ pc[a] = "read" /\ pc[a] \in Locked /\ UNCHANGED <<record, kernel, running>>
      /\ {"record", "unlink"} \subseteq Locked
  BY DEF ReadRecord, At, Locked, Removal, Setup
<1>3. PICK next \in {"record", "unlink"} :
        /\ Goes(a, next) \/ Over(a)
        /\ IF next = "record" THEN record[s] = None ELSE record[s] # None
  <2>1. CASE record[s] = None
    BY <1>1, <1>2, <2>1, RemovedMoves DEF ReadRecord
  <2>2. CASE record[s] # None
    BY <1>1, <2>2 DEF ReadRecord, Goes
  <2> QED BY <2>1, <2>2
<1>4. Ready(next, s)'
  BY <1>2, <1>3 DEF Ready, Removal, kernel
<1>5. OnlyOf(s)
  BY <1>2 DEF OnlyOf, kernel
<1>6. ControlOK' /\ Held' /\ Targeted'
  BY <1>2, <1>3, MoveKeepsControl
<1>7. Kept'
  BY <1>1, <1>2, <1>3, <1>4, <1>5, MoveKeepsOthers
<1>8. World'
  BY <1>2, WorldStays
<1>9. TypeOK'
  BY <1>2, <1>6 DEF IndInv, TypeOK, ControlOK, kernel
<1> QED BY <1>6, <1>7, <1>8, <1>9 DEF IndInv

\* ForgetRecord keeps the invariant.
LEMMA ForgetRecordStep ==
  ASSUME IndInv, NEW a \in Adapters, ForgetRecord(a)
  PROVE  IndInv'
<1>1. PICK s \in Sandboxes : s = target[a]
  BY Mine DEF ForgetRecord, At, Locked, Removal
<1>2. /\ pc[a] = "forget" /\ pc[a] \in Locked /\ "record" \in Locked
      /\ UNCHANGED <<kernel, running>>
      /\ record' = [record EXCEPT ![s] = None]
  BY <1>1 DEF ForgetRecord, At, Locked, Removal, Setup
<1>3. s \notin link /\ s \notin netns /\ table[s] = None
  BY <1>1, <1>2, Mine DEF Ready, Removal
<1>4. Goes(a, "record") \/ Over(a)
  BY <1>2, RemovedMoves, FailedIsOver DEF ForgetRecord
<1>5. Ready("record", s)'
  BY <1>2 DEF IndInv, TypeOK, Ready, Removal
<1>6. OnlyOf(s)
  BY <1>2 DEF IndInv, TypeOK, OnlyOf, kernel
<1>7. ControlOK' /\ Held' /\ Targeted'
  BY <1>2, <1>4, MoveKeepsControl
<1>8. Kept'
  BY <1>1, <1>2, <1>4, <1>5, <1>6, MoveKeepsOthers
<1>9. World'
  BY <1>2, <1>3 DEF IndInv, TypeOK, World, Routes, Tables, NoInheritedFlows, Journalled,
     RunningIsConnected, kernel
<1>10. TypeOK'
  BY <1>2, <1>7 DEF IndInv, TypeOK, ControlOK, kernel
<1> QED BY <1>7, <1>8, <1>9, <1>10 DEF IndInv

\* WriteResolver keeps the invariant.
LEMMA WriteResolverStep ==
  ASSUME IndInv, NEW a \in Adapters, WriteResolver(a)
  PROVE  IndInv'
<1>1. /\ pc[a] = "resolver" /\ pc[a] \in Locked /\ pc[a] \in Busy
      /\ "task" \in Steps /\ "task" \in Busy /\ "task" \notin Locked
  BY DEF WriteResolver, At, Steps, Busy, Locked, Removal, Setup
<1>2. /\ holder = a /\ Ready("resolver", target[a])
      /\ target[a] \in Sandboxes /\ Owner[target[a]] = a /\ target[a] \notin running
      /\ \A s \in todo[a] : Owner[s] = a
  BY <1>1 DEF IndInv, Held, Targeted, Kept
<1>3. /\ UNCHANGED <<record, kernel>> /\ running' = running /\ target' = target /\ todo' = todo
      /\ holder' = None /\ pc' = [pc EXCEPT ![a] = "task"]
  BY DEF WriteResolver
<1>4. ControlOK'
  BY <1>1 DEF IndInv, TypeOK, ControlOK, WriteResolver
<1>5. Ready("task", target[a])'
  BY <1>2, <1>3 DEF Ready, Removal, kernel
<1>6. \A b \in Adapters \ {a} : /\ target'[b] = target[b] /\ todo'[b] = todo[b]
                                /\ holder' = b <=> holder = b
  BY <1>2, <1>3, EndpointsAssumption
<1>7. holder' # a
  BY <1>3, EndpointsAssumption
<1> QED BY <1>1, <1>2, <1>3, <1>4, <1>5, <1>6, <1>7, TurnKeeps

\* StartTask keeps the invariant.
LEMMA StartTaskStep ==
  ASSUME IndInv, NEW a \in Adapters, StartTask(a)
  PROVE  IndInv'
<1>1. PICK s \in Sandboxes : s = target[a] /\ Owner[s] = a
  BY DEF IndInv, Targeted, StartTask, At, Busy
<1>2. /\ pc[a] = "task" /\ holder # a /\ Ready("task", s)
      /\ running' = running \cup {s} /\ UNCHANGED <<record, kernel, holder, faults>>
  BY <1>1 DEF IndInv, Held, Kept, StartTask, At, Busy, Locked, Removal, Setup
<1>3. Over(a)
  BY <1>2, EndedIsOver DEF StartTask, IndInv, TypeOK
<1>4. World'
  <2>1. s \in netns /\ s \in link /\ route[s] # None
    BY <1>2 DEF Ready
  <2> QED BY <1>2, <2>1 DEF IndInv, World, Routes, Tables, NoInheritedFlows, Journalled,
     RunningIsConnected, kernel
<1>5. ControlOK'
  BY <1>3, EndpointsAssumption DEF IndInv, TypeOK, Over, ControlOK, Steps
<1>6. Held'
  BY <1>3, EndpointsAssumption DEF IndInv, TypeOK, Held, Over, Locked, Removal, Setup
<1>7. Targeted'
  BY <1>1, <1>2, <1>3 DEF IndInv, TypeOK, Targeted, Over, Busy, Locked, Removal, Setup
<1>8. Kept'
  <2> SUFFICES ASSUME NEW b \in Adapters, pc'[b] \in Busy
               PROVE  Ready(pc[b], target[b])'
    BY DEF Kept
  <2>1. b # a
    BY <1>3 DEF IndInv, TypeOK, Over, Busy, Locked, Removal, Setup
  <2>2. pc'[b] = pc[b] /\ target'[b] = target[b]
    BY <1>3, <2>1 DEF IndInv, TypeOK, Over
  <2>3. Ready(pc[b], target[b])
    BY <2>2 DEF IndInv, Kept
  <2> QED BY <1>2, <2>2, <2>3 DEF Ready, kernel
<1>9. TypeOK'
  BY <1>2, <1>5 DEF IndInv, TypeOK, ControlOK, kernel
<1> QED BY <1>4, <1>6, <1>7, <1>8, <1>9 DEF IndInv

\* Reboot keeps the invariant.
LEMMA RebootStep ==
  ASSUME IndInv, Reboot
  PROVE  IndInv'
<1>1. faults' \in 0 .. MaxFaults
  BY FaultCounts DEF Reboot, IndInv, TypeOK
<1>2. TypeOK'
  BY <1>1 DEF IndInv, TypeOK, Reboot, Steps
<1>3. Held' /\ Targeted' /\ Kept'
  BY EndpointsAssumption DEF Reboot, Held, Targeted, Kept, Busy, Locked, Removal, Setup
<1>4. World'
  BY DEF Reboot, World, Routes, Tables, NoInheritedFlows, Journalled, RunningIsConnected
<1> QED BY <1>2, <1>3, <1>4 DEF IndInv

\* TaskDies keeps the invariant.
LEMMA TaskDiesStep ==
  ASSUME IndInv, NEW s \in Sandboxes, TaskDies(s)
  PROVE  IndInv'
<1>1. /\ UNCHANGED <<record, kernel, control, faults>> /\ running' \subseteq running
  BY DEF TaskDies
<1>2. World'
  BY <1>1, WorldStays
<1>3. Held' /\ Targeted' /\ TypeOK'
  BY <1>1 DEF IndInv, Held, Targeted, TypeOK, kernel, control
<1>4. Kept'
  BY <1>1 DEF IndInv, Kept, Ready, kernel, control
<1> QED BY <1>2, <1>3, <1>4 DEF IndInv

\* A removal that has cleared the connections is of a sandbox without a
\* route, so none appears behind it.
LEMMA ConnectStep ==
  ASSUME IndInv, NEW s \in Sandboxes, Connect(s)
  PROVE  IndInv'
<1>1. /\ s \in running /\ route[s] # None /\ route[s] \in Addrs /\ table[s] = route[s]
      /\ UNCHANGED <<record, table, netns, link, route, running, control, faults>>
      /\ flows' = [flows EXCEPT ![route[s]] = flows[route[s]] \cup {s}]
  BY DEF IndInv, World, Routes, TypeOK, Connect
<1>2. \A d \in Addrs : \A t \in Sandboxes \ {s} : t \in flows'[d] => t \in flows[d]
  BY <1>1 DEF IndInv, TypeOK
<1>3. TypeOK'
  BY <1>1 DEF IndInv, TypeOK, control
<1>4. Held' /\ Targeted'
  BY <1>1 DEF IndInv, Held, Targeted, control
<1>5. World'
  BY <1>1 DEF IndInv, TypeOK, World, Routes, Tables, NoInheritedFlows, Journalled, RunningIsConnected
<1>6. Kept'
  <2> SUFFICES ASSUME NEW a \in Adapters, pc[a] \in Busy
               PROVE  Ready(pc[a], target[a])'
    BY <1>1 DEF Kept, control
  <2>1. Ready(pc[a], target[a]) /\ target[a] \in Sandboxes \ {s}
    BY <1>1 DEF IndInv, Kept, Targeted
  <2> QED BY <1>1, <1>2, <2>1 DEF Ready, control
<1> QED BY <1>3, <1>4, <1>5, <1>6 DEF IndInv

-----------------------------------------------------------------------------
(* The theorems.                                                           *)

\* The invariant holds initially,
LEMMA InitHolds == Init => IndInv
<1> SUFFICES ASSUME Init PROVE IndInv
  OBVIOUS
<1>1. TypeOK
  BY EndpointsAssumption DEF Init, TypeOK, Steps
<1>2. Held /\ Targeted /\ Kept
  BY EndpointsAssumption DEF Init, Held, Targeted, Kept, Busy, Locked, Removal, Setup
<1>3. World
  BY DEF Init, World, Routes, Tables, NoInheritedFlows, Journalled, RunningIsConnected
<1> QED BY <1>1, <1>2, <1>3 DEF IndInv

\* and every step keeps it.
LEMMA NextKeeps == IndInv /\ [Next]_vars => IndInv'
<1> SUFFICES ASSUME IndInv, [Next]_vars PROVE IndInv'
  OBVIOUS
<1>1. ASSUME NEW a \in Adapters, NEW s \in Sandboxes,
             BeginStart(a, s) \/ BeginStop(a, s) \/ NextRecord(a, s)
      PROVE  IndInv'
  BY <1>1, BeginStartStep, BeginStopStep, NextRecordStep
<1>2. ASSUME NEW a \in Adapters,
             BeginReconcile(a) \/ networkLock(a) \/ Reconciled(a) \/ Fails(a) \/ Crash(a)
      PROVE  IndInv'
  BY <1>2, BeginReconcileStep, networkLockStep, ReconciledStep, FailsStep, CrashStep
<1>3. ASSUME NEW a \in Adapters,
             \/ ReadRecord(a) \/ DeleteLink(a) \/ DeleteNetns(a) \/ clearConntrack(a)
             \/ DeleteTable(a) \/ ForgetRecord(a)
      PROVE  IndInv'
  BY <1>3, ReadRecordStep, DeleteLinkStep, DeleteNetnsStep, clearConntrackStep, DeleteTableStep,
     ForgetRecordStep
<1>4. ASSUME NEW a \in Adapters,
             \/ WriteRecord(a) \/ Exhausted(a) \/ AddTable(a) \/ AddNetns(a) \/ AddLink(a)
             \/ LinkUp(a) \/ WriteResolver(a) \/ StartTask(a)
      PROVE  IndInv'
  BY <1>4, WriteRecordStep, ExhaustedStep, AddTableStep, AddNetnsStep, AddLinkStep, LinkUpStep,
     WriteResolverStep, StartTaskStep
<1>5. ASSUME NEW s \in Sandboxes, TaskDies(s) \/ Connect(s)
      PROVE  IndInv'
  BY <1>5, TaskDiesStep, ConnectStep
<1>6. CASE UNCHANGED vars
  <2>1. TypeOK' /\ World'
    BY <1>6 DEF IndInv, TypeOK, vars, kernel, control, World, Routes, Tables, NoInheritedFlows, Journalled,
       RunningIsConnected
  <2>2. Held' /\ Targeted' /\ Kept'
    BY <1>6 DEF IndInv, vars, kernel, control, Held, Targeted, Kept, Ready
  <2> QED BY <2>1, <2>2 DEF IndInv
<1> QED BY <1>1, <1>2, <1>3, <1>4, <1>5, <1>6, RebootStep DEF Next, Command

\* The inductive invariant holds in every reachable state.
THEOREM Invariance == Spec => []IndInv
BY InitHolds, NextKeeps, PTL DEF Spec

\* Every variable keeps its type, whatever fails.
THEOREM TypeCorrect == Spec => []TypeOK
<1>1. IndInv => TypeOK
  BY DEF IndInv
<1> QED BY <1>1, Invariance, PTL

\* An interface is never up without its firewall.
THEOREM AlwaysFirewalled == Spec => []Firewalled
<1>1. IndInv => Firewalled
  BY DEF IndInv, World, Routes, Firewalled
<1> QED BY <1>1, Invariance, PTL

\* An address has at most one owner on the host.
THEOREM AlwaysOneOwner == Spec => []OneOwner
<1>1. IndInv => OneOwner
  BY DEF IndInv, World, Routes, Tables, OneOwner
<1> QED BY <1>1, Invariance, PTL

\* An address is never given on with the connections of its last owner.
THEOREM FlowsAreNeverInherited == Spec => []NoInheritedFlows
<1>1. IndInv => NoInheritedFlows
  BY DEF IndInv, World
<1> QED BY <1>1, Invariance, PTL

\* What exists of a network is always named by its record.
THEOREM AlwaysJournalled == Spec => []Journalled
<1>1. IndInv => Journalled
  BY DEF IndInv, World
<1> QED BY <1>1, Invariance, PTL

\* No removal, a reconciliation's included, takes the network of a running
\* sandbox.
THEOREM RunningStaysConnected == Spec => []RunningIsConnected
<1>1. IndInv => RunningIsConnected
  BY DEF IndInv, World
<1> QED BY <1>1, Invariance, PTL

\* Setups and removals of any number of adapters give an address one owner at
\* a time, without connections of an earlier one.
THEOREM AddressesAreExclusive == Spec => []AddressIsExclusive
<1>1. OneOwner /\ NoInheritedFlows => AddressIsExclusive
  BY DEF AddressIsExclusive
<1> QED
  BY <1>1, AlwaysOneOwner, FlowsAreNeverInherited, PTL
=============================================================================
