------------------------------- MODULE Endpoints ------------------------------
(***************************************************************************)
(* The network endpoints of sandboxes (network.go): setupNetwork,          *)
(* removeNetwork and reconcileNetworks of the adapters of one host, one    *)
(* per containerd namespace, which share the address pool and the host     *)
(* lock. A request holds its adapter's lifecycle lock, so an adapter does  *)
(* one operation at a time; between two commands of it anything else may   *)
(* happen, the death of the adapter or of the host included. The kernel's  *)
(* objects outlive an adapter, the ownership records outlive the host.     *)
(***************************************************************************)
EXTENDS Integers, FiniteSets

CONSTANTS
  Adapters,
  Sandboxes,
  Owner,       \* the adapter of a sandbox
  PoolSize,    \* /30 subnets in the pool, 32768 in the code
  Hash,        \* the subnet at which the search for a sandbox starts
  None,
  MaxFaults    \* bound: failed commands, crashes and reboots

Addrs == 0 .. PoolSize - 1

ASSUME EndpointsAssumption ==
  /\ PoolSize \in Nat \ {0}
  /\ Owner \in [Sandboxes -> Adapters]
  /\ Hash \in [Sandboxes -> Addrs]
  /\ None \notin Addrs \cup Adapters \cup Sandboxes
  /\ MaxFaults \in Nat

VARIABLES
  record,   \* .networks/<id>.json: the address it names
  table,    \* the address in the sandbox's nftables table
  netns,    \* sandboxes with a named network namespace
  link,     \* sandboxes with a veth pair
  route,    \* the subnet routed to it: that of a link which is up
  flows,    \* the sandboxes whose connections conntrack holds for an address
  running,  \* sandboxes with a running task
  phase,    \* of an adapter
  kind,     \* the operation that holds the lifecycle lock
  target,   \* the sandbox it is about
  pc,       \* its next command
  todo,     \* records reconcileNetworks has yet to look at
  holder,   \* the adapter that holds the host's lock
  faults

kernel == <<table, netns, link, route, flows>>
control == <<phase, kind, target, pc, todo, holder>>
vars == <<record, kernel, running, control, faults>>

Removal == {"unlink", "unname", "conntrack", "unfilter", "forget"}
Setup == {"record", "filter", "name", "veth", "up", "resolver"}
Locked == {"read"} \cup Removal \cup Setup
Steps == Locked \cup {"idle", "next", "lock", "task"}

-----------------------------------------------------------------------------
(* How an operation goes on.                                               *)

\* The end of a request. A failure of the reconciliation before the adapter
\* listens ends the adapter (main.go).
Ended(a, ok) ==
  /\ phase' = [phase EXCEPT ![a] = IF @ = "up" \/ ok THEN "up" ELSE "down"]
  /\ pc' = [pc EXCEPT ![a] = "idle"]
  /\ target' = [target EXCEPT ![a] = None]
  /\ kind' = [kind EXCEPT ![a] = "none"]
  /\ todo' = [todo EXCEPT ![a] = {}]

Released(a) == holder' = IF holder = a THEN None ELSE holder

Fault == faults < MaxFaults /\ faults' = faults + 1

\* The command took effect and the next one follows, or it was reported as
\* failed all the same (its deadline passed) and the operation is abandoned.
Proceed(a, next) ==
  \/ /\ pc' = [pc EXCEPT ![a] = next]
     /\ UNCHANGED <<phase, kind, target, todo, holder, faults>>
  \/ Fault /\ Ended(a, FALSE) /\ Released(a)

\* removeNetworkLocked has ended: setupNetwork goes on, removeNetwork gives
\* the lock back.
Removed(a) ==
  IF kind[a] = "start"
  THEN pc' = [pc EXCEPT ![a] = "record"] /\ UNCHANGED <<phase, kind, target, todo, holder, faults>>
  ELSE /\ holder' = None
       /\ UNCHANGED faults
       /\ IF kind[a] = "stop"
          THEN Ended(a, TRUE)
          ELSE /\ pc' = [pc EXCEPT ![a] = "next"]
               /\ target' = [target EXCEPT ![a] = None]
               /\ UNCHANGED <<phase, kind, todo>>

At(a, step) == pc[a] = step

-----------------------------------------------------------------------------
Init ==
  /\ record = [s \in Sandboxes |-> None]
  /\ table = [s \in Sandboxes |-> None]
  /\ netns = {}
  /\ link = {}
  /\ route = [s \in Sandboxes |-> None]
  /\ flows = [d \in Addrs |-> {}]
  /\ running = {}
  /\ phase = [a \in Adapters |-> "down"]
  /\ kind = [a \in Adapters |-> "none"]
  /\ target = [a \in Adapters |-> None]
  /\ pc = [a \in Adapters |-> "idle"]
  /\ todo = [a \in Adapters |-> {}]
  /\ holder = None
  /\ faults = 0

-----------------------------------------------------------------------------
(* Requests.                                                               *)

\* Start of a sandbox whose task is not running; what is left of the task is
\* deleted before the network is set up.
BeginStart(a, s) ==
  /\ phase[a] = "up" /\ At(a, "idle")
  /\ Owner[s] = a /\ s \notin running
  /\ kind' = [kind EXCEPT ![a] = "start"]
  /\ target' = [target EXCEPT ![a] = s]
  /\ pc' = [pc EXCEPT ![a] = "lock"]
  /\ UNCHANGED <<record, kernel, running, phase, todo, holder, faults>>

\* Stop and Delete delete the task before they remove the network.
BeginStop(a, s) ==
  /\ phase[a] = "up" /\ At(a, "idle")
  /\ Owner[s] = a
  /\ running' = running \ {s}
  /\ kind' = [kind EXCEPT ![a] = "stop"]
  /\ target' = [target EXCEPT ![a] = s]
  /\ pc' = [pc EXCEPT ![a] = "lock"]
  /\ UNCHANGED <<record, kernel, phase, todo, holder, faults>>

\* Mutant of BeginReconcile: only before the adapter listens.
BeginReconcileAtBoot(a) ==
  /\ phase[a] = "down" /\ At(a, "idle")
  /\ phase' = [phase EXCEPT ![a] = "boot"]
  /\ kind' = [kind EXCEPT ![a] = "reconcile"]
  /\ todo' = [todo EXCEPT ![a] = {s \in Sandboxes : Owner[s] = a /\ record[s] # None}]
  /\ pc' = [pc EXCEPT ![a] = "next"]
  /\ UNCHANGED <<record, kernel, running, target, holder, faults>>

\* Reconcile, periodically and before the adapter listens.
BeginReconcile(a) ==
  /\ phase[a] \in {"down", "up"} /\ At(a, "idle")
  /\ phase' = [phase EXCEPT ![a] = IF @ = "up" THEN "up" ELSE "boot"]
  /\ kind' = [kind EXCEPT ![a] = "reconcile"]
  /\ todo' = [todo EXCEPT ![a] = {s \in Sandboxes : Owner[s] = a /\ record[s] # None}]
  /\ pc' = [pc EXCEPT ![a] = "next"]
  /\ UNCHANGED <<record, kernel, running, target, holder, faults>>

\* Mutant of Orphaned: every recorded network is taken for an orphan.
OrphanedAlways(s) == TRUE

\* Inspect does not report the sandbox as running.
Orphaned(s) == s \notin running

NextRecord(a, s) ==
  /\ At(a, "next") /\ s \in todo[a]
  /\ todo' = [todo EXCEPT ![a] = @ \ {s}]
  /\ IF Orphaned(s)
     THEN target' = [target EXCEPT ![a] = s] /\ pc' = [pc EXCEPT ![a] = "lock"]
     ELSE UNCHANGED <<target, pc>>
  /\ UNCHANGED <<record, kernel, running, phase, kind, holder, faults>>

Reconciled(a) ==
  /\ At(a, "next") /\ todo[a] = {}
  /\ Ended(a, TRUE)
  /\ UNCHANGED <<record, kernel, running, holder, faults>>

networkLock(a) ==
  /\ At(a, "lock") /\ holder = None
  /\ holder' = a
  /\ pc' = [pc EXCEPT ![a] = "read"]
  /\ UNCHANGED <<record, kernel, running, phase, kind, target, todo, faults>>

-----------------------------------------------------------------------------
(* removeNetworkLocked. Every step names its object by the record's name   *)
(* and finds it gone without an error.                                     *)

ReadRecord(a) ==
  /\ At(a, "read")
  /\ IF record[target[a]] = None
     THEN Removed(a)
     ELSE pc' = [pc EXCEPT ![a] = "unlink"] /\ UNCHANGED <<phase, kind, target, todo, holder, faults>>
  /\ UNCHANGED <<record, kernel, running>>

\* Mutant of DeleteLink: a link that cannot be deleted is passed over.
DeleteLinkLenient(a) ==
  /\ At(a, "unlink")
  /\ \/ link' = link \ {target[a]} /\ route' = [route EXCEPT ![target[a]] = None]
     \/ UNCHANGED <<link, route>>
  /\ Proceed(a, "unname")
  /\ UNCHANGED <<record, table, netns, flows, running>>

DeleteLink(a) ==
  /\ At(a, "unlink")
  /\ link' = link \ {target[a]}
  /\ route' = [route EXCEPT ![target[a]] = None]
  /\ Proceed(a, "unname")
  /\ UNCHANGED <<record, table, netns, flows, running>>

DeleteNetns(a) ==
  /\ At(a, "unname")
  /\ netns' = netns \ {target[a]}
  /\ Proceed(a, "conntrack")
  /\ UNCHANGED <<record, table, link, route, flows, running>>

\* Mutant of clearConntrack: a failed deletion counts as an empty one.
clearConntrackLenient(a) ==
  /\ At(a, "conntrack")
  /\ \/ flows' = [flows EXCEPT ![record[target[a]]] = {}]
     \/ UNCHANGED flows
  /\ Proceed(a, "unfilter")
  /\ UNCHANGED <<record, table, netns, link, route, running>>

clearConntrack(a) ==
  /\ At(a, "conntrack")
  /\ flows' = [flows EXCEPT ![record[target[a]]] = {}]
  /\ Proceed(a, "unfilter")
  /\ UNCHANGED <<record, table, netns, link, route, running>>

DeleteTable(a) ==
  /\ At(a, "unfilter")
  /\ table' = [table EXCEPT ![target[a]] = None]
  /\ Proceed(a, "forget")
  /\ UNCHANGED <<record, netns, link, route, flows, running>>

\* The resolver's directory and then the record.
ForgetRecord(a) ==
  /\ At(a, "forget")
  /\ record' = [record EXCEPT ![target[a]] = None]
  /\ \/ Removed(a)
     \/ Fault /\ Ended(a, FALSE) /\ Released(a)
  /\ UNCHANGED <<kernel, running>>

-----------------------------------------------------------------------------
(* setupNetwork, after it has removed what an earlier one left.            *)

Routed(d) == \E s \in Sandboxes : route[s] = d
Filtered(d) == \E s \in Sandboxes : table[s] = d

\* "A retained firewall also reserves its address after partial teardown."
Free(d) == ~Routed(d) /\ ~Filtered(d)

Subnet(s, offset) == (Hash[s] + offset) % PoolSize

\* "Durable ownership precedes every kernel mutation, including firewall
\* setup." It names the first free subnet from the sandbox's own on.
WriteRecord(a) ==
  /\ At(a, "record")
  /\ \E offset \in Addrs :
       /\ Free(Subnet(target[a], offset))
       /\ \A o \in 0 .. offset - 1 : ~Free(Subnet(target[a], o))
       /\ record' = [record EXCEPT ![target[a]] = Subnet(target[a], offset)]
  /\ Proceed(a, "filter")
  /\ UNCHANGED <<kernel, running>>

Exhausted(a) ==
  /\ At(a, "record") /\ \A o \in Addrs : ~Free(Subnet(target[a], o))
  /\ Ended(a, FALSE) /\ Released(a)
  /\ UNCHANGED <<record, kernel, running, faults>>

\* nft -f, one transaction.
AddTable(a) ==
  /\ At(a, "filter")
  /\ table' = [table EXCEPT ![target[a]] = record[target[a]]]
  /\ Proceed(a, "name")
  /\ UNCHANGED <<record, netns, link, route, flows, running>>

\* ip refuses to add a namespace or a link whose name is taken.
AddNetns(a) ==
  /\ At(a, "name") /\ target[a] \notin netns
  /\ netns' = netns \cup {target[a]}
  /\ Proceed(a, "veth")
  /\ UNCHANGED <<record, table, link, route, flows, running>>

\* The pair, and what is configured while it is down.
AddLink(a) ==
  /\ At(a, "veth") /\ target[a] \notin link
  /\ link' = link \cup {target[a]}
  /\ Proceed(a, "up")
  /\ UNCHANGED <<record, table, netns, route, flows, running>>

LinkUp(a) ==
  /\ At(a, "up")
  /\ route' = [route EXCEPT ![target[a]] = record[target[a]]]
  /\ Proceed(a, "resolver")
  /\ UNCHANGED <<record, table, netns, link, flows, running>>

\* The resolver's file; setupNetwork returns.
WriteResolver(a) ==
  /\ At(a, "resolver")
  /\ holder' = None
  /\ pc' = [pc EXCEPT ![a] = "task"]
  /\ UNCHANGED <<record, kernel, running, phase, kind, target, todo, faults>>

\* NewTask and its start.
StartTask(a) ==
  /\ At(a, "task")
  /\ running' = running \cup {target[a]}
  /\ Ended(a, TRUE)
  /\ UNCHANGED <<record, kernel, holder, faults>>

-----------------------------------------------------------------------------
(* Faults and the sandboxes themselves.                                    *)

\* A command that fails without an effect.
Fails(a) ==
  /\ pc[a] # "idle"
  /\ Fault /\ Ended(a, FALSE) /\ Released(a)
  /\ UNCHANGED <<record, kernel, running>>

Crash(a) ==
  /\ phase[a] # "down"
  /\ Fault /\ Released(a)
  /\ phase' = [phase EXCEPT ![a] = "down"]
  /\ pc' = [pc EXCEPT ![a] = "idle"]
  /\ target' = [target EXCEPT ![a] = None]
  /\ kind' = [kind EXCEPT ![a] = "none"]
  /\ todo' = [todo EXCEPT ![a] = {}]
  /\ UNCHANGED <<record, kernel, running>>

Reboot ==
  /\ Fault
  /\ table' = [s \in Sandboxes |-> None]
  /\ netns' = {}
  /\ link' = {}
  /\ route' = [s \in Sandboxes |-> None]
  /\ flows' = [d \in Addrs |-> {}]
  /\ running' = {}
  /\ phase' = [a \in Adapters |-> "down"]
  /\ pc' = [a \in Adapters |-> "idle"]
  /\ target' = [a \in Adapters |-> None]
  /\ kind' = [a \in Adapters |-> "none"]
  /\ todo' = [a \in Adapters |-> {}]
  /\ holder' = None
  /\ UNCHANGED record

TaskDies(s) ==
  /\ s \in running
  /\ running' = running \ {s}
  /\ UNCHANGED <<record, kernel, control, faults>>

\* A packet of the sandbox is routed out and its connection tracked.
Connect(s) ==
  /\ s \in running /\ route[s] # None
  /\ flows' = [flows EXCEPT ![route[s]] = @ \cup {s}]
  /\ UNCHANGED <<record, table, netns, link, route, running, control, faults>>

Command(a) ==
  \/ ReadRecord(a) \/ DeleteLink(a) \/ DeleteNetns(a) \/ clearConntrack(a)
  \/ DeleteTable(a) \/ ForgetRecord(a)
  \/ WriteRecord(a) \/ Exhausted(a) \/ AddTable(a) \/ AddNetns(a) \/ AddLink(a)
  \/ LinkUp(a) \/ WriteResolver(a) \/ StartTask(a) \/ Reconciled(a)
  \/ \E s \in Sandboxes : NextRecord(a, s)

Next ==
  \/ \E a \in Adapters :
       \/ \E s \in Sandboxes : BeginStart(a, s) \/ BeginStop(a, s)
       \/ BeginReconcile(a) \/ networkLock(a) \/ Command(a)
       \/ Fails(a) \/ Crash(a)
  \/ Reboot
  \/ \E s \in Sandboxes : TaskDies(s) \/ Connect(s)

Spec == Init /\ [][Next]_vars

\* An operation that holds its locks goes on, an adapter that ended is
\* restarted, the API asks for a reconciliation again and again, and neither
\* lock is kept from one of those who wait for it for ever.
FairSpec ==
  /\ Spec
  /\ \A a \in Adapters :
       /\ WF_vars(Command(a))
       /\ SF_vars(networkLock(a))
       /\ SF_vars(BeginReconcile(a))

-----------------------------------------------------------------------------
(* Properties.                                                             *)

TypeOK ==
  /\ record \in [Sandboxes -> Addrs \cup {None}]
  /\ table \in [Sandboxes -> Addrs \cup {None}]
  /\ netns \subseteq Sandboxes
  /\ link \subseteq Sandboxes
  /\ route \in [Sandboxes -> Addrs \cup {None}]
  /\ flows \in [Addrs -> SUBSET Sandboxes]
  /\ running \subseteq Sandboxes
  /\ phase \in [Adapters -> {"down", "boot", "up"}]
  /\ kind \in [Adapters -> {"none", "start", "stop", "reconcile"}]
  /\ target \in [Adapters -> Sandboxes \cup {None}]
  /\ pc \in [Adapters -> Steps]
  /\ todo \in [Adapters -> SUBSET Sandboxes]
  /\ holder \in Adapters \cup {None}
  /\ faults \in 0 .. MaxFaults

\* A sandbox's interface is never up without the firewall that confines it,
\* for the same address: setup puts it first, teardown takes it last, and a
\* failure, a crash or another operation in between changes nothing of that
\* ("cleanup errors must leave the firewall in place").
Firewalled == \A s \in Sandboxes : route[s] # None => table[s] = route[s]

\* No two sandboxes of the host hold one address, whichever adapters set
\* them up and however far a teardown has come.
OneOwner ==
  \A s, t \in Sandboxes :
    /\ table[s] # None /\ table[s] = table[t] => s = t
    /\ route[s] # None /\ route[s] = route[t] => s = t

\* A tracked connection belongs to the sandbox whose firewall holds its
\* address: the next owner of the address inherits none (docs: "preventing a
\* subsequent sandbox from inheriting old NAT flows").
NoInheritedFlows ==
  \A d \in Addrs : \A s \in flows[d] : table[s] = d

\* An address has one owner, who inherits no connection of an earlier one.
AddressIsExclusive == OneOwner /\ NoInheritedFlows

\* Whatever exists of a sandbox's network is named by its record, under the
\* right address, so that a later removal finds all of it.
Journalled ==
  \A s \in Sandboxes :
    /\ table[s] # None => record[s] = table[s]
    /\ s \in netns \cup link => record[s] # None

\* A running sandbox has its network, whole: no removal of it is under way,
\* by a reconciliation that looked at the sandbox earlier or otherwise.
RunningIsConnected ==
  \A s \in running : s \in netns /\ s \in link /\ route[s] # None

\* What is left of the network of a sandbox that does not run is removed in
\* the end, or the sandbox is started.
OrphansAreRemoved ==
  \A s \in Sandboxes :
    (record[s] # None /\ s \notin running) ~> (record[s] = None \/ s \in running)

\* "completed teardown with an old journal record is retried idempotently"
\* (docs/resources-networking.md): a removal clears the connections of no
\* other sandbox.
RetryIsIdempotent ==
  \A a \in Adapters :
    At(a, "conntrack") => flows[record[target[a]]] \subseteq {target[a]}
=============================================================================
