---------------------------- MODULE RuntimeService ----------------------------
(***************************************************************************)
(* What the adapter promises to the API, as a state machine: one call at a *)
(* time works on one sandbox within the results RuntimeContract allows for *)
(* the state it began in. It is answered truthfully, or the adapter dies   *)
(* with it. Tasks may exit at any time, and a reconciliation removes what  *)
(* is left of sandboxes without a container.                               *)
(***************************************************************************)
EXTENDS RuntimeContract

CONSTANTS Sandboxes, None

VARIABLES
  state,   \* of each sandbox
  call,    \* the request under way
  id,      \* its sandbox
  from,    \* the state it began in
  reply    \* the answer to the last request

vars == <<state, call, id, from, reply>>

Init ==
  /\ state = [s \in Sandboxes |-> "absent"]
  /\ call = None /\ id = None /\ from = None
  /\ reply = "none"

Begin(c, s) ==
  /\ call = None
  /\ call' = c /\ id' = s /\ from' = state[s] /\ reply' = "none"
  /\ UNCHANGED state

\* The call moves its sandbox to a state that one of its results leaves.
Work ==
  /\ call # None
  /\ \E t \in Unanswered(call, from) : state' = [state EXCEPT ![id] = t]
  /\ UNCHANGED <<call, id, from, reply>>

\* The state a result speaks of, or the one that a task which has exited
\* since leaves of it.
Shows(t, now) == t = now \/ (t = "running" /\ now = "stopped")

\* The answer comes with the last effect, or after it.
Answer(answer) ==
  /\ call # None
  /\ \E r \in Results(call, from) :
       /\ r.answer = answer
       /\ \/ state' = [state EXCEPT ![id] = r.state]
          \/ Shows(r.state, state[id]) /\ UNCHANGED state
  /\ reply' = answer
  /\ call' = None /\ id' = None /\ from' = None

\* The adapter dies; the call is never answered.
Vanish ==
  /\ call # None
  /\ call' = None /\ id' = None /\ from' = None
  /\ UNCHANGED <<state, reply>>

\* Tasks exit by themselves, all of them when the host goes down. The state a
\* call began in counts as stopped from then on.
Exit(S) ==
  /\ \A s \in S : state[s] = "running"
  /\ state' = [s \in Sandboxes |-> IF s \in S THEN "stopped" ELSE state[s]]
  /\ UNCHANGED reply
  /\ \/ /\ from' = IF id \in S THEN "stopped" ELSE from
        /\ UNCHANGED <<call, id>>
     \/ call' = None /\ id' = None /\ from' = None

\* Reconcile.
Sweep(s) ==
  /\ call = None /\ state[s] = "residue"
  /\ state' = [state EXCEPT ![s] = "absent"]
  /\ UNCHANGED <<call, id, from, reply>>

Next ==
  \/ \E c \in Calls, s \in Sandboxes : Begin(c, s)
  \/ Work
  \/ \E answer \in {"ok", "error"} : Answer(answer)
  \/ Vanish
  \/ \E S \in SUBSET Sandboxes : Exit(S)
  \/ \E s \in Sandboxes : Sweep(s)

Spec == Init /\ [][Next]_vars
=============================================================================
