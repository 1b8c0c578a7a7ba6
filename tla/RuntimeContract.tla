--------------------------- MODULE RuntimeContract ---------------------------
(***************************************************************************)
(* What the containerd adapter promises for one sandbox, seen from the     *)
(* API: the states its objects can be in and, for each lifecycle request,  *)
(* every answer it can give together with the state it leaves behind.      *)
(*                                                                         *)
(*   "absent"    no container, no snapshot, no quota record                *)
(*   "residue"   no container, but storage or a quota record is left       *)
(*   "stopped"   the container exists and runs no task                     *)
(*   "running"   the container exists and its task runs                    *)
(***************************************************************************)

RuntimeStates == {"absent", "residue", "stopped", "running"}

\* States in which the adapter lists the container.
Present == {"stopped", "running"}

\* The lifecycle requests converge sends.
Calls == {"create", "start", "stop", "delete"}

Ok(s) == [answer |-> "ok", state |-> s]
Error(s) == [answer |-> "error", state |-> s]

\* Create is idempotent for an existing container. Otherwise it reclaims what
\* an interrupted attempt left, and may fail before or after the snapshot,
\* the quota record or the container came into being.
CreateResults(s) ==
  IF s \in Present
    THEN {Ok(s), Error(s)}
    ELSE {Ok("stopped")} \cup {Error(t) : t \in {s, "absent", "residue", "stopped"}}

\* Start answers at once for a running task, and fails for a missing
\* container. A failed start rolls the task back, or fails to.
StartResults(s) ==
  IF s \in Present
    THEN {Ok("running"), Error(s), Error("running")}
    ELSE {Error(s)}

\* Stop keeps the container and its snapshot.
StopResults(s) ==
  IF s \in Present
    THEN {Ok("stopped"), Error(s), Error("stopped")}
    ELSE {Error(s)}

\* Mutant of DeleteResults: the answer does not wait for the storage.
DeleteResultsEarly(s) == {Ok("residue"), Error(s)}

\* Delete stops, deletes the container, then waits for storage to be
\* reclaimed; it can fail after each of these.
DeleteResults(s) ==
  {Ok("absent"), Error("absent"), Error(s)}
    \cup (IF s \in Present THEN {Error("stopped"), Error("residue")} ELSE {})

Results(call, s) ==
  CASE call = "create" -> CreateResults(s)
    [] call = "start"  -> StartResults(s)
    [] call = "stop"   -> StopResults(s)
    [] call = "delete" -> DeleteResults(s)

\* What an unanswered request may have done: nothing, or any of its results.
Unanswered(call, s) == {s} \cup {r.state : r \in Results(call, s)}
=============================================================================
