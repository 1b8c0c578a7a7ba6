----------------------------- MODULE MCLifecycle -----------------------------
(***************************************************************************)
(* Lifecycle on small instances. Two sandboxes compete for a host that     *)
(* carries the disk of both but the cpu of one.                            *)
(***************************************************************************)
EXTENDS Lifecycle, TLC

CONSTANTS s1, s2, x1, k1, k2, small, im

\* One config, one unit of every resource, built from a managed image.
MCDemand == [c \in {small} |-> [r \in Resources |-> 1]]
MCImageOf == [c \in {small} |-> im]
MCNoImage == [c \in {small} |-> None]
MCHasTtl == [c \in {small} |-> TRUE]
MCCapacity == [cpu |-> 1, memory |-> 2, disk |-> 2]

MCSymmetry == Permutations({s1, s2}) \cup Permutations({k1, k2})
=============================================================================
