---------------------------- MODULE MCContainers ------------------------------
(* Instances of Containers for TLC. *)
EXTENDS Containers, TLC

CONSTANTS s1, s2
=============================================================================
