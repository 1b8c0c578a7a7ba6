----------------------------- MODULE MCProcesses ------------------------------
(* Instances of Processes for TLC. *)
EXTENDS Processes, TLC

CONSTANTS p1, p2
=============================================================================
