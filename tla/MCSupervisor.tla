----------------------------- MODULE MCSupervisor -----------------------------
(* The supervisor with its four children.                                  *)
EXTENDS Supervisor
=============================================================================
