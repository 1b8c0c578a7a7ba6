-------------------------------- MODULE MCLogs --------------------------------
(* The log collector with a limit of a few bytes. A stream may stay below  *)
(* the limit, reach it exactly, exceed it within a read and exceed it in a *)
(* later read; the pipe may be full.                                       *)
EXTENDS Logs
=============================================================================
