------------------------------ MODULE MCImages -------------------------------
(***************************************************************************)
(* Images on a small instance: more uploads and builds than slots.         *)
(***************************************************************************)
EXTENDS Images

CONSTANTS i1, i2, i3, s1, s2, d1, d2
=============================================================================
