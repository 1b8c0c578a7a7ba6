----------------------------- MODULE MCEndpoints ------------------------------
(* Instances of Endpoints for TLC. *)
EXTENDS Endpoints, TLC

CONSTANTS a1, a2, s1, s2, s3

\* Two adapters on one host, three sandboxes for two subnets.
MCOwner == s1 :> a1 @@ s2 :> a1 @@ s3 :> a2
MCHash == s1 :> 0 @@ s2 :> 1 @@ s3 :> 0
=============================================================================
