-------------------------- MODULE MCNetworkServer ---------------------------
(* Instances of NetworkServer for TLC. *)
EXTENDS NetworkServer
=============================================================================
