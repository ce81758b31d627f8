-------------------------- MODULE MCJobDispatcher ---------------------------
(* Instances of JobDispatcher for TLC. *)
EXTENDS JobDispatcher
=============================================================================
