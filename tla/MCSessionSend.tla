--------------------------- MODULE MCSessionSend ----------------------------
(* Instances of SessionSend for TLC. *)
EXTENDS SessionSend
=============================================================================
