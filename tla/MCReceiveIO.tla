---------------------------- MODULE MCReceiveIO -----------------------------
(* Instances of ReceiveIO for TLC. *)
EXTENDS ReceiveIO

\* ReceiveIO writes no byte strings of its own.
NoInputs == {}

\* A cell that was never written.
NoByte == <<0, 0>>
=============================================================================
