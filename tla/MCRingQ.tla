------------------------------ MODULE MCRingQ -------------------------------
(* Instances of RingQ for TLC. *)
EXTENDS RingQ

\* Byte strings over two values, up to one byte longer than the ring can hold.
MCInputs == UNION {[1..n -> {1, 2}] : n \in 1..Size}
=============================================================================
