---------------------------- MODULE MCLockFreeQ -----------------------------
(* Small instances of LockFreeQ for TLC. *)
EXTENDS LockFreeQ, TLC

Symmetry == Permutations(Threads) \cup Permutations(Nodes)
=============================================================================
