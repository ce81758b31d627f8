-------------------------- MODULE MCLockFreeStack ---------------------------
(* Small instances of LockFreeStack for TLC. *)
EXTENDS LockFreeStack, TLC

Symmetry == Permutations(Threads) \cup Permutations(Nodes)
=============================================================================
