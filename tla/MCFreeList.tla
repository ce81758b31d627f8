----------------------------- MODULE MCFreeList -----------------------------
(* Small instances of FreeList for TLC. *)
EXTENDS FreeList, TLC

Symmetry == Permutations(Threads) \cup Permutations(Nodes)
=============================================================================
