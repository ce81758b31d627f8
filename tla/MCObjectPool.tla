----------------------------- MODULE MCObjectPool ---------------------------
(* Instances of ObjectPool for TLC. *)
EXTENDS ObjectPool

Symmetry == Permutations(Threads)
=============================================================================
