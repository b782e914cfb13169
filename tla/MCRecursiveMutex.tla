-------------------------- MODULE MCRecursiveMutex --------------------------
(* Instances of RecursiveMutex for TLC. *)
EXTENDS RecursiveMutex, TLC

Symmetry == Permutations(Threads)
=============================================================================
