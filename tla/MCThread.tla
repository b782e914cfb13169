------------------------------ MODULE MCThread ------------------------------
(* Instances of Thread for TLC. *)
EXTENDS Thread, TLC

Symmetry == Permutations(Controllers) \cup Permutations(Runs)
=============================================================================
