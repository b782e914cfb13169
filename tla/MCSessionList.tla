--------------------------- MODULE MCSessionList ---------------------------
(* Instances of SessionList for TLC. *)
EXTENDS SessionList, TLC

Symmetry == Permutations(Requests) \cup Permutations(Sessions)
=============================================================================
