----------------------------- MODULE MCAnyArray -----------------------------
(* Instances of AnyArray for TLC. *)
EXTENDS AnyArray

\* Two keys collide at the last entry of the smallest table and run over its
\* end into the entry of the others.
Colliding == [k \in Keys |-> IF k < 3 THEN 2 ELSE 0]
=============================================================================
