----------------------------- MODULE RequestPool -----------------------------
(***************************************************************************)
(* What a pool of request handlers promises to the server that blocks and  *)
(* reinitialises it (WorkerPoolManager, ThreadPools.h): never more than    *)
(* Size requests at a time, and while the pool is blocked requests may end *)
(* but none begins.                                                        *)
(***************************************************************************)
EXTENDS Naturals

CONSTANT Size

VARIABLES
  blocked,    \* BlockRequests was called and UnblockRequests was not yet
  requests    \* how many requests are in work

pvars == <<blocked, requests>>

PInit == blocked = FALSE /\ requests = 0

SetBlocked(b) == blocked' = b /\ UNCHANGED requests

Begin ==
  /\ ~blocked /\ requests < Size
  /\ requests' = requests + 1
  /\ UNCHANGED blocked

End ==
  /\ requests > 0
  /\ requests' = requests - 1
  /\ UNCHANGED blocked

PNext == Begin \/ End \/ \E b \in BOOLEAN : SetBlocked(b)

PSpec == PInit /\ [][PNext]_pvars
=============================================================================
