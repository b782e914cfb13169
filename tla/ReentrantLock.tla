---------------------------- MODULE ReentrantLock ----------------------------
(***************************************************************************)
(* What the classes Mutex and Condition (Threads.h) promise together: a    *)
(* lock that its holder may take again, "unlock as many times as you have  *)
(* called lock", and that a wait gives up completely and restores.         *)
(***************************************************************************)
EXTENDS Naturals

CONSTANT Threads

VARIABLES
  nesting,    \* nesting[t]: how often t has locked and not yet unlocked
  parked      \* the threads that gave the lock up in Condition::Wait

avars == <<nesting, parked>>

AInit == nesting = [t \in Threads |-> 0] /\ parked = {}

\* No thread but t is between Lock and Unlock.
Free(t) == \A u \in Threads \ {t} : nesting[u] > 0 => u \in parked

Acquire(t) ==
  /\ t \notin parked /\ Free(t)
  /\ nesting' = [nesting EXCEPT ![t] = @ + 1]
  /\ UNCHANGED parked

Release(t) ==
  /\ t \notin parked /\ nesting[t] > 0
  /\ nesting' = [nesting EXCEPT ![t] = @ - 1]
  /\ UNCHANGED parked

Park(t) ==
  /\ t \notin parked /\ nesting[t] > 0
  /\ parked' = parked \cup {t}
  /\ UNCHANGED nesting

Unpark(t) ==
  /\ t \in parked /\ Free(t)
  /\ parked' = parked \ {t}
  /\ UNCHANGED nesting

ANext == \E t \in Threads : Acquire(t) \/ Release(t) \/ Park(t) \/ Unpark(t)

ASpec == AInit /\ [][ANext]_avars
=============================================================================
