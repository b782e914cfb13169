--------------------------- MODULE RecursiveMutex ---------------------------
(***************************************************************************)
(* The classes Mutex and Condition of mtfoundation/Threads.cpp (the POSIX  *)
(* build): a recursive lock made of a plain pthread mutex, the field       *)
(* fLocker, which every caller reads without a lock, and a lock count that *)
(* each thread keeps in its thread local storage.                          *)
(*                                                                         *)
(* A step is one access to what threads share: the pthread mutex or        *)
(* fLocker.  fLocker is an aligned long, so a racing read sees some value  *)
(* that was written.  The steps of one call are joined by pc.              *)
(***************************************************************************)
EXTENDS Integers

CONSTANTS
  Threads,    \* the threads that use the mutex
  None,       \* no thread: fLocker = -1
  MaxDepth    \* bound on the nesting of Lock in the model

ASSUME NoneNotThread == None \notin Threads
ASSUME MaxDepthNat == MaxDepth \in Nat

VARIABLES
  fMutex,     \* the owner of the pthread mutex
  fLocker,    \* the recorded holder
  count,      \* count[t]: GetCount() as thread t sees it
  depth,      \* depth[t]: calls of Lock that returned minus calls of Unlock
  pc          \* where each thread is

vars == <<fMutex, fLocker, count, depth, pc>>

\* "out"      in the client's code
\* "first"    got the pthread mutex, has still to record itself
\* "busyLock", "busyTry"  TRYLOCK said EBUSY, in Lock or in TryLock
\* "hard"     in LOCKMUTEX of Mutex::Lock
\* "release"  has cleared fLocker, has still to do UNLOCKMUTEX
\* "park"     in Condition::Wait after ReleaseForWait
\* "asleep"   in CONDWAIT, without the pthread mutex
\* "woken"    back from CONDWAIT, wants the pthread mutex
\* "unpark"   got it, has still to do AcquireAfterWait
PCs == {"out", "first", "busyLock", "busyTry", "hard", "release",
        "park", "asleep", "woken", "unpark"}

Goto(t, l) == pc' = [pc EXCEPT ![t] = l]

-----------------------------------------------------------------------------
Init ==
  /\ fMutex = None
  /\ fLocker = None
  /\ count = [t \in Threads |-> 0]
  /\ depth = [t \in Threads |-> 0]
  /\ pc = [t \in Threads |-> "out"]

\* Mutex::TryLock up to TRYLOCK, called by Mutex::Lock (busy = "busyLock") or
\* by the client (busy = "busyTry").
TryMutex(t, busy) ==
  /\ pc[t] = "out"
  /\ depth[t] < MaxDepth
  /\ \/ fMutex = None /\ fMutex' = t /\ Goto(t, "first")
     \/ fMutex # None /\ Goto(t, busy) /\ UNCHANGED fMutex
  /\ UNCHANGED <<fLocker, count, depth>>

\* fLocker = MyId(); SetCount(1), in Mutex::TryLock and in Mutex::Lock after
\* LOCKMUTEX.  The call returns.
FirstLock(t) ==
  /\ pc[t] = "first"
  /\ fLocker' = t
  /\ count' = [count EXCEPT ![t] = 1]
  /\ depth' = [depth EXCEPT ![t] = @ + 1]
  /\ Goto(t, "out")
  /\ UNCHANGED fMutex

\* Mutant: any recorded holder makes the lock recursive.
Busy_AnyLocker(t) ==
  /\ pc[t] \in {"busyLock", "busyTry"}
  /\ \/ /\ fLocker # None
        /\ count' = [count EXCEPT ![t] = @ + 1]
        /\ depth' = [depth EXCEPT ![t] = @ + 1]
        /\ Goto(t, "out")
     \/ /\ fLocker = None
        /\ Goto(t, IF pc[t] = "busyLock" THEN "hard" ELSE "out")
        /\ UNCHANGED <<count, depth>>
  /\ UNCHANGED <<fMutex, fLocker>>

\* Mutex::TryLock after EBUSY: a recursive lock if fLocker == MyId(),
\* otherwise TryLock returns false and Lock goes on to LOCKMUTEX.
Busy(t) ==
  /\ pc[t] \in {"busyLock", "busyTry"}
  /\ \/ /\ fLocker = t
        /\ count' = [count EXCEPT ![t] = @ + 1]
        /\ depth' = [depth EXCEPT ![t] = @ + 1]
        /\ Goto(t, "out")
     \/ /\ fLocker # t
        /\ Goto(t, IF pc[t] = "busyLock" THEN "hard" ELSE "out")
        /\ UNCHANGED <<count, depth>>
  /\ UNCHANGED <<fMutex, fLocker>>

\* LOCKMUTEX in Mutex::Lock.
HardLock(t) ==
  /\ pc[t] = "hard"
  /\ fMutex = None
  /\ fMutex' = t
  /\ Goto(t, "first")
  /\ UNCHANGED <<fLocker, count, depth>>

\* SetCount(newCount): a count of 0 or less removes the entry, GetCount then
\* answers 0.
Counted(n) == IF n <= 0 THEN 0 ELSE n

\* Mutant: the test fLocker == MyId() is dropped.
Unlock_NoCheck(t) ==
  /\ pc[t] = "out"
  /\ count' = [count EXCEPT ![t] = Counted(@ - 1)]
  /\ depth' = [depth EXCEPT ![t] = @ - 1]
  /\ IF count[t] - 1 <= 0
       THEN fLocker' = None /\ Goto(t, "release")
       ELSE UNCHANGED <<fLocker, pc>>
  /\ UNCHANGED fMutex

\* Mutex::Unlock: a caller that is not fLocker only gets a log entry.
Unlock(t) ==
  /\ pc[t] = "out"
  /\ fLocker = t
  /\ count' = [count EXCEPT ![t] = Counted(@ - 1)]
  /\ depth' = [depth EXCEPT ![t] = @ - 1]
  /\ IF count[t] - 1 <= 0
       THEN fLocker' = None /\ Goto(t, "release")
       ELSE UNCHANGED <<fLocker, pc>>
  /\ UNCHANGED fMutex

UnlockNotHeld(t) ==
  /\ pc[t] = "out"
  /\ fLocker # t
  /\ UNCHANGED vars

\* UNLOCKMUTEX at the end of Mutex::Unlock.
Release(t) ==
  /\ pc[t] = "release"
  /\ fMutex' = None
  /\ Goto(t, "out")
  /\ UNCHANGED <<fLocker, count, depth>>

\* Mutant: fLocker is not reset before the wait.
ReleaseForWait_KeepLocker(t) ==
  /\ pc[t] = "out"
  /\ depth[t] > 0
  /\ Goto(t, "park")
  /\ UNCHANGED <<fMutex, fLocker, count, depth>>

\* Condition::Wait and TimedWait: ReleaseForWait.  The caller holds the mutex
\* ("it must be locked"), at any nesting.
ReleaseForWait(t) ==
  /\ pc[t] = "out"
  /\ depth[t] > 0
  /\ fLocker' = None
  /\ Goto(t, "park")
  /\ UNCHANGED <<fMutex, count, depth>>

\* CONDWAIT gives the pthread mutex up ...
CondWait(t) ==
  /\ pc[t] = "park"
  /\ fMutex' = None
  /\ Goto(t, "asleep")
  /\ UNCHANGED <<fLocker, count, depth>>

\* ... until a signal, the timeout or nothing at all wakes the thread ...
Wake(t) ==
  /\ pc[t] = "asleep"
  /\ Goto(t, "woken")
  /\ UNCHANGED <<fMutex, fLocker, count, depth>>

\* ... and the pthread mutex is available again.
Reacquire(t) ==
  /\ pc[t] = "woken"
  /\ fMutex = None
  /\ fMutex' = t
  /\ Goto(t, "unpark")
  /\ UNCHANGED <<fLocker, count, depth>>

AcquireAfterWait(t) ==
  /\ pc[t] = "unpark"
  /\ fLocker' = t
  /\ Goto(t, "out")
  /\ UNCHANGED <<fMutex, count, depth>>

-----------------------------------------------------------------------------
Lock(t) == \/ TryMutex(t, "busyLock") \/ TryMutex(t, "busyTry")
           \/ FirstLock(t) \/ Busy(t) \/ HardLock(t)

Wait(t) == \/ ReleaseForWait(t) \/ CondWait(t) \/ Wake(t)
           \/ Reacquire(t) \/ AcquireAfterWait(t)

Next == \E t \in Threads : \/ Lock(t) \/ Wait(t)
                           \/ Unlock(t) \/ UnlockNotHeld(t) \/ Release(t)

Spec == Init /\ [][Next]_vars

-----------------------------------------------------------------------------
\* The variables have their types.
TypeOK ==
  /\ fMutex \in Threads \cup {None}
  /\ fLocker \in Threads \cup {None}
  /\ count \in [Threads -> Nat]
  /\ depth \in [Threads -> Nat]
  /\ pc \in [Threads -> PCs]

\* The places at which a thread owns the pthread mutex without being recorded
\* in fLocker, and those of Condition::Wait.
Unrecorded == {"first", "release", "park", "unpark"}
Parked     == {"park", "asleep", "woken", "unpark"}

\* Why the unprotected test fLocker == MyId() is sound: a thread that finds
\* itself in fLocker does own the pthread mutex, and every thread in its
\* critical section finds itself there.
LockerOwns ==
  /\ fLocker # None => fMutex = fLocker /\ pc[fLocker] \notin Unrecorded \cup {"hard"}
  /\ \A t \in Threads : depth[t] > 0 /\ pc[t] \notin Parked => fLocker = t

\* Two threads are never between Lock and Unlock together; a thread that
\* waits in Condition::Wait, at whatever nesting, is not in the way.
MutualExclusion ==
  \A t, u \in Threads : /\ depth[t] > 0 /\ pc[t] \notin Parked
                        /\ depth[u] > 0 /\ pc[u] \notin Parked
                        => t = u

\* The count in thread local storage, which FirstLock sets to 1 and which
\* decides when Unlock frees the pthread mutex, is the client's nesting, also
\* while and after the thread waits: IsLockedByMe() is right.
CountIsDepth ==
  \A t \in Threads : /\ count[t] = depth[t]
                     /\ pc[t] \in Parked => count[t] > 0

\* Locking again never blocks: a thread that waits for the pthread mutex in
\* Mutex::Lock has not locked it, and one that frees it is out.
NoSelfDeadlock == \A t \in Threads : pc[t] \in {"hard", "first", "release"} => depth[t] = 0

\* The pthread mutex is held exactly by the thread that is inside or on its
\* way in or out, so it is never left locked behind.
OwnerAccounted ==
  \A t \in Threads : fMutex = t <=> \/ depth[t] > 0 /\ pc[t] \notin {"asleep", "woken"}
                                    \/ pc[t] \in {"first", "release"}

\* All of the above: the inductive invariant.
Inv == /\ TypeOK /\ LockerOwns /\ MutualExclusion
       /\ CountIsDepth /\ NoSelfDeadlock /\ OwnerAccounted

Abs == INSTANCE ReentrantLock
         WITH nesting <- count, parked <- {t \in Threads : pc[t] \in Parked}

\* Mutex and Condition implement the abstract reentrant lock.
Refinement == Abs!ASpec
=============================================================================
