------------------------ MODULE RecursiveMutexProofs ------------------------
(***************************************************************************)
(* Proofs, for every set of threads and every nesting, of the safety       *)
(* properties of RecursiveMutex and of its refinement of ReentrantLock.    *)
(***************************************************************************)
EXTENDS RecursiveMutex, TLAPS

\* The conjuncts of the invariant other than the types.
Accounting == LockerOwns /\ CountIsDepth /\ NoSelfDeadlock /\ OwnerAccounted

\* A thread inside finds itself in fLocker, and there is only one fLocker.
LEMMA Exclusion == LockerOwns => MutualExclusion
BY DEF LockerOwns, MutualExclusion

\* The initial state satisfies the invariant.
LEMMA InitInv == Init => TypeOK /\ Accounting
<1> SUFFICES ASSUME Init PROVE TypeOK /\ Accounting
  OBVIOUS
<1>1. TypeOK
  BY DEF Init, TypeOK, PCs
<1>2. Accounting
  BY NoneNotThread
     DEF Init, Accounting, LockerOwns, CountIsDepth, NoSelfDeadlock, OwnerAccounted, Parked
<1> QED
  BY <1>1, <1>2

\* While t owns the pthread mutex, or nobody does, every other thread is outside
\* or sleeps.
LEMMA Others ==
  ASSUME TypeOK, Accounting, NEW t \in Threads, fMutex \in {t, None}
  PROVE  /\ fLocker \in {t, None}
         /\ \A u \in Threads : u # t =>
              /\ pc[u] \notin Unrecorded
              /\ depth[u] = 0 \/ pc[u] \in {"asleep", "woken"}
<1>1. \A u \in Threads : u # t => fMutex # u
  BY NoneNotThread
<1>2. fLocker \in {t, None}
  BY <1>1 DEF TypeOK, Accounting, LockerOwns
<1>3. ASSUME NEW u \in Threads, u # t
      PROVE  /\ pc[u] \notin Unrecorded
             /\ depth[u] = 0 \/ pc[u] \in {"asleep", "woken"}
  <2>1. ~(depth[u] > 0 /\ pc[u] \notin {"asleep", "woken"})
    BY <1>1, <1>3 DEF Accounting, OwnerAccounted
  <2>2. pc[u] \notin {"first", "release"}
    BY <1>1, <1>3 DEF Accounting, OwnerAccounted
  <2>3. depth[u] \in Nat
    BY DEF TypeOK
  <2>4. pc[u] \in {"park", "unpark"} => depth[u] > 0
    BY DEF Accounting, CountIsDepth, Parked, TypeOK
  <2> QED
    BY <2>1, <2>2, <2>3, <2>4 DEF Unrecorded
<1> QED
  BY <1>2, <1>3

\* Each step of Mutex::Lock and Mutex::TryLock keeps the invariant.
LEMMA LockInv ==
  ASSUME TypeOK, Accounting, NEW t \in Threads, Lock(t)
  PROVE  TypeOK' /\ Accounting'
<1> USE NoneNotThread DEF Goto
<1>1. ASSUME NEW busy \in {"busyLock", "busyTry"}, TryMutex(t, busy)
      PROVE  TypeOK' /\ Accounting'
  <2>1. TypeOK'
    BY <1>1 DEF TryMutex, TypeOK, PCs, Accounting, CountIsDepth, LockerOwns, OwnerAccounted
  <2>2. LockerOwns'
    BY <1>1, Others DEF TryMutex, TypeOK, PCs, Accounting, LockerOwns, CountIsDepth, NoSelfDeadlock, OwnerAccounted, Parked, Unrecorded
  <2>3. CountIsDepth' /\ NoSelfDeadlock'
    BY <1>1, Others DEF TryMutex, TypeOK, PCs, Accounting, LockerOwns, CountIsDepth, NoSelfDeadlock, OwnerAccounted, Parked, Unrecorded
  <2>4. OwnerAccounted'
    BY <1>1, Others DEF TryMutex, TypeOK, PCs, Accounting, LockerOwns, CountIsDepth, NoSelfDeadlock, OwnerAccounted, Parked, Unrecorded
  <2> QED
    BY <2>1, <2>2, <2>3, <2>4 DEF Accounting
<1>2. ASSUME FirstLock(t)
      PROVE  TypeOK' /\ Accounting'
  <2>1. TypeOK'
    BY <1>2 DEF FirstLock, TypeOK, PCs, Accounting, CountIsDepth, LockerOwns, OwnerAccounted
  <2>2. LockerOwns'
    BY <1>2, Others DEF FirstLock, TypeOK, PCs, Accounting, LockerOwns, CountIsDepth, NoSelfDeadlock, OwnerAccounted, Parked, Unrecorded
  <2>3. CountIsDepth' /\ NoSelfDeadlock'
    BY <1>2, Others DEF FirstLock, TypeOK, PCs, Accounting, LockerOwns, CountIsDepth, NoSelfDeadlock, OwnerAccounted, Parked, Unrecorded
  <2>4. OwnerAccounted'
    BY <1>2, Others DEF FirstLock, TypeOK, PCs, Accounting, LockerOwns, CountIsDepth, NoSelfDeadlock, OwnerAccounted, Parked, Unrecorded
  <2> QED
    BY <2>1, <2>2, <2>3, <2>4 DEF Accounting
<1>3. ASSUME Busy(t)
      PROVE  TypeOK' /\ Accounting'
  <2>1. TypeOK'
    BY <1>3 DEF Busy, TypeOK, PCs, Accounting, CountIsDepth, LockerOwns, OwnerAccounted
  <2>2. LockerOwns'
    BY <1>3, Others DEF Busy, TypeOK, PCs, Accounting, LockerOwns, CountIsDepth, NoSelfDeadlock, OwnerAccounted, Parked, Unrecorded
  <2>3. CountIsDepth' /\ NoSelfDeadlock'
    BY <1>3, Others DEF Busy, TypeOK, PCs, Accounting, LockerOwns, CountIsDepth, NoSelfDeadlock, OwnerAccounted, Parked, Unrecorded
  <2>4. OwnerAccounted'
    BY <1>3, Others DEF Busy, TypeOK, PCs, Accounting, LockerOwns, CountIsDepth, NoSelfDeadlock, OwnerAccounted, Parked, Unrecorded
  <2> QED
    BY <2>1, <2>2, <2>3, <2>4 DEF Accounting
<1>4. ASSUME HardLock(t)
      PROVE  TypeOK' /\ Accounting'
  <2>1. TypeOK'
    BY <1>4 DEF HardLock, TypeOK, PCs, Accounting, CountIsDepth, LockerOwns, OwnerAccounted
  <2>2. LockerOwns'
    BY <1>4, Others DEF HardLock, TypeOK, PCs, Accounting, LockerOwns, CountIsDepth, NoSelfDeadlock, OwnerAccounted, Parked, Unrecorded
  <2>3. CountIsDepth' /\ NoSelfDeadlock'
    BY <1>4, Others DEF HardLock, TypeOK, PCs, Accounting, LockerOwns, CountIsDepth, NoSelfDeadlock, OwnerAccounted, Parked, Unrecorded
  <2>4. OwnerAccounted'
    BY <1>4, Others DEF HardLock, TypeOK, PCs, Accounting, LockerOwns, CountIsDepth, NoSelfDeadlock, OwnerAccounted, Parked, Unrecorded
  <2> QED
    BY <2>1, <2>2, <2>3, <2>4 DEF Accounting
<1> QED
  BY <1>1, <1>2, <1>3, <1>4 DEF Lock

\* Each step of Mutex::Unlock keeps the invariant.
LEMMA UnlockInv ==
  ASSUME TypeOK, Accounting, NEW t \in Threads, Unlock(t) \/ Release(t)
  PROVE  TypeOK' /\ Accounting'
<1> USE NoneNotThread DEF Goto
<1>1. ASSUME Unlock(t)
      PROVE  TypeOK' /\ Accounting'
  <2>1. TypeOK'
    BY <1>1 DEF Unlock, Counted, TypeOK, PCs, Accounting, CountIsDepth, LockerOwns, OwnerAccounted
  <2>2. LockerOwns'
    BY <1>1, Others DEF Unlock, Counted, TypeOK, PCs, Accounting, LockerOwns, CountIsDepth, NoSelfDeadlock, OwnerAccounted, Parked, Unrecorded
  <2>3. CountIsDepth' /\ NoSelfDeadlock'
    BY <1>1, Others DEF Unlock, Counted, TypeOK, PCs, Accounting, LockerOwns, CountIsDepth, NoSelfDeadlock, OwnerAccounted, Parked, Unrecorded
  <2>4. OwnerAccounted'
    BY <1>1, Others DEF Unlock, Counted, TypeOK, PCs, Accounting, LockerOwns, CountIsDepth, NoSelfDeadlock, OwnerAccounted, Parked, Unrecorded
  <2> QED
    BY <2>1, <2>2, <2>3, <2>4 DEF Accounting
<1>2. ASSUME Release(t)
      PROVE  TypeOK' /\ Accounting'
  <2>1. TypeOK'
    BY <1>2 DEF Release, TypeOK, PCs, Accounting, CountIsDepth, LockerOwns, OwnerAccounted
  <2>2. LockerOwns'
    BY <1>2, Others DEF Release, TypeOK, PCs, Accounting, LockerOwns, CountIsDepth, NoSelfDeadlock, OwnerAccounted, Parked, Unrecorded
  <2>3. CountIsDepth' /\ NoSelfDeadlock'
    BY <1>2, Others DEF Release, TypeOK, PCs, Accounting, LockerOwns, CountIsDepth, NoSelfDeadlock, OwnerAccounted, Parked, Unrecorded
  <2>4. OwnerAccounted'
    BY <1>2, Others DEF Release, TypeOK, PCs, Accounting, LockerOwns, CountIsDepth, NoSelfDeadlock, OwnerAccounted, Parked, Unrecorded
  <2> QED
    BY <2>1, <2>2, <2>3, <2>4 DEF Accounting
<1> QED
  BY <1>1, <1>2

\* Each step of Condition::Wait keeps the invariant.
LEMMA WaitInv ==
  ASSUME TypeOK, Accounting, NEW t \in Threads, Wait(t)
  PROVE  TypeOK' /\ Accounting'
<1> USE NoneNotThread DEF Goto
<1>1. ASSUME ReleaseForWait(t)
      PROVE  TypeOK' /\ Accounting'
  <2>1. TypeOK'
    BY <1>1 DEF ReleaseForWait, TypeOK, PCs, Accounting, CountIsDepth, LockerOwns, OwnerAccounted
  <2>2. LockerOwns'
    BY <1>1, Others DEF ReleaseForWait, TypeOK, PCs, Accounting, LockerOwns, CountIsDepth, NoSelfDeadlock, OwnerAccounted, Parked, Unrecorded
  <2>3. CountIsDepth' /\ NoSelfDeadlock'
    BY <1>1, Others DEF ReleaseForWait, TypeOK, PCs, Accounting, LockerOwns, CountIsDepth, NoSelfDeadlock, OwnerAccounted, Parked, Unrecorded
  <2>4. OwnerAccounted'
    BY <1>1, Others DEF ReleaseForWait, TypeOK, PCs, Accounting, LockerOwns, CountIsDepth, NoSelfDeadlock, OwnerAccounted, Parked, Unrecorded
  <2> QED
    BY <2>1, <2>2, <2>3, <2>4 DEF Accounting
<1>2. ASSUME CondWait(t)
      PROVE  TypeOK' /\ Accounting'
  <2>1. TypeOK'
    BY <1>2 DEF CondWait, TypeOK, PCs, Accounting, CountIsDepth, LockerOwns, OwnerAccounted
  <2>2. LockerOwns'
    BY <1>2, Others DEF CondWait, TypeOK, PCs, Accounting, LockerOwns, CountIsDepth, NoSelfDeadlock, OwnerAccounted, Parked, Unrecorded
  <2>3. CountIsDepth' /\ NoSelfDeadlock'
    BY <1>2, Others DEF CondWait, TypeOK, PCs, Accounting, LockerOwns, CountIsDepth, NoSelfDeadlock, OwnerAccounted, Parked, Unrecorded
  <2>4. OwnerAccounted'
    BY <1>2, Others DEF CondWait, TypeOK, PCs, Accounting, LockerOwns, CountIsDepth, NoSelfDeadlock, OwnerAccounted, Parked, Unrecorded
  <2> QED
    BY <2>1, <2>2, <2>3, <2>4 DEF Accounting
<1>3. ASSUME Wake(t)
      PROVE  TypeOK' /\ Accounting'
  <2>1. TypeOK'
    BY <1>3 DEF Wake, TypeOK, PCs, Accounting, CountIsDepth, LockerOwns, OwnerAccounted
  <2>2. LockerOwns'
    BY <1>3, Others DEF Wake, TypeOK, PCs, Accounting, LockerOwns, CountIsDepth, NoSelfDeadlock, OwnerAccounted, Parked, Unrecorded
  <2>3. CountIsDepth' /\ NoSelfDeadlock'
    BY <1>3, Others DEF Wake, TypeOK, PCs, Accounting, LockerOwns, CountIsDepth, NoSelfDeadlock, OwnerAccounted, Parked, Unrecorded
  <2>4. OwnerAccounted'
    BY <1>3, Others DEF Wake, TypeOK, PCs, Accounting, LockerOwns, CountIsDepth, NoSelfDeadlock, OwnerAccounted, Parked, Unrecorded
  <2> QED
    BY <2>1, <2>2, <2>3, <2>4 DEF Accounting
<1>4. ASSUME Reacquire(t)
      PROVE  TypeOK' /\ Accounting'
  <2>1. TypeOK'
    BY <1>4 DEF Reacquire, TypeOK, PCs, Accounting, CountIsDepth, LockerOwns, OwnerAccounted
  <2>2. LockerOwns'
    BY <1>4, Others DEF Reacquire, TypeOK, PCs, Accounting, LockerOwns, CountIsDepth, NoSelfDeadlock, OwnerAccounted, Parked, Unrecorded
  <2>3. CountIsDepth' /\ NoSelfDeadlock'
    BY <1>4, Others DEF Reacquire, TypeOK, PCs, Accounting, LockerOwns, CountIsDepth, NoSelfDeadlock, OwnerAccounted, Parked, Unrecorded
  <2>4. OwnerAccounted'
    BY <1>4, Others DEF Reacquire, TypeOK, PCs, Accounting, LockerOwns, CountIsDepth, NoSelfDeadlock, OwnerAccounted, Parked, Unrecorded
  <2> QED
    BY <2>1, <2>2, <2>3, <2>4 DEF Accounting
<1>5. ASSUME AcquireAfterWait(t)
      PROVE  TypeOK' /\ Accounting'
  <2>1. TypeOK'
    BY <1>5 DEF AcquireAfterWait, TypeOK, PCs, Accounting, CountIsDepth, LockerOwns, OwnerAccounted
  <2>2. LockerOwns'
    BY <1>5, Others DEF AcquireAfterWait, TypeOK, PCs, Accounting, LockerOwns, CountIsDepth, NoSelfDeadlock, OwnerAccounted, Parked, Unrecorded
  <2>3. CountIsDepth' /\ NoSelfDeadlock'
    BY <1>5, Others DEF AcquireAfterWait, TypeOK, PCs, Accounting, LockerOwns, CountIsDepth, NoSelfDeadlock, OwnerAccounted, Parked, Unrecorded
  <2>4. OwnerAccounted'
    BY <1>5, Others DEF AcquireAfterWait, TypeOK, PCs, Accounting, LockerOwns, CountIsDepth, NoSelfDeadlock, OwnerAccounted, Parked, Unrecorded
  <2> QED
    BY <2>1, <2>2, <2>3, <2>4 DEF Accounting
<1> QED
  BY <1>1, <1>2, <1>3, <1>4, <1>5 DEF Wait

\* In every reachable state fLocker can be trusted without a lock, threads
\* exclude each other, and the counts are the nesting depths.
THEOREM Safety == Spec => []Inv
<1>1. Init => TypeOK /\ Accounting
  BY InitInv
<1>2. TypeOK /\ Accounting /\ [Next]_vars => TypeOK' /\ Accounting'
  <2> SUFFICES ASSUME TypeOK, Accounting, [Next]_vars
               PROVE  TypeOK' /\ Accounting'
    OBVIOUS
  <2>1. CASE UNCHANGED vars
    BY <2>1 DEF vars, TypeOK, Accounting, LockerOwns, CountIsDepth, NoSelfDeadlock, OwnerAccounted
  <2>2. ASSUME NEW t \in Threads, Lock(t) \/ Wait(t) \/ Unlock(t) \/ Release(t)
        PROVE  TypeOK' /\ Accounting'
    BY <2>2, LockInv, WaitInv, UnlockInv
  <2> QED
    BY <2>1, <2>2 DEF Next, UnlockNotHeld
<1>3. TypeOK /\ Accounting => Inv
  BY Exclusion DEF Accounting, Inv
<1> QED
  BY <1>1, <1>2, <1>3, PTL DEF Spec

\* Two threads are never between Lock and Unlock together.
COROLLARY Exclusive == Spec => []MutualExclusion
<1>1. Inv => MutualExclusion
  BY DEF Inv
<1> QED
  BY Safety, <1>1, PTL

\* The unprotected test of fLocker is sound.
COROLLARY LockerSound == Spec => []LockerOwns
<1>1. Inv => LockerOwns
  BY DEF Inv
<1> QED
  BY Safety, <1>1, PTL

\* Mutex and Condition implement the abstract reentrant lock.
THEOREM Implements == Spec => Refinement
<1>1. Init => Abs!AInit
  BY DEF Init, Abs!AInit, Parked
<1>2. Inv /\ [Next]_vars => [Abs!ANext]_(Abs!avars)
  <2> SUFFICES ASSUME Inv, [Next]_vars
               PROVE  Abs!ANext \/ UNCHANGED Abs!avars
    BY DEF Abs!avars
  <2> USE NoneNotThread DEF Inv, TypeOK, PCs, Parked, Goto
  <2>1. ASSUME UNCHANGED vars
        PROVE  UNCHANGED Abs!avars
    BY <2>1 DEF vars, Abs!avars
  <2>2. ASSUME NEW t \in Threads,
               \/ TryMutex(t, "busyLock") \/ TryMutex(t, "busyTry") \/ HardLock(t)
               \/ Release(t) \/ CondWait(t) \/ Wake(t) \/ Reacquire(t)
               \/ Busy(t) /\ fLocker # t
        PROVE  UNCHANGED Abs!avars
    BY <2>2 DEF Abs!avars, TryMutex, HardLock, Release, CondWait, Wake, Reacquire, Busy
  <2>3. ASSUME NEW t \in Threads, FirstLock(t) \/ (Busy(t) /\ fLocker = t)
        PROVE  Abs!Acquire(t)
    <3>1. Abs!Free(t)
      BY <2>3 DEF FirstLock, Busy, Abs!Free, LockerOwns, CountIsDepth, OwnerAccounted
    <3>2. count' = [count EXCEPT ![t] = @ + 1]
      BY <2>3 DEF FirstLock, Busy, CountIsDepth, NoSelfDeadlock
    <3> QED
      BY <2>3, <3>1, <3>2 DEF FirstLock, Busy, Abs!Acquire
  <2>4. ASSUME NEW t \in Threads, Unlock(t)
        PROVE  Abs!Release(t)
    <3>1. count[t] > 0 /\ count[t] \in Nat
      BY <2>4 DEF Unlock, LockerOwns, CountIsDepth, OwnerAccounted
    <3>2. count' = [count EXCEPT ![t] = @ - 1]
      <4>1. Counted(count[t] - 1) = count[t] - 1
        BY <3>1 DEF Counted
      <4> QED
        BY <2>4, <4>1 DEF Unlock
    <3>3. \A u \in Threads : pc'[u] \in Parked <=> pc[u] \in Parked
      BY <2>4 DEF Unlock
    <3> QED
      BY <2>4, <3>1, <3>2, <3>3 DEF Unlock, Abs!Release
  <2>5. ASSUME NEW t \in Threads, ReleaseForWait(t)
        PROVE  Abs!Park(t)
    BY <2>5 DEF ReleaseForWait, Abs!Park, CountIsDepth
  <2>6. ASSUME NEW t \in Threads, AcquireAfterWait(t)
        PROVE  Abs!Unpark(t)
    <3>1. Abs!Free(t)
      BY <2>6 DEF AcquireAfterWait, Abs!Free, CountIsDepth, OwnerAccounted
    <3> QED
      BY <2>6, <3>1 DEF AcquireAfterWait, Abs!Unpark
  <2> HIDE DEF Inv, TypeOK, PCs, Parked, Goto
  <2>7. ASSUME NEW t \in Threads,
               Lock(t) \/ Wait(t) \/ Unlock(t) \/ UnlockNotHeld(t) \/ Release(t)
        PROVE  Abs!ANext \/ UNCHANGED Abs!avars
    <3>1. CASE Lock(t)
      <4>1. CASE FirstLock(t)
        BY <4>1, <2>3 DEF Abs!ANext
      <4>2. CASE TryMutex(t, "busyLock") \/ TryMutex(t, "busyTry") \/ HardLock(t)
        BY <4>2, <2>2
      <4>3. CASE Busy(t) /\ fLocker = t
        BY <4>3, <2>3 DEF Abs!ANext
      <4>4. CASE Busy(t) /\ fLocker # t
        BY <4>4, <2>2
      <4>5. Busy(t) => Busy(t) /\ (fLocker = t \/ fLocker # t)
        OBVIOUS
      <4> QED
        BY <3>1, <4>1, <4>2, <4>3, <4>4, <4>5 DEF Lock
    <3>2. CASE Wait(t)
      BY <3>2, <2>2, <2>5, <2>6 DEF Wait, Abs!ANext
    <3>3. CASE Unlock(t)
      BY <3>3, <2>4 DEF Abs!ANext
    <3>4. CASE Release(t)
      BY <3>4, <2>2
    <3>5. CASE UnlockNotHeld(t)
      BY <3>5, <2>1 DEF UnlockNotHeld
    <3> QED
      BY <2>7, <3>1, <3>2, <3>3, <3>4, <3>5
  <2> QED
    BY <2>1, <2>7 DEF Next
<1> QED
  BY <1>1, <1>2, Safety, PTL DEF Spec, Refinement, Abs!ASpec
=============================================================================
