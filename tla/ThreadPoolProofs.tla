-------------------------- MODULE ThreadPoolProofs --------------------------
(***************************************************************************)
(* Proofs about the pool manager (module ThreadPool), for every pool size, *)
(* every set of objects and any number of calls.                           *)
(***************************************************************************)
EXTENDS ThreadPool, FiniteSetTheorems, TLAPS

-----------------------------------------------------------------------------
(* Whatever the client does, and whatever fails.                           *)

\* The slots in use are the first n.
Prefix(n) == \A i \in Slots : fThreadPool[i] # None <=> i <= n

\* The pool holds objects that exist.
PoolHeld ==
  /\ \E n \in 0 .. PoolSize : Prefix(n)
  /\ Pool \subseteq born \ deleted
  /\ \A o \in Objects \ born : fState[o] = eCreated

\* The loops stay inside the pool; count is the number of successes, or of
\* failures, so far.
LoopsInside ==
  /\ pc \in {"start", "terminate", "await"} => fThreadPool[slot] # None /\ count < slot
  /\ pc \in {"out", "alloc"} => slot = 1 /\ count = 0

\* What a DoTerminate without timeouts has found.
FoundEnded ==
  /\ pc \in {"terminate", "await"} /\ count = 0 =>
       \A i \in Slots : i < slot => fState[fThreadPool[i]] = eTerminated
  /\ pc = "join" /\ count = 0 => \A o \in Pool : fState[o] = eTerminated

\* The threads that run, and the objects that are gone.
InRun ==
  /\ \A o \in entered : fState[o] \in eRunning .. eTerminatedRunMethod
  /\ \A o \in deleted : fState[o] = eTerminated

\* The inductive invariant of DeletedAreDone.
PoolInv == TypeOK /\ PoolHeld /\ LoopsInside /\ FoundEnded /\ InRun

\* GetPoolSize is the last slot in use.
LEMMA PoolSizeIs ==
  ASSUME NEW n \in 0 .. PoolSize, Prefix(n)
  PROVE  GetPoolSize = n
<1>1. {i \in Slots : fThreadPool[i] # None} = 1 .. n
  BY PoolSizePos DEF Prefix, Slots
<1>2. Cardinality(1 .. n) = n
  BY FS_Interval, PoolSizePos
<1> QED
  BY <1>1, <1>2 DEF GetPoolSize

\* A loop over the pool goes on to the next object, or has seen them all.
LEMMA NextSlotStays ==
  ASSUME TypeOK, PoolHeld, fThreadPool[slot] # None, NEW loop, NEW end, NextSlot(loop, end)
  PROVE  \/ pc' = loop /\ slot' \in Slots /\ slot' = slot + 1 /\ fThreadPool[slot + 1] # None
         \/ pc' = end /\ slot' = slot /\ \A i \in Slots : fThreadPool[i] # None => i <= slot
<1>1. PICK n \in 0 .. PoolSize : Prefix(n)
  BY DEF PoolHeld
<1>2. GetPoolSize = n
  BY <1>1, PoolSizeIs
<1>3. slot \in Slots /\ slot <= n
  BY <1>1 DEF TypeOK, Prefix
<1> QED
  BY <1>1, <1>2, <1>3, PoolSizePos DEF NextSlot, Prefix, Slots

\* The object in a slot that is used.
LEMMA InPool ==
  ASSUME TypeOK, PoolHeld, NEW i \in Slots, fThreadPool[i] # None
  PROVE  /\ fThreadPool[i] \in Objects /\ fThreadPool[i] \in Pool
         /\ fThreadPool[i] \in born /\ fThreadPool[i] \notin deleted
BY DEF TypeOK, PoolHeld, Pool

\* A change of state touches one object and keeps the types.
LEMMA SetStateTypes ==
  ASSUME TypeOK, NEW o \in Objects, NEW s \in 0 .. 7, SetState(o, s)
  PROVE  /\ fState' \in [Objects -> 0 .. 7]
         /\ fRunningThreads' \in Int /\ fStartedThreads' \in Nat /\ fTerminatedThreads' \in Nat
         /\ \A x \in Objects : fState'[x] = (IF x = o THEN s ELSE fState[x])
<1>1. fState' \in [Objects -> 0 .. 7] /\ \A x \in Objects : fState'[x] = (IF x = o THEN s ELSE fState[x])
  BY DEF SetState, TypeOK
<1>2. fRunningThreads' \in Int /\ fStartedThreads' \in Nat /\ fTerminatedThreads' \in Nat
  BY DEF SetState, Update, cvars, TypeOK
<1> QED
  BY <1>1, <1>2

\* A manager that was never initialised.
LEMMA PoolInit == Init => PoolInv
<1> SUFFICES ASSUME Init PROVE PoolInv
  OBVIOUS
<1>1. TypeOK
  <2>1. 0 \in 0 .. PoolSize /\ 0 \in 0 .. MaxInits /\ 1 \in Slots /\ eCreated \in 0 .. 7
    BY PoolSizePos, BoundsNat DEF Slots, eCreated
  <2> QED
    BY <2>1 DEF Init, TypeOK, PCs
<1>2. Pool = {} /\ Prefix(0)
  BY DEF Init, Pool, Prefix, Slots
<1>3. PoolHeld
  BY <1>2, PoolSizePos DEF Init, PoolHeld
<1> QED
  BY <1>1, <1>3 DEF Init, PoolInv, LoopsInside, FoundEnded, InRun

\* The system threads.
LEMMA SystemInv ==
  ASSUME PoolInv, System
  PROVE  PoolInv'
<1> USE DEF PoolInv, eCreated, eStarted, eRunning, eTerminationRequested, eTerminatedRunMethod, eTerminated
<1>1. PICK o \in born : ThreadRuns(o) \/ ThreadLeft(o) \/ ThreadEnds(o)
  BY DEF System
<1>2. PICK s \in 0 .. 7 : /\ SetState(o, s) /\ fState[o] \in {3, 4, 5, 6} /\ s \in {4, 6, 7}
                          /\ o \in entered' => s \in {4, 5, 6}
                          /\ entered' \subseteq entered \cup {o}
  <2>1. CASE ThreadRuns(o)
    BY <2>1 DEF ThreadRuns
  <2>2. CASE ThreadLeft(o)
    BY <2>2 DEF ThreadLeft
  <2>3. CASE ThreadEnds(o)
    BY <2>3 DEF ThreadEnds
  <2> QED
    BY <1>1, <2>1, <2>2, <2>3
<1>3. UNCHANGED <<fTerminated, fThreadPool, ovars, mvars>>
  BY <1>1 DEF ThreadRuns, ThreadLeft, ThreadEnds
<1>4. o \in Objects
  BY DEF TypeOK
<1>5. /\ fState' \in [Objects -> 0 .. 7]
      /\ fRunningThreads' \in Int /\ fStartedThreads' \in Nat /\ fTerminatedThreads' \in Nat
      /\ \A x \in Objects : fState'[x] = (IF x = o THEN s ELSE fState[x])
  BY <1>2, <1>4, SetStateTypes
<1>6. TypeOK'
  BY <1>2, <1>3, <1>5 DEF TypeOK, ovars, mvars
<1>7. Pool' = Pool
  BY <1>3 DEF Pool
<1>8. PoolHeld'
  BY <1>3, <1>5, <1>7 DEF PoolHeld, Prefix, TypeOK, ovars
<1>9. LoopsInside'
  BY <1>3 DEF LoopsInside, mvars
<1>10. \A x \in Objects : fState[x] = eTerminated => fState'[x] = eTerminated
  BY <1>2, <1>5
<1>11. FoundEnded'
  <2>1. Pool \subseteq Objects
    BY DEF PoolHeld, TypeOK
  <2>2. pc \in {"terminate", "await"} => \A i \in Slots : i < slot => fThreadPool[i] \in Objects
    <3>1. PICK n \in 0 .. PoolSize : Prefix(n)
      BY DEF PoolHeld
    <3> QED
      BY <3>1 DEF LoopsInside, Prefix, TypeOK, Slots
  <2> QED
    BY <1>3, <1>7, <1>10, <2>1, <2>2 DEF FoundEnded, mvars
<1>12. InRun'
  BY <1>2, <1>3, <1>5 DEF InRun, TypeOK, ovars
<1> QED
  BY <1>6, <1>8, <1>9, <1>11, <1>12

\* Init and Terminate begin, Start begins or returns.
LEMMA CallInv ==
  ASSUME PoolInv, InitPool \/ Terminate \/ Start \/ StartDone \/ StartTimeout
  PROVE  PoolInv'
<1> USE DEF PoolInv
<1>0. UNCHANGED <<cvars, fThreadPool, fState, ovars, entered>>
  BY DEF InitPool, Terminate, Start, StartDone, StartTimeout
<1>1. \/ pc' = "alloc" /\ pc = "out" /\ UNCHANGED <<slot, count>>
      \/ pc' = "join" /\ slot' = 1 /\ count' = 0 /\ Pool = {}
      \/ pc' \in {"terminate", "start"} /\ slot' = 1 /\ count' = 0 /\ Pool # {}
      \/ pc' = "out" /\ slot' = 1 /\ count' = 0
  BY DEF InitPool, Terminate, BeginTerminate, Start, StartDone, StartTimeout, Forget
<1>2. Pool' = Pool
  BY <1>0 DEF Pool
<1>3. TypeOK'
  <2>1. fTerminated' \in BOOLEAN /\ regular' \in BOOLEAN
    BY DEF InitPool, Terminate, BeginTerminate, Start, StartDone, StartTimeout, Regular, TypeOK
  <2>2. inits' \in 0 .. MaxInits
    <3>1. inits' = inits \/ (inits < MaxInits /\ inits' = inits + 1)
      BY DEF InitPool, Terminate, Start, StartDone, StartTimeout
    <3> QED
      BY <3>1, BoundsNat DEF TypeOK
  <2>3. pc' \in PCs /\ slot' \in Slots /\ count' \in 0 .. PoolSize
    BY <1>1, PoolSizePos DEF PCs, Slots, TypeOK
  <2> QED
    BY <1>0, <2>1, <2>2, <2>3 DEF TypeOK, cvars, ovars
<1>4. PoolHeld'
  BY <1>0, <1>2 DEF PoolHeld, Prefix, ovars
<1>5. Pool # {} => fThreadPool[1] # None
  <2>1. PICK n \in 0 .. PoolSize : Prefix(n)
    BY DEF PoolHeld
  <2> QED
    BY <2>1, PoolSizePos DEF Prefix, Pool, Slots
<1>6. LoopsInside'
  BY <1>0, <1>1, <1>5 DEF LoopsInside
<1>7. FoundEnded'
  BY <1>0, <1>1, <1>2 DEF FoundEnded, Slots
<1>8. InRun'
  BY <1>0 DEF InRun, ovars
<1> QED
  BY <1>3, <1>4, <1>6, <1>7, <1>8

\* DoAllocPool puts new objects into the first n slots.
LEMMA AllocInv ==
  ASSUME PoolInv, NEW n \in 0 .. PoolSize, NEW k \in 0 .. n, AllocPool(n, k)
  PROVE  PoolInv'
<1> USE DEF PoolInv
<1>1. PICK f \in [1 .. n -> Objects \ born] :
        /\ fThreadPool' = [i \in Slots |-> IF i <= n THEN f[i] ELSE fThreadPool[i]]
        /\ born' = born \cup {f[i] : i \in 1 .. n}
        /\ observed' = observed \cup {f[i] : i \in 1 .. k}
  BY DEF AllocPool
<1>2. /\ pc = "alloc" /\ pc' = "out" /\ fTerminated' = FALSE
      /\ fStartedThreads' = 0 /\ fTerminatedThreads' = 0 /\ Regular(k = PoolSize)
      /\ UNCHANGED <<fRunningThreads, fState, deleted, entered, slot, count, inits>>
  BY DEF AllocPool
<1>3. \A i \in Slots : i <= n => i \in 1 .. n /\ f[i] \in Objects \ born
  BY DEF Slots
<1>4. TypeOK'
  <2>1. fTerminated' \in BOOLEAN /\ regular' \in BOOLEAN
    BY <1>2 DEF Regular, TypeOK
  <2>2. fThreadPool' \in [Slots -> Objects \cup {None}]
    BY <1>1, <1>3 DEF TypeOK
  <2>3. {f[i] : i \in 1 .. k} \subseteq {f[i] : i \in 1 .. n}
    BY PoolSizePos
  <2>4. /\ deleted \subseteq born' /\ born' \subseteq Objects
        /\ observed' \subseteq born' /\ entered \subseteq born'
    BY <1>1, <2>3 DEF TypeOK
  <2> QED
    BY <1>2, <2>1, <2>2, <2>4 DEF TypeOK, PCs
<1>5. PoolHeld'
  <2>1. PICK m \in 0 .. PoolSize : Prefix(m)
    BY DEF PoolHeld
  <2>2. \E l \in 0 .. PoolSize : Prefix(l)'
    <3>1. CASE n <= m
      BY <1>1, <1>3, <2>1, <3>1, PoolSizePos, NoneNotObject DEF Prefix, Slots
    <3>2. CASE n > m
      BY <1>1, <1>3, <2>1, <3>2, PoolSizePos, NoneNotObject DEF Prefix, Slots
    <3> QED
      BY <3>1, <3>2, PoolSizePos
  <2>3. Pool' \subseteq born' \ deleted'
    <3> SUFFICES ASSUME NEW i \in Slots, fThreadPool'[i] # None
                 PROVE  fThreadPool'[i] \in born' \ deleted'
      BY DEF Pool
    <3>1. CASE i <= n
      <4>1. fThreadPool'[i] = f[i] /\ i \in 1 .. n
        BY <1>1, <1>3, <3>1
      <4> QED
        BY <1>1, <1>2, <4>1 DEF TypeOK
    <3>2. CASE ~(i <= n)
      <4>1. fThreadPool'[i] = fThreadPool[i]
        BY <1>1, <3>2
      <4> QED
        BY <1>1, <1>2, <4>1, InPool
    <3> QED
      BY <3>1, <3>2
  <2> QED
    BY <1>1, <1>2, <2>2, <2>3 DEF PoolHeld
<1>6. LoopsInside' /\ FoundEnded' /\ InRun'
  BY <1>2 DEF LoopsInside, FoundEnded, InRun
<1> QED
  BY <1>4, <1>5, <1>6

\* Thread::Start of the object in the slot, whatever comes of it.
LEMMA StartThreadInv ==
  ASSUME PoolInv, StartThread \/ StartThreadFails
  PROVE  PoolInv'
<1> USE DEF PoolInv, eCreated, eStartRequested, eStarted, eRunning, eTerminationRequested, eTerminatedRunMethod, eTerminated
<1>0. /\ pc = "start" /\ slot \in Slots /\ fThreadPool[slot] # None /\ NextSlot("start", "startWait")
      /\ UNCHANGED <<fTerminated, fThreadPool, ovars, entered, inits>> /\ count < slot
  BY DEF StartThread, StartThreadFails, LoopsInside, TypeOK
<1>1. PICK o \in Objects : o = fThreadPool[slot] /\ o \in born \ deleted
  BY <1>0, InPool
<1>2. \/ UNCHANGED <<fState, cvars>>
      \/ \E s \in {1, 3, 7} : SetState(o, s) /\ fState[o] \in {0, 7}
  BY <1>1 DEF StartThread, StartThreadFails
<1>3. /\ fState' \in [Objects -> 0 .. 7]
      /\ fRunningThreads' \in Int /\ fStartedThreads' \in Nat /\ fTerminatedThreads' \in Nat
      /\ \A x \in Objects : fState'[x] = fState[x] \/ (x = o /\ fState[x] \in {0, 7})
  <2>1. CASE UNCHANGED <<fState, cvars>>
    BY <2>1 DEF TypeOK, cvars
  <2>2. CASE \E s \in {1, 3, 7} : SetState(o, s) /\ fState[o] \in {0, 7}
    BY <2>2, SetStateTypes
  <2> QED
    BY <1>2, <2>1, <2>2
<1>4. \/ pc' = "start" /\ slot' \in Slots /\ slot' = slot + 1 /\ fThreadPool[slot + 1] # None
      \/ pc' = "startWait" /\ slot' = slot
  BY <1>0, NextSlotStays
<1>5. count' \in {count, count + 1} /\ regular' \in BOOLEAN
  BY DEF StartThread, StartThreadFails, Regular, TypeOK
<1>6. TypeOK'
  <2>1. count' \in 0 .. PoolSize /\ slot' \in Slots /\ pc' \in PCs
    BY <1>0, <1>4, <1>5, PoolSizePos DEF TypeOK, Slots, PCs
  <2> QED
    BY <1>0, <1>3, <1>5, <2>1 DEF TypeOK, ovars
<1>7. PoolHeld'
  <2>1. Pool' = Pool
    BY <1>0 DEF Pool
  <2> QED
    BY <1>0, <1>1, <1>3, <2>1 DEF PoolHeld, Prefix, ovars
<1>8. LoopsInside' /\ FoundEnded'
  BY <1>0, <1>4, <1>5, PoolSizePos DEF LoopsInside, FoundEnded, TypeOK, Slots
<1>9. InRun'
  BY <1>0, <1>1, <1>3 DEF InRun, TypeOK, ovars
<1> QED
  BY <1>6, <1>7, <1>8, <1>9

\* DoTerminate asks the object in the slot, and waits for it.
LEMMA TerminateLoopInv ==
  ASSUME PoolInv, TerminateThread \/ ThreadTerminated \/ ThreadTimeout
  PROVE  PoolInv'
<1> USE DEF PoolInv, eCreated, eStartRequested, eStarted, eRunning, eTerminationRequested, eTerminatedRunMethod, eTerminated
<1>0. /\ pc \in {"terminate", "await"} /\ slot \in Slots /\ fThreadPool[slot] # None /\ count < slot
      /\ UNCHANGED <<fThreadPool, ovars, entered, inits, regular>>
  BY DEF TerminateThread, ThreadTerminated, ThreadTimeout, LoopsInside, TypeOK
<1>1. PICK o \in Objects : o = fThreadPool[slot] /\ o \in born \ deleted
  BY <1>0, InPool
<1>2. Pool' = Pool
  BY <1>0 DEF Pool
<1>3. \A i \in Slots : i < slot => fThreadPool[i] \in Objects
  <2>1. PICK n \in 0 .. PoolSize : Prefix(n)
    BY DEF PoolHeld
  <2> QED
    BY <1>0, <2>1 DEF Prefix, TypeOK, Slots
<1>4. CASE TerminateThread
  <2>1. /\ pc = "terminate" /\ pc' = "await" /\ UNCHANGED <<fTerminated, slot, count>>
    BY <1>4 DEF TerminateThread
  <2>2. \/ UNCHANGED <<fState, cvars>>
        \/ \E s \in 0 .. 7 : /\ SetState(o, s)
                             /\ (fState[o] <= 1 /\ s = 7) \/ (fState[o] \in {3, 4} /\ s = 5)
    BY <1>1, <1>4 DEF TerminateThread
  <2>3. /\ fState' \in [Objects -> 0 .. 7]
        /\ fRunningThreads' \in Int /\ fStartedThreads' \in Nat /\ fTerminatedThreads' \in Nat
        /\ \A x \in Objects : fState'[x] # fState[x] =>
             x = o /\ ((fState[x] <= 1 /\ fState'[x] = 7) \/ (fState[x] \in {3, 4} /\ fState'[x] = 5))
    <3>1. CASE UNCHANGED <<fState, cvars>>
      BY <3>1 DEF TypeOK, cvars
    <3>2. CASE \E s \in 0 .. 7 : /\ SetState(o, s)
                                 /\ (fState[o] <= 1 /\ s = 7) \/ (fState[o] \in {3, 4} /\ s = 5)
      BY <3>2, SetStateTypes
    <3> QED
      BY <2>2, <3>1, <3>2
  <2>4. TypeOK'
    BY <1>0, <2>1, <2>3 DEF TypeOK, ovars, PCs
  <2>5. PoolHeld'
    BY <1>0, <1>1, <1>2, <2>3 DEF PoolHeld, Prefix, ovars
  <2>6. LoopsInside'
    BY <1>0, <2>1 DEF LoopsInside
  <2>7. \A x \in Objects : fState[x] = 7 => fState'[x] = 7
    BY <2>3
  <2>8. FoundEnded'
    BY <1>0, <1>3, <2>1, <2>7 DEF FoundEnded
  <2>9. InRun'
    <3>1. \A x \in entered : fState'[x] \in 4 .. 6
      BY <2>3 DEF InRun, TypeOK
    <3>2. \A x \in deleted : fState'[x] = 7
      BY <2>7 DEF InRun, TypeOK
    <3> QED
      BY <1>0, <3>1, <3>2 DEF InRun, ovars
  <2> QED
    BY <2>4, <2>5, <2>6, <2>8, <2>9
<1>5. CASE ThreadTerminated \/ ThreadTimeout
  <2>1. /\ pc = "await" /\ NextSlot("terminate", "join") /\ UNCHANGED <<cvars, fState>>
        /\ count' \in {count, count + 1}
        /\ count' = 0 => count = 0 /\ fState[o] = eTerminated
    BY <1>1, <1>5, PoolSizePos DEF ThreadTerminated, ThreadTimeout, TypeOK
  <2>0. fTerminated' \in BOOLEAN
    BY <1>5 DEF ThreadTerminated, ThreadTimeout, Terminating, TypeOK
  <2>2. \/ pc' = "terminate" /\ slot' \in Slots /\ slot' = slot + 1 /\ fThreadPool[slot + 1] # None
        \/ pc' = "join" /\ slot' = slot /\ \A i \in Slots : fThreadPool[i] # None => i <= slot
    BY <1>0, <2>1, NextSlotStays
  <2>3. TypeOK'
    <3>1. count' \in 0 .. PoolSize /\ slot' \in Slots /\ pc' \in PCs
      BY <1>0, <2>1, <2>2, PoolSizePos DEF TypeOK, Slots, PCs
    <3> QED
      BY <1>0, <2>0, <2>1, <3>1 DEF TypeOK, cvars, ovars
  <2>4. PoolHeld'
    BY <1>0, <1>2, <2>1 DEF PoolHeld, Prefix, ovars
  <2>5. LoopsInside'
    BY <1>0, <2>1, <2>2, PoolSizePos DEF LoopsInside, TypeOK, Slots
  <2>6. count' = 0 => \A i \in Slots : i <= slot => fState[fThreadPool[i]] = eTerminated
    BY <1>0, <1>1, <2>1 DEF FoundEnded, Slots
  <2>7. FoundEnded'
    <3>1. CASE pc' = "terminate"
      BY <1>0, <2>1, <2>2, <2>6, <3>1 DEF FoundEnded, Slots
    <3>2. CASE pc' = "join"
      BY <1>0, <2>1, <2>2, <2>6, <3>2 DEF FoundEnded, Pool
    <3> QED
      BY <2>2, <3>1, <3>2
  <2>8. InRun'
    BY <1>0, <2>1 DEF InRun, ovars
  <2> QED
    BY <2>3, <2>4, <2>5, <2>7, <2>8
<1> QED
  BY <1>4, <1>5

\* Terminate returns; Join may have deleted the pool.
LEMMA ReturnInv ==
  ASSUME PoolInv, TerminateFails \/ Join
  PROVE  PoolInv'
<1> USE DEF PoolInv
<1>0. /\ pc' \in {"alloc", "out"} /\ slot' = 1 /\ count' = 0
      /\ UNCHANGED <<fTerminated, cvars, fState, observed, born, entered, inits, regular>>
  BY DEF TerminateFails, Join, Return, Forget, ovars
<1>1. LoopsInside' /\ FoundEnded'
  BY <1>0 DEF LoopsInside, FoundEnded
<1>2. 1 \in Slots /\ 0 \in 0 .. PoolSize /\ pc' \in PCs
  BY <1>0, PoolSizePos DEF Slots, PCs
<1>3. CASE UNCHANGED <<deleted, fThreadPool>>
  <2>1. TypeOK'
    BY <1>0, <1>2, <1>3 DEF TypeOK, cvars
  <2>2. Pool' = Pool
    BY <1>3 DEF Pool
  <2>3. PoolHeld' /\ InRun'
    BY <1>0, <1>3, <2>2 DEF PoolHeld, Prefix, InRun
  <2> QED
    BY <1>1, <2>1, <2>3
<1>4. CASE Join /\ fRunningThreads = 0
  <2>1. pc = "join" /\ count = 0 /\ deleted' = deleted \cup Pool /\ fThreadPool' = [i \in Slots |-> None]
    BY <1>4 DEF Join
  <2>2. TypeOK'
    BY <1>0, <1>2, <2>1 DEF TypeOK, PoolHeld, cvars
  <2>3. PoolHeld'
    <3>1. Pool' = {} /\ Prefix(0)'
      BY <2>1 DEF Pool, Prefix, Slots
    <3> QED
      BY <1>0, <3>1, PoolSizePos DEF PoolHeld
  <2>4. InRun'
    BY <1>0, <2>1 DEF InRun, FoundEnded
  <2> QED
    BY <1>1, <2>2, <2>3, <2>4
<1> QED
  BY <1>3, <1>4 DEF TerminateFails, Join, ovars

\* Every step keeps the invariant.
LEMMA PoolStep == PoolInv /\ [Next]_vars => PoolInv'
<1> SUFFICES ASSUME PoolInv, [Next]_vars PROVE PoolInv'
  OBVIOUS
<1>1. CASE UNCHANGED vars
  <2>1. Pool' = Pool
    BY <1>1 DEF vars, Pool
  <2> QED
    BY <1>1, <2>1 DEF vars, cvars, ovars, mvars, PoolInv, TypeOK, PoolHeld, Prefix, LoopsInside, FoundEnded, InRun
<1>2. CASE AllocPool(PoolSize, PoolSize) \/ AllocPoolFails \/ InitPoolFails
  <2>1. \E n \in 0 .. PoolSize : \E k \in 0 .. n : AllocPool(n, k)
    BY <1>2, PoolSizePos DEF AllocPoolFails, InitPoolFails
  <2> QED
    BY <2>1, AllocInv
<1> QED
  BY <1>1, <1>2, CallInv, StartThreadInv, TerminateLoopInv, ReturnInv, SystemInv DEF Next

\* The manager under any use.
THEOREM PoolSafety == Spec => []PoolInv
  BY PoolInit, PoolStep, PTL DEF Spec

\* The variables have their types: no loop leaves the pool.
COROLLARY TypeCorrect == Spec => []TypeOK
<1>1. PoolInv => TypeOK
  BY DEF PoolInv
<1> QED
  BY <1>1, PoolSafety, PTL

\* DoDeletePool deletes no object that a system thread still uses.
COROLLARY Deleted == Spec => []DeletedAreDone
<1>1. PoolInv => DeletedAreDone
  BY DEF PoolInv, InRun, DeletedAreDone, eRunning, eTerminatedRunMethod, eTerminated
<1> QED
  BY <1>1, PoolSafety, PTL

-----------------------------------------------------------------------------
(* A pool in regular use.                                                  *)

Ended == {o \in Pool : fState[o] = eTerminated}

\* The states of a thread that was started and not asked to end yet.
Launched == {eStarted, eRunning, eTerminatedRunMethod, eTerminated}

\* The threads outside the pool are done, those in it are observed, and the
\* running ones are counted.
Observed ==
  /\ Pool \subseteq observed
  /\ \A o \in born \ Pool : fState[o] = eTerminated
  /\ \A o \in born : o \in entered <=> fState[o] \in eRunning .. eTerminatedRunMethod
  /\ RunningExact

\* Init has succeeded, and Start goes through the slots.
StartLoop ==
  /\ ~fTerminated
  /\ \A i, j \in Slots : fThreadPool[i] = fThreadPool[j] => i = j
  /\ \A i \in Slots : /\ fThreadPool[i] # None
                      /\ fState[fThreadPool[i]] \in (IF i < slot THEN Launched ELSE {eCreated})
  /\ count = slot - 1

\* Start waits until every thread has run.
StartWait ==
  /\ ~fTerminated
  /\ \A o \in Pool : fState[o] \in Launched
  /\ count = PoolSize

\* Where the pool is in its life.
Stage ==
  /\ pc = "out" /\ phase = "new" => Pool = {}
  /\ (pc = "out" /\ phase = "initialized") \/ pc = "start" => StartLoop
  /\ pc = "startWait" => StartWait
  /\ (pc = "out" /\ phase = "initialized") \/ pc \in {"start", "startWait"} =>
       fTerminatedThreads = Cardinality(Ended)
  /\ (pc = "out" /\ phase \notin {"new", "initialized"}) \/ pc \in {"terminate", "await", "join"} =>
       \A o \in Pool : fState[o] \in eRunning .. eTerminated
  /\ pc = "out" /\ phase = "started" => ~fTerminated
  /\ (pc = "out" /\ phase = "terminated") \/ pc = "alloc" =>
       \A o \in Pool : fState[o] = eTerminated

\* The inductive invariant of RunningExact.
RegularInv == regular => Observed /\ Stage

\* The pool, and each part of it, is finite.
LEMMA PoolFinite ==
  ASSUME TypeOK, NEW S \in SUBSET Pool
  PROVE  IsFiniteSet(S) /\ Cardinality(S) \in Nat /\ Cardinality(S) <= PoolSize
<1> DEFINE Image == {fThreadPool[i] : i \in Slots}
<1>1. IsFiniteSet(Slots) /\ Cardinality(Slots) = PoolSize
  BY FS_Interval, PoolSizePos DEF Slots
<1>2. fThreadPool \in Surjection(Slots, Image)
  BY DEF TypeOK, Surjection
<1>3. IsFiniteSet(Image) /\ Cardinality(Image) <= PoolSize
  BY <1>1, <1>2, FS_Surjection
<1>4. S \in SUBSET Image
  BY DEF Pool
<1>5. IsFiniteSet(S) /\ Cardinality(S) <= Cardinality(Image)
  BY <1>3, <1>4, FS_Subset
<1> QED
  BY <1>3, <1>5, FS_CardinalityType, PoolSizePos

\* Start has seen as many threads run or end as there are in the pool: none
\* is left that has not run.
LEMMA AllHaveRun ==
  ASSUME TypeOK, entered \subseteq Pool, entered \cap Ended = {},
         Cardinality(entered) + Cardinality(Ended) >= PoolSize
  PROVE  Pool = entered \cup Ended
<1> DEFINE Seen == entered \cup Ended
<1>1. Ended \subseteq Pool
  BY DEF Ended
<1>2. /\ IsFiniteSet(entered) /\ IsFiniteSet(Ended) /\ IsFiniteSet(Pool) /\ Cardinality(Pool) <= PoolSize
      /\ Cardinality(Pool) \in Nat /\ Cardinality(entered) \in Nat /\ Cardinality(Ended) \in Nat
  BY <1>1, PoolFinite
<1>3. Cardinality(Seen) = Cardinality(entered) + Cardinality(Ended) - Cardinality({})
  BY <1>2, FS_Union
<1>4. Cardinality(Seen) >= Cardinality(Pool)
  BY <1>2, <1>3, FS_EmptySet, PoolSizePos
<1>5. Seen \in SUBSET Pool
  BY <1>1
<1>6. Cardinality(Seen) <= Cardinality(Pool) /\ (Cardinality(Pool) = Cardinality(Seen) => Pool = Seen)
  BY <1>2, <1>5, FS_Subset
<1>7. Cardinality(Seen) \in Nat
  BY <1>2, <1>3, FS_EmptySet
<1> QED
  BY <1>2, <1>4, <1>6, <1>7

\* The system threads of a pool in regular use.
LEMMA SystemRegular ==
  ASSUME PoolInv, RegularInv, System
  PROVE  RegularInv'
<1> USE DEF eCreated, eStartRequested, eStarted, eRunning, eTerminationRequested, eTerminatedRunMethod, eTerminated
<1>0. PICK o \in born : ThreadRuns(o) \/ ThreadLeft(o) \/ ThreadEnds(o)
  BY DEF System
<1>1. UNCHANGED <<fTerminated, fThreadPool, ovars, mvars>>
  BY <1>0 DEF ThreadRuns, ThreadLeft, ThreadEnds
<1> SUFFICES ASSUME regular PROVE Observed' /\ Stage'
  BY <1>1 DEF RegularInv, mvars
<1>2. TypeOK /\ Observed /\ Stage
  BY DEF PoolInv, RegularInv
<1>3. Pool' = Pool /\ o \in Objects
  BY <1>1, <1>2 DEF Pool, TypeOK
<1>4. o \in Pool /\ o \in observed /\ entered \subseteq Pool /\ Pool \subseteq born
  BY <1>0, <1>2 DEF ThreadRuns, ThreadLeft, ThreadEnds, Observed, PoolInv, PoolHeld, InRun, TypeOK
<1>5. PICK s \in {4, 6, 7} :
        /\ SetState(o, s) /\ Update(s)
        /\ \/ fState[o] = 3 /\ s = 4 /\ entered' = entered \cup {o}
           \/ fState[o] \in {4, 5} /\ s = 6 /\ entered' = entered
           \/ fState[o] = 6 /\ s = 7 /\ entered' = entered \ {o}
  BY <1>0, <1>4 DEF ThreadRuns, ThreadLeft, ThreadEnds, SetState
<1>6. \A x \in Objects : fState'[x] = (IF x = o THEN s ELSE fState[x])
  BY <1>2, <1>3, <1>5, SetStateTypes
<1>7. IsFiniteSet(entered) /\ IsFiniteSet(Ended) /\ Cardinality(entered) \in Nat /\ Cardinality(Ended) \in Nat
  BY <1>2, <1>4, PoolFinite DEF Ended
<1>8. RunningExact'
  <2>1. fRunningThreads = Cardinality(entered)
    BY <1>2 DEF Observed, RunningExact
  <2>2. o \in entered <=> fState[o] \in 4 .. 6
    BY <1>2 DEF Observed
  <2>3. CASE s = 4
    <3>1. entered' = entered \cup {o} /\ o \notin entered /\ fRunningThreads' = fRunningThreads + 1
      BY <1>5, <2>2, <2>3 DEF Update
    <3> QED
      BY <1>7, <2>1, <3>1, FS_AddElement DEF RunningExact
  <2>4. CASE s = 6
    BY <1>5, <2>1, <2>4 DEF Update, RunningExact
  <2>5. CASE s = 7
    <3>1. entered' = entered \ {o} /\ o \in entered /\ fRunningThreads' = fRunningThreads - 1
      BY <1>5, <2>2, <2>5 DEF Update
    <3> QED
      BY <1>7, <2>1, <3>1, FS_RemoveElement DEF RunningExact
  <2> QED
    BY <2>3, <2>4, <2>5
<1>9. Observed'
  <2>1. \A x \in born : x \in entered' <=> fState'[x] \in 4 .. 6
    BY <1>2, <1>5, <1>6 DEF Observed, TypeOK
  <2>2. \A x \in born \ Pool : fState'[x] = 7
    BY <1>2, <1>4, <1>6 DEF Observed, TypeOK
  <2> QED
    BY <1>1, <1>2, <1>3, <1>8, <2>1, <2>2 DEF Observed, ovars
<1>10. fTerminatedThreads = Cardinality(Ended) => fTerminatedThreads' = Cardinality(Ended')
  <2>1. CASE s = 7
    <3>1. Ended' = Ended \cup {o} /\ o \notin Ended /\ fTerminatedThreads' = fTerminatedThreads + 1
      BY <1>3, <1>4, <1>5, <1>6, <2>1 DEF Ended, Update, PoolInv, TypeOK
    <3> QED
      BY <1>7, <3>1, FS_AddElement
  <2>2. CASE s # 7
    <3>1. Ended' = Ended
      BY <1>2, <1>3, <1>4, <1>5, <1>6, <2>2 DEF Ended, TypeOK
    <3>2. fTerminatedThreads' = fTerminatedThreads
      BY <1>2, <1>5, <2>2 DEF Update, TypeOK
    <3> QED
      BY <3>1, <3>2
  <2> QED
    BY <2>1, <2>2
<1>11. \A x \in Pool : /\ fState[x] = 7 => fState'[x] = 7
                       /\ fState[x] \in 4 .. 7 => fState'[x] \in 4 .. 7
                       /\ fState[x] \in Launched => fState'[x] \in Launched
                       /\ fState[x] = 0 => fState'[x] = 0
  BY <1>2, <1>4, <1>5, <1>6 DEF Launched, TypeOK
<1>12. StartLoop => StartLoop'
  <2> SUFFICES ASSUME StartLoop PROVE StartLoop'
    OBVIOUS
  <2>1. \A i \in Slots : fThreadPool[i] \in Pool
    BY DEF StartLoop, Pool
  <2> QED
    BY <1>1, <1>11, <2>1 DEF StartLoop, mvars
<1>13. StartWait => StartWait'
  BY <1>1, <1>3, <1>11 DEF StartWait, mvars
<1>14. Stage'
  BY <1>1, <1>2, <1>3, <1>10, <1>11, <1>12, <1>13 DEF Stage, mvars
<1> QED
  BY <1>9, <1>14

\* Calls that begin, as long as they are the ones of regular use.
LEMMA CallRegular ==
  ASSUME PoolInv, RegularInv, InitPool \/ Terminate \/ Start
  PROVE  RegularInv'
<1>0. UNCHANGED <<cvars, fThreadPool, fState, ovars, entered>> /\ pc = "out" /\ (regular' => regular)
  BY DEF InitPool, Terminate, Start, Regular
<1> SUFFICES ASSUME regular' PROVE Observed' /\ Stage'
  BY DEF RegularInv
<1>1. regular /\ Observed /\ Stage /\ slot = 1 /\ count = 0
  BY <1>0 DEF RegularInv, PoolInv, LoopsInside
<1>2. Pool' = Pool /\ Ended' = Ended
  BY <1>0 DEF Pool, Ended
<1>3. Observed'
  BY <1>0, <1>1, <1>2 DEF Observed, RunningExact, cvars, ovars
<1>4. CASE InitPool
  <2>1. phase \in {"new", "started", "terminated"} /\ phase' = "none"
    BY <1>4 DEF InitPool, Regular
  <2>2. \/ fTerminated /\ pc' = "alloc"
        \/ pc' \in {"terminate", "join"}
    BY <1>4 DEF InitPool, BeginTerminate
  <2>3. \A o \in Pool : fState[o] \in eRunning .. eTerminated
    BY <1>0, <1>1, <2>1 DEF Stage
  <2>4. fTerminated => \A o \in Pool : fState[o] = eTerminated
    BY <1>0, <1>1, <2>1 DEF Stage
  <2>5. Stage'
    BY <1>0, <1>2, <2>1, <2>2, <2>3, <2>4 DEF Stage
  <2> QED
    BY <1>3, <2>5
<1>5. CASE Terminate
  <2>1. phase \notin {"new", "initialized"} /\ pc' \in {"terminate", "join"}
    BY <1>5 DEF Terminate, BeginTerminate, Regular
  <2>2. \A o \in Pool : fState[o] \in eRunning .. eTerminated
    BY <1>0, <1>1, <2>1 DEF Stage
  <2>3. Stage'
    BY <1>0, <1>2, <2>1, <2>2 DEF Stage
  <2> QED
    BY <1>3, <2>3
<1>6. CASE Start
  <2>1. phase = "initialized" /\ pc' = "start" /\ slot' = 1 /\ count' = 0 /\ fTerminated' = fTerminated
    BY <1>6 DEF Start, Regular
  <2>2. StartLoop'
    BY <1>0, <1>1, <2>1 DEF Stage, StartLoop
  <2>3. fTerminatedThreads' = Cardinality(Ended')
    BY <1>0, <1>1, <1>2, <2>1 DEF Stage, cvars
  <2>4. Stage'
    BY <2>1, <2>2, <2>3 DEF Stage
  <2> QED
    BY <1>3, <2>4
<1> QED
  BY <1>4, <1>5, <1>6

\* Init succeeds: the old objects are done, the new ones are observed.
LEMMA AllocRegular ==
  ASSUME PoolInv, RegularInv, AllocPool(PoolSize, PoolSize)
  PROVE  RegularInv'
<1> SUFFICES ASSUME regular' PROVE Observed' /\ Stage'
  BY DEF RegularInv
<1>1. /\ pc = "alloc" /\ regular /\ Observed /\ Stage /\ TypeOK /\ PoolHeld /\ slot = 1 /\ count = 0
  BY DEF AllocPool, Regular, RegularInv, PoolInv, LoopsInside
<1>2. PICK f \in [1 .. PoolSize -> Objects \ born] :
        /\ \A i, j \in 1 .. PoolSize : f[i] = f[j] => i = j
        /\ fThreadPool' = [i \in Slots |-> IF i <= PoolSize THEN f[i] ELSE fThreadPool[i]]
        /\ born' = born \cup {f[i] : i \in 1 .. PoolSize}
        /\ observed' = observed \cup {f[i] : i \in 1 .. PoolSize}
  BY DEF AllocPool
<1>3. /\ pc' = "out" /\ phase' = "initialized" /\ fTerminated' = FALSE /\ fTerminatedThreads' = 0
      /\ UNCHANGED <<fRunningThreads, fState, entered, slot, count>>
  BY DEF AllocPool
<1>4. fThreadPool' = f
  BY <1>2, PoolSizePos DEF Slots
<1>5. \A i \in Slots : fThreadPool'[i] \in Objects \ born /\ fThreadPool'[i] # None
  BY <1>4, NoneNotObject DEF Slots
<1>6. Pool' = {f[i] : i \in 1 .. PoolSize}
  BY <1>4, <1>5 DEF Pool, Slots
<1>7. /\ \A o \in Pool' : fState[o] = eCreated /\ o \in Objects \ born
      /\ \A o \in born : fState[o] = eTerminated
  <2>1. \A o \in Pool' : o \in Objects \ born
    BY <1>6
  <2>2. \A o \in Objects \ born : fState[o] = eCreated
    BY <1>1 DEF PoolHeld
  <2>3. \A o \in born : fState[o] = eTerminated
    BY <1>1 DEF Observed, Stage
  <2> QED
    BY <2>1, <2>2, <2>3
<1>8. \A o \in born : o \notin entered
  BY <1>1, <1>7 DEF Observed, eRunning, eTerminatedRunMethod, eTerminated
<1>9. Observed'
  <2>1. Pool' \subseteq observed'
    BY <1>2, <1>6
  <2>2. \A o \in born' \ Pool' : fState'[o] = eTerminated
    BY <1>2, <1>3, <1>6, <1>7
  <2>3. \A o \in born' : o \in entered' <=> fState'[o] \in eRunning .. eTerminatedRunMethod
    <3> SUFFICES ASSUME NEW o \in born' PROVE o \notin entered /\ fState[o] \notin eRunning .. eTerminatedRunMethod
      BY <1>3
    <3>1. entered \subseteq born
      BY <1>1 DEF TypeOK
    <3>2. CASE o \in born
      BY <1>7, <1>8, <3>2 DEF eRunning, eTerminatedRunMethod, eTerminated
    <3>3. CASE o \in Pool'
      BY <1>7, <3>1, <3>3 DEF eRunning, eTerminatedRunMethod, eCreated
    <3> QED
      BY <1>2, <1>6, <3>2, <3>3
  <2>4. RunningExact'
    BY <1>1, <1>3 DEF Observed, RunningExact
  <2> QED
    BY <2>1, <2>2, <2>3, <2>4 DEF Observed
<1>10. StartLoop'
  <2>1. \A i, j \in Slots : fThreadPool'[i] = fThreadPool'[j] => i = j
    BY <1>2, <1>4 DEF Slots
  <2>2. \A i \in Slots : fThreadPool'[i] \in Pool' /\ ~(i < slot')
    BY <1>1, <1>3, <1>4, <1>6 DEF Slots
  <2> QED
    BY <1>1, <1>3, <1>5, <1>7, <2>1, <2>2 DEF StartLoop
<1>11. fTerminatedThreads' = Cardinality(Ended')
  <2>1. Ended' = {}
    BY <1>3, <1>7 DEF Ended, eCreated, eTerminated
  <2> QED
    BY <1>3, <2>1, FS_EmptySet
<1>12. Stage'
  BY <1>3, <1>10, <1>11 DEF Stage
<1> QED
  BY <1>9, <1>12

\* Start: every thread is started, and Start returns when all have run.
LEMMA StartRegular ==
  ASSUME PoolInv, RegularInv, StartThread \/ StartDone
  PROVE  RegularInv'
<1> USE DEF eCreated, eStartRequested, eStarted, eRunning, eTerminationRequested, eTerminatedRunMethod, eTerminated
<1>0. UNCHANGED <<fTerminated, fThreadPool, ovars, entered, regular>>
  BY DEF StartThread, StartDone
<1> SUFFICES ASSUME regular PROVE Observed' /\ Stage'
  BY <1>0 DEF RegularInv
<1>1. TypeOK /\ PoolHeld /\ Observed /\ Stage /\ Pool' = Pool /\ Pool \subseteq born /\ entered \subseteq Pool
  BY <1>0 DEF RegularInv, PoolInv, PoolHeld, Pool, Observed, InRun, TypeOK
<1>2. CASE StartThread
  <2>1. pc = "start" /\ NextSlot("start", "startWait") /\ count' = count + 1 /\ StartLoop
    BY <1>1, <1>2 DEF StartThread, Stage
  <2>2. slot \in Slots /\ \A i \in Slots : fThreadPool[i] # None /\ fThreadPool[i] \in Pool
    BY <1>1, <2>1 DEF StartLoop, TypeOK, Pool
  <2>3. PICK o \in Objects : o = fThreadPool[slot] /\ o \in Pool /\ o \in observed
    BY <1>1, <2>2, InPool DEF Observed
  <2>4. fState[o] = 0 /\ SetState(o, 3) /\ Update(3)
    BY <1>2, <2>1, <2>2, <2>3 DEF StartThread, StartLoop, SetState, Slots
  <2>5. \A x \in Objects : fState'[x] = (IF x = o THEN 3 ELSE fState[x])
    BY <1>1, <2>4, SetStateTypes
  <2>6. fRunningThreads' = fRunningThreads /\ fTerminatedThreads' = fTerminatedThreads
    BY <1>1, <2>4 DEF Update, TypeOK
  <2>7. Ended' = Ended
    BY <1>1, <2>4, <2>5 DEF Ended, TypeOK
  <2>8. Observed'
    <3>1. \A x \in born : x \in entered <=> fState'[x] \in 4 .. 6
      BY <1>1, <2>4, <2>5 DEF Observed, TypeOK
    <3>2. \A x \in born \ Pool : fState'[x] = 7
      BY <1>1, <2>3, <2>5 DEF Observed, TypeOK
    <3>3. RunningExact'
      BY <1>0, <1>1, <2>6 DEF Observed, RunningExact
    <3> QED
      BY <1>0, <1>1, <3>1, <3>2, <3>3 DEF Observed, ovars
  <2>9. \/ pc' = "start" /\ slot' \in Slots /\ slot' = slot + 1 /\ fThreadPool[slot + 1] # None
        \/ pc' = "startWait" /\ slot' = slot /\ \A i \in Slots : fThreadPool[i] # None => i <= slot
    BY <1>1, <2>1, <2>2, NextSlotStays
  <2>10. \A i \in Slots : /\ i <= slot => fState'[fThreadPool[i]] \in Launched
                          /\ i > slot => fState'[fThreadPool[i]] = 0
    <3> SUFFICES ASSUME NEW i \in Slots
                 PROVE  /\ i <= slot => fState'[fThreadPool[i]] \in Launched
                        /\ i > slot => fState'[fThreadPool[i]] = 0
      OBVIOUS
    <3>1. fThreadPool[i] \in Objects /\ (fThreadPool[i] = o <=> i = slot)
      BY <1>1, <2>1, <2>2, <2>3, InPool DEF StartLoop
    <3>2. fState[fThreadPool[i]] \in (IF i < slot THEN Launched ELSE {0})
      BY <2>1 DEF StartLoop
    <3>3. i \in Int /\ slot \in Int
      BY <2>2 DEF Slots
    <3> QED
      BY <2>5, <3>1, <3>2, <3>3 DEF Launched
  <2>11. fTerminatedThreads' = Cardinality(Ended')
    BY <1>1, <2>1, <2>6, <2>7 DEF Stage
  <2>12. CASE pc' = "start"
    <3>1. slot' = slot + 1 /\ slot \in Int
      BY <2>2, <2>9, <2>12 DEF Slots
    <3>2. \A i \in Slots : i < slot' <=> i <= slot
      BY <3>1 DEF Slots
    <3>3. \A i \in Slots : fState'[fThreadPool[i]] \in (IF i < slot' THEN Launched ELSE {0})
      BY <2>10, <3>1, <3>2 DEF Slots
    <3>4. StartLoop'
      BY <1>0, <2>1, <3>1, <3>3 DEF StartLoop
    <3> QED
      BY <2>8, <2>11, <2>12, <3>4 DEF Stage
  <2>13. CASE pc' = "startWait"
    <3>1. slot = PoolSize
      BY <2>2, <2>9, <2>13, PoolSizePos DEF Slots
    <3>2. \A x \in Pool : fState'[x] \in Launched
      <4> SUFFICES ASSUME NEW i \in Slots PROVE fState'[fThreadPool[i]] \in Launched
        BY DEF Pool
      <4> QED
        BY <2>2, <2>9, <2>10, <2>13
    <3>3. StartWait'
      BY <1>0, <1>1, <2>1, <3>1, <3>2, PoolSizePos DEF StartLoop, StartWait
    <3> QED
      BY <2>8, <2>11, <2>13, <3>3 DEF Stage
  <2> QED
    BY <2>9, <2>12, <2>13
<1>3. CASE StartDone
  <2>1. /\ pc = "startWait" /\ AllRunning /\ pc' = "out" /\ phase' = "started"
        /\ UNCHANGED <<cvars, fState>>
    BY <1>3 DEF StartDone
  <2>2. StartWait /\ fRunningThreads = Cardinality(entered) /\ fTerminatedThreads = Cardinality(Ended)
    BY <1>1, <2>1 DEF Stage, Observed, RunningExact
  <2>3. entered \cap Ended = {}
    BY <1>1 DEF Observed, Ended
  <2>4. Pool = entered \cup Ended
    BY <1>1, <2>1, <2>2, <2>3, AllHaveRun DEF AllRunning, StartWait
  <2>5. \A x \in Pool : fState[x] \in 4 .. 7
    BY <1>1, <2>4 DEF Observed, Ended
  <2>6. Observed'
    BY <1>0, <1>1, <2>1 DEF Observed, RunningExact, cvars, ovars
  <2>7. Stage'
    BY <1>0, <1>1, <2>1, <2>2, <2>5 DEF Stage, StartWait
  <2> QED
    BY <2>6, <2>7
<1> QED
  BY <1>2, <1>3

\* DoTerminate and Join of a pool whose threads have all run.
LEMMA EndRegular ==
  ASSUME PoolInv, RegularInv,
         TerminateThread \/ ThreadTerminated \/ ThreadTimeout \/ TerminateFails \/ Join
  PROVE  RegularInv'
<1> USE DEF eCreated, eStartRequested, eStarted, eRunning, eTerminationRequested, eTerminatedRunMethod, eTerminated
<1>0. UNCHANGED <<observed, born, entered, regular>> /\ pc \in {"terminate", "await", "join"}
  BY DEF TerminateThread, ThreadTerminated, ThreadTimeout, TerminateFails, Join, ovars
<1> SUFFICES ASSUME regular PROVE Observed' /\ Stage'
  BY <1>0 DEF RegularInv
<1>1. /\ TypeOK /\ PoolHeld /\ Observed /\ Stage /\ Pool \subseteq born
      /\ \A x \in Pool : fState[x] \in 4 .. 7
  BY <1>0 DEF RegularInv, PoolInv, PoolHeld, Stage
<1>2. CASE TerminateThread
  <2>1. /\ pc = "terminate" /\ pc' = "await" /\ slot \in Slots /\ fThreadPool[slot] # None
        /\ fThreadPool' = fThreadPool
    BY <1>1, <1>2 DEF TerminateThread, PoolInv, LoopsInside, TypeOK
  <2>2. PICK o \in Objects : o = fThreadPool[slot] /\ o \in Pool
    BY <1>1, <2>1, InPool
  <2>3. Pool' = Pool
    BY <2>1 DEF Pool
  <2>4. \/ UNCHANGED <<fState, cvars>>
        \/ fState[o] = 4 /\ SetState(o, 5)
    BY <1>1, <1>2, <2>2 DEF TerminateThread
  <2>5. /\ fRunningThreads' = fRunningThreads
        /\ \A x \in Objects : fState'[x] = fState[x] \/ (x = o /\ fState[x] = 4 /\ fState'[x] = 5)
    <3>1. CASE UNCHANGED <<fState, cvars>>
      BY <3>1 DEF cvars
    <3>2. CASE fState[o] = 4 /\ SetState(o, 5)
      <4>1. \A x \in Objects : fState'[x] = (IF x = o THEN 5 ELSE fState[x])
        BY <1>1, <3>2, SetStateTypes
      <4>2. fRunningThreads' = fRunningThreads
        BY <3>2 DEF SetState, Update, cvars
      <4> QED
        BY <3>2, <4>1, <4>2
    <3> QED
      BY <2>4, <3>1, <3>2
  <2>6. Observed'
    <3>1. \A x \in born : x \in entered <=> fState'[x] \in 4 .. 6
      BY <1>1, <2>5 DEF Observed, TypeOK
    <3>2. \A x \in born \ Pool : fState'[x] = 7
      BY <1>1, <2>5 DEF Observed, TypeOK
    <3>3. RunningExact'
      BY <1>0, <1>1, <2>5 DEF Observed, RunningExact
    <3> QED
      BY <1>0, <1>1, <2>3, <3>1, <3>2, <3>3 DEF Observed
  <2>7. \A x \in Pool : fState'[x] \in 4 .. 7
    BY <1>1, <2>5 DEF TypeOK
  <2>8. Stage'
    BY <2>1, <2>3, <2>7 DEF Stage
  <2> QED
    BY <2>6, <2>8
<1>3. CASE ThreadTerminated \/ ThreadTimeout
  <2>1. UNCHANGED <<cvars, fThreadPool, fState>> /\ pc' \in {"terminate", "join"}
    BY <1>3 DEF ThreadTerminated, ThreadTimeout, NextSlot
  <2>2. Pool' = Pool
    BY <2>1 DEF Pool
  <2>3. Observed' /\ Stage'
    BY <1>0, <1>1, <2>1, <2>2 DEF Observed, RunningExact, Stage, cvars
  <2> QED
    BY <2>3
<1>4. CASE TerminateFails
  <2>1. UNCHANGED <<cvars, fThreadPool, fState>> /\ pc' = "out" /\ phase' = "none"
    BY <1>4 DEF TerminateFails, Return
  <2>2. Pool' = Pool
    BY <2>1 DEF Pool
  <2>3. Observed' /\ Stage'
    BY <1>0, <1>1, <2>1, <2>2 DEF Observed, RunningExact, Stage, cvars
  <2> QED
    BY <2>3
<1>5. CASE Join
  <2>1. /\ pc = "join" /\ count = 0 /\ pc' \in {"alloc", "out"} /\ phase' = "terminated"
        /\ UNCHANGED <<cvars, fState>>
        /\ fThreadPool' = fThreadPool \/ fThreadPool' = [i \in Slots |-> None]
    BY <1>5 DEF Join, Return
  <2>2. Pool' = Pool \/ Pool' = {}
    BY <2>1 DEF Pool
  <2>3. \A x \in born : fState[x] = 7 
    BY <1>1, <2>1 DEF PoolInv, FoundEnded, Observed
  <2>4. Observed'
    BY <1>0, <1>1, <2>1, <2>2, <2>3 DEF Observed, RunningExact, cvars
  <2>5. Stage'
    BY <1>1, <2>1, <2>2, <2>3 DEF Stage
  <2> QED
    BY <2>4, <2>5
<1> QED
  BY <1>2, <1>3, <1>4, <1>5

\* Every step keeps what regular use guarantees, or ends it.
LEMMA RegularStep == PoolInv /\ RegularInv /\ [Next]_vars => RegularInv'
<1> SUFFICES ASSUME PoolInv, RegularInv, [Next]_vars PROVE RegularInv'
  OBVIOUS
<1>1. CASE UNCHANGED vars
  <2>1. Pool' = Pool /\ Ended' = Ended
    BY <1>1 DEF vars, Pool, Ended
  <2> QED
    BY <1>1, <2>1 DEF vars, cvars, ovars, mvars, RegularInv, Observed, RunningExact, Stage, StartLoop, StartWait
<1>2. CASE AllocPoolFails \/ InitPoolFails \/ StartThreadFails \/ StartTimeout
  <2>1. ASSUME NEW n, NEW k \in 0 .. PoolSize - 1, AllocPool(n, k) PROVE ~regular'
    <3>1. k # PoolSize
      BY PoolSizePos
    <3> QED
      BY <2>1, <3>1 DEF AllocPool, Regular
  <2>2. ~regular'
    <3>1. 0 \in 0 .. PoolSize - 1
      BY PoolSizePos
    <3> QED
      BY <1>2, <2>1, <3>1 DEF AllocPoolFails, InitPoolFails, StartThreadFails, StartTimeout, Regular
  <2> QED
    BY <2>2 DEF RegularInv
<1> QED
  BY <1>1, <1>2, SystemRegular, CallRegular, AllocRegular, StartRegular, EndRegular DEF Next

\* A pool in regular use counts its running threads exactly.
THEOREM Running == Spec => []RunningExact
<1>1. Init => RegularInv
  <2> SUFFICES ASSUME Init PROVE RegularInv
    OBVIOUS
  <2>1. Pool = {}
    BY DEF Init, Pool
  <2>2. RunningExact
    BY FS_EmptySet DEF Init, RunningExact
  <2> QED
    BY <2>1, <2>2 DEF Init, RegularInv, Observed, Stage
<1>2. RegularInv => RunningExact
  BY DEF RegularInv, Observed, RunningExact
<1> QED
  BY <1>1, <1>2, RegularStep, PoolSafety, PTL DEF Spec
=============================================================================
