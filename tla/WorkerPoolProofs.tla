-------------------------- MODULE WorkerPoolProofs --------------------------
(***************************************************************************)
(* Proofs about the worker pool as Server uses it (module WorkerPool), for *)
(* every pool size, every set of clients and any number of calls of Init.  *)
(***************************************************************************)
EXTENDS WorkerPool, FiniteSetTheorems, TLAPS

\* The workers whose requests the statistics handler counts.
Working == {w \in Workers : fRunningState[w] = "working"}

\* The client is inside Enter with fMutex held.
Inside(c) == pc[c] \in {"get", "test", "scan", "set"}

AllOut == \A c \in Clients : pc[c] = "out"

\* fMutex belongs to the one client that is inside; none of those has passed
\* the test of a blocked pool.
MutexHeld ==
  /\ \A c \in Clients : Inside(c) <=> fMutex = c
  /\ fBlockRequestHandling => \A c \in Clients : pc[c] \notin {"scan", "set"}

\* The counter of the handler is exact.
Counted == fCurrentParallelRequests = Cardinality(Working)

\* When no request is in work, and stays out.
Quiet ==
  /\ idle => fBlockRequestHandling /\ Working = {}
  /\ fpStatEvtHandler = 0 => AllOut /\ Working = {}
  /\ apc # "out" /\ caller = "Init" => (AllOut \/ idle) /\ Working = {}

\* Where Init is, and the workers of a pool that it replaces.
Replaced ==
  /\ apc \in {"delete", "start", "handler"} => caller = "Init"
  /\ apc = "start" => \A w \in Workers : w >= k => fState[w] = "none"
  /\ caller = "Init" => \A w \in Workers : fState[w] \in {"asked", "end"} => ~pending[w]

\* A worker's state, its work and its system thread.
WorkerOK(w) ==
  /\ wpc[w] = "out" <=> fState[w] \in {"none", "end"}
  /\ fState[w] = "none" => fRunningState[w] = "ready"
  /\ pending[w] => fRunningState[w] = "working"
  /\ fState[w] = "run" /\ wpc[w] = "check" /\ fRunningState[w] = "working" => pending[w]
  /\ wpc[w] = "work" => pending[w]
  /\ wpc[w] = "done" => ~pending[w] /\ fRunningState[w] = "working"

\* The inductive invariant.
PoolInv ==
  /\ TypeOK /\ MutexHeld /\ Counted /\ Quiet /\ Replaced /\ StaleNeverAdmits
  /\ \A w \in Workers : WorkerOK(w)

-----------------------------------------------------------------------------
\* What is counted is finite, so the counter has its bounds.
LEMMA WorkingCount ==
  ASSUME NEW S \in SUBSET Workers
  PROVE  IsFiniteSet(S) /\ Cardinality(S) \in 0 .. PoolSize /\ (Cardinality(S) <= 0 => S = {})
<1>1. IsFiniteSet(Workers) /\ Cardinality(Workers) = PoolSize
  BY FS_Interval, PoolSizePos DEF Workers
<1>2. IsFiniteSet(S) /\ Cardinality(S) <= PoolSize
  BY <1>1, FS_Subset
<1> QED
  BY <1>2, FS_CardinalityType, FS_EmptySet, PoolSizePos

\* The new pool: nothing runs, nobody is inside.
LEMMA PoolInit == Init => PoolInv
<1> SUFFICES ASSUME Init PROVE PoolInv
  OBVIOUS
<1> USE DEF Init
<1>1. Working = {}
  BY DEF Working
<1>2. TypeOK
  <2>1. 0 \in 0 .. PoolSize /\ 0 \in 0 .. MaxInits /\ 1 \in Workers
    BY PoolSizePos, MaxInitsNat DEF Workers
  <2> QED
    BY <2>1 DEF TypeOK
<1>3. MutexHeld
  BY NoneNoClient DEF MutexHeld, Inside
<1>4. Counted
  BY <1>1, FS_EmptySet DEF Counted
<1>5. Quiet
  BY <1>1 DEF Quiet, AllOut
<1>6. Replaced
  BY DEF Replaced
<1>7. StaleNeverAdmits
  BY DEF StaleNeverAdmits
<1>8. \A w \in Workers : WorkerOK(w)
  BY DEF WorkerOK
<1> QED
  BY <1>2, <1>3, <1>4, <1>5, <1>6, <1>7, <1>8 DEF PoolInv

\* A step of a client that hands over no work.
LEMMA ClientInv ==
  ASSUME PoolInv, NEW c \in Clients,
         (Enter(c) /\ Serving) \/ GetHandler(c) \/ Test(c) \/ Wake(c) \/ FindNextRunnable(c)
  PROVE  PoolInv'
<1> USE DEF PoolInv
<1>0. UNCHANGED <<fBlockRequestHandling, fTerminated, hvars, wvars, avars, idle>>
  BY DEF Enter, GetHandler, Test, Wake, FindNextRunnable
<1>1. TypeOK'
  BY <1>0 DEF TypeOK, hvars, wvars, avars, Enter, GetHandler, Test, Wake, FindNextRunnable, Goto
<1>2. \A d \in Clients : d # c => pc'[d] = pc[d] /\ ptr'[d] = ptr[d]
  BY DEF TypeOK, Enter, GetHandler, Test, Wake, FindNextRunnable, Goto
<1>3. MutexHeld'
  <2>1. \/ Inside(c)' /\ fMutex' = c /\ (fMutex = c \/ fMutex = None)
        \/ ~Inside(c)' /\ fMutex' = None /\ Inside(c)
    BY DEF TypeOK, MutexHeld, Inside, Enter, GetHandler, Test, Wake, FindNextRunnable, Goto
  <2>2. \A d \in Clients : d # c => (Inside(d)' <=> Inside(d))
    BY <1>2 DEF Inside
  <2>3. \A d \in Clients : Inside(d)' <=> fMutex' = d
    BY <2>1, <2>2, NoneNoClient DEF MutexHeld
  <2>4. fBlockRequestHandling => pc'[c] \notin {"scan", "set"}
    BY DEF TypeOK, MutexHeld, Enter, GetHandler, Test, MustWait, Wake, FindNextRunnable, Goto
  <2> QED
    BY <1>0, <1>2, <2>3, <2>4 DEF MutexHeld
<1>4. Working' = Working
  BY <1>0 DEF Working, wvars
<1>5. Counted'
  BY <1>0, <1>4 DEF Counted, hvars
<1>6. Quiet'
  <2>1. pc[c] # "out" \/ (apc = "out" /\ fpStatEvtHandler > 0)
    BY DEF Enter, Serving, GetHandler, Test, Wake, FindNextRunnable
  <2>2. fpStatEvtHandler \in Nat
    BY MaxInitsNat DEF TypeOK
  <2> QED
    BY <1>0, <1>4, <2>1, <2>2 DEF Quiet, AllOut, hvars, avars
<1>7. Replaced'
  BY <1>0 DEF Replaced, wvars, avars
<1>8. StaleNeverAdmits'
  <2>1. pc'[c] = "test" => ptr'[c] = fpStatEvtHandler
    BY DEF TypeOK, Enter, GetHandler, Test, Wake, FindNextRunnable, Goto
  <2> QED
    BY <1>0, <1>2, <2>1 DEF StaleNeverAdmits, hvars
<1>9. \A w \in Workers : WorkerOK(w)'
  BY <1>0 DEF WorkerOK, wvars
<1> QED
  BY <1>1, <1>3, <1>5, <1>6, <1>7, <1>8, <1>9

\* SetWorking: a worker that was ready takes the work and is counted.
LEMMA SetWorkingInv ==
  ASSUME PoolInv, NEW c \in Clients, SetWorking(c)
  PROVE  PoolInv'
<1> USE DEF PoolInv
<1>0. PICK w \in Workers : w = sel[c]
  BY DEF TypeOK
<1>1. /\ pc[c] = "set" /\ pc' = [pc EXCEPT ![c] = "out"] /\ fMutex = c /\ fMutex' = None
      /\ UNCHANGED <<fBlockRequestHandling, fTerminated, fpStatEvtHandler, fState, wpc, ptr, sel, avars, idle>>
  BY DEF SetWorking, Goto, MutexHeld, Inside
<1>2. /\ ~fBlockRequestHandling /\ ~idle /\ fpStatEvtHandler # 0
      /\ ~(apc # "out" /\ caller = "Init")
  BY <1>1 DEF MutexHeld, Quiet, AllOut
<1>3. \A d \in Clients : pc'[d] = (IF d = c THEN "out" ELSE pc[d])
  BY <1>1 DEF TypeOK
<1>4. MutexHeld'
  BY <1>1, <1>3, NoneNoClient DEF MutexHeld, Inside
<1>5. Quiet'
  BY <1>1, <1>2 DEF Quiet, avars
<1>6. StaleNeverAdmits'
  BY <1>1, <1>3 DEF StaleNeverAdmits
<1>7. CASE ~Accepts(w)
  <2>1. UNCHANGED <<fRunningState, pending, fCurrentParallelRequests>>
    BY <1>0, <1>7 DEF SetWorking
  <2>2. TypeOK'
    BY <1>1, <2>1 DEF TypeOK, avars
  <2>3. Counted'
    BY <2>1 DEF Counted, Working
  <2>4. Replaced' /\ \A v \in Workers : WorkerOK(v)'
    BY <1>1, <2>1 DEF Replaced, WorkerOK, avars
  <2> QED
    BY <1>4, <1>5, <1>6, <2>2, <2>3, <2>4
<1>8. CASE Accepts(w)
  <2>1. /\ fRunningState' = [fRunningState EXCEPT ![w] = "working"]
        /\ pending' = [pending EXCEPT ![w] = TRUE]
        /\ fCurrentParallelRequests' = fCurrentParallelRequests + 1
    BY <1>0, <1>8 DEF SetWorking
  <2>2. Working' = Working \cup {w} /\ w \notin Working
    BY <1>8, <2>1 DEF Working, Accepts, TypeOK
  <2>3. Counted'
    <3>1. Cardinality(Working') = Cardinality(Working) + 1
      BY <2>2, WorkingCount, FS_AddElement DEF Working
    <3> QED
      BY <2>1, <3>1 DEF Counted
  <2>4. TypeOK'
    <3>1. fCurrentParallelRequests' \in 0 .. PoolSize
      BY <2>3, WorkingCount DEF Counted, Working
    <3> QED
      BY <1>1, <2>1, <3>1 DEF TypeOK, avars
  <2>5. Replaced'
    BY <1>1, <1>8, <2>1 DEF Replaced, Accepts, TypeOK, avars
  <2>6. \A v \in Workers : WorkerOK(v)'
    BY <1>1, <1>8, <2>1 DEF WorkerOK, Accepts, TypeOK
  <2> QED
    BY <1>4, <1>5, <1>6, <2>3, <2>4, <2>5, <2>6
<1> QED
  BY <1>7, <1>8

\* The system threads of the workers.
LEMMA WorkerInv ==
  ASSUME PoolInv, NEW w \in Workers, Worker(w)
  PROVE  PoolInv'
<1> USE DEF PoolInv
<1>0. UNCHANGED <<fMutex, fBlockRequestHandling, fTerminated, fpStatEvtHandler, cvars, avars, idle>>
  BY DEF Worker, TakeWork, Process, SetReady, Leave, hvars
<1>1. MutexHeld' /\ StaleNeverAdmits'
  BY <1>0 DEF MutexHeld, Inside, StaleNeverAdmits, cvars
<1>2. /\ Counted' /\ Working' \subseteq Working
      /\ fCurrentParallelRequests' \in 0 .. PoolSize
  <2>1. CASE SetReady(w) /\ fState[w] = "run"
    <3>1. Working' = Working \ {w} /\ w \in Working
      BY <2>1 DEF SetReady, Working, WorkerOK, TypeOK
    <3>2. Cardinality(Working') = Cardinality(Working) - 1
      BY <3>1, WorkingCount, FS_RemoveElement DEF Working
    <3>3. fCurrentParallelRequests' = fCurrentParallelRequests - 1
      BY <2>1 DEF SetReady
    <3>4. Cardinality(Working') \in 0 .. PoolSize
      BY WorkingCount DEF Working
    <3> QED
      BY <3>1, <3>2, <3>3, <3>4 DEF Counted
  <2>2. CASE ~(SetReady(w) /\ fState[w] = "run")
    BY <2>2 DEF Worker, TakeWork, Process, SetReady, Leave, hvars, Counted, Working, TypeOK
  <2> QED
    BY <2>1, <2>2
<1>3. TypeOK'
  <2>1. /\ pending' \in [Workers -> BOOLEAN]
        /\ fState' \in [Workers -> {"none", "run", "asked", "end"}]
        /\ fRunningState' \in [Workers -> {"ready", "working"}]
        /\ wpc' \in [Workers -> {"out", "check", "work", "done"}]
    BY DEF Worker, TakeWork, Process, SetReady, Leave, TypeOK
  <2> QED
    BY <1>0, <1>2, <2>1 DEF TypeOK, cvars, avars
<1>4. Quiet'
  BY <1>0, <1>2 DEF Quiet, AllOut, cvars, avars
<1>5. Replaced'
  BY <1>0 DEF Replaced, WorkerOK, TypeOK, Worker, TakeWork, Process, SetReady, Leave, avars
<1>6. \A v \in Workers : WorkerOK(v)'
  <2>1. CASE TakeWork(w)
    BY <2>1 DEF TakeWork, WorkerOK, TypeOK
  <2>2. CASE Process(w)
    BY <2>2 DEF Process, WorkerOK, TypeOK
  <2>3. CASE SetReady(w)
    BY <2>3 DEF SetReady, WorkerOK, TypeOK
  <2>4. CASE Leave(w)
    BY <2>4 DEF Leave, WorkerOK, TypeOK
  <2> QED
    BY <2>1, <2>2, <2>3, <2>4 DEF Worker
<1> QED
  BY <1>1, <1>2, <1>3, <1>4, <1>5, <1>6

\* Blocking the pool and waiting until it is empty.
LEMMA BlockInv ==
  ASSUME PoolInv, (\E b \in BOOLEAN : SetBlocked(b)) \/ AwaitEmpty
  PROVE  PoolInv'
<1> USE DEF PoolInv
<1>0. UNCHANGED <<fMutex, fTerminated, hvars, wvars, cvars, avars>>
  BY DEF SetBlocked, AwaitEmpty
<1>1. /\ TypeOK' /\ Working' = Working /\ Counted' /\ Replaced'
      /\ \A w \in Workers : WorkerOK(w)'
  BY <1>0 DEF SetBlocked, AwaitEmpty, TypeOK, Working, Counted, Replaced, WorkerOK, hvars, wvars, cvars, avars
<1>2. CASE \E b \in BOOLEAN : SetBlocked(b)
  <2>1. PICK b \in BOOLEAN : SetBlocked(b)
    BY <1>2
  <2>2. fMutex = None /\ apc = "out" /\ idle' = (idle /\ b) /\ fBlockRequestHandling' = b
    BY <2>1 DEF SetBlocked
  <2>3. \A c \in Clients : ~Inside(c)
    BY <2>2, NoneNoClient DEF MutexHeld
  <2>4. MutexHeld' /\ StaleNeverAdmits'
    BY <1>0, <2>3 DEF MutexHeld, StaleNeverAdmits, Inside, cvars
  <2>5. Quiet'
    BY <1>0, <1>1, <2>2 DEF Quiet, AllOut, hvars, cvars, avars
  <2> QED
    BY <1>1, <2>4, <2>5
<1>3. CASE AwaitEmpty
  <2>1. /\ apc = "out" /\ fCurrentParallelRequests <= 0 /\ idle' = fBlockRequestHandling
        /\ UNCHANGED fBlockRequestHandling
    BY <1>3 DEF AwaitEmpty
  <2>2. Working = {}
    BY <2>1, WorkingCount DEF Counted, Working
  <2>3. MutexHeld' /\ StaleNeverAdmits'
    BY <1>0, <2>1 DEF MutexHeld, StaleNeverAdmits, Inside, hvars, cvars
  <2>4. Quiet'
    BY <1>0, <1>1, <2>1, <2>2 DEF Quiet, AllOut, hvars, cvars, avars
  <2> QED
    BY <1>1, <2>3, <2>4
<1> QED
  BY <1>2, <1>3

\* Terminate is called: by Init only when no request is in work.
LEMMA TerminateInv ==
  ASSUME PoolInv,
         \/ Terminate("client")
         \/ Terminate("Init") /\ (fpStatEvtHandler = 0 \/ idle)
  PROVE  PoolInv'
<1> USE DEF PoolInv
<1>0. PICK who \in {"client", "Init"} :
        Terminate(who) /\ (who = "Init" => fpStatEvtHandler = 0 \/ idle)
  OBVIOUS
<1>1. /\ apc = "out" /\ apc' \in {"return", "ask"} /\ caller' = who /\ k' = 1
      /\ UNCHANGED <<fMutex, fBlockRequestHandling, fTerminated, hvars, wvars, cvars, idle>>
  BY <1>0 DEF Terminate
<1>2. who = "Init" => Working = {} /\ (AllOut \/ idle) /\ \A w \in Workers : ~pending[w]
  BY <1>0 DEF Quiet, WorkerOK, Working
<1>3. TypeOK'
  BY <1>1, PoolSizePos DEF TypeOK, Workers, hvars, wvars, cvars
<1>4. /\ MutexHeld' /\ StaleNeverAdmits' /\ Working' = Working /\ Counted'
      /\ \A w \in Workers : WorkerOK(w)'
  BY <1>1 DEF MutexHeld, Inside, StaleNeverAdmits, Working, Counted, WorkerOK, hvars, wvars, cvars
<1>5. Quiet'
  BY <1>1, <1>2, <1>4 DEF Quiet, AllOut, hvars, cvars
<1>6. Replaced'
  BY <1>1, <1>2 DEF Replaced, wvars
<1> QED
  BY <1>3, <1>4, <1>5, <1>6

\* Terminate and Init as they go on.
LEMMA ManagingInv ==
  ASSUME PoolInv, Managing
  PROVE  PoolInv'
<1> USE DEF PoolInv
<1>0. apc # "out" /\ UNCHANGED <<fMutex, fBlockRequestHandling, cvars, caller, idle>>
  BY DEF Managing, Ask, Await, Return, DeletePool, StartWorker, StartWorkerFails, NewHandler
<1>1. MutexHeld'
  BY <1>0 DEF MutexHeld, Inside, cvars
<1>2. ASSUME UNCHANGED fpStatEvtHandler PROVE StaleNeverAdmits'
  BY <1>0, <1>2 DEF StaleNeverAdmits, cvars
<1>3. ASSUME UNCHANGED hvars, UNCHANGED fRunningState
      PROVE  Working' = Working /\ Counted' /\ Quiet'
  BY <1>0, <1>3 DEF Working, Counted, Quiet, AllOut, hvars, cvars
<1>4. CASE Ask
  <2>1. TypeOK'
    BY <1>4 DEF Ask, TypeOK, hvars, cvars
  <2>2. Replaced'
    <3>1. caller = "Init" => \A w \in Workers : ~pending[w]
      BY <1>0 DEF Quiet, WorkerOK, Working
    <3> QED
      BY <1>4, <3>1 DEF Ask, Replaced
  <2>3. \A w \in Workers : WorkerOK(w)'
    BY <1>4 DEF Ask, WorkerOK, TypeOK
  <2> QED
    BY <1>1, <1>2, <1>3, <1>4, <2>1, <2>2, <2>3 DEF Ask, hvars
<1>5. CASE Await \/ Return
  <2>1. TypeOK'
    <3>1. k' \in Workers
      BY <1>5, PoolSizePos DEF Await, Return, TypeOK, Workers
    <3>2. fTerminated' \in BOOLEAN
      BY <1>5 DEF Await, Return, TypeOK
    <3> QED
      BY <1>5, <3>1, <3>2 DEF Await, Return, TypeOK, hvars, wvars, cvars
  <2>2. Replaced' /\ \A w \in Workers : WorkerOK(w)'
    BY <1>5 DEF Await, Return, Replaced, WorkerOK, wvars
  <2> QED
    BY <1>1, <1>2, <1>3, <1>5, <2>1, <2>2 DEF Await, Return, hvars, wvars
<1>6. CASE DeletePool
  <2>1. Working = {} /\ Working' = {}
    BY <1>6 DEF DeletePool, Quiet, Replaced, Working
  <2>2. TypeOK'
    <3>1. /\ pending' \in [Workers -> BOOLEAN] /\ fTerminated' \in BOOLEAN
          /\ fState' \in [Workers -> {"none", "run", "asked", "end"}]
          /\ fRunningState' \in [Workers -> {"ready", "working"}]
      BY <1>6 DEF DeletePool
    <3> QED
      BY <1>6, <3>1, PoolSizePos DEF DeletePool, TypeOK, Workers, hvars, cvars
  <2>3. Counted' /\ Quiet'
    BY <1>0, <1>6, <2>1 DEF DeletePool, Counted, Quiet, AllOut, hvars, cvars
  <2>4. Replaced'
    BY <1>6 DEF DeletePool, Replaced
  <2>5. \A w \in Workers : WorkerOK(w)'
    BY <1>6 DEF DeletePool, WorkerOK
  <2> QED
    BY <1>1, <1>2, <1>6, <2>2, <2>3, <2>4, <2>5 DEF DeletePool, hvars
<1>7. CASE StartWorker \/ StartWorkerFails
  <2>1. apc = "start" /\ NextStart /\ UNCHANGED <<fTerminated, hvars, fRunningState, pending>>
    BY <1>7 DEF StartWorker, StartWorkerFails
  <2>2. fState[k] = "none" /\ fRunningState[k] = "ready" /\ ~pending[k] /\ wpc[k] = "out" /\ k \in Workers
    BY <2>1 DEF Replaced, WorkerOK, TypeOK, Workers
  <2>3. TypeOK'
    <3>1. k' \in Workers /\ apc' \in {"start", "handler"}
      BY <2>1, PoolSizePos DEF NextStart, TypeOK, Workers
    <3> QED
      BY <1>0, <1>7, <2>1, <3>1 DEF StartWorker, StartWorkerFails, TypeOK, hvars, cvars
  <2>4. Replaced'
    <3>1. apc' = "start" => k' = k + 1
      BY <2>1, PoolSizePos DEF NextStart
    <3>2. \A w \in Workers : w # k => fState'[w] = fState[w]
      BY <1>7 DEF StartWorker, StartWorkerFails, TypeOK
    <3> QED
      BY <1>0, <2>1, <2>2, <2>3, <3>1, <3>2 DEF Replaced, TypeOK, Workers
  <2>5. \A w \in Workers : WorkerOK(w)'
    BY <1>7, <2>1, <2>2 DEF StartWorker, StartWorkerFails, WorkerOK, TypeOK
  <2> QED
    BY <1>1, <1>2, <1>3, <2>1, <2>3, <2>4, <2>5 DEF hvars
<1>8. CASE NewHandler
  <2>1. /\ caller = "Init" /\ Working = {} /\ (AllOut \/ idle) /\ fpStatEvtHandler' # 0
        /\ UNCHANGED <<fTerminated, wvars, k>> /\ apc' = "out" /\ fCurrentParallelRequests' = 0
    BY <1>0, <1>8, MaxInitsNat DEF NewHandler, Replaced, Quiet, TypeOK
  <2>2. TypeOK'
    <3>1. fpStatEvtHandler' \in 0 .. MaxInits /\ fCurrentParallelRequests' \in 0 .. PoolSize
      BY <1>8, MaxInitsNat, PoolSizePos DEF NewHandler, TypeOK
    <3> QED
      BY <1>0, <2>1, <3>1 DEF TypeOK, wvars, cvars
  <2>3. Counted' /\ Working' = Working
    BY <2>1, FS_EmptySet DEF Counted, Working, wvars
  <2>4. Quiet'
    BY <1>0, <2>1, <2>3 DEF Quiet
  <2>5. Replaced' /\ \A w \in Workers : WorkerOK(w)'
    BY <1>0, <2>1 DEF Replaced, WorkerOK, wvars
  <2>6. StaleNeverAdmits'
    BY <1>0, <2>1 DEF StaleNeverAdmits, Quiet, AllOut, cvars
  <2> QED
    BY <1>1, <2>2, <2>3, <2>4, <2>5, <2>6
<1> QED
  BY <1>4, <1>5, <1>6, <1>7, <1>8 DEF Managing

-----------------------------------------------------------------------------
\* The pool as the server uses it.
THEOREM PoolSafety == ManagedSpec => []PoolInv
<1>1. PoolInv /\ [ManagedNext]_vars => PoolInv'
  <2> SUFFICES ASSUME PoolInv, [ManagedNext]_vars PROVE PoolInv'
    OBVIOUS
  <2>1. CASE UNCHANGED vars
    BY <2>1 DEF PoolInv, vars, hvars, wvars, cvars, avars, TypeOK, MutexHeld, Inside, Counted, Working,
       Quiet, AllOut, Replaced, StaleNeverAdmits, WorkerOK
  <2> QED
    BY <2>1, ClientInv, SetWorkingInv, WorkerInv, BlockInv, TerminateInv, ManagingInv
       DEF ManagedNext, Step, InPool
<1> QED
  BY <1>1, PoolInit, PTL DEF ManagedSpec

\* The variables have their types: the counter stays within the pool's size.
COROLLARY TypeCorrect == ManagedSpec => []TypeOK
<1>1. PoolInv => TypeOK
  BY DEF PoolInv
<1> QED
  BY <1>1, PoolSafety, PTL

\* FindNextRunnable never finds a worker that still has work.
COROLLARY ReadyWorkers == ManagedSpec => []ReadyIsFree
<1>1. PoolInv => ReadyIsFree
  BY DEF PoolInv, TypeOK, WorkerOK, ReadyIsFree, IsReady
<1> QED
  BY <1>1, PoolSafety, PTL

\* A pool that was blocked and found empty has no work until it is unblocked.
COROLLARY BlockedPool == ManagedSpec => []BlockedIsIdle
<1>1. PoolInv => BlockedIsIdle
  BY DEF PoolInv, Quiet, Working, WorkerOK, BlockedIsIdle
<1> QED
  BY <1>1, PoolSafety, PTL

\* Init drops no work.
COROLLARY Reinit == ManagedSpec => []ReinitKeepsWork
<1>1. PoolInv => ReinitKeepsWork
  BY DEF PoolInv, TypeOK, Replaced, ReinitKeepsWork
<1> QED
  BY <1>1, PoolSafety, PTL

\* Nobody is admitted by what he reads from a deleted handler.
COROLLARY StaleHandler == ManagedSpec => []StaleNeverAdmits
<1>1. PoolInv => StaleNeverAdmits
  BY DEF PoolInv
<1> QED
  BY <1>1, PoolSafety, PTL

\* The pool with its mutex, its workers and a handler that Init replaces keeps
\* the promise of RequestPool: SetWorking begins a request, SetReady ends one,
\* and Init forgets none, because it starts only when no worker has one.
THEOREM Implements == ManagedSpec => Refinement
<1>1. Init => Pool!PInit
  BY DEF Init, Pool!PInit
<1>2. PoolInv /\ PoolInv' /\ [ManagedNext]_vars => [Pool!PNext]_(Pool!pvars)
  <2> SUFFICES ASSUME PoolInv, PoolInv', [ManagedNext]_vars
               PROVE  Pool!PNext \/ UNCHANGED Pool!pvars
    OBVIOUS
  <2> USE DEF PoolInv
  <2>0. /\ fCurrentParallelRequests \in Nat /\ fCurrentParallelRequests' \in Nat
        /\ fCurrentParallelRequests' <= PoolSize /\ PoolSize \in Nat
    BY PoolSizePos DEF TypeOK
  <2>1. ASSUME UNCHANGED <<fBlockRequestHandling, fCurrentParallelRequests>>
        PROVE  UNCHANGED Pool!pvars
    BY <2>1 DEF Pool!pvars
  <2>2. CASE UNCHANGED vars
    BY <2>1, <2>2 DEF vars, hvars
  <2>3. ASSUME NEW c \in Clients, Enter(c) \/ GetHandler(c) \/ Test(c) \/ Wake(c) \/ FindNextRunnable(c)
        PROVE  UNCHANGED Pool!pvars
    BY <2>1, <2>3 DEF Enter, GetHandler, Test, Wake, FindNextRunnable, hvars
  <2>4. ASSUME NEW c \in Clients, SetWorking(c)
        PROVE  Pool!PNext \/ UNCHANGED Pool!pvars
    <3>1. ~fBlockRequestHandling /\ UNCHANGED fBlockRequestHandling
      BY <2>4 DEF SetWorking, MutexHeld
    <3>2. \/ UNCHANGED fCurrentParallelRequests
          \/ fCurrentParallelRequests' = fCurrentParallelRequests + 1
      BY <2>4 DEF SetWorking
    <3>3. CASE fCurrentParallelRequests' = fCurrentParallelRequests + 1
      BY <2>0, <3>1, <3>3 DEF Pool!Begin, Pool!PNext
    <3> QED
      BY <2>1, <3>1, <3>2, <3>3
  <2>5. ASSUME NEW w \in Workers, Worker(w)
        PROVE  Pool!PNext \/ UNCHANGED Pool!pvars
    <3>1. UNCHANGED fBlockRequestHandling
      BY <2>5 DEF Worker, TakeWork, Process, SetReady, Leave
    <3>2. \/ UNCHANGED fCurrentParallelRequests
          \/ fCurrentParallelRequests' = fCurrentParallelRequests - 1
      BY <2>5 DEF Worker, TakeWork, Process, SetReady, Leave, hvars
    <3>3. CASE fCurrentParallelRequests' = fCurrentParallelRequests - 1
      BY <2>0, <3>1, <3>3 DEF Pool!End, Pool!PNext
    <3> QED
      BY <2>1, <3>1, <3>2, <3>3
  <2>6. ASSUME NEW b \in BOOLEAN, SetBlocked(b)
        PROVE  Pool!PNext
    BY <2>6 DEF SetBlocked, hvars, Pool!SetBlocked, Pool!PNext
  <2>7. ASSUME AwaitEmpty \/ Terminate("client") \/ Terminate("Init")
        PROVE  UNCHANGED Pool!pvars
    BY <2>1, <2>7 DEF AwaitEmpty, Terminate, hvars
  <2>8. CASE Managing
    <3>1. ASSUME ~NewHandler PROVE UNCHANGED Pool!pvars
      BY <2>1, <2>8, <3>1 DEF Managing, Ask, Await, Return, DeletePool, StartWorker, StartWorkerFails, hvars
    <3>2. CASE NewHandler
      <4>1. Working = {} /\ UNCHANGED fBlockRequestHandling /\ fCurrentParallelRequests' = 0
        BY <3>2 DEF NewHandler, Replaced, Quiet
      <4>2. fCurrentParallelRequests = 0
        BY <4>1, FS_EmptySet DEF Counted
      <4> QED
        BY <2>1, <4>1, <4>2
    <3> QED
      BY <3>1, <3>2
  <2> QED
    BY <2>2, <2>3, <2>4, <2>5, <2>6, <2>7, <2>8 DEF ManagedNext, Step, InPool
<1> QED
  BY <1>1, <1>2, PoolSafety, PTL DEF ManagedSpec, Refinement, Pool!PSpec
=============================================================================
