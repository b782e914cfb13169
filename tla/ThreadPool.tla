----------------------------- MODULE ThreadPool -----------------------------
(***************************************************************************)
(* ThreadPoolManager of mtfoundation/ThreadPools.cpp: one client           *)
(* initialises, starts and terminates a pool of Thread objects, whose      *)
(* state changes reach the manager's counters through Update.              *)
(*                                                                         *)
(* The client is the only controller, so a Thread object behaves as module *)
(* Thread proves for serial calls; what is left of it here is its fState.  *)
(* A state change and its Update are one step, since fStateMutex is held   *)
(* until the observers have been told.                                     *)
(***************************************************************************)
EXTENDS Integers, FiniteSets

CONSTANTS
  PoolSize,    \* maxParallelRequests of Init
  Objects,     \* the Thread objects that DoAllocThread can make
  MaxEnds,     \* bound: a pool that has counted more ends is not started again
  MaxInits,    \* bound: calls of Init
  None         \* no object

ASSUME PoolSizePos == PoolSize \in Nat \ {0}
ASSUME BoundsNat == MaxEnds \in Nat /\ MaxInits \in Nat
ASSUME NoneNotObject == None \notin Objects

Slots == 1 .. PoolSize

\* EThreadState
eCreated              == 0
eStartRequested       == 1
eStarted              == 3
eRunning              == 4
eTerminationRequested == 5
eTerminatedRunMethod  == 6
eTerminated           == 7

VARIABLES
  fTerminated,
  fRunningThreads, fStartedThreads, fTerminatedThreads,
  fThreadPool,   \* the object in each slot
  fState,        \* of every object
  observed,      \* the objects whose observer the manager is
  born, deleted, \* history: objects made so far, objects deleted
  entered,       \* history: objects in their Run()
  pc,            \* where the client is
  slot,          \* the slot of its loop
  count,         \* lStartSuccess of Start, result of DoTerminate
  caller,        \* who called Terminate: "client" or "Init"
  inits,         \* calls of Init so far
  phase,         \* history: the last call that succeeded
  regular        \* history: the pool has been used as Regular says

mvars == <<pc, slot, count, caller, inits, phase, regular>>
cvars == <<fRunningThreads, fStartedThreads, fTerminatedThreads>>
ovars == <<observed, born, deleted>>
vars  == <<fTerminated, cvars, fThreadPool, fState, ovars, entered, mvars>>

PCs == {"out", "alloc", "start", "startWait", "terminate", "await", "join"}

Pool == {fThreadPool[i] : i \in Slots} \ {None}

\* The slots in use are always the first ones.
GetPoolSize == Cardinality({i \in Slots : fThreadPool[i] # None})

Init ==
  /\ fTerminated = TRUE
  /\ fRunningThreads = 0 /\ fStartedThreads = 0 /\ fTerminatedThreads = 0
  /\ fThreadPool = [i \in Slots |-> None]
  /\ fState = [o \in Objects |-> eCreated]
  /\ observed = {} /\ born = {} /\ deleted = {} /\ entered = {}
  /\ pc = "out" /\ slot = 1 /\ count = 0 /\ caller = "client" /\ phase = "new"
  /\ inits = 0 /\ regular = TRUE

\* Mutant: an end is not subtracted from the running threads.
Update_NoDecrement(state) ==
  /\ fStartedThreads' = fStartedThreads + (IF state = eStarted THEN 1 ELSE 0)
  /\ fRunningThreads' = fRunningThreads + (IF state = eRunning THEN 1 ELSE 0)
  /\ fTerminatedThreads' = fTerminatedThreads + (IF state = eTerminated THEN 1 ELSE 0)

\* The counters after a state change.
Update(state) ==
  /\ fStartedThreads' = fStartedThreads + (IF state = eStarted THEN 1 ELSE 0)
  /\ fRunningThreads' = CASE state = eRunning    -> fRunningThreads + 1
                          [] state = eTerminated -> fRunningThreads - 1
                          [] OTHER               -> fRunningThreads
  /\ fTerminatedThreads' = fTerminatedThreads + (IF state = eTerminated THEN 1 ELSE 0)

\* IntSetState of object o, which tells its observers.
SetState(o, state) ==
  /\ fState' = [fState EXCEPT ![o] = state]
  /\ IF o \in observed THEN Update(state) ELSE UNCHANGED cvars

\* A call returns: its local variables are gone.
Forget == slot' = 1 /\ count' = 0 /\ caller' = "client"

-----------------------------------------------------------------------------
\* Regular use: Init succeeds, every thread starts in time, and a pool that was
\* initialised is started before it is terminated.
Regular(expected) == regular' = (regular /\ expected)

\* The system threads: SetState(eRunning), SetState(eTerminatedRunMethod), of
\* their own accord or on request, and SetState(eTerminated).
ThreadRuns(o) ==
  /\ fState[o] = eStarted
  /\ SetState(o, eRunning)
  /\ entered' = entered \cup {o}
  /\ UNCHANGED <<fTerminated, fThreadPool, ovars, mvars>>

ThreadLeft(o) ==
  /\ fState[o] \in {eRunning, eTerminationRequested}
  /\ SetState(o, eTerminatedRunMethod)
  /\ UNCHANGED <<fTerminated, fThreadPool, ovars, entered, mvars>>

ThreadEnds(o) ==
  /\ fState[o] = eTerminatedRunMethod
  /\ SetState(o, eTerminated)
  /\ entered' = entered \ {o}
  /\ UNCHANGED <<fTerminated, fThreadPool, ovars, mvars>>

-----------------------------------------------------------------------------
\* Terminate is entered; DoTerminate has nothing to do for an empty pool.
BeginTerminate(who) ==
  /\ slot' = 1 /\ count' = 0 /\ caller' = who
  /\ pc' = IF Pool = {} THEN "join" ELSE "terminate"
  /\ fTerminated' = (fTerminated \/ Pool = {})

\* ThreadPoolManager::Init: a pool that is in use is terminated first.
InitPool ==
  /\ pc = "out" /\ inits < MaxInits
  /\ inits' = inits + 1
  /\ Regular(phase \in {"new", "started", "terminated"})
  /\ phase' = "none"
  /\ \/ fTerminated /\ pc' = "alloc" /\ UNCHANGED <<fTerminated, slot, count, caller>>
     \/ ~fTerminated /\ BeginTerminate("Init")
  /\ UNCHANGED <<cvars, fThreadPool, fState, ovars, entered>>

\* The rest of Init.  DoAllocPool puts new objects into the first n slots,
\* whatever was there, and gives up if DoAllocThread returns none; then InitPool
\* observes the first k and gives up if Thread::Init fails.
AllocPool(n, k) ==
  /\ pc = "alloc"
  /\ fTerminated' = FALSE
  /\ fStartedThreads' = 0 /\ fTerminatedThreads' = 0
  /\ \E f \in [1 .. n -> Objects \ born] :
       /\ \A i, j \in 1 .. n : f[i] = f[j] => i = j
       /\ fThreadPool' = [i \in Slots |-> IF i <= n THEN f[i] ELSE fThreadPool[i]]
       /\ born' = born \cup {f[i] : i \in 1 .. n}
       /\ observed' = observed \cup {f[i] : i \in 1 .. k}
  /\ pc' = "out" /\ phase' = IF k = PoolSize THEN "initialized" ELSE "none"
  /\ Regular(k = PoolSize)
  /\ UNCHANGED <<fRunningThreads, fState, deleted, entered, slot, count, caller, inits>>

AllocPoolFails == \E n \in 0 .. PoolSize - 1 : AllocPool(n, 0)

InitPoolFails == \E k \in 0 .. PoolSize - 1 : AllocPool(PoolSize, k)

\* Start: nothing to do for an empty pool.
Start ==
  /\ pc = "out" /\ Pool # {}
  /\ fTerminatedThreads <= MaxEnds
  /\ Regular(phase = "initialized")
  /\ pc' = "start" /\ slot' = 1 /\ count' = 0 /\ phase' = "none"
  /\ UNCHANGED <<fTerminated, cvars, fThreadPool, fState, ovars, entered, caller, inits>>

\* The loop of Start and of DoTerminate goes on, or ends.
NextSlot(loop, end) ==
  IF slot < GetPoolSize THEN slot' = slot + 1 /\ pc' = loop ELSE pc' = end /\ UNCHANGED slot

\* Thread::Start succeeds for the object in the slot.
StartThread ==
  /\ pc = "start"
  /\ LET o == fThreadPool[slot] IN
       /\ fState[o] \in {eCreated, eTerminated}
       /\ SetState(o, eStarted)
  /\ count' = count + 1
  /\ NextSlot("start", "startWait")
  /\ UNCHANGED <<fTerminated, fThreadPool, ovars, entered, caller, inits, phase, regular>>

\* It fails: the object is alive, there is no allocator, the hook refuses
\* (which ends in eTerminated), or there is no system thread.
StartThreadFails ==
  /\ pc = "start"
  /\ Regular(FALSE)
  /\ LET o == fThreadPool[slot] IN
       \/ UNCHANGED <<fState, cvars>>
       \/ fState[o] \in {eCreated, eTerminated} /\ SetState(o, eTerminated)
       \/ fState[o] \in {eCreated, eTerminated} /\ SetState(o, eStartRequested)
  /\ NextSlot("start", "startWait")
  /\ UNCHANGED <<fTerminated, fThreadPool, ovars, entered, count, caller, inits, phase>>

\* The condition of the second wait in Start.
AllRunning == fRunningThreads + fTerminatedThreads >= count

StartDone ==
  /\ pc = "startWait"
  /\ fStartedThreads >= count /\ AllRunning
  /\ pc' = "out" /\ phase' = "started"
  /\ Forget
  /\ UNCHANGED <<fTerminated, cvars, fThreadPool, fState, ovars, entered, inits, regular>>

StartTimeout ==
  /\ pc = "startWait"
  /\ Regular(FALSE)
  /\ pc' = "out"
  /\ Forget
  /\ UNCHANGED <<fTerminated, cvars, fThreadPool, fState, ovars, entered, inits, phase>>

-----------------------------------------------------------------------------
\* Terminate, called by the client.
Terminate ==
  /\ pc = "out"
  /\ Regular(phase \notin {"new", "initialized"})
  /\ BeginTerminate("client")
  /\ phase' = "none"
  /\ UNCHANGED <<inits, cvars, fThreadPool, fState, ovars, entered>>

\* DoTerminate: SetState(eTerminationRequested) for the object in the slot.
TerminateThread ==
  /\ pc = "terminate"
  /\ pc' = "await"
  /\ LET o == fThreadPool[slot] IN
       \/ fState[o] <= eStartRequested /\ SetState(o, eTerminated)
       \/ fState[o] \in {eStarted, eRunning} /\ SetState(o, eTerminationRequested)
       \/ fState[o] >= eTerminationRequested /\ UNCHANGED <<fState, cvars>>
  /\ UNCHANGED <<fTerminated, fThreadPool, ovars, entered, slot, count, caller, inits, phase, regular>>

\* The end of DoTerminate: fTerminated = true.
Terminating == fTerminated' = (fTerminated \/ slot = GetPoolSize)

\* CheckState(eTerminated) succeeds ...
ThreadTerminated ==
  /\ pc = "await"
  /\ fState[fThreadPool[slot]] = eTerminated
  /\ NextSlot("terminate", "join")
  /\ Terminating
  /\ UNCHANGED <<cvars, fThreadPool, fState, ovars, entered, count, caller, inits, phase, regular>>

\* Mutant: a timeout is not counted.
ThreadTimeout_NotCounted ==
  /\ pc = "await"
  /\ NextSlot("terminate", "join")
  /\ Terminating
  /\ UNCHANGED <<cvars, fThreadPool, fState, ovars, entered, count, caller, inits, phase, regular>>

\* ... or times out.
ThreadTimeout ==
  /\ pc = "await"
  /\ NextSlot("terminate", "join")
  /\ Terminating
  /\ count' = count + 1
  /\ UNCHANGED <<cvars, fThreadPool, fState, ovars, entered, caller, inits, phase, regular>>

\* Terminate returns; Init gives up if it was not successful.
Return(ok) ==
  /\ Forget
  /\ pc' = IF caller = "Init" /\ ok THEN "alloc" ELSE "out"
  /\ phase' = IF ok THEN "terminated" ELSE "none"

\* Some threads are not terminated: no Join.
TerminateFails ==
  /\ pc = "join" /\ count # 0
  /\ Return(FALSE)
  /\ UNCHANGED <<fTerminated, cvars, fThreadPool, fState, ovars, entered, inits, regular>>

\* Join comes to an end, by its condition or by its timeout, and DoDeletePool
\* follows if it returns 0.
Join ==
  /\ pc = "join" /\ count = 0
  /\ IF fRunningThreads = 0
       THEN deleted' = deleted \cup Pool /\ fThreadPool' = [i \in Slots |-> None]
       ELSE UNCHANGED <<deleted, fThreadPool>>
  /\ Return(TRUE)
  /\ UNCHANGED <<fTerminated, cvars, fState, observed, born, entered, inits, regular>>

-----------------------------------------------------------------------------
System == \E o \in born : ThreadRuns(o) \/ ThreadLeft(o) \/ ThreadEnds(o)

Next == \/ InitPool \/ AllocPool(PoolSize, PoolSize) \/ AllocPoolFails \/ InitPoolFails
        \/ Start \/ StartThread \/ StartThreadFails \/ StartDone \/ StartTimeout
        \/ Terminate \/ TerminateThread \/ ThreadTerminated \/ ThreadTimeout
        \/ TerminateFails \/ Join
        \/ System

Spec == Init /\ [][Next]_vars

-----------------------------------------------------------------------------
\* The variables have their types.
TypeOK ==
  /\ fTerminated \in BOOLEAN
  /\ fRunningThreads \in Int /\ fStartedThreads \in Nat /\ fTerminatedThreads \in Nat
  /\ fThreadPool \in [Slots -> Objects \cup {None}]
  /\ fState \in [Objects -> 0 .. 7]
  /\ deleted \subseteq born /\ born \subseteq Objects
  /\ observed \subseteq born /\ entered \subseteq born
  /\ pc \in PCs /\ slot \in Slots /\ count \in 0 .. PoolSize /\ inits \in 0 .. MaxInits /\ regular \in BOOLEAN

\* "The threads must already be terminated or a runtime error will occur!":
\* DoDeletePool deletes no object that a system thread still uses.
DeletedAreDone == \A o \in deleted : fState[o] = eTerminated /\ o \notin entered

\* fRunningThreads "counts the still running threads", as long as no thread
\* ends that has not run.
RunningExact == regular => fRunningThreads = Cardinality(entered)

=============================================================================
