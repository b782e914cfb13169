----------------------------- MODULE WorkerPool -----------------------------
(***************************************************************************)
(* WorkerPoolManager and WorkerThread of mtfoundation/ThreadPools.cpp with *)
(* the counters of WPMStatHandler.cpp: clients (the accept loops) hand     *)
(* work to a fixed pool of workers, while an administrator blocks the      *)
(* pool, waits until it is empty, terminates it and initialises it again.  *)
(*                                                                         *)
(* A change of fRunningState happens under the worker's fStateMutex, and   *)
(* the observer has counted it before that is released: one step.  Of the  *)
(* state machine of Thread (module Thread) the states that matter to the   *)
(* pool are left.  FindNextRunnable starts anywhere (the hint) and passes  *)
(* a worker whose mutex is taken, so it may find any worker that is ready. *)
(***************************************************************************)
EXTENDS Integers, FiniteSets

CONSTANTS
  PoolSize,    \* fPoolSize
  Clients,     \* the threads that call Enter
  None,        \* fMutex is free
  MaxInits     \* bound: calls of Init

ASSUME PoolSizePos == PoolSize \in Nat \ {0}
ASSUME MaxInitsNat == MaxInits \in Nat
ASSUME NoneNoClient == None \notin Clients

Workers == 1 .. PoolSize

VARIABLES
  fMutex,                 \* who holds it
  fBlockRequestHandling,
  fTerminated,
  fpStatEvtHandler,       \* the handler in use, 0 for none: the n-th of its kind
  fCurrentParallelRequests,
  fState,                 \* of each worker: "none" if there is no such object,
                          \* "run", "asked" to terminate or "end"
  fRunningState,          \* of each worker
  pending,                \* the worker has work that is not processed yet
  wpc,                    \* where each worker's system thread is
  pc, ptr, sel,           \* where a client is, the handler it got, the worker it chose
  apc, k, caller,         \* the administrator: place, loop, caller of Terminate
  idle                    \* history: AwaitEmpty has returned true since the
                          \* pool was blocked

hvars == <<fpStatEvtHandler, fCurrentParallelRequests>>
wvars == <<fState, fRunningState, pending, wpc>>
cvars == <<pc, ptr, sel>>
avars == <<apc, k, caller>>
vars  == <<fMutex, fBlockRequestHandling, fTerminated, hvars, wvars, cvars, avars, idle>>

Init ==
  /\ fMutex = None /\ fBlockRequestHandling = FALSE /\ fTerminated = TRUE
  /\ fpStatEvtHandler = 0 /\ fCurrentParallelRequests = 0
  /\ fState = [w \in Workers |-> "none"] /\ fRunningState = [w \in Workers |-> "ready"]
  /\ pending = [w \in Workers |-> FALSE] /\ wpc = [w \in Workers |-> "out"]
  /\ pc = [c \in Clients |-> "out"] /\ ptr = [c \in Clients |-> 0] /\ sel = [c \in Clients |-> 1]
  /\ apc = "out" /\ k = 1 /\ caller = "client" /\ idle = FALSE

Goto(c, l) == pc' = [pc EXCEPT ![c] = l]

-----------------------------------------------------------------------------
\* Enter takes fMutex.
Enter(c) ==
  /\ pc[c] = "out" /\ fMutex = None
  /\ fMutex' = c
  /\ Goto(c, "get")
  /\ UNCHANGED <<fBlockRequestHandling, fTerminated, hvars, wvars, ptr, sel, avars, idle>>

\* FindNextRunnable: fpStatEvtHandler.get() ...
GetHandler(c) ==
  /\ pc[c] = "get"
  /\ ptr' = [ptr EXCEPT ![c] = fpStatEvtHandler]
  /\ Goto(c, "test")
  /\ UNCHANGED <<fMutex, fBlockRequestHandling, fTerminated, hvars, wvars, sel, avars, idle>>

\* ... and GetCurrentParallelRequests() of it: anything, if it is deleted by now.
CurrRequests(c) ==
  IF ptr[c] = 0 THEN {0}
  ELSE IF ptr[c] = fpStatEvtHandler THEN {fCurrentParallelRequests} ELSE 0 .. PoolSize

\* Mutant: BlockRequests is overlooked.
MustWait_NotBlocked(n) == PoolSize <= n

MustWait(n) == PoolSize <= n \/ fBlockRequestHandling

\* The test of the loop; the wait releases fMutex.
Test(c) ==
  /\ pc[c] = "test"
  /\ \E n \in CurrRequests(c) :
       \/ MustWait(n) /\ Goto(c, "wait") /\ fMutex' = None
       \/ ~MustWait(n) /\ Goto(c, "scan") /\ UNCHANGED fMutex
  /\ UNCHANGED <<fBlockRequestHandling, fTerminated, hvars, wvars, ptr, sel, avars, idle>>

\* TimedWait returns, after a broadcast or after its 100 microseconds.
Wake(c) ==
  /\ pc[c] = "wait" /\ fMutex = None
  /\ fMutex' = c
  /\ Goto(c, "get")
  /\ UNCHANGED <<fBlockRequestHandling, fTerminated, hvars, wvars, ptr, sel, avars, idle>>

IsReady(w) == fState[w] = "run" /\ fRunningState[w] = "ready"

\* The scan finds a worker that is ready; without one it goes on.  (The slots
\* of a pool are empty only between DeletePool and its return, with the pool
\* blocked: the server's accept loops never see DoGetWorker return NULL.)
FindNextRunnable(c) ==
  /\ pc[c] = "scan"
  /\ \E w \in Workers : IsReady(w) /\ sel' = [sel EXCEPT ![c] = w]
  /\ Goto(c, "set")
  /\ UNCHANGED <<fMutex, fBlockRequestHandling, fTerminated, hvars, wvars, ptr, avars, idle>>

\* SetRunningState(eWorking) is possible.
Accepts(w) == fState[w] = "run" /\ fRunningState[w] = "ready"

\* SetWorking with DoWorkingHook and the event eEnter, or its refusal.
SetWorking(c) ==
  /\ pc[c] = "set"
  /\ LET w == sel[c] IN
       IF Accepts(w)
       THEN /\ fRunningState' = [fRunningState EXCEPT ![w] = "working"]
            /\ pending' = [pending EXCEPT ![w] = TRUE]
            /\ fCurrentParallelRequests' = fCurrentParallelRequests + 1
       ELSE UNCHANGED <<fRunningState, pending, fCurrentParallelRequests>>
  /\ Goto(c, "out") /\ fMutex' = None
  /\ UNCHANGED <<fBlockRequestHandling, fTerminated, fpStatEvtHandler, fState, wpc, ptr, sel, avars, idle>>

-----------------------------------------------------------------------------
\* Mutant: work that came before the worker looked is not seen.
TakeWork_Missed(w) ==
  /\ wpc[w] = "check" /\ fState[w] = "run" /\ fRunningState[w] = "ready"
  /\ UNCHANGED vars

\* Mutant: SetReady comes before DoProcessWorkload.
TakeWork_ReadyFirst(w) ==
  /\ wpc[w] = "check" /\ fState[w] = "run" /\ fRunningState[w] = "working"
  /\ wpc' = [wpc EXCEPT ![w] = "work"]
  /\ fRunningState' = [fRunningState EXCEPT ![w] = "ready"]
  /\ fCurrentParallelRequests' = fCurrentParallelRequests - 1
  /\ UNCHANGED <<fMutex, fBlockRequestHandling, fTerminated, fpStatEvtHandler, fState, pending, cvars, avars, idle>>

\* WorkerThread::Run: CheckRunningState(eWorking) returns true, ...
TakeWork(w) ==
  /\ wpc[w] = "check" /\ fState[w] = "run" /\ fRunningState[w] = "working"
  /\ wpc' = [wpc EXCEPT ![w] = "work"]
  /\ UNCHANGED <<fMutex, fBlockRequestHandling, fTerminated, hvars, fState, fRunningState, pending, cvars, avars, idle>>

\* ... DoProcessWorkload, ...
Process(w) ==
  /\ wpc[w] = "work"
  /\ pending' = [pending EXCEPT ![w] = FALSE]
  /\ wpc' = [wpc EXCEPT ![w] = "done"]
  /\ UNCHANGED <<fMutex, fBlockRequestHandling, fTerminated, hvars, fState, fRunningState, cvars, avars, idle>>

\* ... SetReady with the event eLeave, unless the worker is to terminate.
SetReady(w) ==
  /\ wpc[w] = "done"
  /\ wpc' = [wpc EXCEPT ![w] = "check"]
  /\ IF fState[w] = "run"
       THEN /\ fRunningState' = [fRunningState EXCEPT ![w] = "ready"]
            /\ fCurrentParallelRequests' = fCurrentParallelRequests - 1
       ELSE UNCHANGED <<fRunningState, fCurrentParallelRequests>>
  /\ UNCHANGED <<fMutex, fBlockRequestHandling, fTerminated, fpStatEvtHandler, fState, pending, cvars, avars, idle>>

\* CheckRunningState returns false: Run() is left.
Leave(w) ==
  /\ wpc[w] = "check" /\ fState[w] = "asked"
  /\ wpc' = [wpc EXCEPT ![w] = "out"]
  /\ fState' = [fState EXCEPT ![w] = "end"]
  /\ UNCHANGED <<fMutex, fBlockRequestHandling, fTerminated, hvars, fRunningState, pending, cvars, avars, idle>>

-----------------------------------------------------------------------------
\* Mutant: fMutex is not taken.
SetBlocked_NoMutex(b) ==
  /\ apc = "out"
  /\ fBlockRequestHandling' = b
  /\ idle' = (idle /\ b)
  /\ UNCHANGED <<fMutex, fTerminated, hvars, wvars, cvars, avars>>

\* BlockRequests and UnblockRequests.
SetBlocked(b) ==
  /\ apc = "out" /\ fMutex = None
  /\ fBlockRequestHandling' = b
  /\ idle' = (idle /\ b)
  /\ UNCHANGED <<fMutex, fTerminated, hvars, wvars, cvars, avars>>

\* Mutant: one request is overlooked.
AwaitEmpty_OffByOne ==
  /\ apc = "out" /\ fCurrentParallelRequests <= 1
  /\ idle' = fBlockRequestHandling
  /\ UNCHANGED <<fMutex, fBlockRequestHandling, fTerminated, hvars, wvars, cvars, avars>>

\* AwaitEmpty returns true.  (A timeout changes nothing.)
AwaitEmpty ==
  /\ apc = "out" /\ fCurrentParallelRequests <= 0
  /\ idle' = fBlockRequestHandling
  /\ UNCHANGED <<fMutex, fBlockRequestHandling, fTerminated, hvars, wvars, cvars, avars>>

\* Terminate is called, by a client or by Finis in Init.
Terminate(who) ==
  /\ apc = "out"
  /\ caller' = who /\ k' = 1
  /\ apc' = IF fTerminated THEN "return" ELSE "ask"
  /\ UNCHANGED <<fMutex, fBlockRequestHandling, fTerminated, hvars, wvars, cvars, idle>>

\* Thread::Terminate for worker k: SetState(eTerminationRequested) ...
Ask ==
  /\ apc = "ask"
  /\ fState' = [fState EXCEPT ![k] = IF @ = "run" THEN "asked" ELSE @]
  /\ apc' = "await"
  /\ UNCHANGED <<fMutex, fBlockRequestHandling, fTerminated, hvars, fRunningState, pending, wpc,
                 cvars, k, caller, idle>>

\* ... and CheckState(eTerminated), which succeeds or times out: only the
\* result, which Finis asserts in a debug build, depends on it.
Await ==
  /\ apc = "await"
  /\ IF k < PoolSize THEN k' = k + 1 /\ apc' = "ask" /\ UNCHANGED fTerminated
                     ELSE k' = k /\ apc' = "return" /\ fTerminated' = TRUE
  /\ UNCHANGED <<fMutex, fBlockRequestHandling, hvars, wvars, cvars, caller, idle>>

Return ==
  /\ apc = "return"
  /\ apc' = IF caller = "Init" THEN "delete" ELSE "out"
  /\ UNCHANGED <<fMutex, fBlockRequestHandling, fTerminated, hvars, wvars, cvars, k, caller, idle>>

\* DoDeletePool: every destructor waits for eTerminated; then fTerminated =
\* false and AllocPool.
DeletePool ==
  /\ apc = "delete" /\ \A w \in Workers : fState[w] \in {"none", "end"}
  /\ fState' = [w \in Workers |-> "none"]
  /\ fRunningState' = [w \in Workers |-> "ready"]
  /\ pending' = [w \in Workers |-> FALSE]
  /\ fTerminated' = FALSE
  /\ apc' = "start" /\ k' = 1
  /\ UNCHANGED <<fMutex, fBlockRequestHandling, hvars, wpc, cvars, caller, idle>>

\* The loop over the workers goes on, or ends.
NextStart == IF k < PoolSize THEN k' = k + 1 /\ apc' = apc ELSE k' = k /\ apc' = "handler"

\* InitPool: a worker is started and has reached eRunning, ...
StartWorker ==
  /\ apc = "start"
  /\ fState' = [fState EXCEPT ![k] = "run"]
  /\ wpc' = [wpc EXCEPT ![k] = "check"]
  /\ NextStart
  /\ UNCHANGED <<fMutex, fBlockRequestHandling, fTerminated, hvars, fRunningState, pending, cvars, caller, idle>>

\* ... or has no allocator and is terminated.  Init does not notice.
StartWorkerFails ==
  /\ apc = "start"
  /\ fState' = [fState EXCEPT ![k] = "end"]
  /\ NextStart
  /\ UNCHANGED <<fMutex, fBlockRequestHandling, fTerminated, hvars, fRunningState, pending, wpc, cvars, caller, idle>>

\* The new WPMStatHandler replaces and deletes the old one.
NewHandler ==
  /\ apc = "handler" /\ fpStatEvtHandler < MaxInits
  /\ fpStatEvtHandler' = fpStatEvtHandler + 1
  /\ fCurrentParallelRequests' = 0
  /\ apc' = "out"
  /\ UNCHANGED <<fMutex, fBlockRequestHandling, fTerminated, wvars, cvars, k, caller, idle>>

-----------------------------------------------------------------------------
InPool(c) == \/ GetHandler(c) \/ Test(c) \/ Wake(c)
             \/ FindNextRunnable(c) \/ SetWorking(c)

Worker(w) == TakeWork(w) \/ Process(w) \/ SetReady(w) \/ Leave(w)

Managing == \/ Ask \/ Await \/ Return
            \/ DeletePool \/ StartWorker \/ StartWorkerFails \/ NewHandler

Step == \/ \E c \in Clients : InPool(c)
        \/ \E w \in Workers : Worker(w)
        \/ Managing

\* The pool is initialised: Enter may be called.
Serving == apc = "out" /\ fpStatEvtHandler > 0 /\ ~fTerminated

\* The way Server uses its pool: GlobalReinit initialises it again only when
\* it is blocked and empty, and it is terminated when no accept loop is left.
ManagedNext ==
  \/ \E c \in Clients : Enter(c) /\ Serving
  \/ \E b \in BOOLEAN : SetBlocked(b) /\ Serving
  \/ AwaitEmpty /\ Serving
  \/ Terminate("client") /\ \A c \in Clients : pc[c] = "out"
  \/ Terminate("Init") /\ (fpStatEvtHandler = 0 \/ idle)
  \/ Step

ManagedSpec == Init /\ [][ManagedNext]_vars

\* Workers are scheduled, requests come to an end, and a client goes on.
FairManagedSpec ==
  /\ ManagedSpec
  /\ \A w \in Workers : WF_vars(Worker(w))
  /\ \A c \in Clients : WF_vars(InPool(c))

-----------------------------------------------------------------------------
\* The variables have their types.
TypeOK ==
  /\ fMutex \in Clients \cup {None}
  /\ fBlockRequestHandling \in BOOLEAN /\ fTerminated \in BOOLEAN
  /\ fpStatEvtHandler \in 0 .. MaxInits /\ fCurrentParallelRequests \in 0 .. PoolSize
  /\ fState \in [Workers -> {"none", "run", "asked", "end"}]
  /\ fRunningState \in [Workers -> {"ready", "working"}]
  /\ pending \in [Workers -> BOOLEAN]
  /\ wpc \in [Workers -> {"out", "check", "work", "done"}]
  /\ pc \in [Clients -> {"out", "get", "test", "wait", "scan", "set"}]
  /\ ptr \in [Clients -> 0 .. MaxInits] /\ sel \in [Clients -> Workers]
  /\ apc \in {"out", "ask", "await", "return", "delete", "start", "handler"}
  /\ k \in Workers /\ idle \in BOOLEAN /\ caller \in {"client", "Init"}

\* A worker that is taken for ready has no work left that new work would
\* replace (fClientSocket is a single member).
ReadyIsFree == \A w \in Workers : IsReady(w) => ~pending[w] /\ wpc[w] = "check"

\* Once BlockRequests and AwaitEmpty have returned, no worker has work until
\* UnblockRequests: GlobalReinit "assume[s] there are no threads running with
\* pending requests".
BlockedIsIdle == idle => \A w \in Workers : ~pending[w] /\ wpc[w] \notin {"work", "done"}

\* A reinitialisation drops no work: a worker that ended with work left was
\* ended by a shutdown.
ReinitKeepsWork == \A w \in Workers : fState[w] = "end" /\ pending[w] => caller = "client"

\* Init deletes the statistics handler without fMutex while a client that
\* waits in the blocked pool may be about to ask it.  Whatever it reads there,
\* the client is not admitted by it: the pool is still blocked.
StaleNeverAdmits ==
  \A c \in Clients : pc[c] = "test" /\ ptr[c] \notin {0, fpStatEvtHandler} => fBlockRequestHandling

\* Accepted work is processed, unless its worker is terminated before.
WorkGetsDone == \A w \in Workers : pending[w] ~> (~pending[w] \/ fState[w] # "run")

Pool == INSTANCE RequestPool
          WITH Size <- PoolSize, blocked <- fBlockRequestHandling, requests <- fCurrentParallelRequests

\* The pool keeps the promise its server relies on: whichever clients are in
\* Enter when it is blocked, terminated or initialised again, the requests that
\* are counted never exceed its size and none begins while it is blocked.
Refinement == Pool!PSpec
=============================================================================
