# COAST: the threading and server core in TLA+

COAST is a C++ application server framework: accept loops or a pool of
leader/follower threads take connections, worker threads render the answers
from configuration, and sessions tie the requests of one user together. What a
test of this code hardly reaches is the way its threads meet: hand-made locks,
a state machine shared by an object and its thread of control, pools that are
blocked, drained, reinitialised and terminated while requests come in, sessions
that are cleaned up while somebody looks them up. This directory models that
part, and the data structure that everything is configured with, checks it with
TLC and proves what matters most with TLAPS. `src/coast/` is left out of the
paths below.

## 1. Inventory

| component | code | state | operations | interacts with |
|---|---|---|---|---|
| read-write lock | `mtfoundation/SystemAPI.cpp` (`rwl_*`), class `RWLock` of `Threads.cpp` | `r_active`, `w_active`, `r_wait`, `w_wait`, two conditions | lock, try, unlock for read and write, destroy | `Queue` (`fBlockedLock`), cache tables |
| recursive mutex, condition | `mtfoundation/Threads.cpp` (`Mutex`, `Condition`) | pthread mutex, `fLocker`, count in thread local storage | Lock, TryLock, Unlock, Wait, TimedWait | everything below |
| bounded queue | `modules/Queueing/Queue.h` | container, two semaphores, counters of blocked callers, `feBlocked`, `fAlive` | Put, Get, try variants, EmptyQueue, Block, UnBlock, destructor | RWLock, mutex; used by `QueueWorkingModule` |
| thread object | `mtfoundation/Threads.cpp` (`Thread`) | `fState`, `fRunningState`, `fThreadId`, `fSignature` | Start, Terminate, destructor, IntRun, Exit, SetState, CheckState | tells its observers, which are the pools |
| thread pool | `mtfoundation/ThreadPools.cpp` (`ThreadPoolManager`) | `fThreadPool`, `fRunningThreads`, `fStartedThreads`, `fTerminatedThreads`, `fTerminated` | Init, Start, Join, Terminate, Update | owns threads; base of the listener pools |
| worker pool | `mtfoundation/ThreadPools.cpp`, `.ipp` (`WorkerPoolManager`, `WorkerThread`), `WPMStatHandler.cpp` | workers with `fRunningState`, `fCurrentParallelRequests`, `fBlockRequestHandling`, `fTerminated` | Enter, BlockRequests, UnblockRequests, AwaitEmpty, Terminate, Init, Update | accept loops call Enter; `Server::GlobalReinit` blocks, awaits empty, initialises, unblocks |
| leader/follower pool | `mtfoundation/LeaderFollowerPool.cpp`, `wdbase/LFListenerPool.cpp` | `fCurrentLeader`, `fOldLeader`, `fPoolState`, the waiting followers | WaitForRequest, PromoteNewLeader, BlockRequests, UnblockRequests, RequestTermination | alternative to accept loop and worker pool |
| server life cycle | `wdbase/Server.cpp`, `ServerUtils.cpp`, `ServerThreadPoolsManager.cpp`, `RequestBlocker.cpp`, `foundation/io/Socket.cpp` (`Acceptor`) | `fPoolManager`, `fTerminationMutex`, `fBlocked`, `fAlive`, `fStopped` | accept loop, GlobalReinit, PrepareShutdown, DoTerminate, signals | composes the pools of a master and its modules |
| session list | `wdbase/SessionListManager.cpp`, `Session.cpp`, `Context.cpp`, `WebAppService.cpp` | `fSessions`, `fDisabledSessions`, reference counts, terminated flag, time of last access | lookup, make, verify, disable, information, cleanup, restart, end | requests, the cleaner thread, the server |
| Anything arrays | `foundation/base/AnyImpls.cpp`, `Anything.cpp` | buffers of cells, index table, hash table | assignment by key and position, Remove, insert, SortByKey | all data of a request and all configuration |
| queue working module | `modules/Queueing/QueueWorkingModule.h` | one Queue, failed elements, contexts | put, get, put back, reset | Queue |
| object list | `mtfoundation/ObjectList_r.h` | list, shutdown flag | insert, remove, shutdown | mutex and condition |
| connection pools | `modules/Oracle/ConnectionPool.cpp`, `modules/LDAP/LDAPConnectionManager.cpp` | free and used connections, timers | borrow, return, expire | workers |
| thread storage | `mtfoundation/MT_Storage.cpp` | allocators and their reference counts | make, ref, unref | threads |
| other foundation, rendering, data access, application log | `foundation/`, `wdbase/Renderer.cpp`, `modules/AppLog/` ... | sequential data | | within one request |

What is hard here: a decision on `fLocker` without a lock; wakeups that must
not be lost between a test and a wait; a controller and a system thread that
change the same `fState`; a `Block` that has to get rid of callers that are
anywhere inside `Put`; counters kept by observers; timeouts of `Terminate`
followed by a second attempt or a new `Init`; a leader that gives up its role
while the role is frozen; a reinitialisation that gives up half-way; an accept
loop that can only be stopped while it is inside `accept()`; a session that is
found under a lock and counted after it; and an array whose three tables are
changed one after the other. `PROJECT.json` lists these as hazards at their
lines.

What makes each part correct: exclusion without lost wakeups (locks);
conservation of slots and release of blocked callers (queue); one thread of
control per object, `eTerminated` only when it is gone (thread); no object
deleted under its thread and exact counters (pools); no work lost or
overwritten, and a blocked, empty pool that stays idle (workers); one leader,
and always a next one (leader/follower); nothing stays blocked, nothing is used
after its deletion, and the shutdown ends (server); exact reference counts, one
owner per session, no circle of waiting (sessions); the sequence of keyed
elements that the interface promises (arrays).

## 2. Modules

| module | models | state and actions |
|---|---|---|
| `ReadersWriters` | abstract lock | sets of readers and writers |
| `RWLock` | `rwl_*` | the fields of `rwlock_t`; an action per function and one per recheck after a wakeup. A section under `rwl->mutex` is one step; the test of `rwl->valid`, which comes before the mutex, is another, so that a thread may hold its answer while the lock is destroyed. What POSIX leaves open after a destruction is a choice: the mutex and the conditions may return an error (`MutexFails`, `WaitFails`) or go on to work |
| `ReentrantLock` | abstract recursive lock | owner and depth |
| `RecursiveMutex` | `Mutex`, `Condition` | an action per access to the pthread mutex or to `fLocker`, so that the unprotected test is a step of its own |
| `Queue` | `QueueBase` | Put and Get are one set of actions with the side as parameter; `Block` holds `fQueueLock` over its waits as the code does. The container is its size |
| `Thread` | `Thread` | `fState` and where controllers and system threads are; `SetState` and `CheckState` are single steps (`fStateMutex`) |
| `ThreadPool` | `ThreadPoolManager` | one client, objects reduced to `fState`; every state change includes the `Update` it causes if the manager observes the object (`observed`: `Init` may fail before it does) |
| `WorkerPool` | `WorkerPoolManager`, `WorkerThread`, counter of `WPMStatHandler` | clients in `Enter`, workers in `Run`, one administrator. Fetching the statistics handler and calling it are separate steps; a worker may not start |
| `RequestPool` | abstract pool of request handlers | is it blocked, how many requests are in work; requests begin, end, and none begins while it is blocked |
| `LeaderFollower` | `LeaderFollowerPool`, `LFListenerPool`, `RequestReactor` | the three members and the place of each thread. A section under `fLFMutex` is one step; polling, accepting and promoting are separate ones, since the leader holds no mutex between them. The condition is the set of threads at `wait`, and it wakes up spuriously |
| `Server` (extends `LeaderFollower`) | a `MasterServer` with one module: interrupt handler, main thread, `ServerThread`, `Acceptor` | one of the two servers has the leader/follower pool, the other one accept loop and workers (`Master` says which). `accept()` may fail (`AcceptFails`), and so may the connection by which `StopAcceptLoop` wakes it up (`connection`). A module whose `ReInit` failed is no longer initialised and `PrepareShutdown` skips it (`fbServerIsInitialized`, `SkipShutdown`). Of the worker pool it keeps what `RequestPool` says: `Enter` waits while the pool is blocked or full, `AwaitEmpty` sees every request. `WorkerPool` is proved to implement `RequestPool`, and so is what `Server` keeps of it. `ret` carries the result of `GlobalReinit` into the shutdown |
| `SessionList` | `SessionListManager`, `Session`, `Context`, the cleaner | each request, the cleaner and the restarting server have a place, a context and a session in hand. A section under `fSessionsMutex` is one step unless it waits for a session or walks a list. Who holds the mutex of a session follows from contexts and pages (`Holds`), for both values of `/CopySessionStore`. With a copied store `Push` has a second half: the session the context has left (`drop`) is locked and loses its count (`UnRef`). Time is the set of active sessions that are out of it; a disabled one always is. `Waits` says what a thread at each place can wait for |
| `KeyedSequence` | abstract array | a sequence of records with key and value |
| `AnyArray` | `AnyArrayImpl`, `AnyIndTable`, `AnyKeyTable` | one record with the buffers, the index table, the free cells and the hash table; an operator per method, an action per operation of `Anything`. Sorting is the code's merge sort, with its half copied into a buffer |
| `*Proofs` | | theorems and proofs of the module they extend |
| `MC*` | | symmetry sets and the colliding hash function for TLC |

Definitions keep the names of the source; `PROJECT.json` maps each to its
lines. An operator `X_Bug` is a deliberately wrong variant of `X`, kept beside
it: it shows that a property notices the bug.

`ThreadPool`, `WorkerPool` and `LeaderFollower` use a thread object only from
one controller at a time, which is the condition under which `ThreadProofs`
shows that the object behaves. What they keep of it is `fState`, or the fact
that the thread left its loop.

## 3. Runs

| run | specification | states | shows |
|---|---|---|---|
| `rwlock` | `RWLock!FairSpec`, 4 threads | 18 475 | a writer is alone, in a destroyed lock, too; a free lock with sleepers has a wakeup under way; who holds the lock or waits for it never finds it destroyed, and only a thread that had passed the test of `rwl->valid` gets into a destroyed lock; waiters are served once no new thread takes the lock; implements `ReadersWriters` |
| `mutex` | `RecursiveMutex!Spec`, 4 threads, depth 3 | 4 000 | `fLocker = MyId()` is true only of the owner; two threads never own it; implements `ReentrantLock` |
| `queue` | `Queue!Spec`, 3 threads, 2 slots, 2 Blocks | 1 466 323 | counters of blocked callers are exact; after `Block` no blocking caller is on its way to the container; until the first `Block`, slots are conserved and elements announced, with `EmptyQueue` at any time |
| `thread` | `Thread!FairSerialSpec`, 2 controllers, 3 system threads | 675 | `eTerminated` means the thread is gone, one thread at a time, states in order, `Terminate` ends, a restart gets to `eRunning` |
| `pool` | `ThreadPool!Spec`, 2 slots, 4 objects, 2 Inits | 6 483 846 | nothing is deleted under its thread, whichever allocation, initialisation or start fails and whichever wait times out; in regular use `fRunningThreads` is exact |
| `workers` | `WorkerPool!FairManagedSpec`, 3 clients, 2 workers, 2 Inits | 326 272 | no work is overwritten, dropped by a reinitialisation, or left undone; a blocked pool that was empty stays idle; a stale statistics handler never admits a request; implements `RequestPool` |
| `server` | `Server!FairSpec`, accept loop in the master, leader/follower pool of 2 in the module, 2 SIGHUPs | 116 980 | no worker has a request during a reset; one leader; open again after every reinitialisation; no pool manager is used after its deletion; a thread polls again without any request having to end; the shutdown ends if requests do, two exceptions aside (below) |
| `sessions` | `SessionList!Spec`, 2 requests, cleaner, restart, 2 sessions, one id of a client, limit 1 | 2 338 717 | reference counts are exact; every session has one owner; a session that is given up for deletion is used only in three windows (`Bare`); no circle of waiting other than the ones that `HoldsAndWaits` names |
| `any_array` | `AnyArray!Spec`, 3 keys with colliding hashes, 4 elements | 82 172 | every key is found where it is; a cell is used once and blank when it is free; implements `KeyedSequence` |

Three runs expect a violation. Each quotes a line of the source that the code
does not keep (`findings` of `PROJECT.json`):

- `sessions_deleted`: `IntLookupSession` wants to "make sure this session won't
  get deleted while processing this request", but counts its reference after it
  has released `fSessionsMutex`. A page that disables the session in between,
  and a cleanup after it, delete it first. No timeout has to pass for this: a
  disabled session is always out of time. Two more windows of this kind are in
  the code: `DisableSession` notifies the session it has removed after it has
  released `fSessionsMutex`, and `~AccessTimer` writes to the session after
  `RenderNextPage` has unlocked it, when a page that has disabled its own
  session no longer has it in the context. `OnlyBareUses` shows that these
  three are all.
- `server_two_leaders`: if a module does not become empty, `GlobalReinit`
  unblocks the master as well, which was never blocked. A master with a
  leader/follower pool then takes its `fCurrentLeader` from an `fOldLeader`
  that belongs to nothing, and two threads lead.
- `any_next_cell`: `At(key)` writes the key of a new element to its cell before
  the buffers grow and relies on a spare cell. `any[7L] = x` on a new array of
  capacity 4 calls `Expand(8)`, which doubles the capacity to 8 and leaves
  none: the next new key is written to cell 8 of cells 0 to 7. The run uses the
  sizes of the code.

The models show more where a property says "until", "in regular use" or names
an exception:

- Once `Queue::Block` has been called slots are not conserved: tokens released
  for callers that need none survive `UnBlock`, and a later getter meets an
  empty container. `Block` also waits, with `fQueueLock`, for a caller that has
  passed `IsBlocked` and waits for that lock.
- A pool that is terminated without having been started counts ends of threads
  that never ran. `fRunningThreads` gets negative and the objects are not
  deleted.
- A second controller that calls `Thread::Terminate` between `eStartRequested`
  and the creation of the system thread gets two of them later; the pools
  never do this.
- `DisableSession`, `GetSessionInfo` and `DoCleanup` wait for the mutex of a
  session with another one locked. Two pages that ask for each other's session
  wait for ever. The code does nothing against it, so `NoCircle` leaves these
  states out and says nothing about them.
- After a reset that failed the pools stay blocked. A request that waits in
  `Enter` then keeps the accept loop, and with it the shutdown, from its end. If
  it was the `ReInit` of the module that failed, its `ServerThread` is not
  initialised any more and `PrepareShutdown` leaves the module running.
- `StopAcceptLoop` does not look whether the connection it makes to its own
  port succeeds. If it fails, the shutdown waits for the next client.
- `GlobalReinit` resets the modules under the comment "assume there are no
  threads running with pending requests". Behind an accept loop that is so
  (`AcceptorQuiet`). `BlockRequests` of a leader/follower pool, however, only
  keeps the next leader from being promoted: the thread that leads already polls
  on, accepts a connection after `AwaitEmpty` has seen no request, and serves it.
  That pool does not implement `RequestPool`: `hpc = "reset" =>
  CurrentParallelRequests = 0` is violated in `Server`.
- A worker that did not start is skipped by `FindNextRunnable`; if none
  started, that loop runs for ever with `fMutex`.

### Bounds

- Threads, controllers, clients: with four threads a reader and a writer can
  wait behind a holder while another one barges in. Three clients fill two
  workers and one waits; each calls `Enter` again and again.
- `QueueSize` 2: empty, full and neither. `MaxBlocks` 2: a `Block` after an
  `UnBlock` meets what the first left.
- `MaxDepth` 3: first lock, nested lock, and one more level to come back to.
- `Runs` 3 and `Objects` 4 over 2 slots: two restarts, two generations of a
  pool. `MaxEnds` 1: a pool that has counted more ends is not started again, else
  the counter grows with every restart of the same objects.
- `MaxInits` 2: one reinitialisation with clients or threads inside, or one
  after an `Init` that failed.
- `Server`: with two pool threads one leads and one follows or serves; one
  worker makes the pool full with the first request; the second SIGHUP meets
  what the first left. Every thread serves any number of requests.
- `SessionList`: with two sessions and a limit of one the second request needs
  a cleanup; one id of a client, besides the generated ones, lets two sessions
  compete for it. Each request thread goes on with request after request. When
  both sessions are used up, the model says "no room" as the code does at its
  limit.
- `AnyArray`: `ARRAY_BUF_SIZE`, `InitCapacity` and `cInitCapacity` are 2, 2 and
  3, so that four elements take the array through two growths and the hash
  table through one; two keys have the same hash value. The keys are integers in
  the order of the strings. One value suffices: that a value follows its
  element is seen from the difference between it and `Null`.

Deadlock is not checked where the system may stop: a destroyed queue or
object, used up `Runs`, `Objects` or `MaxInits`, a server that has shut down, a
manager that has ended. In `RWLock`, `RecursiveMutex` and `AnyArray` it is. For
the sessions `NoCircle` takes its place.

### Fairness

- `RWLock!FairSpec`: a woken thread gets the processor and a holder unlocks in
  the end. It gives no thread precedence over another.
- `Thread!FairSerialSpec`: system threads run; `Run()` returns once it is asked
  to, which is what `Run` implementations are required to do; a call goes on.
  Timeouts are not fair: they may never happen.
- `WorkerPool!FairManagedSpec`: workers run, a request comes to its end, and a
  client inside `Enter` goes on (its wait is a `TimedWait` of 0.1 ms).
- `Server!FairSpec`: pool threads, accept loop, handler and runners go on, with
  weak fairness; a poll has a timeout, so it returns. `StopAcceptLoop` gets
  strong fairness: it competes for a mutex that the accept loop gives back each
  time it waits in `accept()`. Signals, clients and the end of a request are
  not forced; `ShutdownEnds` has the end of requests as its premise
  (`RequestsEnd`), as nothing in the server interrupts one, and excepts the
  shutdown after a failed reset and the failed connection of `StopAcceptLoop`.
  `PhoneAnswered` does without it.

## 4. Proofs

`tlapm` checks every proof; all hold for every value of the constants.

| module | theorems | argument |
|---|---|---|
| `RWLockProofs` | `Safety`, `MutualExclusion`, `WakeupsKept`, `Destroyed`, `Implements` | Exclusion alone is not inductive: the code decides by counters. `Inv` adds that the counters equal the number of threads at the places they stand for (`CountsExact`), that readers sleep only for a writer, and that a free lock with sleepers has a woken thread. After a destruction the counters may tell of holders that are gone but forget none, which is why a writer is alone there, too. `Destroyed` (`DestroyWindow`) needs only that counters at 0 mean that nobody is inside. One lemma per function shows how a move of one thread changes the counts |
| `RecursiveMutexProofs` | `Exclusive`, `LockerSound`, `Implements` | `Inv` ties `fLocker`, the count and the depth to the owner of the pthread mutex for each place of `pc`: only the owner writes `fLocker`, hence a thread that reads its own id is the owner |
| `QueueProofs` | `TypeCorrect`, `Slots`, `Announced`, `Capacity`, `Full`, `ElementFound`, `Counts`, `Sealed` | `OpenInv`, while nobody has blocked: empty tokens + holders + elements = `fQueueSize`, full tokens + holders >= elements (exactly equal without `EmptyQueue`, `ClientSpec`). `BlockInv`: counters of blocked callers are exact and a sealed side is blocked, for every operation |
| `ThreadProofs` | `Serial`, `Terminated`, `Single`, `Order` | `SerialInv` says for every place of the calling controller (`CallPlaces`) and of the system thread (`RunPlaces`) which `fState` it can meet; at most one of each is active |
| `ThreadPoolProofs` | `PoolSafety`, `TypeCorrect`, `Deleted`, `Running` | `PoolInv`: the slots in use are the first ones and hold objects that exist, the loops stay inside them, and a `DoTerminate` that has counted no failure has found every object it passed terminated; so what `DoDeletePool` deletes is done, whatever failed before. `Running` needs more (`RegularInv`): all objects of the pool are observed and the threads outside it are over, and per stage of the pool's life which states its threads can have. The step from `Start` to a started pool is a counting argument (`AllHaveRun`): the wait ends when running and ended threads are as many as the pool has slots; the two are disjoint, hence no thread is left that has not run |
| `WorkerPoolProofs` | `PoolSafety`, `TypeCorrect`, `ReadyWorkers`, `BlockedPool`, `Reinit`, `StaleHandler`, `Implements` | for `ManagedSpec`, the way `Server` uses the pool. `PoolInv` says who holds `fMutex`, that the handler's counter is the number of workers in state working (`Counted`; this is what makes the answer of `AwaitEmpty` mean something), that a pool found idle stays so while it is blocked (`Quiet`), and for each worker how its running state, its work and the place of its thread go together (`WorkerOK`). A worker that is in state working when it checks has its work already: without that conjunct `BlockedIsIdle` is not inductive. `Implements`: `SetWorking` is a `Begin` because nobody is at its place while the pool is blocked and because the counter is exact after it, too; `NewHandler`, which sets the counter to 0, is a stutter because `Init` starts only when nothing is in work |
| `ServerProofs` | `LeaderSafety`, `OneLeader` | One leader is not inductive: a blocked pool forgets it. `LeaderInv` adds that, until the pool is terminated, `fCurrentLeader` or, while promotion is blocked, `fOldLeader` names the thread that leads. The pool may be blocked and unblocked in turn and terminated at any time (`LFSpec`) |
| | `LifeCycle`, `TypeCorrect`, `Open`, `Managers` | for both kinds of master. `ServerInv`: before the shutdown nothing has been asked to end (`NotYetAsked`); the managers that exist are those of the runners that have not ended, while the handler shuts the module down it has `fTerminationMutex`, and a module that is not initialised has not been asked to end (`ManagersHeld`); how far the blocking and the unblocking of the two servers have come (`BlockedSoFar`) |
| | `ServerImplementsPool`, `LeaderInServer` | for a master with an accept loop: `GlobalReinit` unblocks the module's pool only after it has blocked it (`Alternating`), so every step of `Server` is a step of `LFSpec` or leaves the pool alone, and `OneLeader` carries over. For a master with a leader/follower pool this is false, which is what `server_two_leaders` shows |
| | `WorkersAtRest`, `ServerSeesPool` | for both kinds of master. `QuietSoFar`: `AwaitEmpty` looks at a pool that is blocked already, and what it saw stays true until the pool is unblocked, also while the handler goes on to block the other server's pool. `ServerSeesPool` is the other half of `WorkerPoolProofs!Implements`: the steps that touch the workers are those of `RequestPool` |
| `SessionListProofs` | `ListSafety`, `TypeCorrect`, `References`, `Home` | `ListInv`: `RefExact` itself, kinds of homes that exclude each other (`OneKind`) and at most one place of each kind (`OnePlace`), and what a thread knows at its place (`Place`): it keeps `fSessionsMutex` at the places in `Locking`, so that nobody changes the lists under a scan, and the session it asks about is in its context. One lemma on `Push` (`PushRef`) serves all the steps that push |
| | `UseWindows` | `UseInv` adds that what a page is about to push is in the list of active sessions, and that nothing is rendered outside a page. `DoCleanup` gives up a session only at count 0, and by `RefExact` that means that no context has it or is still to unreference it; what is left are the three places at which a thread has nothing but the pointer (`Bare`) |
| | `CircleSafety`, `NoCircles` | `CircleInv` adds that `fSessionsMutex` is kept only at the places in `Locking` (`Keeper`), that a session has one holder (`Exclusive`), and which places have no session in the context (`Standing`). Then, `HoldsAndWaits` aside, the chain of who waits for whom comes to an end: it starts at the thread that keeps `fSessionsMutex`, or at any thread if nobody does, leads from the restart to the cleaner (`KeeperGoesOn`), from a deletion, the second half of a `Push` or a `Push` to the holder of the session (`DeleterGoesOn`, `DropGoesOn`, `HolderGoesOn`), and a page that holds one goes on |
| | `Overshoot` | a request that has passed the test of `MakeSession` and has not added its session holds a permit (`Permits`); sessions and permits together stay below the limit plus the number of requests (`Limited`). The code promises no more |

Assumptions on constants: sets of threads, requests and sessions are finite
where they are counted, there is a thread in a leader/follower pool, the values
for "nobody" are none of the threads, sizes are natural numbers.

Only model-checked: liveness (`WaitersServed`, `TerminateEnds`, `RestartRuns`,
`WorkGetsDone`, `PhoneAnswered`, `ShutdownEnds`), as fairness is out of the
prover's reach; and `AnyArray`, its invariants `KeysFound` and `CellsExact` and
its refinement, which rest on what folds and recursive functions (hashing,
rehashing, the merge sort) compute. `NoCircle` speaks of waiting as `Waits`
defines it from the locks; that this is what the guards of the actions say has
to be read, as `ENABLED` is out of the prover's reach, too.

## 5. Not modelled

Windows code; thread cancellation (never used); statistics and times; data
that is moved but not looked at (elements of the queue, workloads, contents of
requests); a change of the pool size by `Init`; the value returned by
`WorkerPoolManager::Terminate`, which reaches only log messages and assertions;
`SEM_VALUE_MAX`; start-up of a server, the re-creation of pools in `ReInit`
and more than one module per master; the socket objects of workers, and with
them a request that `Enter` refuses and the socket that
`DoTerminationRequestHook` uses; roles and the contents of session stores. Of
Anything: scalars, parsing, printing, paths, and the assertions of debug
builds. Strings, streams, rendering, page flow and data access are sequential
conversions within a request; they make up most of the repository's lines and
need other methods than this one. The rest of section 1 is planned.

## 6. Plan

1. Modules: `QueueWorkingModule` on `Queue` (elements that are put back),
   `ObjectList_r`, the connection pools, `MT_Storage`.
2. A pool that accepts, processes and drains as the abstract specification of
   `LeaderFollower`: `RequestPool` with the requests that a leader may still
   accept after it is blocked.
3. Theorems: the invariants of the index table and of the free cells of
   `AnyArray` that do not depend on a fold; action properties of `Server`, such
   as the order of the places of a shutdown.
