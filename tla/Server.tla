------------------------------- MODULE Server -------------------------------
(***************************************************************************)
(* The life cycle of a MasterServer with one server module (wdbase/        *)
(* Server.cpp, ServerUtils.cpp): the interrupt handler waits for signals,  *)
(* reinitialises the server on SIGHUP and shuts it down on SIGTERM or when *)
(* the reinitialisation failed, while the pools of the two servers accept  *)
(* and serve requests.  One of the servers has a leader/follower pool (the *)
(* module this one extends), the other one the default: an accept loop     *)
(* (Acceptor of foundation/io/Socket.cpp, run by a ListenerThread) and a   *)
(* pool of workers.  Of the worker pool, which is module WorkerPool, what  *)
(* Enter, BlockRequests and AwaitEmpty promise is left (RequestPool).      *)
(*                                                                         *)
(* Processes: the interrupt handler (h...), the main thread that runs the  *)
(* master (mpc), the ServerThread that runs the module (spc), the listener *)
(* thread (apc) and the threads of the leader/follower pool (lpc).         *)
(***************************************************************************)
EXTENDS LeaderFollower, Integers

CONSTANTS
  Master,       \* which of the two pools the master has: "lf" or "acc"
  PoolSize,     \* workers behind the accept loop
  MaxReinits    \* bound: SIGHUPs

ASSUME MasterKind == Master \in {"lf", "acc"}
ASSUME ThreadsExist == Threads # {}
ASSUME Bounds == PoolSize \in Nat \ {0} /\ MaxReinits \in Nat

Servers == {"lf", "acc"}
Sub     == CHOOSE s \in Servers : s # Master

VARIABLES
  fBlocked,               \* of the RequestBlocker
  fAlive, fStopped,       \* of the Acceptor
  cb,                     \* who holds the mutex of its ServerCallBack
  apc,                    \* where the listener thread is
  connection,             \* of StopAcceptLoop to the acceptor: "none", "made" or "failed"
  fBlockRequestHandling,  \* of the worker pool
  active,                 \* its requests in work
  hpc, hs,                \* the interrupt handler: where, and at which server
  ret,                    \* what GlobalReinit returns
  reinits,                \* how many SIGHUPs there were
  fTerminationMutex,      \* of the ServerThread: held by the handler
  fbServerIsInitialized,  \* of the ServerThread
  mpc, spc,               \* main thread and server thread
  managers                \* the servers that have their fPoolManager

avars == <<fAlive, fStopped, cb, apc, connection>>
wvars == <<fBlockRequestHandling, active>>
hvars == <<hpc, hs, ret, reinits>>
svars == <<fTerminationMutex, fbServerIsInitialized, mpc, spc, managers>>
vars  == <<lfvars, fBlocked, avars, wvars, hvars, svars>>

Init ==
  /\ LFInit
  /\ fBlocked = FALSE
  /\ fAlive = TRUE /\ fStopped = TRUE /\ cb = "none" /\ apc = "start" /\ connection = "none"
  /\ fBlockRequestHandling = FALSE /\ active = 0
  /\ hpc = "sigwait" /\ hs = Sub /\ ret = 0 /\ reinits = 0
  /\ fTerminationMutex = FALSE /\ fbServerIsInitialized = TRUE
  /\ mpc = "run" /\ spc = "run" /\ managers = Servers

-----------------------------------------------------------------------------
(* The accept loop.                                                        *)

AcceptorOnly == UNCHANGED <<lfvars, fBlocked, wvars, hvars, svars>>

\* RunAcceptLoop takes the callback's mutex.
RunAcceptLoop ==
  /\ apc = "start" /\ cb = "none"
  /\ cb' = "loop" /\ fStopped' = FALSE /\ apc' = "loop"
  /\ UNCHANGED <<fAlive, connection>> /\ AcceptorOnly

\* The loop's condition: DoAccept gives the mutex back, and so does the end.
LoopHead ==
  /\ apc = "loop"
  /\ cb' = "none"
  /\ apc' = IF fAlive THEN "accept" ELSE "out"
  /\ UNCHANGED <<fAlive, fStopped, connection>> /\ AcceptorOnly

\* accept() returns with a client.
ClientConnects ==
  /\ apc = "accept"
  /\ apc' = "accepted"
  /\ UNCHANGED <<fAlive, fStopped, cb, connection>> /\ AcceptorOnly

\* accept() returns with the connection StopAcceptLoop made.
StopperConnects ==
  /\ apc = "accept" /\ connection = "made"
  /\ apc' = "accepted" /\ connection' = "none"
  /\ UNCHANGED <<fAlive, fStopped, cb>> /\ AcceptorOnly

\* accept() returns with an error.
AcceptFails ==
  /\ apc = "accept"
  /\ apc' = "refused"
  /\ UNCHANGED <<fAlive, fStopped, cb, connection>> /\ AcceptorOnly

\* DoAccept has the mutex again; without fAlive the socket is closed.
Accepted ==
  /\ apc \in {"accepted", "refused"} /\ cb = "none"
  /\ cb' = "loop"
  /\ apc' = IF apc = "accepted" /\ fAlive THEN "enter" ELSE "loop"
  /\ UNCHANGED <<fAlive, fStopped, connection>> /\ AcceptorOnly

\* Mutant: the blocked pool admits the request that the loop has accepted.
Enter_NotBlocked ==
  /\ apc = "enter" /\ active < PoolSize
  /\ active' = active + 1 /\ apc' = "loop"
  /\ UNCHANGED <<lfvars, fBlocked, fAlive, fStopped, cb, connection, fBlockRequestHandling, hvars, svars>>

\* CallBack enters the request into the worker pool, with the mutex held.
Enter ==
  /\ apc = "enter" /\ ~fBlockRequestHandling /\ active < PoolSize
  /\ active' = active + 1 /\ apc' = "loop"
  /\ UNCHANGED <<lfvars, fBlocked, fAlive, fStopped, cb, connection, fBlockRequestHandling, hvars, svars>>

\* A worker is done with its request.
RequestDone ==
  /\ active > 0
  /\ active' = active - 1
  /\ UNCHANGED <<lfvars, fBlocked, avars, fBlockRequestHandling, hvars, svars>>

\* After the loop, without the mutex: fStopped is set ...
LoopStopped ==
  /\ apc = "out"
  /\ fStopped' = TRUE /\ apc' = "signal"
  /\ UNCHANGED <<fAlive, cb, connection>> /\ AcceptorOnly

\* ... and signalled; the thread ends.
SignalStopped ==
  /\ apc = "signal" /\ cb = "none"
  /\ apc' = "end"
  /\ hpc' = IF hpc = "stopwait" THEN "stopwoken" ELSE hpc
  /\ UNCHANGED <<lfvars, fBlocked, fAlive, fStopped, cb, connection, wvars, hs, ret, reinits, svars>>

AcceptLoop ==
  \/ RunAcceptLoop \/ LoopHead \/ StopperConnects \/ Accepted \/ Enter
  \/ LoopStopped \/ SignalStopped

-----------------------------------------------------------------------------
(* The pool manager of a server.                                           *)

\* fPoolManager->BlockRequests, before it waits.
PoolBlock(s) ==
  IF s = "lf" THEN BlockRequests /\ UNCHANGED wvars
  ELSE fBlockRequestHandling' = TRUE /\ UNCHANGED <<lfvars, active>>

\* AwaitEmpty sees no request.
PoolEmpty(s) == IF s = "lf" THEN CurrentParallelRequests = 0 ELSE active = 0

\* fPoolManager->UnblockRequests.
PoolUnblock(s) ==
  IF s = "lf" THEN UnblockRequests /\ UNCHANGED wvars
  ELSE fBlockRequestHandling' = FALSE /\ UNCHANGED <<lfvars, active>>

\* Join in fPoolManager->Run returns.
Joined(s) == IF s = "lf" THEN AllLeft ELSE apc = "end"

-----------------------------------------------------------------------------
(* The interrupt handler.                                                  *)

\* SIGHUP: GlobalReinit begins.
Hup ==
  /\ hpc = "sigwait" /\ reinits < MaxReinits
  /\ hpc' = "block" /\ hs' = Sub /\ ret' = 0 /\ reinits' = reinits + 1
  /\ UNCHANGED <<lfvars, fBlocked, avars, wvars, svars>>

\* SIGINT or SIGTERM.
Term ==
  /\ hpc = "sigwait"
  /\ hpc' = "prepare" /\ hs' = Sub
  /\ UNCHANGED <<lfvars, fBlocked, avars, wvars, ret, reinits, svars>>

\* BlockRequests of one server; the module's comes first.
ServerBlock ==
  /\ hpc = "block"
  /\ fBlocked' = TRUE
  /\ PoolBlock(hs)
  /\ hpc' = "await"
  /\ UNCHANGED <<avars, hs, ret, reinits, svars>>

\* AwaitEmpty is true: the next server, or the reset.
AwaitEmpty ==
  /\ hpc = "await" /\ PoolEmpty(hs)
  /\ hpc' = IF hs = Sub THEN "block" ELSE "reset"
  /\ hs' = Master
  /\ UNCHANGED <<lfvars, fBlocked, avars, wvars, ret, reinits, svars>>

\* AwaitEmpty is false after its time: all is unblocked again.
AwaitTimeout ==
  /\ hpc = "await" /\ ~PoolEmpty(hs)
  /\ hpc' = "unblock" /\ hs' = Master /\ ret' = -1
  /\ UNCHANGED <<lfvars, fBlocked, avars, wvars, reinits, svars>>

\* DoGlobalReinit succeeds.
Reset ==
  /\ hpc = "reset"
  /\ hpc' = "unblock" /\ hs' = Master
  /\ UNCHANGED <<lfvars, fBlocked, avars, wvars, ret, reinits, svars>>

\* DoGlobalReinit fails: the requests stay blocked.  If it was the ReInit of
\* the module, its ServerThread is no longer initialised.
ResetFails ==
  /\ hpc = "reset"
  /\ hpc' = "prepare" /\ hs' = Sub /\ ret' = -2
  /\ fbServerIsInitialized' \in BOOLEAN
  /\ UNCHANGED <<lfvars, fBlocked, avars, wvars, reinits, fTerminationMutex, mpc, spc, managers>>

\* Mutant: the server modules are forgotten.
ServerUnblock_MasterOnly ==
  /\ hpc = "unblock"
  /\ fBlocked' = FALSE
  /\ PoolUnblock(Master)
  /\ hpc' = (IF ret = 0 THEN "sigwait" ELSE "prepare") /\ hs' = Sub
  /\ UNCHANGED <<avars, ret, reinits, svars>>

\* UnblockRequests of one server; the master's comes first.
ServerUnblock ==
  /\ hpc = "unblock"
  /\ fBlocked' = FALSE
  /\ PoolUnblock(hs)
  /\ hpc' = (IF hs = Master THEN "unblock" ELSE IF ret = 0 THEN "sigwait" ELSE "prepare")
  /\ hs' = Sub
  /\ UNCHANGED <<avars, ret, reinits, svars>>

\* PrepareShutdown of a server; a module has to be initialised for it.
PrepareShutdown ==
  /\ hpc = "prepare" /\ (hs = Sub => fbServerIsInitialized)
  /\ fTerminationMutex' = (hs = Sub)
  /\ fBlocked' = TRUE
  /\ hpc' = "request"
  /\ UNCHANGED <<lfvars, avars, wvars, hs, ret, reinits, fbServerIsInitialized, mpc, spc, managers>>

\* A module that is not is left alone.
SkipShutdown ==
  /\ hpc = "prepare" /\ hs = Sub /\ ~fbServerIsInitialized
  /\ hs' = Master
  /\ UNCHANGED <<lfvars, fBlocked, avars, wvars, hpc, ret, reinits, svars>>

\* fPoolManager->RequestTermination of a leader/follower pool.
RequestLF ==
  /\ hpc = "request" /\ hs = "lf"
  /\ RequestTermination
  /\ hpc' = "requested"
  /\ UNCHANGED <<fBlocked, avars, wvars, hs, ret, reinits, svars>>

\* Mutant: nobody connects, so that accept() does not return.
StopAcceptLoop_NoConnect ==
  /\ hpc = "request" /\ hs = "acc" /\ cb = "none"
  /\ fAlive' = FALSE
  /\ IF fAlive /\ ~fStopped
     THEN hpc' = "stopwait" /\ UNCHANGED fStopped
     ELSE fStopped' = TRUE /\ hpc' = "requested"
  /\ UNCHANGED <<lfvars, fBlocked, cb, apc, connection, wvars, hs, ret, reinits, svars>>

\* fAcceptors->Terminate calls StopAcceptLoop, which needs the callback's mutex.
\* It does not look whether its Connector got a connection.
StopAcceptLoop ==
  /\ hpc = "request" /\ hs = "acc" /\ cb = "none"
  /\ fAlive' = FALSE
  /\ IF fAlive /\ ~fStopped
     THEN connection' \in {"made", "failed"} /\ hpc' = "stopwait" /\ UNCHANGED fStopped
     ELSE fStopped' = TRUE /\ hpc' = "requested" /\ UNCHANGED connection
  /\ UNCHANGED <<lfvars, fBlocked, cb, apc, wvars, hs, ret, reinits, svars>>

\* Its wait for fStopped is over.
StopWoken ==
  /\ hpc = "stopwoken" /\ cb = "none"
  /\ hpc' = IF fStopped THEN "requested" ELSE "stopwait"
  /\ UNCHANGED <<lfvars, fBlocked, avars, wvars, hs, ret, reinits, svars>>

\* RequestTermination returns: the master is next, then the handler ends.
Requested ==
  /\ hpc = "requested"
  /\ hpc' = (IF hs = Sub THEN "prepare" ELSE "dead") /\ hs' = Master
  /\ fTerminationMutex' = FALSE
  /\ UNCHANGED <<lfvars, fBlocked, avars, wvars, ret, reinits, fbServerIsInitialized, mpc, spc, managers>>

Handler ==
  \/ ServerBlock \/ AwaitEmpty \/ AwaitTimeout \/ Reset \/ ResetFails \/ ServerUnblock
  \/ PrepareShutdown \/ SkipShutdown \/ RequestLF \/ StopAcceptLoop \/ StopWoken \/ Requested

-----------------------------------------------------------------------------
(* The threads that run the servers.                                       *)

RunnerOnly == UNCHANGED <<fBlocked, avars, wvars, hvars, fTerminationMutex>>

\* Terminate of the pool manager of s, and its deletion.
DeleteManager(s) ==
  /\ managers' = managers \ {s}
  /\ IF s = "lf" THEN RequestTermination ELSE UNCHANGED lfvars

\* The module's Run returns.
SubReturns ==
  /\ spc = "run" /\ Joined(Sub)
  /\ spc' = "sync"
  /\ UNCHANGED <<lfvars, fbServerIsInitialized, mpc, managers>> /\ RunnerOnly

\* DoTerminatedRunMethodHook of the ServerThread.
TerminateServer ==
  /\ IF fbServerIsInitialized THEN DeleteManager(Sub) ELSE UNCHANGED <<lfvars, managers>>
  /\ fbServerIsInitialized' = FALSE

\* Mutant: the thread does not wait until PrepareShutdown has returned.
SubTerminates_NoSync ==
  /\ spc = "sync"
  /\ spc' = "end" /\ TerminateServer
  /\ UNCHANGED mpc /\ RunnerOnly

\* It synchronises with PrepareShutdown and terminates its server.
SubTerminates ==
  /\ spc = "sync" /\ ~fTerminationMutex
  /\ spc' = "end" /\ TerminateServer
  /\ UNCHANGED mpc /\ RunnerOnly

\* The master's Run returns.
MasterReturns ==
  /\ mpc = "run" /\ Joined(Master)
  /\ mpc' = "handler"
  /\ UNCHANGED <<lfvars, fbServerIsInitialized, spc, managers>> /\ RunnerOnly

\* The destructor of the InterruptHandler waits for its thread.
HandlerGone ==
  /\ mpc = "handler" /\ hpc = "dead"
  /\ mpc' = "terminate"
  /\ UNCHANGED <<lfvars, fbServerIsInitialized, spc, managers>> /\ RunnerOnly

\* MasterServer::DoTerminate waits for the server thread, or long enough.
MasterTerminates ==
  /\ mpc = "terminate"
  /\ mpc' = "end" /\ DeleteManager(Master)
  /\ UNCHANGED <<fbServerIsInitialized, spc>> /\ RunnerOnly

Runners == SubReturns \/ SubTerminates \/ MasterReturns \/ HandlerGone \/ MasterTerminates

-----------------------------------------------------------------------------
PoolThreads == LFThreads /\ UNCHANGED <<fBlocked, avars, wvars, hvars, svars>>

Next ==
  \/ PoolThreads \/ AcceptLoop \/ ClientConnects \/ AcceptFails \/ RequestDone
  \/ Hup \/ Term \/ Handler \/ Runners

Spec == Init /\ [][Next]_vars

\* Threads run.  Signals, clients and the ends of requests are not forced.
\* StopAcceptLoop competes for a mutex that is free while accept() waits.
Fairness ==
  /\ \A t \in Threads : WF_vars(ThreadStep(t) /\ PoolThreads)
  /\ WF_vars(AcceptLoop) /\ WF_vars(Runners)
  /\ WF_vars(Handler) /\ SF_vars(StopAcceptLoop)

FairSpec == Spec /\ Fairness

\* Requests end, and a connection is not kept for ever.
RequestsEnd ==
  /\ WF_vars(RequestDone)
  /\ \A t \in Threads : SF_vars(CloseConnection(t) /\ PoolThreads)

-----------------------------------------------------------------------------
\* The requests behind the accept loop and the worker pool they stand for.
WorkersPool == INSTANCE RequestPool
                 WITH Size <- PoolSize, blocked <- fBlockRequestHandling, requests <- active

\* Types of the state.
TypeOK ==
  /\ LFTypeOK
  /\ fBlocked \in BOOLEAN
  /\ fAlive \in BOOLEAN /\ fStopped \in BOOLEAN /\ cb \in {"none", "loop"}
  /\ connection \in {"none", "made", "failed"}
  /\ apc \in {"start", "loop", "accept", "accepted", "refused", "enter", "out", "signal", "end"}
  /\ fBlockRequestHandling \in BOOLEAN /\ active \in 0 .. PoolSize
  /\ hpc \in {"sigwait", "block", "await", "reset", "unblock", "prepare", "request", "stopwait",
              "stopwoken", "requested", "dead"}
  /\ hs \in Servers /\ ret \in {0, -1, -2} /\ reinits \in 0 .. MaxReinits
  /\ fTerminationMutex \in BOOLEAN /\ fbServerIsInitialized \in BOOLEAN
  /\ mpc \in {"run", "handler", "terminate", "end"} /\ spc \in {"run", "sync", "end"}
  /\ managers \subseteq Servers

\* Whatever a reinitialisation went through, when the handler waits for the
\* next signal no pool is blocked and the RequestBlocker is open (GlobalReinit).
IdleMeansOpen ==
  hpc = "sigwait" => ~fBlocked /\ ~fBlockRequestHandling /\ open /\ fCurrentLeader # BlockPromotion

\* While GlobalReinit resets the modules the workers behind the accept loop
\* have no request, though clients connect all the time and one may be waiting
\* in Enter since before the pool was blocked: "assume there are no threads
\* running with pending requests" (Server::GlobalReinit).  It is not so of a
\* leader/follower pool, whose BlockRequests lets the leader poll and accept.
AcceptorQuiet == hpc = "reset" => fBlockRequestHandling /\ active = 0

\* The handler never uses a pool manager that was deleted: the server thread
\* waits for PrepareShutdown (fTerminationMutex), the main thread for the
\* handler (ServerThread::Run, ~InterruptHandler).
ManagerAlive ==
  hpc \in {"block", "await", "unblock", "request", "stopwait", "stopwoken", "requested"} => hs \in managers

\* If nobody leads and a follower waits, a thread polls again without any
\* request having to end: somebody "sits at the phone" (Reactor::ProcessEvent).
PhoneAnswered ==
  (fPoolState = "running" /\ fCurrentLeader = NoLeader /\ \E t \in Threads : lpc[t] = "wait")
    ~> (fPoolState = "asked" \/ fCurrentLeader = BlockPromotion \/ \E t \in Threads : Leading(t))

\* Once the shutdown has begun both servers end if their requests do
\* (InterruptHandler::Run: "shutdown if any mishap happens"), unless the
\* connection that is to wake accept() up failed and no client makes one.  Not
\* after a reset that failed (-2): GlobalReinit leaves the pools blocked, the
\* accept loop may wait in Enter with the callback's mutex, which StopAcceptLoop
\* needs, and a module that is not initialised is not shut down.
ShutdownEnds ==
  RequestsEnd => ((hpc = "prepare" /\ ret # -2)
                    ~> ((mpc = "end" /\ spc = "end") \/ (connection = "failed" /\ apc = "accept")))
=============================================================================
