--------------------------- MODULE LeaderFollower ---------------------------
(***************************************************************************)
(* LeaderFollowerPool of mtfoundation/LeaderFollowerPool.cpp with its use  *)
(* as LFListenerPool and RequestReactor (wdbase/LFListenerPool.cpp): a set *)
(* of threads of which one, the leader, polls the listening sockets.  When *)
(* it has an event it promotes a follower and serves the request itself.   *)
(*                                                                         *)
(* A section under fLFMutex is one step; Wait gives the mutex back.  The   *)
(* call of PromoteNewLeader is a step of its own, since the leader polls   *)
(* and accepts without the mutex.  fFollowersCondition is the set of the   *)
(* threads at "wait"; spurious wakeups are steps as well.  A thread whose  *)
(* Thread object was asked to terminate leaves in the same way as one of a *)
(* pool that terminates: the server asks the pool first, always.           *)
(***************************************************************************)
EXTENDS Naturals, FiniteSets

CONSTANTS
  Threads,         \* the LeaderFollowerThread objects, by their Thread::MyId()
  NoLeader,        \* cNoCurrentLeader
  BlockPromotion   \* cBlockPromotion

ASSUME LeaderValues == NoLeader # BlockPromotion /\ {NoLeader, BlockPromotion} \cap Threads = {}

VARIABLES
  fCurrentLeader, fOldLeader,
  fPoolState,     \* "created", "running" or "asked" (eTerminationRequested)
  lpc,            \* where each thread is
  open            \* history: BlockRequests was not called since UnblockRequests

lfvars == <<fCurrentLeader, fOldLeader, fPoolState, lpc, open>>

(* Places of a thread:
     loop      takes fLFMutex at the head of the loop of WaitForRequest
     wait      in fFollowersCondition.Wait
     woken     out of it, takes fLFMutex
     poll      leader, in HandleSet::WaitForEvents
     accepted  leader with a socket, takes fLFMutex to promote
     noevent   leader without one, the same
     connected in DoProcessEvent, between two requests of its socket
     serving   counted by the StatEntry: a request is processed
     left      returned from WaitForRequest                                *)
Places == {"loop", "wait", "woken", "poll", "accepted", "noevent", "connected", "serving", "left"}

Leading(t) == lpc[t] \in {"poll", "accepted", "noevent"}

Serving == {t \in Threads : lpc[t] = "serving"}

\* WPMStatHandler::GetCurrentParallelRequests() of the reactor's handler.
CurrentParallelRequests == Cardinality(Serving)

LFTypeOK ==
  /\ fCurrentLeader \in Threads \cup {NoLeader, BlockPromotion}
  /\ fOldLeader \in Threads \cup {NoLeader, BlockPromotion}
  /\ fPoolState \in {"created", "running", "asked"}
  /\ lpc \in [Threads -> Places]
  /\ open \in BOOLEAN

LFInit ==
  /\ fCurrentLeader = NoLeader /\ fOldLeader = NoLeader
  /\ fPoolState = "created"
  /\ lpc = [t \in Threads |-> "loop"]
  /\ open = TRUE

-----------------------------------------------------------------------------
\* fFollowersCondition.Signal() when the threads are at p.
Signalled(p) ==
  LET waiting == {t \in Threads : p[t] = "wait"} IN
  IF waiting = {} THEN {p} ELSE {[p EXCEPT ![t] = "woken"] : t \in waiting}

\* Mutant: nobody is signalled.
Promote_NoSignal(t, l) ==
  /\ IF fCurrentLeader # BlockPromotion
     THEN fCurrentLeader' = NoLeader /\ UNCHANGED fOldLeader
     ELSE fOldLeader' = NoLeader /\ UNCHANGED fCurrentLeader
  /\ lpc' = [lpc EXCEPT ![t] = l]

\* Mutant: a blocked pool still remembers the leader that gave up.
Promote_KeepOld(t, l) ==
  /\ fCurrentLeader' = IF fCurrentLeader # BlockPromotion THEN NoLeader ELSE BlockPromotion
  /\ lpc' \in Signalled([lpc EXCEPT ![t] = l])
  /\ UNCHANGED fOldLeader

\* The body of PromoteNewLeader, called by t, which is at l afterwards.
Promote(t, l) ==
  /\ IF fCurrentLeader # BlockPromotion
     THEN fCurrentLeader' = NoLeader /\ UNCHANGED fOldLeader
     ELSE fOldLeader' = NoLeader /\ UNCHANGED fCurrentLeader
  /\ lpc' \in Signalled([lpc EXCEPT ![t] = l])

\* The loop goes on: t becomes the leader or waits.
LeadOrWait(t) ==
  \/ /\ fCurrentLeader = NoLeader
     /\ fCurrentLeader' = t
     /\ lpc' = [lpc EXCEPT ![t] = "poll"]
     /\ UNCHANGED fOldLeader
  \/ /\ fCurrentLeader # NoLeader
     /\ lpc' = [lpc EXCEPT ![t] = "wait"]
     /\ UNCHANGED <<fCurrentLeader, fOldLeader>>

\* WaitForRequest: its start, and the head of its loop after an event.
WaitForRequest(t) ==
  /\ lpc[t] = "loop"
  /\ \/ /\ fPoolState # "asked"
        /\ fPoolState' = "running"
        /\ LeadOrWait(t)
     \/ /\ fPoolState = "asked"
        /\ Promote(t, "left")
        /\ UNCHANGED fPoolState
  /\ UNCHANGED open

\* Wait returns.
Awake(t) ==
  /\ lpc[t] = "woken"
  /\ \/ fPoolState # "asked" /\ LeadOrWait(t)
     \/ fPoolState = "asked" /\ Promote(t, "left")
  /\ UNCHANGED <<fPoolState, open>>

\* A spurious wakeup.
Spurious(t) ==
  /\ lpc[t] = "wait"
  /\ lpc' = [lpc EXCEPT ![t] = "woken"]
  /\ UNCHANGED <<fCurrentLeader, fOldLeader, fPoolState, open>>

\* WaitForEvents returns an acceptor and DoAccept a socket.
Accept(t) ==
  /\ lpc[t] = "poll"
  /\ lpc' = [lpc EXCEPT ![t] = "accepted"]
  /\ UNCHANGED <<fCurrentLeader, fOldLeader, fPoolState, open>>

\* The poll times out or fails, or the connection is gone at accept().
PollTimeout(t) ==
  /\ lpc[t] = "poll"
  /\ lpc' = [lpc EXCEPT ![t] = "noevent"]
  /\ UNCHANGED <<fCurrentLeader, fOldLeader, fPoolState, open>>

\* HandleEvents and ProcessEvent: a new leader is promoted in either case.
PromoteNewLeader(t) ==
  /\ lpc[t] \in {"accepted", "noevent"}
  /\ Promote(t, IF lpc[t] = "accepted" THEN "connected" ELSE "loop")
  /\ UNCHANGED <<fPoolState, open>>

\* DoProcessEvent: the StatEntry counts a request.
BeginRequest(t) ==
  /\ lpc[t] = "connected"
  /\ lpc' = [lpc EXCEPT ![t] = "serving"]
  /\ UNCHANGED <<fCurrentLeader, fOldLeader, fPoolState, open>>

\* The request is over and the connection is kept for the next one.
KeepConnection(t) ==
  /\ lpc[t] = "serving"
  /\ lpc' = [lpc EXCEPT ![t] = "connected"]
  /\ UNCHANGED <<fCurrentLeader, fOldLeader, fPoolState, open>>

\* The request is over and the socket is deleted.
CloseConnection(t) ==
  /\ lpc[t] = "serving"
  /\ lpc' = [lpc EXCEPT ![t] = "loop"]
  /\ UNCHANGED <<fCurrentLeader, fOldLeader, fPoolState, open>>

-----------------------------------------------------------------------------
\* LFListenerPool::BlockRequests.
BlockRequests ==
  /\ fOldLeader' = fCurrentLeader
  /\ fCurrentLeader' = BlockPromotion
  /\ open' = FALSE
  /\ UNCHANGED <<fPoolState, lpc>>

\* LFListenerPool::UnblockRequests.
UnblockRequests ==
  /\ fCurrentLeader' = fOldLeader
  /\ lpc' \in Signalled(lpc)
  /\ open' = TRUE
  /\ UNCHANGED <<fOldLeader, fPoolState>>

\* LeaderFollowerPool::RequestTermination; BroadCast wakes all.
RequestTermination ==
  /\ fPoolState' = "asked"
  /\ fCurrentLeader' = BlockPromotion
  /\ lpc' = [t \in Threads |-> IF lpc[t] = "wait" THEN "woken" ELSE lpc[t]]
  /\ UNCHANGED <<fOldLeader, open>>

\* ThreadPoolManager::Join of this pool returns.
AllLeft == \A t \in Threads : lpc[t] = "left"

\* The steps a thread takes by itself, and those that wait for the world.
ThreadStep(t) ==
  \/ WaitForRequest(t) \/ Awake(t) \/ PollTimeout(t)
  \/ PromoteNewLeader(t) \/ BeginRequest(t)

LFThreads ==
  \E t \in Threads :
    ThreadStep(t) \/ Spurious(t) \/ Accept(t) \/ KeepConnection(t) \/ CloseConnection(t)

\* The pool by itself: the requests may be blocked, unblocked if they are
\* blocked, and the pool terminated, at any time.
LFNext ==
  \/ LFThreads
  \/ open /\ BlockRequests
  \/ ~open /\ UnblockRequests
  \/ RequestTermination

LFSpec == LFInit /\ [][LFNext]_lfvars

-----------------------------------------------------------------------------
\* One thread at most is the leader that polls and accepts, and fCurrentLeader
\* never names another one (PromoteNewLeader: "inconsistent pool").
LeaderAlone ==
  /\ \A t, u \in Threads : Leading(t) /\ Leading(u) => t = u
  /\ fCurrentLeader \in Threads => Leading(fCurrentLeader)
=============================================================================
