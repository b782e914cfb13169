---------------------------- MODULE ServerProofs ----------------------------
(***************************************************************************)
(* Proofs about the leader/follower pool (module LeaderFollower) and about *)
(* the life cycle of the server that uses it (module Server), for every    *)
(* set of threads, every pool size and any number of reinitialisations.    *)
(***************************************************************************)
EXTENDS Server, TLAPS

-----------------------------------------------------------------------------
(* The pool by itself: however requests are blocked and unblocked, and     *)
(* whenever the pool is terminated, there is one leader at most.           *)

\* fCurrentLeader and fOldLeader name only a thread that leads; while the
\* pool is not terminated they name it whenever there is one: fCurrentLeader,
\* or fOldLeader while the promotion is blocked.
LeaderInv ==
  /\ LFTypeOK
  /\ LeaderAlone
  /\ fPoolState # "asked" =>
       \A t \in Threads : Leading(t) => fCurrentLeader \in {t, BlockPromotion}
  /\ ~open => fCurrentLeader = BlockPromotion
  /\ fCurrentLeader = BlockPromotion /\ fPoolState # "asked" => ~open
  /\ ~open /\ fOldLeader \in Threads => Leading(fOldLeader)
  /\ ~open /\ fPoolState # "asked" =>
       /\ fOldLeader # BlockPromotion
       /\ \A t \in Threads : Leading(t) => fOldLeader = t

\* A signal changes nobody's part in leading.
LEMMA SignalledKeeps ==
  ASSUME NEW p \in [Threads -> Places], NEW q \in Signalled(p)
  PROVE  /\ q \in [Threads -> Places]
         /\ \A u \in Threads : q[u] = p[u] \/ (p[u] = "wait" /\ q[u] = "woken")
<1>1. CASE {t \in Threads : p[t] = "wait"} = {}
  BY <1>1 DEF Signalled
<1>2. CASE {t \in Threads : p[t] = "wait"} # {}
  <2>1. PICK t \in Threads : p[t] = "wait" /\ q = [p EXCEPT ![t] = "woken"]
    BY <1>2 DEF Signalled
  <2> QED
    BY <2>1 DEF Places
<1> QED
  BY <1>1, <1>2

\* PromoteNewLeader by the leader, or by a thread that leaves the pool.
LEMMA PromoteStep ==
  ASSUME LeaderInv, NEW t \in Threads, NEW l \in Places \ {"poll", "accepted", "noevent"},
         Promote(t, l), UNCHANGED <<fPoolState, open>>,
         fPoolState = "asked" \/ Leading(t)
  PROVE  LeaderInv'
<1> DEFINE p == [lpc EXCEPT ![t] = l]
<1>1. p \in [Threads -> Places]
  BY DEF LeaderInv, LFTypeOK
<1>2. /\ lpc' \in [Threads -> Places]
      /\ \A u \in Threads : lpc'[u] = p[u] \/ (p[u] = "wait" /\ lpc'[u] = "woken")
  BY <1>1, SignalledKeeps DEF Promote
<1>3. \A u \in Threads : p[u] = (IF u = t THEN l ELSE lpc[u])
  BY DEF LeaderInv, LFTypeOK
<1>4. \A u \in Threads : Leading(u)' <=> (u # t /\ Leading(u))
  BY <1>2, <1>3 DEF Leading
<1>5. fPoolState # "asked" => \A u \in Threads : ~Leading(u)'
  BY <1>4 DEF LeaderInv, LeaderAlone
<1>6. CASE fCurrentLeader # BlockPromotion
  <2>1. fCurrentLeader' = NoLeader /\ fOldLeader' = fOldLeader /\ open /\ open'
    BY <1>6 DEF Promote, LeaderInv
  <2>2. LFTypeOK'
    BY <1>2, <2>1 DEF LeaderInv, LFTypeOK
  <2>3. LeaderAlone'
    BY <1>4, <2>1, LeaderValues DEF LeaderInv, LeaderAlone
  <2> QED
    BY <1>5, <2>1, <2>2, <2>3, LeaderValues DEF LeaderInv
<1>7. CASE fCurrentLeader = BlockPromotion
  <2>1. fCurrentLeader' = BlockPromotion /\ fOldLeader' = NoLeader
    BY <1>7 DEF Promote
  <2>2. LFTypeOK'
    BY <1>2, <2>1 DEF LeaderInv, LFTypeOK
  <2>3. LeaderAlone'
    BY <1>4, <2>1, LeaderValues DEF LeaderInv, LeaderAlone
  <2>4. fPoolState' # "asked" => ~open'
    BY <1>7 DEF LeaderInv
  <2> QED
    BY <1>5, <2>1, <2>2, <2>3, <2>4, LeaderValues DEF LeaderInv
<1> QED
  BY <1>6, <1>7

\* The loop of WaitForRequest goes on.
LEMMA LeadOrWaitStep ==
  ASSUME LeaderInv, NEW t \in Threads, ~Leading(t), LeadOrWait(t), open' = open,
         fPoolState # "asked", fPoolState' \in {fPoolState, "running"}
  PROVE  LeaderInv'
<1>1. CASE fCurrentLeader = NoLeader
  <2>1. /\ fCurrentLeader' = t /\ fOldLeader' = fOldLeader
        /\ lpc' = [lpc EXCEPT ![t] = "poll"]
    BY <1>1 DEF LeadOrWait
  <2>2. open /\ \A u \in Threads : ~Leading(u)
    BY <1>1, LeaderValues DEF LeaderInv
  <2>3. LFTypeOK'
    BY <2>1 DEF LeaderInv, LFTypeOK, Places
  <2>4. \A u \in Threads : Leading(u)' <=> u = t
    BY <2>1, <2>2 DEF LeaderInv, LFTypeOK, Leading
  <2>5. LeaderAlone'
    BY <2>1, <2>4 DEF LeaderAlone
  <2> QED
    BY <2>1, <2>2, <2>3, <2>4, <2>5, LeaderValues DEF LeaderInv
<1>2. CASE fCurrentLeader # NoLeader
  <2>1. /\ fCurrentLeader' = fCurrentLeader /\ fOldLeader' = fOldLeader
        /\ lpc' = [lpc EXCEPT ![t] = "wait"]
    BY <1>2 DEF LeadOrWait
  <2>2. LFTypeOK'
    BY <2>1 DEF LeaderInv, LFTypeOK, Places
  <2>3. \A u \in Threads : Leading(u)' <=> Leading(u)
    BY <2>1 DEF LeaderInv, LFTypeOK, Leading
  <2>4. LeaderAlone'
    BY <2>1, <2>3 DEF LeaderInv, LeaderAlone
  <2>5. fPoolState' # "asked"
    OBVIOUS
  <2> QED
    BY <2>1, <2>2, <2>3, <2>4, <2>5 DEF LeaderInv
<1> QED
  BY <1>1, <1>2

\* A step of one thread that neither takes nor gives up the lead.
LEMMA NeutralStep ==
  ASSUME LeaderInv, NEW t \in Threads, NEW l \in Places, lpc' = [lpc EXCEPT ![t] = l],
         Leading(t) <=> l \in {"poll", "accepted", "noevent"},
         UNCHANGED <<fCurrentLeader, fOldLeader, fPoolState, open>>
  PROVE  LeaderInv'
<1>1. LFTypeOK'
  BY DEF LeaderInv, LFTypeOK
<1>2. \A u \in Threads : Leading(u)' <=> Leading(u)
  BY DEF LeaderInv, LFTypeOK, Leading
<1>3. LeaderAlone'
  BY <1>2 DEF LeaderInv, LeaderAlone
<1> QED
  BY <1>1, <1>2, <1>3 DEF LeaderInv

\* Every step of a thread.
LEMMA ThreadsStep ==
  ASSUME LeaderInv, LFThreads
  PROVE  LeaderInv'
<1>1. PICK t \in Threads :
        ThreadStep(t) \/ Spurious(t) \/ Accept(t) \/ KeepConnection(t) \/ CloseConnection(t)
  BY DEF LFThreads
<1>2. CASE WaitForRequest(t)
  <2>1. CASE fPoolState = "asked"
    BY <1>2, <2>1, PromoteStep DEF WaitForRequest, Places
  <2>2. CASE fPoolState # "asked"
    BY <1>2, <2>2, LeadOrWaitStep DEF WaitForRequest, Leading
  <2> QED
    BY <2>1, <2>2
<1>3. CASE Awake(t)
  <2>1. CASE fPoolState = "asked"
    BY <1>3, <2>1, PromoteStep DEF Awake, Places
  <2>2. CASE fPoolState # "asked"
    BY <1>3, <2>2, LeadOrWaitStep DEF Awake, Leading
  <2> QED
    BY <2>1, <2>2
<1>4. CASE PromoteNewLeader(t)
  BY <1>4, PromoteStep DEF PromoteNewLeader, Leading, Places
<1>5. CASE Spurious(t)
  BY <1>5, NeutralStep DEF Spurious, Leading, Places
<1>6. CASE Accept(t)
  BY <1>6, NeutralStep DEF Accept, Leading, Places
<1>7. CASE PollTimeout(t)
  BY <1>7, NeutralStep DEF PollTimeout, Leading, Places
<1>8. CASE BeginRequest(t)
  BY <1>8, NeutralStep DEF BeginRequest, Leading, Places
<1>9. CASE KeepConnection(t)
  BY <1>9, NeutralStep DEF KeepConnection, Leading, Places
<1>10. CASE CloseConnection(t)
  BY <1>10, NeutralStep DEF CloseConnection, Leading, Places
<1> QED
  BY <1>1, <1>2, <1>3, <1>4, <1>5, <1>6, <1>7, <1>8, <1>9, <1>10 DEF ThreadStep

\* BlockRequests of requests that are not blocked.
LEMMA BlockStep ==
  ASSUME LeaderInv, open, BlockRequests
  PROVE  LeaderInv'
<1>1. /\ fOldLeader' = fCurrentLeader /\ fCurrentLeader' = BlockPromotion /\ ~open'
      /\ fPoolState' = fPoolState /\ lpc' = lpc
  BY DEF BlockRequests
<1>2. LFTypeOK'
  BY <1>1 DEF LeaderInv, LFTypeOK, BlockRequests
<1>3. \A u \in Threads : Leading(u)' <=> Leading(u)
  BY <1>1 DEF Leading
<1>4. LeaderAlone'
  BY <1>1, <1>3, LeaderValues DEF LeaderInv, LeaderAlone
<1>5. fCurrentLeader \in Threads => Leading(fCurrentLeader)
  BY DEF LeaderInv, LeaderAlone
<1>6. fOldLeader' \in Threads => Leading(fOldLeader)'
  BY <1>1, <1>3, <1>5
<1>7. fPoolState # "asked" => /\ fOldLeader' # BlockPromotion
                              /\ \A u \in Threads : Leading(u)' => fOldLeader' = u
  BY <1>1, <1>3 DEF LeaderInv
<1> QED
  BY <1>1, <1>2, <1>3, <1>4, <1>6, <1>7 DEF LeaderInv

\* UnblockRequests of requests that are blocked.
LEMMA UnblockStep ==
  ASSUME LeaderInv, ~open, UnblockRequests
  PROVE  LeaderInv'
<1>1. /\ fCurrentLeader' = fOldLeader /\ fOldLeader' = fOldLeader /\ open' = TRUE
      /\ fPoolState' = fPoolState /\ lpc' \in Signalled(lpc)
  BY DEF UnblockRequests
<1>2. /\ lpc' \in [Threads -> Places]
      /\ \A u \in Threads : lpc'[u] = lpc[u] \/ (lpc[u] = "wait" /\ lpc'[u] = "woken")
  BY <1>1, SignalledKeeps DEF LeaderInv, LFTypeOK
<1>3. \A u \in Threads : Leading(u)' <=> Leading(u)
  BY <1>2 DEF Leading
<1>4. LFTypeOK'
  BY <1>1, <1>2 DEF LeaderInv, LFTypeOK
<1>5. fOldLeader \in Threads => Leading(fOldLeader)
  BY DEF LeaderInv
<1>6. LeaderAlone'
  BY <1>1, <1>3, <1>5 DEF LeaderInv, LeaderAlone
<1> QED
  BY <1>1, <1>3, <1>4, <1>6 DEF LeaderInv

\* RequestTermination at any time.
LEMMA TerminationStep ==
  ASSUME LeaderInv, RequestTermination
  PROVE  LeaderInv'
<1>1. /\ fPoolState' = "asked" /\ fCurrentLeader' = BlockPromotion
      /\ fOldLeader' = fOldLeader /\ open' = open
      /\ lpc' = [t \in Threads |-> IF lpc[t] = "wait" THEN "woken" ELSE lpc[t]]
  BY DEF RequestTermination
<1>2. LFTypeOK'
  BY <1>1 DEF LeaderInv, LFTypeOK, Places
<1>3. \A u \in Threads : Leading(u)' <=> Leading(u)
  BY <1>1 DEF Leading
<1>4. LeaderAlone'
  BY <1>1, <1>3, LeaderValues DEF LeaderInv, LeaderAlone
<1>5. ~open /\ fOldLeader \in Threads => Leading(fOldLeader)
  BY DEF LeaderInv
<1>6. ~open' /\ fOldLeader' \in Threads => Leading(fOldLeader)'
  BY <1>1, <1>3, <1>5
<1> QED
  BY <1>1, <1>2, <1>4, <1>6 DEF LeaderInv

\* Every step of the pool keeps the invariant.
LEMMA PoolKeepsInv == LeaderInv /\ [LFNext]_lfvars => LeaderInv'
<1> SUFFICES ASSUME LeaderInv, [LFNext]_lfvars PROVE LeaderInv'
  OBVIOUS
<1>1. CASE UNCHANGED lfvars
  BY <1>1 DEF lfvars, LeaderInv, LFTypeOK, LeaderAlone, Leading
<1>2. CASE LFThreads
  BY <1>2, ThreadsStep
<1>3. CASE open /\ BlockRequests
  BY <1>3, BlockStep
<1>4. CASE ~open /\ UnblockRequests
  BY <1>4, UnblockStep
<1>5. CASE RequestTermination
  BY <1>5, TerminationStep
<1> QED
  BY <1>1, <1>2, <1>3, <1>4, <1>5 DEF LFNext

\* The pool after its construction.
LEMMA PoolInit == LFInit => LeaderInv
<1> SUFFICES ASSUME LFInit PROVE LeaderInv
  OBVIOUS
<1>1. LFTypeOK
  BY DEF LFInit, LFTypeOK, Places
<1>2. \A t \in Threads : ~Leading(t)
  BY DEF LFInit, Leading
<1>3. LeaderAlone
  BY <1>2, LeaderValues DEF LFInit, LeaderAlone
<1> QED
  BY <1>1, <1>2, <1>3, LeaderValues DEF LFInit, LeaderInv

\* The invariant of WaitForRequest, PromoteNewLeader, BlockRequests,
\* UnblockRequests and RequestTermination.
THEOREM LeaderSafety == LFSpec => []LeaderInv
BY PoolInit, PoolKeepsInv, PTL DEF LFSpec

\* One thread at most polls and accepts, and fCurrentLeader names no other.
COROLLARY OneLeader == LFSpec => []LeaderAlone
<1>1. LeaderInv => LeaderAlone
  BY DEF LeaderInv
<1> QED
  BY <1>1, LeaderSafety, PTL

-----------------------------------------------------------------------------
(* The server.                                                             *)

\* The places of the handler before the shutdown, and those in which it uses
\* the pool manager of a server to shut it down.
Early    == {"sigwait", "block", "await", "reset", "unblock"}
Stopping == {"request", "stopwait", "stopwoken", "requested"}

\* The pool of s has been asked to end.
EndAsked(s) == IF s = "lf" THEN fPoolState = "asked" ELSE ~fAlive

\* The pool of s lets requests through.
Unblocked(s) ==
  IF s = "lf" THEN open /\ fCurrentLeader # BlockPromotion ELSE ~fBlockRequestHandling

\* Nothing has been asked to end before the shutdown, and no thread has left.
NotYetAsked ==
  /\ hpc \in Early => fPoolState # "asked" /\ fAlive /\ fOldLeader # BlockPromotion
  /\ \A t \in Threads : lpc[t] = "left" => fPoolState = "asked"
  /\ apc \in {"out", "signal", "end"} => ~fAlive
  /\ spc # "run" => EndAsked(Sub)

\* Who has deleted its manager, and whom they wait for.
ManagersHeld ==
  /\ managers = {s \in Servers : IF s = Sub THEN spc # "end" ELSE mpc # "end"}
  /\ mpc \in {"terminate", "end"} => hpc = "dead"
  /\ hpc \in Stopping /\ hs = Sub => fTerminationMutex /\ spc # "end"
  /\ fbServerIsInitialized => spc # "end"
  /\ ~fbServerIsInitialized /\ spc # "end" => ~EndAsked(Sub) /\ ~(hpc \in Stopping /\ hs = Sub)

\* How far BlockRequests and UnblockRequests of GlobalReinit have come.
BlockedSoFar ==
  /\ hpc = "sigwait" => ~fBlocked
  /\ hpc = "sigwait" \/ (hpc = "block" /\ hs = Sub) => Unblocked(Sub)
  /\ hpc \in {"sigwait", "block"} \/ (hpc \in {"await", "unblock"} /\ hs = Sub)
       => Unblocked(Master)

\* The inductive invariant of the life cycle.
ServerInv == TypeOK /\ NotYetAsked /\ ManagersHeld /\ BlockedSoFar

\* For a master with an accept loop: GlobalReinit unblocks the module's pool
\* only after it has blocked it.
Alternating ==
  /\ hpc = "sigwait" \/ (hpc = "block" /\ hs = "lf") => open
  /\ hpc \in {"await", "reset", "unblock"} \/ (hpc = "block" /\ hs = "acc") => ~open

\* There are two servers: the module and the master.
LEMMA SubMaster ==
  /\ Sub \in Servers /\ Master \in Servers /\ Sub # Master
  /\ \A s \in Servers : s = Sub \/ s = Master
BY MasterKind DEF Sub, Servers

\* What the threads of the pool leave alone.
LEMMA PoolThreadsKeep ==
  ASSUME LFTypeOK, LFThreads
  PROVE  /\ LFTypeOK' /\ open' = open
         /\ fPoolState' = "asked" <=> fPoolState = "asked"
         /\ fCurrentLeader # BlockPromotion => fCurrentLeader' # BlockPromotion
         /\ fOldLeader # BlockPromotion => fOldLeader' # BlockPromotion
         /\ \A t \in Threads : lpc'[t] = "left" => lpc[t] = "left" \/ fPoolState = "asked"
<1> DEFINE Kept == /\ LFTypeOK' /\ open' = open
                   /\ fPoolState' = "asked" <=> fPoolState = "asked"
                   /\ fCurrentLeader # BlockPromotion => fCurrentLeader' # BlockPromotion
                   /\ fOldLeader # BlockPromotion => fOldLeader' # BlockPromotion
                   /\ \A t \in Threads : lpc'[t] = "left" => lpc[t] = "left" \/ fPoolState = "asked"
<1>1. PICK t \in Threads :
        ThreadStep(t) \/ Spurious(t) \/ Accept(t) \/ KeepConnection(t) \/ CloseConnection(t)
  BY DEF LFThreads
<1>2. ASSUME NEW l \in Places, Promote(t, l), l # "left" \/ fPoolState = "asked",
             UNCHANGED <<fPoolState, open>>
      PROVE  Kept
  <2>1. [lpc EXCEPT ![t] = l] \in [Threads -> Places]
    BY DEF LFTypeOK
  <2>2. /\ lpc' \in [Threads -> Places]
        /\ \A u \in Threads : \/ lpc'[u] = [lpc EXCEPT ![t] = l][u]
                              \/ lpc'[u] = "woken"
    BY <1>2, <2>1, SignalledKeeps DEF Promote
  <2>3. LFTypeOK'
    BY <1>2, <2>2 DEF Promote, LFTypeOK
  <2> QED
    BY <1>2, <2>2, <2>3, LeaderValues DEF Promote, LFTypeOK
<1>3. ASSUME LeadOrWait(t), fPoolState # "asked", fPoolState' \in {fPoolState, "running"}, open' = open
      PROVE  Kept
  BY <1>3, LeaderValues DEF LeadOrWait, LFTypeOK, Places
<1>4. CASE WaitForRequest(t)
  BY <1>2, <1>3, <1>4 DEF WaitForRequest, Places
<1>5. CASE Awake(t)
  BY <1>2, <1>3, <1>5 DEF Awake, Places
<1>6. CASE PromoteNewLeader(t)
  BY <1>2, <1>6 DEF PromoteNewLeader, Places
<1>7. CASE Spurious(t) \/ Accept(t) \/ PollTimeout(t) \/ BeginRequest(t)
             \/ KeepConnection(t) \/ CloseConnection(t)
  BY <1>7 DEF Spurious, Accept, PollTimeout, BeginRequest, KeepConnection, CloseConnection,
              LFTypeOK, Places
<1> QED
  BY <1>1, <1>4, <1>5, <1>6, <1>7 DEF ThreadStep

\* The initial state.
LEMMA ServerInit == Init => ServerInv
<1> SUFFICES ASSUME Init PROVE ServerInv
  OBVIOUS
<1>1. TypeOK
  <2>1. LFTypeOK
    BY DEF Init, LFInit, LFTypeOK, Places
  <2>2. hs \in Servers /\ active \in 0 .. PoolSize /\ reinits \in 0 .. MaxReinits /\ ret \in {0, -1, -2}
    BY SubMaster, Bounds DEF Init
  <2> QED
    BY <2>1, <2>2 DEF Init, TypeOK
<1>2. NotYetAsked
  BY LeaderValues DEF Init, LFInit, NotYetAsked, Early
<1>3. ManagersHeld
  BY DEF Init, ManagersHeld, Stopping
<1>4. BlockedSoFar
  BY LeaderValues DEF Init, LFInit, BlockedSoFar, Unblocked
<1> QED
  BY <1>1, <1>2, <1>3, <1>4 DEF ServerInv

\* The threads of the leader/follower pool keep the invariant.
LEMMA PoolThreadsInv ==
  ASSUME ServerInv, PoolThreads
  PROVE  ServerInv'
<1>1. /\ LFTypeOK' /\ open' = open
      /\ fPoolState' = "asked" <=> fPoolState = "asked"
      /\ fCurrentLeader # BlockPromotion => fCurrentLeader' # BlockPromotion
      /\ fOldLeader # BlockPromotion => fOldLeader' # BlockPromotion
      /\ \A t \in Threads : lpc'[t] = "left" => lpc[t] = "left" \/ fPoolState = "asked"
  BY PoolThreadsKeep DEF PoolThreads, ServerInv, TypeOK
<1> QED
  BY <1>1 DEF PoolThreads, avars, wvars, hvars, svars, Servers, ServerInv, TypeOK, NotYetAsked, ManagersHeld, BlockedSoFar, EndAsked, Unblocked, Early, Stopping

\* The accept loop, its clients and its workers keep it.
LEMMA AcceptorInv ==
  ASSUME ServerInv, AcceptLoop \/ ClientConnects \/ AcceptFails \/ RequestDone
  PROVE  ServerInv'
<1> USE Bounds DEF AcceptorOnly, lfvars, avars, wvars, hvars, svars, LFTypeOK, ServerInv, TypeOK, NotYetAsked, ManagersHeld, BlockedSoFar, EndAsked, Unblocked, Early, Stopping
<1>1. CASE RunAcceptLoop
  <2>1. fStopped' \in BOOLEAN
    BY <1>1 DEF RunAcceptLoop
  <2> QED
    BY <1>1, <2>1 DEF RunAcceptLoop
<1>2. CASE LoopHead
  BY <1>2 DEF LoopHead
<1>3. CASE StopperConnects
  <2>1. connection' \in {"none", "made", "failed"}
    BY <1>3 DEF StopperConnects
  <2> QED
    BY <1>3, <2>1 DEF StopperConnects
<1>4. CASE Accepted
  BY <1>4 DEF Accepted
<1>5. CASE Enter
  BY <1>5 DEF Enter
<1>6. CASE LoopStopped
  BY <1>6 DEF LoopStopped
<1>7. CASE SignalStopped
  BY <1>7 DEF SignalStopped
<1>8. CASE ClientConnects
  BY <1>8 DEF ClientConnects
<1>9. CASE RequestDone
  BY <1>9 DEF RequestDone
<1>10. CASE AcceptFails
  BY <1>10 DEF AcceptFails
<1> QED
  BY <1>1, <1>2, <1>3, <1>4, <1>5, <1>6, <1>7, <1>8, <1>9, <1>10 DEF AcceptLoop

\* BlockRequests of an open pool: the other pool is left alone.
LEMMA PoolBlockKeeps ==
  ASSUME TypeOK, NEW s \in Servers, PoolBlock(s), Unblocked(s), fOldLeader # BlockPromotion
  PROVE  /\ LFTypeOK' /\ fBlockRequestHandling' \in BOOLEAN /\ active' = active
         /\ fPoolState' = fPoolState /\ lpc' = lpc /\ fOldLeader' # BlockPromotion
         /\ \A r \in Servers \ {s} : Unblocked(r) => Unblocked(r)'
BY DEF TypeOK, LFTypeOK, PoolBlock, BlockRequests, Unblocked, Servers, wvars, lfvars

\* UnblockRequests opens the pool of s and leaves the other one alone.
LEMMA PoolUnblockKeeps ==
  ASSUME TypeOK, NEW s \in Servers, PoolUnblock(s), fOldLeader # BlockPromotion
  PROVE  /\ LFTypeOK' /\ fBlockRequestHandling' \in BOOLEAN /\ active' = active
         /\ fPoolState' = fPoolState /\ fOldLeader' = fOldLeader
         /\ \A t \in Threads : lpc'[t] = "left" => lpc[t] = "left"
         /\ Unblocked(s)'
         /\ \A r \in Servers : Unblocked(r) => Unblocked(r)'
<1>1. CASE s = "lf"
  <2>1. lpc' \in Signalled(lpc) /\ lpc \in [Threads -> Places]
    BY <1>1 DEF PoolUnblock, UnblockRequests, TypeOK, LFTypeOK
  <2>2. /\ lpc' \in [Threads -> Places]
        /\ \A t \in Threads : lpc'[t] = "left" => lpc[t] = "left"
    BY <2>1, SignalledKeeps
  <2>3. open' = TRUE /\ fCurrentLeader' = fOldLeader /\ UNCHANGED <<fOldLeader, fPoolState, wvars>>
    BY <1>1 DEF PoolUnblock, UnblockRequests
  <2> QED
    BY <1>1, <2>2, <2>3 DEF TypeOK, LFTypeOK, Unblocked, wvars, Servers
<1>2. CASE s = "acc"
  BY <1>2 DEF TypeOK, LFTypeOK, PoolUnblock, Unblocked, Servers, lfvars
<1> QED
  BY <1>1, <1>2 DEF Servers

\* RequestTermination of the pool makes no thread leave by itself.
LEMMA TerminationKeeps ==
  ASSUME LFTypeOK, RequestTermination
  PROVE  /\ LFTypeOK' /\ fPoolState' = "asked"
         /\ \A t \in Threads : lpc'[t] = "left" => lpc[t] = "left"
BY DEF LFTypeOK, RequestTermination, Places

\* The signals begin a reinitialisation or the shutdown.
LEMMA SignalInv ==
  ASSUME ServerInv, Hup \/ Term
  PROVE  ServerInv'
<1> USE SubMaster, Bounds DEF lfvars, avars, wvars, hvars, svars, LFTypeOK, ServerInv, TypeOK, NotYetAsked, ManagersHeld, BlockedSoFar, EndAsked, Unblocked, Early, Stopping
<1>1. CASE Hup
  BY <1>1 DEF Hup
<1>2. CASE Term
  BY <1>2 DEF Term
<1> QED
  BY <1>1, <1>2

\* The handler's reinitialisation keeps the invariant ...
LEMMA ReinitInv ==
  ASSUME ServerInv,
         ServerBlock \/ AwaitEmpty \/ AwaitTimeout \/ Reset \/ ResetFails \/ ServerUnblock
  PROVE  ServerInv'
<1> USE SubMaster DEF ServerInv
<1>1. CASE ServerBlock
  <2>0. PICK s \in Servers : s = hs
    BY DEF TypeOK
  <2>1. Unblocked(s) /\ fOldLeader # BlockPromotion /\ PoolBlock(s)
    BY <1>1, <2>0 DEF ServerBlock, BlockedSoFar, NotYetAsked, Early
  <2>2. /\ LFTypeOK' /\ fBlockRequestHandling' \in BOOLEAN /\ active' = active
        /\ fPoolState' = fPoolState /\ lpc' = lpc /\ fOldLeader' # BlockPromotion
        /\ \A r \in Servers \ {s} : Unblocked(r) => Unblocked(r)'
    BY <2>1, PoolBlockKeeps
  <2>3. /\ hpc = "block" /\ hpc' = "await" /\ fBlocked' = TRUE
        /\ UNCHANGED <<avars, hs, ret, reinits, svars>>
    BY <1>1 DEF ServerBlock
  <2>4. TypeOK'
    BY <2>2, <2>3 DEF TypeOK, avars, svars
  <2>5. NotYetAsked'
    BY <2>2, <2>3 DEF NotYetAsked, Early, EndAsked, avars, svars
  <2>6. ManagersHeld'
    BY <2>2, <2>3 DEF ManagersHeld, Stopping, EndAsked, avars, svars
  <2>7. BlockedSoFar'
    BY <2>0, <2>2, <2>3 DEF BlockedSoFar
  <2> QED
    BY <2>4, <2>5, <2>6, <2>7
<1>2. CASE ServerUnblock
  <2>0. PICK s \in Servers : s = hs
    BY DEF TypeOK
  <2>1. hpc = "unblock" /\ fOldLeader # BlockPromotion /\ PoolUnblock(s)
    BY <1>2, <2>0 DEF ServerUnblock, NotYetAsked, Early
  <2>2. /\ LFTypeOK' /\ fBlockRequestHandling' \in BOOLEAN /\ active' = active
        /\ fPoolState' = fPoolState /\ fOldLeader' = fOldLeader
        /\ \A t \in Threads : lpc'[t] = "left" => lpc[t] = "left"
        /\ Unblocked(s)'
        /\ \A r \in Servers : Unblocked(r) => Unblocked(r)'
    BY <2>1, PoolUnblockKeeps
  <2>3. /\ fBlocked' = FALSE /\ hs' = Sub
        /\ hpc' = (IF hs = Master THEN "unblock" ELSE IF ret = 0 THEN "sigwait" ELSE "prepare")
        /\ UNCHANGED <<avars, ret, reinits, svars>>
    BY <1>2 DEF ServerUnblock
  <2>4. TypeOK'
    <3>1. fBlocked' \in BOOLEAN
      BY <2>3
    <3> QED
      BY <2>1, <2>2, <2>3, <3>1 DEF TypeOK, avars, svars
  <2>5. NotYetAsked'
    BY <2>1, <2>2, <2>3 DEF NotYetAsked, Early, EndAsked, avars, svars
  <2>6. ManagersHeld'
    BY <2>1, <2>2, <2>3 DEF ManagersHeld, Stopping, EndAsked, avars, svars
  <2>7. BlockedSoFar'
    BY <2>0, <2>1, <2>2, <2>3 DEF BlockedSoFar
  <2> QED
    BY <2>4, <2>5, <2>6, <2>7
<1>3. CASE AwaitEmpty \/ AwaitTimeout \/ Reset
  BY <1>3 DEF AwaitEmpty, AwaitTimeout, Reset, lfvars, avars, wvars, svars, LFTypeOK,
     TypeOK, NotYetAsked, ManagersHeld, BlockedSoFar, EndAsked, Unblocked, Early, Stopping
<1>4. CASE ResetFails
  <2>1. spc # "end"
    BY <1>4 DEF ResetFails, NotYetAsked, EndAsked, Early
  <2>2. TypeOK'
    BY <1>4 DEF ResetFails, TypeOK, lfvars, avars, wvars, LFTypeOK
  <2>3. ManagersHeld'
    BY <1>4, <2>1 DEF ResetFails, ManagersHeld, NotYetAsked, Early, Stopping, EndAsked, lfvars, avars
  <2> QED
    BY <1>4, <2>2, <2>3 DEF ResetFails, lfvars, avars, wvars, NotYetAsked, BlockedSoFar,
       EndAsked, Unblocked, Early
<1> QED
  BY <1>1, <1>2, <1>3, <1>4

\* ... and so does the shutdown.
LEMMA ShutdownInv ==
  ASSUME ServerInv, PrepareShutdown \/ SkipShutdown \/ RequestLF \/ StopAcceptLoop \/ StopWoken \/ Requested
  PROVE  ServerInv'
<1> USE SubMaster DEF lfvars, avars, wvars, svars, ServerInv, TypeOK, NotYetAsked, ManagersHeld, BlockedSoFar, EndAsked, Unblocked, Early, Stopping
<1>1. CASE PrepareShutdown
  <2>1. fTerminationMutex' \in BOOLEAN /\ LFTypeOK'
    BY <1>1 DEF PrepareShutdown, LFTypeOK
  <2>2. TypeOK'
    BY <1>1, <2>1 DEF PrepareShutdown
  <2>3. ManagersHeld'
    BY <1>1 DEF PrepareShutdown
  <2> QED
    BY <1>1, <2>2, <2>3 DEF PrepareShutdown
<1>2. CASE RequestLF
  <2>1. /\ LFTypeOK' /\ fPoolState' = "asked"
        /\ \A t \in Threads : lpc'[t] = "left" => lpc[t] = "left"
    BY <1>2, TerminationKeeps DEF RequestLF
  <2> QED
    BY <1>2, <2>1 DEF RequestLF
<1>3. CASE StopAcceptLoop
  <2>1. /\ fAlive' = FALSE /\ fAlive' \in BOOLEAN /\ fStopped' \in BOOLEAN
        /\ connection' \in {"none", "made", "failed"} /\ LFTypeOK'
    BY <1>3 DEF StopAcceptLoop, LFTypeOK
  <2>2. TypeOK'
    BY <1>3, <2>1 DEF StopAcceptLoop
  <2>3. NotYetAsked'
    BY <1>3, <2>1 DEF StopAcceptLoop
  <2>4. ManagersHeld'
    <3>1. hpc \in Stopping /\ hs = "acc" /\ hpc' \in Stopping /\ UNCHANGED <<hs, fPoolState, spc, mpc, managers>>
      BY <1>3 DEF StopAcceptLoop
    <3>2. UNCHANGED <<fTerminationMutex, fbServerIsInitialized>> /\ (mpc \notin {"terminate", "end"})
      BY <1>3 DEF StopAcceptLoop
    <3>3. ASSUME ~fbServerIsInitialized, spc # "end" PROVE ~EndAsked(Sub)'
      <4>1. ~EndAsked(Sub) /\ hs # Sub
        BY <3>1, <3>3
      <4>2. Sub = "lf"
        BY <3>1, <4>1 DEF Servers
      <4> QED
        BY <3>1, <4>1, <4>2
    <3> QED
      BY <3>1, <3>2, <3>3 DEF ManagersHeld
  <2> QED
    BY <1>3, <2>2, <2>3, <2>4 DEF StopAcceptLoop
<1>4. CASE StopWoken
  BY <1>4 DEF StopWoken, LFTypeOK
<1>5. CASE Requested
  <2>1. fTerminationMutex' \in BOOLEAN /\ LFTypeOK'
    BY <1>5 DEF Requested, LFTypeOK
  <2> QED
    BY <1>5, <2>1 DEF Requested
<1>6. CASE SkipShutdown
  BY <1>6 DEF SkipShutdown, LFTypeOK
<1> QED
  BY <1>1, <1>2, <1>3, <1>4, <1>5, <1>6

\* The threads that run the servers keep it: a pool whose threads have left
\* was asked to end, so none returns from Run before the shutdown.
LEMMA RunnersInv ==
  ASSUME ServerInv, Runners
  PROVE  ServerInv'
<1> USE SubMaster DEF RunnerOnly, lfvars, avars, wvars, hvars, ServerInv, TypeOK, NotYetAsked, ManagersHeld, BlockedSoFar, EndAsked, Unblocked, Early, Stopping
<1>1. CASE SubReturns
  <2>1. EndAsked(Sub)
    BY <1>1, ThreadsExist DEF SubReturns, Joined, AllLeft
  <2> QED
    BY <1>1, <2>1 DEF SubReturns, LFTypeOK
<1>2. ASSUME NEW s \in Servers, DeleteManager(s)
      PROVE  /\ LFTypeOK'
             /\ \A t \in Threads : lpc'[t] = "left" => lpc[t] = "left"
             /\ fPoolState # fPoolState' => s = "lf" /\ fPoolState' = "asked"
             /\ s # "lf" => UNCHANGED lfvars
             /\ managers' = managers \ {s}
  BY <1>2, TerminationKeeps DEF DeleteManager, LFTypeOK
<1>3. CASE SubTerminates
  <2>1. EndAsked(Sub) /\ hpc \notin Early
    BY <1>3 DEF SubTerminates
  <2>2. fbServerIsInitialized' = FALSE /\ fbServerIsInitialized' \in BOOLEAN /\ DeleteManager(Sub)
    BY <1>3, <2>1 DEF SubTerminates, TerminateServer
  <2> QED
    BY <1>2, <1>3, <2>1, <2>2 DEF SubTerminates, Servers
<1>4. CASE MasterReturns
  BY <1>4 DEF MasterReturns, LFTypeOK
<1>5. CASE HandlerGone
  BY <1>5 DEF HandlerGone, LFTypeOK
<1>6. CASE MasterTerminates
  BY <1>2, <1>6 DEF MasterTerminates, Servers
<1> QED
  BY <1>1, <1>3, <1>4, <1>5, <1>6 DEF Runners

\* The whole server, for both kinds of master.
THEOREM LifeCycle == Spec => []ServerInv
<1>1. ServerInv /\ [Next]_vars => ServerInv'
  <2> SUFFICES ASSUME ServerInv, [Next]_vars PROVE ServerInv'
    OBVIOUS
  <2>1. CASE UNCHANGED vars
    BY <2>1 DEF vars, lfvars, avars, wvars, hvars, svars, LFTypeOK, ServerInv, TypeOK, NotYetAsked,
       ManagersHeld, BlockedSoFar, EndAsked, Unblocked
  <2> QED
    BY <2>1, PoolThreadsInv, AcceptorInv, SignalInv, ReinitInv, ShutdownInv, RunnersInv
       DEF Next, Handler
<1> QED
  BY <1>1, ServerInit, PTL DEF Spec

\* The variables of the server have their types.
COROLLARY TypeCorrect == Spec => []TypeOK
<1>1. ServerInv => TypeOK
  BY DEF ServerInv
<1> QED
  BY <1>1, LifeCycle, PTL

\* GlobalReinit leaves nothing blocked behind.
COROLLARY Open == Spec => []IdleMeansOpen
<1>1. ServerInv => IdleMeansOpen
  BY MasterKind, SubMaster DEF ServerInv, BlockedSoFar, Unblocked, IdleMeansOpen, Servers
<1> QED
  BY <1>1, LifeCycle, PTL

\* No pool manager is used after it was deleted.
COROLLARY Managers == Spec => []ManagerAlive
<1>1. ServerInv => ManagerAlive
  <2> SUFFICES ASSUME ServerInv,
        hpc \in {"block", "await", "unblock", "request", "stopwait", "stopwoken", "requested"}
      PROVE  hs \in managers
    BY DEF ManagerAlive
  <2>1. hs = Sub => spc # "end"
    BY DEF ServerInv, NotYetAsked, ManagersHeld, EndAsked, Early, Stopping
  <2>2. mpc # "end"
    BY DEF ServerInv, ManagersHeld
  <2> QED
    BY <2>1, <2>2 DEF ServerInv, TypeOK, ManagersHeld
<1> QED
  BY <1>1, LifeCycle, PTL

\* With an accept loop for the master, every step of the server is one the
\* pool by itself could take, or none of its steps.
LEMMA ServerUsesPool ==
  ASSUME Master = "acc", ServerInv, Alternating, [Next]_vars
  PROVE  Alternating' /\ [LFNext]_lfvars
<1>0. Sub = "lf"
  BY SubMaster DEF Servers
<1> USE <1>0 DEF vars, avars, wvars, hvars, svars, Alternating
<1>1. CASE UNCHANGED vars
  BY <1>1 DEF lfvars
<1>2. CASE PoolThreads
  <2>1. open' = open
    BY <1>2, PoolThreadsKeep DEF PoolThreads, ServerInv, TypeOK
  <2> QED
    BY <1>2, <2>1 DEF PoolThreads, LFNext
<1>3. CASE AcceptLoop \/ ClientConnects \/ AcceptFails \/ RequestDone
  BY <1>3 DEF lfvars, AcceptLoop, RunAcceptLoop, LoopHead, ClientConnects, StopperConnects, Accepted,
     AcceptFails, Enter, RequestDone, LoopStopped, SignalStopped, AcceptorOnly
<1>4. CASE Hup \/ Term \/ AwaitEmpty \/ AwaitTimeout \/ Reset \/ ResetFails
  BY <1>4 DEF lfvars, Hup, Term, AwaitEmpty, AwaitTimeout, Reset, ResetFails
<1>5. CASE ServerBlock
  BY <1>5 DEF ServerInv, TypeOK, Servers, ServerBlock, PoolBlock, BlockRequests, LFNext, lfvars
<1>6. CASE ServerUnblock
  <2>1. CASE hs = "lf"
    BY <1>6, <2>1 DEF ServerUnblock, PoolUnblock, UnblockRequests, LFNext
  <2>2. CASE hs = "acc"
    BY <1>6, <2>2 DEF ServerUnblock, PoolUnblock, lfvars
  <2> QED
    BY <2>1, <2>2 DEF ServerInv, TypeOK, Servers
<1>7. CASE PrepareShutdown \/ SkipShutdown \/ RequestLF \/ StopAcceptLoop \/ StopWoken \/ Requested
  BY <1>7 DEF lfvars, PrepareShutdown, SkipShutdown, RequestLF, StopAcceptLoop, StopWoken, Requested, LFNext
<1>8. CASE Runners
  <2>1. hpc \in Early => spc # "sync" /\ mpc # "terminate"
    BY DEF ServerInv, NotYetAsked, ManagersHeld, EndAsked, Early
  <2> QED
    BY <1>8, <2>1 DEF lfvars, Runners, SubReturns, SubTerminates, MasterReturns, HandlerGone,
       MasterTerminates, TerminateServer, DeleteManager, RunnerOnly, Early, LFNext, RequestTermination
<1> QED
  BY <1>1, <1>2, <1>3, <1>4, <1>5, <1>6, <1>7, <1>8 DEF Next, Handler

\* The server implements the pool by itself: GlobalReinit blocks and unblocks
\* the pool in turn, which is all that LFSpec asks of its user.
THEOREM ServerImplementsPool ==
  ASSUME Master = "acc"
  PROVE  Spec => LFSpec
<1>1. Init => LFInit /\ Alternating
  BY DEF Init, LFInit, Alternating
<1>2. ServerInv /\ Alternating /\ [Next]_vars => Alternating' /\ [LFNext]_lfvars
  BY ServerUsesPool
<1> QED
  BY <1>1, <1>2, LifeCycle, PTL DEF Spec, LFSpec

\* One thread at most leads, whatever the handler does to the pool.
COROLLARY LeaderInServer ==
  ASSUME Master = "acc"
  PROVE  Spec => []LeaderAlone
BY ServerImplementsPool, OneLeader, PTL

-----------------------------------------------------------------------------
(* The workers behind the accept loop, for both kinds of master.           *)

\* AwaitEmpty waits for a pool that is blocked already, and what it has seen
\* stays true until the pool is unblocked.  A module's pool must stay empty
\* while the handler waits for the master's.
QuietSoFar ==
  /\ hpc = "await" /\ hs = "acc" => fBlockRequestHandling
  /\ hpc = "reset" \/ (Sub = "acc" /\ hpc \in {"block", "await"} /\ hs = Master)
       => fBlockRequestHandling /\ active = 0

\* Nobody but BlockRequests and UnblockRequests of the handler, Enter and the
\* end of a request concerns the worker pool.
LEMMA WorkersLeftAlone ==
  ASSUME [Next]_vars, ~Enter, ~RequestDone, ~ServerBlock, ~ServerUnblock
  PROVE  UNCHANGED wvars
<1> USE DEF vars, AcceptorOnly, RunnerOnly
<1>1. CASE UNCHANGED vars \/ PoolThreads
  BY <1>1 DEF PoolThreads
<1>2. CASE AcceptLoop \/ ClientConnects \/ AcceptFails
  BY <1>2 DEF AcceptLoop, RunAcceptLoop, LoopHead, ClientConnects, StopperConnects, Accepted,
     AcceptFails, LoopStopped, SignalStopped
<1>3. CASE Hup \/ Term \/ Handler
  BY <1>3 DEF Hup, Term, Handler, AwaitEmpty, AwaitTimeout, Reset, ResetFails, PrepareShutdown,
     SkipShutdown, RequestLF, StopAcceptLoop, StopWoken, Requested
<1>4. CASE Runners
  BY <1>4 DEF Runners, SubReturns, SubTerminates, MasterReturns, HandlerGone, MasterTerminates
<1> QED
  BY <1>1, <1>2, <1>3, <1>4 DEF Next

\* How far GlobalReinit has come, with every step of the server.
LEMMA QuietStep ==
  ASSUME TypeOK, QuietSoFar, [Next]_vars
  PROVE  QuietSoFar'
<1> USE SubMaster DEF QuietSoFar
<1>1. CASE Enter \/ RequestDone
  BY <1>1, Bounds DEF Enter, RequestDone, hvars, TypeOK
<1>2. CASE ServerBlock
  <2>1. hpc = "block" /\ hpc' = "await" /\ hs' = hs /\ PoolBlock(hs)
    BY <1>2 DEF ServerBlock
  <2>2. active' = active /\ fBlockRequestHandling' = (hs = "acc" \/ fBlockRequestHandling)
    BY <2>1 DEF PoolBlock, wvars, TypeOK, Servers
  <2> QED
    BY <2>1, <2>2 DEF TypeOK, Servers
<1>3. CASE ServerUnblock
  BY <1>3 DEF ServerUnblock
<1>4. ASSUME UNCHANGED wvars, AwaitEmpty
      PROVE  QuietSoFar'
  BY <1>4 DEF AwaitEmpty, PoolEmpty, wvars, TypeOK, Servers
<1>5. ASSUME UNCHANGED wvars, UNCHANGED <<hpc, hs>>
      PROVE  QuietSoFar'
  BY <1>5 DEF wvars
<1>6. ASSUME UNCHANGED wvars, ~ServerBlock, ~ServerUnblock, ~AwaitEmpty, ~Enter, ~RequestDone
      PROVE  QuietSoFar'
  <2>1. CASE Hup
    BY <1>6, <2>1 DEF Hup
  <2>2. CASE Term \/ AwaitTimeout \/ Reset \/ ResetFails
    BY <1>6, <2>2 DEF Term, AwaitTimeout, Reset, ResetFails
  <2>3. CASE PrepareShutdown \/ SkipShutdown \/ RequestLF \/ StopAcceptLoop \/ StopWoken \/ Requested
    BY <1>6, <2>3 DEF PrepareShutdown, SkipShutdown, RequestLF, StopAcceptLoop, StopWoken, Requested
  <2>4. CASE UNCHANGED vars \/ PoolThreads \/ Runners
    BY <1>5, <1>6, <2>4 DEF vars, PoolThreads, Runners, SubReturns, SubTerminates, MasterReturns,
       HandlerGone, MasterTerminates, RunnerOnly, hvars
  <2>5. CASE AcceptLoop \/ ClientConnects \/ AcceptFails
    <3>1. CASE SignalStopped
      BY <1>6, <3>1 DEF SignalStopped, wvars
    <3>2. ASSUME ~SignalStopped PROVE UNCHANGED <<hpc, hs>>
      BY <1>6, <2>5, <3>2 DEF AcceptLoop, RunAcceptLoop, LoopHead, ClientConnects, StopperConnects, Accepted,
         AcceptFails, LoopStopped, AcceptorOnly, hvars
    <3> QED
      BY <1>5, <1>6, <3>1, <3>2
  <2> QED
    BY <1>6, <2>1, <2>2, <2>3, <2>4, <2>5 DEF Next, Handler
<1> QED
  BY <1>1, <1>2, <1>3, <1>4, <1>6, WorkersLeftAlone

\* While the modules are reset, no worker has a request and none gets one.
THEOREM WorkersAtRest == Spec => []AcceptorQuiet
<1>1. Init => QuietSoFar
  BY DEF Init, QuietSoFar
<1>2. ServerInv /\ QuietSoFar /\ [Next]_vars => QuietSoFar'
  BY QuietStep DEF ServerInv
<1>3. QuietSoFar => AcceptorQuiet
  BY DEF QuietSoFar, AcceptorQuiet
<1> QED
  BY <1>1, <1>2, <1>3, LifeCycle, PTL DEF Spec

\* What the server sees of its workers is what the worker pool by itself was
\* proved to promise (theorem Implements of WorkerPoolProofs): the two models
\* meet in RequestPool.
THEOREM ServerSeesPool == Spec => WorkersPool!PSpec
<1>1. Init => WorkersPool!PInit
  BY DEF Init, WorkersPool!PInit
<1>2. ServerInv /\ [Next]_vars => [WorkersPool!PNext]_(WorkersPool!pvars)
  <2> SUFFICES ASSUME ServerInv, [Next]_vars
               PROVE  WorkersPool!PNext \/ UNCHANGED WorkersPool!pvars
    OBVIOUS
  <2>1. ASSUME UNCHANGED wvars PROVE UNCHANGED WorkersPool!pvars
    BY <2>1 DEF wvars, WorkersPool!pvars
  <2>2. CASE Enter
    BY <2>2 DEF Enter, WorkersPool!Begin, WorkersPool!PNext
  <2>3. CASE RequestDone
    BY <2>3 DEF RequestDone, WorkersPool!End, WorkersPool!PNext
  <2>4. CASE ServerBlock \/ ServerUnblock
    <3>1. UNCHANGED wvars \/ \E b \in BOOLEAN : fBlockRequestHandling' = b /\ UNCHANGED active
      BY <2>4 DEF ServerBlock, PoolBlock, ServerUnblock, PoolUnblock
    <3> QED
      BY <2>1, <3>1 DEF WorkersPool!SetBlocked, WorkersPool!PNext
  <2> QED
    BY <2>1, <2>2, <2>3, <2>4, WorkersLeftAlone
<1> QED
  BY <1>1, <1>2, LifeCycle, PTL DEF Spec, WorkersPool!PSpec
=============================================================================
