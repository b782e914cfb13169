------------------------------- MODULE Queue -------------------------------
(***************************************************************************)
(* QueueBase of modules/Queueing/Queue.h: a bounded queue with a semaphore *)
(* for the empty and one for the full slots, whose put side and get side   *)
(* can be blocked while callers are inside.                                *)
(*                                                                         *)
(* Put and Get are mirror images, so both are one set of actions with the  *)
(* side as parameter: tokens["put"] is fSemaEmptySlots, tokens["get"] is   *)
(* fSemaFullSlots, count[s] is fBlockingPutCount or fBlockingGetCount.     *)
(* Elements are moved under fQueueLock only, so the container is its size. *)
(* A section under a lock is one step, except that Block keeps fQueueLock  *)
(* while it waits.  fBlockedLock is the lock of module RWLock.             *)
(***************************************************************************)
EXTENDS Integers, FiniteSets

CONSTANTS
  Threads,     \* the callers
  None,        \* no thread
  QueueSize,   \* fQueueSize
  MaxBlocks    \* bound on the calls of Block in the model

ASSUME ThreadsFinite == IsFiniteSet(Threads)
ASSUME NoneNotThread == None \notin Threads
ASSUME QueueSizeNat  == QueueSize \in Nat

Sides == {"put", "get"}

VARIABLES
  size,        \* fContainer.size()
  tokens,      \* the values of the two semaphores
  count,       \* blocking callers inside Put and Get
  feBlocked,   \* the blocked sides
  fAlive,      \* fAlive = 0xf007f007
  fQueueLock,  \* the thread that keeps fQueueLock over a wait
  pc,          \* where each thread is
  arg,         \* the side of its Put or Get, the sides Block still has to empty
  destroyer,   \* the thread in the destructor
  blocks,      \* the number of calls of Block, for MaxBlocks
  sealed       \* history: sides whose Block has finished and that no UnBlock
               \* opened since

vars == <<size, tokens, count, feBlocked, fAlive, fQueueLock, pc, arg, destroyer, blocks, sealed>>

\* "out"        in no call
\* "enter"      Put or Get: side was open, LockedValueIncrementDecrementEntry is next
\* "acquire"    in Acquire of the side's semaphore
\* "acquired"   has the token, IsAlive and IsBlocked of DoPut or DoGet are next
\* "do"         has found the side open, fQueueLock is next
\* "leave"      the destructor of LockedValueIncrementDecrementEntry is next
\* "try", "tryAcquired", "tryDo"   the same places with bTryLock
\* "lock"       Block: feBlocked is set, fQueueLock is next
\* "release"    Block: at the test of a release loop
\* "relWait"    Block: waits on fBlockingPutCond or fBlockingGetCond
\* "flush"      EmptyQueue: fQueueLock is next
\* "kill"       destructor: Block is done, fQueueLock is next
PCs == {"out", "enter", "acquire", "acquired", "do", "leave", "try", "tryAcquired",
        "tryDo", "lock", "release", "relWait", "flush", "kill"}

Goto(t, l) == pc' = [pc EXCEPT ![t] = l]

\* The call of t ends.
Return(t) == Goto(t, "out") /\ arg' = [arg EXCEPT ![t] = {}]

Other(s) == IF s = "put" THEN "get" ELSE "put"

\* IsBlocked(aSide), for a set of sides.
IsBlocked(S) == ~fAlive \/ S \subseteq feBlocked

-----------------------------------------------------------------------------
\* The constructor, which ends with UnBlock().
Init ==
  /\ size = 0
  /\ tokens = [s \in Sides |-> IF s = "put" THEN QueueSize ELSE 0]
  /\ count = [s \in Sides |-> 0]
  /\ feBlocked = {}
  /\ fAlive = TRUE
  /\ fQueueLock = None
  /\ pc = [t \in Threads |-> "out"]
  /\ arg = [t \in Threads |-> {}]
  /\ destroyer = None
  /\ blocks = 0
  /\ sealed = {}

\* Put or Get up to the first IsBlocked; a blocked side answers eBlocked.
Call(t, s, first) ==
  /\ pc[t] = "out"
  /\ ~IsBlocked({s})
  /\ Goto(t, first)
  /\ arg' = [arg EXCEPT ![t] = {s}]
  /\ UNCHANGED <<size, tokens, count, feBlocked, fAlive, fQueueLock, destroyer, blocks, sealed>>

CallBlocked(t, s) ==
  /\ pc[t] = "out"
  /\ IsBlocked({s})
  /\ UNCHANGED vars

\* LockedValueIncrementDecrementEntry counts the caller, then IsAlive().
Enter(t, s) ==
  /\ pc[t] = "enter" /\ arg[t] = {s}
  /\ count' = [count EXCEPT ![s] = @ + 1]
  /\ Goto(t, IF fAlive THEN "acquire" ELSE "leave")
  /\ UNCHANGED <<size, tokens, feBlocked, fAlive, fQueueLock, arg, destroyer, blocks, sealed>>

\* Acquire, or a successful TryAcquire.
Acquire(t, s) ==
  /\ pc[t] \in {"acquire", "try"} /\ arg[t] = {s}
  /\ tokens[s] > 0
  /\ tokens' = [tokens EXCEPT ![s] = @ - 1]
  /\ Goto(t, IF pc[t] = "acquire" THEN "acquired" ELSE "tryAcquired")
  /\ UNCHANGED <<size, count, feBlocked, fAlive, fQueueLock, arg, destroyer, blocks, sealed>>

\* TryAcquire fails: eFull or eEmpty.
TryFails(t, s) ==
  /\ pc[t] = "try" /\ arg[t] = {s}
  /\ tokens[s] = 0
  /\ Return(t)
  /\ UNCHANGED <<size, tokens, count, feBlocked, fAlive, fQueueLock, destroyer, blocks, sealed>>

\* IsAlive() in Put or Get, then IsBlocked in DoPut or DoGet.  Only a dead
\* queue gets the token back.
Check(t, s) ==
  /\ pc[t] = "acquired" /\ arg[t] = {s}
  /\ \/ ~fAlive /\ tokens' = [tokens EXCEPT ![s] = @ + 1] /\ Goto(t, "leave")
     \/ fAlive /\ IsBlocked({s}) /\ Goto(t, "leave") /\ UNCHANGED tokens
     \/ ~IsBlocked({s}) /\ Goto(t, "do") /\ UNCHANGED tokens
  /\ UNCHANGED <<size, count, feBlocked, fAlive, fQueueLock, arg, destroyer, blocks, sealed>>

\* With bTryLock there is only the test in DoPut or DoGet.
TryCheck(t, s) ==
  /\ pc[t] = "tryAcquired" /\ arg[t] = {s}
  /\ \/ IsBlocked({s}) /\ Return(t)
     \/ ~IsBlocked({s}) /\ Goto(t, "tryDo") /\ UNCHANGED arg
  /\ UNCHANGED <<size, tokens, count, feBlocked, fAlive, fQueueLock, destroyer, blocks, sealed>>

\* Mutant: Release of the other side's semaphore is forgotten.
Do_NoRelease(t, s) ==
  /\ pc[t] \in {"do", "tryDo"} /\ arg[t] = {s}
  /\ fQueueLock = None
  /\ \/ (s = "put" \/ size > 0) /\ size' = IF s = "put" THEN size + 1 ELSE size - 1
     \/ s = "get" /\ size = 0 /\ UNCHANGED size
  /\ \/ pc[t] = "do" /\ Goto(t, "leave") /\ UNCHANGED arg
     \/ pc[t] = "tryDo" /\ Return(t)
  /\ UNCHANGED <<tokens, count, feBlocked, fAlive, fQueueLock, destroyer, blocks, sealed>>

\* DoPut and DoGet under fQueueLock: one element more or less and one token
\* for the other side, or "accessed empty Queue!?".
Do(t, s) ==
  /\ pc[t] \in {"do", "tryDo"} /\ arg[t] = {s}
  /\ fQueueLock = None
  /\ \/ /\ s = "put" \/ size > 0
        /\ size' = IF s = "put" THEN size + 1 ELSE size - 1
        /\ tokens' = [tokens EXCEPT ![Other(s)] = @ + 1]
     \/ /\ s = "get" /\ size = 0
        /\ UNCHANGED <<size, tokens>>
  /\ \/ pc[t] = "do" /\ Goto(t, "leave") /\ UNCHANGED arg
     \/ pc[t] = "tryDo" /\ Return(t)
  /\ UNCHANGED <<count, feBlocked, fAlive, fQueueLock, destroyer, blocks, sealed>>

\* Mutant: the caller is not uncounted.
Leave_NoDecrement(t, s) ==
  /\ pc[t] = "leave" /\ arg[t] = {s}
  /\ Return(t)
  /\ UNCHANGED <<size, tokens, count, feBlocked, fAlive, fQueueLock, destroyer, blocks, sealed>>

\* The destructor of LockedValueIncrementDecrementEntry: the Block that waits
\* for this side is signalled.  (Whoever waits keeps fQueueLock, so there is
\* at most one.)
Leave(t, s) ==
  /\ pc[t] = "leave" /\ arg[t] = {s}
  /\ count' = [count EXCEPT ![s] = IF @ > 0 THEN @ - 1 ELSE @]
  /\ pc' = [u \in Threads |-> IF u = t THEN "out"
                              ELSE IF pc[u] = "relWait" /\ s \in arg[u]
                                        /\ (s = "put" \/ "put" \notin arg[u])
                                THEN "release" ELSE pc[u]]
  /\ arg' = [arg EXCEPT ![t] = {}]
  /\ UNCHANGED <<size, tokens, feBlocked, fAlive, fQueueLock, destroyer, blocks, sealed>>

-----------------------------------------------------------------------------
\* Mutant: the empty slots are not given back.
IntEmptyQueue_NoRelease ==
  /\ tokens' = [tokens EXCEPT !["get"] = IF @ > size THEN @ - size ELSE 0]
  /\ size' = 0

\* IntEmptyQueue: every element takes a full slot along, if TryAcquire still
\* finds one, and leaves an empty slot.
IntEmptyQueue ==
  /\ tokens' = [s \in Sides |-> IF s = "put" THEN tokens[s] + size
                                ELSE IF tokens[s] > size THEN tokens[s] - size ELSE 0]
  /\ size' = 0

\* EmptyQueue: not when both sides are blocked.
EmptyQueue(t) ==
  /\ pc[t] = "out"
  /\ ~IsBlocked(Sides)
  /\ Goto(t, "flush")
  /\ UNCHANGED <<size, tokens, count, feBlocked, fAlive, fQueueLock, arg, destroyer, blocks, sealed>>

Flush(t) ==
  /\ pc[t] = "flush"
  /\ fQueueLock = None
  /\ IntEmptyQueue
  /\ Goto(t, "out")
  /\ UNCHANGED <<count, feBlocked, fAlive, fQueueLock, arg, destroyer, blocks, sealed>>

-----------------------------------------------------------------------------
\* Block(aSide) up to the end of the section under fBlockedLock; the
\* destructor starts with Block().
Block(t, S, d) ==
  /\ pc[t] = "out" /\ (d => destroyer = None)
  /\ fAlive
  /\ blocks < MaxBlocks
  /\ blocks' = blocks + 1
  /\ feBlocked' = feBlocked \cup S
  /\ destroyer' = IF d THEN t ELSE destroyer
  /\ arg' = [arg EXCEPT ![t] = S]
  /\ Goto(t, "lock")
  /\ UNCHANGED <<size, tokens, count, fAlive, fQueueLock, sealed>>

\* Block gets fQueueLock and keeps it to its end.
BlockLock(t) ==
  /\ pc[t] = "lock"
  /\ fQueueLock = None
  /\ fQueueLock' = t
  /\ Goto(t, "release")
  /\ UNCHANGED <<size, tokens, count, feBlocked, fAlive, arg, destroyer, blocks, sealed>>

\* IntReleaseBlockedPutters, IntReleaseBlockedGetters: as long as there are
\* callers inside, one token and a wait for one of them to leave.
ReleaseOne(t, s) ==
  /\ count[s] > 0
  /\ tokens' = [tokens EXCEPT ![s] = @ + 1]
  /\ Goto(t, "relWait")
  /\ UNCHANGED <<arg, fQueueLock, sealed>>

\* Mutant: Block does not wait for the callers that are inside.
AllReleased_NoWait(t, s) ==
  /\ arg' = [arg EXCEPT ![t] = @ \ {s}]
  /\ sealed' = sealed \cup (feBlocked \cap {s})
  /\ IF arg[t] = {s}
       THEN fQueueLock' = None /\ Goto(t, IF destroyer = t THEN "kill" ELSE "out")
       ELSE UNCHANGED <<fQueueLock, pc>>
  /\ UNCHANGED tokens

AllReleased(t, s) ==
  /\ count[s] = 0
  /\ arg' = [arg EXCEPT ![t] = @ \ {s}]
  /\ sealed' = sealed \cup (feBlocked \cap {s})
  /\ IF arg[t] = {s}
       THEN fQueueLock' = None /\ Goto(t, IF destroyer = t THEN "kill" ELSE "out")
       ELSE UNCHANGED <<fQueueLock, pc>>
  /\ UNCHANGED tokens

IntReleaseBlocked(t) ==
  /\ pc[t] = "release"
  /\ \E s \in arg[t] : /\ s = "put" \/ "put" \notin arg[t]
                       /\ ReleaseOne(t, s) \/ AllReleased(t, s)
  /\ UNCHANGED <<size, count, feBlocked, fAlive, destroyer, blocks>>

\* UnBlock(aSide)
UnBlock(t, S) ==
  /\ pc[t] = "out"
  /\ fAlive
  /\ feBlocked' = feBlocked \ S
  /\ sealed' = sealed \ S
  /\ UNCHANGED <<size, tokens, count, fAlive, fQueueLock, pc, arg, destroyer, blocks>>

\* The rest of the destructor.
Kill(t) ==
  /\ pc[t] = "kill"
  /\ fQueueLock = None
  /\ fAlive' = FALSE
  /\ IntEmptyQueue
  /\ Goto(t, "out")
  /\ UNCHANGED <<count, feBlocked, fQueueLock, arg, destroyer, blocks, sealed>>

-----------------------------------------------------------------------------
\* A step of a call of Put or Get that has begun.
Inside(t) == \E s \in Sides : \/ Enter(t, s) \/ Acquire(t, s) \/ TryFails(t, s)
                              \/ Check(t, s) \/ TryCheck(t, s)
                              \/ Do(t, s) \/ Leave(t, s)

PutOrGet(t) == \/ \E s \in Sides : \/ Call(t, s, "enter") \/ Call(t, s, "try")
                                   \/ CallBlocked(t, s)
               \/ Inside(t)

Emptying(t) == EmptyQueue(t) \/ Flush(t)

Blocking(t) == BlockLock(t) \/ IntReleaseBlocked(t)

Admin(t) == \/ \E S \in SUBSET Sides \ {{}} : Block(t, S, FALSE) \/ UnBlock(t, S)
            \/ Blocking(t)

Destructor(t) == Block(t, Sides, TRUE) \/ Kill(t)

\* Every operation of the queue.
Next == \E t \in Threads : PutOrGet(t) \/ Emptying(t) \/ Admin(t) \/ Destructor(t)

Spec == Init /\ [][Next]_vars

\* The queue as long as nobody blocks a side or empties it.
ClientNext == \E t \in Threads : PutOrGet(t)

ClientSpec == Init /\ [][ClientNext]_vars

-----------------------------------------------------------------------------
At(S) == {t \in Threads : pc[t] \in S}

\* The callers that hold a token of side s.
Holding(s) == {t \in At({"acquired", "do", "tryAcquired", "tryDo"}) : arg[t] = {s}}

\* The blocking callers that fBlockingPutCount or fBlockingGetCount counts.
Counted(s) == {t \in At({"acquire", "acquired", "do", "leave"}) : arg[t] = {s}}

\* The variables have their types.
TypeOK ==
  /\ size \in Nat
  /\ tokens \in [Sides -> Nat]
  /\ count \in [Sides -> Nat]
  /\ feBlocked \in SUBSET Sides /\ sealed \in SUBSET Sides
  /\ fAlive \in BOOLEAN
  /\ fQueueLock \in Threads \cup {None} /\ destroyer \in Threads \cup {None}
  /\ pc \in [Threads -> PCs]
  /\ arg \in [Threads -> SUBSET Sides]

\* The counters that tell Block how long to wait are exact.
CountExact == \A s \in Sides : count[s] = Cardinality(Counted(s))

\* Once Block(aSide) has returned, and until UnBlock, no blocking caller that
\* had found the side open is still on its way to the container: Block waits
\* for all of them, and later ones see feBlocked.
SealedIsQuiet == \A s \in sealed : At({"do"}) \cap Counted(s) = {}

\* Every empty slot is free, filled, or in the hands of a caller.
SlotsAddUp == tokens["put"] + Cardinality(Holding("put")) + size = QueueSize

\* As long as nobody has called Block, empty slots are conserved, also across
\* EmptyQueue.  (Block hands out tokens of its own: IntReleaseBlockedPutters.)
SlotsConserved == blocks = 0 => SlotsAddUp

\* Every element has a full slot token.
TokensCoverElements == tokens["get"] + Cardinality(Holding("get")) >= size

\* As long as nobody has called Block, no getter sleeps while there is
\* something to get.  After EmptyQueue there may be more tokens than elements:
\* those getters come back with eEmpty | eError.
ElementsAnnounced == blocks = 0 => TokensCoverElements

\* The queue never holds more elements than fQueueSize ("/QueueSize ...
\* number of elements to buffer in the Queue").
CapacityRespected == blocks = 0 => size <= QueueSize

\* DoGet finds an element: the branch "accessed empty Queue!?" "should not be
\* possible by its design".
GetFindsElement ==
  \A t \in At({"do", "tryDo"}) : arg[t] = {"get"} /\ fQueueLock = None => size > 0

\* "eFull: the queue was already full when trying to put an element": every
\* slot is taken, or reserved by a caller, when TryAcquire fails.
FullMeansFull ==
  blocks = 0 => \A t \in At({"try"}) : (arg[t] = {"put"} /\ tokens["put"] = 0 /\ fAlive)
                           => size + Cardinality(Holding("put")) >= QueueSize

\* Putters and getters never wait for each other: when both semaphores are
\* down, some caller holds a token and will raise one of them.
NoMutualWait ==
  QueueSize > 0 /\ (\A s \in Sides : tokens[s] = 0) => \E s \in Sides : Holding(s) # {}

=============================================================================
