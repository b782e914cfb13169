---------------------------- MODULE QueueProofs ----------------------------
(***************************************************************************)
(* Proofs about Queue for every finite set of callers and every QueueSize: *)
(* what the semaphores guarantee while no side is blocked, and what Block  *)
(* guarantees in every case.                                               *)
(***************************************************************************)
EXTENDS Queue, FiniteSetTheorems, TLAPS

\* Two sets of threads that differ at most in t differ in size as t decides.
LEMMA Differ ==
  ASSUME NEW t \in Threads
  PROVE  \A A, B \in SUBSET Threads :
           (\A u \in Threads : u # t => (u \in A <=> u \in B)) =>
             /\ Cardinality(A) \in Nat /\ Cardinality(B) \in Nat
             /\ (t \in A <=> t \in B) => Cardinality(B) = Cardinality(A)
             /\ t \notin A /\ t \in B => Cardinality(B) = Cardinality(A) + 1
             /\ t \in A /\ t \notin B => Cardinality(B) = Cardinality(A) - 1
<1> SUFFICES ASSUME NEW A \in SUBSET Threads, NEW B \in SUBSET Threads,
                    \A u \in Threads : u # t => (u \in A <=> u \in B)
             PROVE  /\ Cardinality(A) \in Nat /\ Cardinality(B) \in Nat
                    /\ (t \in A <=> t \in B) => Cardinality(B) = Cardinality(A)
                    /\ t \notin A /\ t \in B => Cardinality(B) = Cardinality(A) + 1
                    /\ t \in A /\ t \notin B => Cardinality(B) = Cardinality(A) - 1
  OBVIOUS
<1>1. IsFiniteSet(A) /\ IsFiniteSet(B)
  BY ThreadsFinite, FS_Subset
<1>2. Cardinality(A) \in Nat /\ Cardinality(B) \in Nat
  BY <1>1, FS_CardinalityType
<1>3. ASSUME t \in A <=> t \in B PROVE A = B
  BY <1>3
<1>4. ASSUME t \notin A, t \in B PROVE Cardinality(B) = Cardinality(A) + 1
  <2>1. B = A \cup {t}
    BY <1>4
  <2> QED
    BY <1>1, <1>4, <2>1, FS_AddElement
<1>5. ASSUME t \in A, t \notin B PROVE Cardinality(B) = Cardinality(A) - 1
  <2>1. B = A \ {t}
    BY <1>5
  <2> QED
    BY <1>1, <1>5, <2>1, FS_RemoveElement
<1> QED
  BY <1>2, <1>3, <1>4, <1>5

\* The steps of Put, Get and EmptyQueue, when no Block is waiting, move their
\* own thread only.
Only(t) ==
  /\ pc' \in [Threads -> PCs] /\ arg' \in [Threads -> SUBSET Sides]
  /\ \A u \in Threads : u # t => pc'[u] = pc[u] /\ arg'[u] = arg[u]

Holds(l) == l \in {"acquired", "do", "tryAcquired", "tryDo"}

\* How the number of token holders of a side changes in such a step.
LEMMA HoldingStep ==
  ASSUME TypeOK, NEW t \in Threads, Only(t), NEW s \in Sides
  PROVE  LET in  == Holds(pc[t]) /\ arg[t] = {s}
             in1 == Holds(pc'[t]) /\ arg'[t] = {s}
         IN  /\ Cardinality(Holding(s)) \in Nat /\ Cardinality(Holding(s)') \in Nat
             /\ (in <=> in1) => Cardinality(Holding(s)') = Cardinality(Holding(s))
             /\ ~in /\ in1 => Cardinality(Holding(s)') = Cardinality(Holding(s)) + 1
             /\ in /\ ~in1 => Cardinality(Holding(s)') = Cardinality(Holding(s)) - 1
<1>1. Holding(s) \in SUBSET Threads /\ Holding(s)' \in SUBSET Threads
  BY DEF Holding, At
<1>2. \A u \in Threads : u # t => (u \in Holding(s) <=> u \in Holding(s)')
  BY DEF Only, Holding, At
<1>3. /\ t \in Holding(s) <=> Holds(pc[t]) /\ arg[t] = {s}
      /\ t \in Holding(s)' <=> Holds(pc'[t]) /\ arg'[t] = {s}
  BY DEF Holding, At, Holds
<1>4. /\ Cardinality(Holding(s)) \in Nat /\ Cardinality(Holding(s)') \in Nat
      /\ (t \in Holding(s) <=> t \in Holding(s)')
           => Cardinality(Holding(s)') = Cardinality(Holding(s))
      /\ t \notin Holding(s) /\ t \in Holding(s)'
           => Cardinality(Holding(s)') = Cardinality(Holding(s)) + 1
      /\ t \in Holding(s) /\ t \notin Holding(s)'
           => Cardinality(Holding(s)') = Cardinality(Holding(s)) - 1
  BY <1>1, <1>2, Differ
<1> QED
  BY <1>3, <1>4

-----------------------------------------------------------------------------
\* The queue is open and nobody is in Block or in the destructor.
NobodyBlocks ==
  /\ fAlive = TRUE /\ feBlocked = {} /\ fQueueLock = None
  /\ \A t \in Threads : pc[t] \notin {"lock", "release", "relWait", "kill"}

OpenInv == TypeOK /\ NobodyBlocks /\ SlotsAddUp /\ TokensCoverElements

\* Without EmptyQueue every full slot token stands for an element.
TokensExact == tokens["get"] + Cardinality(Holding("get")) = size

\* A step whose thread holds no token before or after it, and that leaves the
\* container and the semaphores alone, or that keeps its token.
LEMMA Neutral ==
  ASSUME OpenInv, NEW t \in Threads, Only(t),
         \A s \in Sides : (Holds(pc[t]) /\ arg[t] = {s}) <=> (Holds(pc'[t]) /\ arg'[t] = {s}),
         UNCHANGED <<size, tokens, feBlocked, fAlive, fQueueLock, destroyer, sealed>>,
         count' \in [Sides -> Nat],
         pc'[t] \notin {"lock", "release", "relWait", "kill"}
  PROVE  OpenInv' /\ (TokensExact => TokensExact')
<1>1. TypeOK'
  BY DEF OpenInv, TypeOK, Only
<1>2. NobodyBlocks'
  BY DEF OpenInv, NobodyBlocks, Only
<1>3. \A s \in Sides : Cardinality(Holding(s)') = Cardinality(Holding(s))
  BY HoldingStep DEF OpenInv
<1>4. SlotsAddUp' /\ TokensCoverElements' /\ (TokensExact => TokensExact')
  BY <1>3 DEF OpenInv, SlotsAddUp, TokensCoverElements, TokensExact, Sides
<1> QED
  BY <1>1, <1>2, <1>4 DEF OpenInv

\* Every step of Put and Get keeps the slots and the announcements in order.
LEMMA PutOrGetStep ==
  ASSUME OpenInv, NEW t \in Threads, PutOrGet(t)
  PROVE  OpenInv' /\ (TokensExact => TokensExact')
<1> USE DEF OpenInv
<1>0. /\ pc \in [Threads -> PCs] /\ arg \in [Threads -> SUBSET Sides]
      /\ count \in [Sides -> Nat] /\ tokens \in [Sides -> Nat] /\ size \in Nat
  BY DEF TypeOK
<1>1. ASSUME NEW s \in Sides, NEW l \in {"enter", "try"}, Call(t, s, l)
      PROVE  OpenInv' /\ (TokensExact => TokensExact')
  <2>1. /\ pc[t] = "out" /\ pc'[t] = l /\ Only(t)
        /\ UNCHANGED <<size, tokens, count, feBlocked, fAlive, fQueueLock, destroyer, sealed>>
    BY <1>0, <1>1 DEF Call, Goto, Only, PCs
  <2> QED
    BY <1>0, <2>1, Neutral DEF Holds
<1>2. ASSUME NEW s \in Sides, CallBlocked(t, s)
      PROVE  OpenInv' /\ (TokensExact => TokensExact')
  BY <1>2 DEF CallBlocked, IsBlocked, NobodyBlocks
<1>3. ASSUME NEW s \in Sides, Enter(t, s)
      PROVE  OpenInv' /\ (TokensExact => TokensExact')
  <2>1. /\ pc[t] = "enter" /\ pc'[t] \in {"acquire", "leave"} /\ Only(t)
        /\ UNCHANGED <<size, tokens, feBlocked, fAlive, fQueueLock, destroyer, sealed>>
        /\ count' \in [Sides -> Nat]
    BY <1>0, <1>3 DEF Enter, Goto, Only, PCs
  <2> QED
    BY <2>1, Neutral DEF Holds
<1>4. ASSUME NEW s \in Sides, Acquire(t, s)
      PROVE  OpenInv' /\ (TokensExact => TokensExact')
  <2>1. /\ pc[t] \in {"acquire", "try"} /\ arg[t] = {s} /\ arg'[t] = {s}
        /\ pc'[t] \in {"acquired", "tryAcquired"} /\ Only(t)
        /\ UNCHANGED <<size, count, feBlocked, fAlive, fQueueLock, destroyer, sealed>>
    BY <1>0, <1>4 DEF Acquire, Goto, Only, PCs
  <2>2. /\ tokens' \in [Sides -> Nat] /\ tokens'[s] = tokens[s] - 1
        /\ \A r \in Sides : r # s => tokens'[r] = tokens[r]
    BY <1>0, <1>4 DEF Acquire
  <2>3. /\ Cardinality(Holding(s)') = Cardinality(Holding(s)) + 1
        /\ \A r \in Sides : r # s => Cardinality(Holding(r)') = Cardinality(Holding(r))
        /\ \A r \in Sides : Cardinality(Holding(r)) \in Nat
    <3>1. Cardinality(Holding(s)') = Cardinality(Holding(s)) + 1
      BY <2>1, HoldingStep DEF Holds
    <3>2. ASSUME NEW r \in Sides, r # s
          PROVE  Cardinality(Holding(r)') = Cardinality(Holding(r))
      <4>1. {r} # {s}
        BY <3>2
      <4> QED
        BY <2>1, <4>1, HoldingStep
    <3>3. \A r \in Sides : Cardinality(Holding(r)) \in Nat
      BY <2>1, HoldingStep
    <3> QED
      BY <3>1, <3>2, <3>3
  <2>4. TypeOK' /\ NobodyBlocks'
    BY <2>1, <2>2 DEF TypeOK, NobodyBlocks, Only
  <2>5. SlotsAddUp' /\ TokensCoverElements' /\ (TokensExact => TokensExact')
    BY <1>0, <2>1, <2>2, <2>3 DEF SlotsAddUp, TokensCoverElements, TokensExact, Sides
  <2> QED
    BY <2>4, <2>5
<1>5. ASSUME NEW s \in Sides, TryFails(t, s)
      PROVE  OpenInv' /\ (TokensExact => TokensExact')
  <2>1. /\ pc[t] = "try" /\ pc'[t] = "out" /\ Only(t)
        /\ UNCHANGED <<size, tokens, count, feBlocked, fAlive, fQueueLock, destroyer, sealed>>
    BY <1>0, <1>5 DEF TryFails, Return, Goto, Only, PCs
  <2> QED
    BY <1>0, <2>1, Neutral DEF Holds
<1>6. ASSUME NEW s \in Sides, Check(t, s)
      PROVE  OpenInv' /\ (TokensExact => TokensExact')
  <2>1. /\ pc[t] = "acquired" /\ pc'[t] = "do" /\ arg'[t] = arg[t] /\ Only(t)
        /\ UNCHANGED <<size, tokens, count, feBlocked, fAlive, fQueueLock, destroyer, sealed>>
    BY <1>0, <1>6 DEF Check, Goto, Only, PCs, IsBlocked, NobodyBlocks
  <2> QED
    BY <1>0, <2>1, Neutral DEF Holds
<1>7. ASSUME NEW s \in Sides, TryCheck(t, s)
      PROVE  OpenInv' /\ (TokensExact => TokensExact')
  <2>1. /\ pc[t] = "tryAcquired" /\ pc'[t] = "tryDo" /\ arg'[t] = arg[t] /\ Only(t)
        /\ UNCHANGED <<size, tokens, count, feBlocked, fAlive, fQueueLock, destroyer, sealed>>
    BY <1>0, <1>7 DEF TryCheck, Goto, Only, PCs, IsBlocked, NobodyBlocks
  <2> QED
    BY <1>0, <2>1, Neutral DEF Holds
<1>8. ASSUME NEW s \in Sides, Do(t, s)
      PROVE  OpenInv' /\ (TokensExact => TokensExact')
  <2>1. /\ pc[t] \in {"do", "tryDo"} /\ arg[t] = {s}
        /\ pc'[t] \in {"leave", "out"} /\ Only(t)
        /\ UNCHANGED <<count, feBlocked, fAlive, fQueueLock, destroyer, sealed>>
    BY <1>0, <1>8 DEF Do, Return, Goto, Only, PCs
  <2>2. /\ tokens' \in [Sides -> Nat] /\ size' \in Nat
        /\ \/ /\ s = "put" /\ size' = size + 1
              /\ tokens'["get"] = tokens["get"] + 1 /\ tokens'["put"] = tokens["put"]
           \/ /\ s = "get" /\ size > 0 /\ size' = size - 1
              /\ tokens'["put"] = tokens["put"] + 1 /\ tokens'["get"] = tokens["get"]
           \/ s = "get" /\ size = 0 /\ size' = 0 /\ tokens' = tokens
    BY <1>0, <1>8 DEF Do, Other, Sides
  <2>3. /\ Cardinality(Holding(s)') = Cardinality(Holding(s)) - 1
        /\ \A r \in Sides : r # s => Cardinality(Holding(r)') = Cardinality(Holding(r))
        /\ \A r \in Sides : Cardinality(Holding(r)) \in Nat /\ Cardinality(Holding(r)') \in Nat
    <3>1. Cardinality(Holding(s)') = Cardinality(Holding(s)) - 1
      BY <2>1, HoldingStep DEF Holds
    <3>2. ASSUME NEW r \in Sides, r # s
          PROVE  Cardinality(Holding(r)') = Cardinality(Holding(r))
      <4>1. {r} # {s}
        BY <3>2
      <4> QED
        BY <2>1, <4>1, HoldingStep DEF Holds
    <3>3. \A r \in Sides : Cardinality(Holding(r)) \in Nat /\ Cardinality(Holding(r)') \in Nat
      BY <2>1, HoldingStep
    <3> QED
      BY <3>1, <3>2, <3>3
  <2>4. TypeOK' /\ NobodyBlocks'
    BY <2>1, <2>2 DEF TypeOK, NobodyBlocks, Only
  <2>5. SlotsAddUp' /\ TokensCoverElements' /\ (TokensExact => TokensExact')
    BY <1>0, <2>1, <2>2, <2>3 DEF SlotsAddUp, TokensCoverElements, TokensExact, Sides
  <2> QED
    BY <2>4, <2>5
<1>9. ASSUME NEW s \in Sides, Leave(t, s)
      PROVE  OpenInv' /\ (TokensExact => TokensExact')
  <2>1. /\ pc[t] = "leave" /\ pc'[t] = "out" /\ Only(t)
        /\ UNCHANGED <<size, tokens, feBlocked, fAlive, fQueueLock, destroyer, sealed>>
        /\ count' \in [Sides -> Nat]
    BY <1>0, <1>9 DEF Leave, Only, PCs, NobodyBlocks
  <2> QED
    BY <2>1, Neutral DEF Holds
<1> QED
  BY <1>1, <1>2, <1>3, <1>4, <1>5, <1>6, <1>7, <1>8, <1>9 DEF PutOrGet, Inside

\* EmptyQueue turns every element back into an empty slot.
LEMMA EmptyingStep ==
  ASSUME OpenInv, NEW t \in Threads, Emptying(t)
  PROVE  OpenInv'
<1> USE DEF OpenInv
<1>0. /\ pc \in [Threads -> PCs] /\ arg \in [Threads -> SUBSET Sides]
      /\ count \in [Sides -> Nat] /\ tokens \in [Sides -> Nat] /\ size \in Nat
  BY DEF TypeOK
<1>1. CASE EmptyQueue(t)
  <2>1. /\ pc[t] = "out" /\ pc'[t] = "flush" /\ Only(t)
        /\ UNCHANGED <<size, tokens, count, feBlocked, fAlive, fQueueLock, destroyer, sealed>>
    BY <1>0, <1>1 DEF EmptyQueue, Goto, Only, PCs
  <2> QED
    BY <1>0, <2>1, Neutral DEF Holds
<1>2. CASE Flush(t)
  <2>1. /\ pc[t] = "flush" /\ pc'[t] = "out" /\ arg' = arg /\ Only(t)
        /\ UNCHANGED <<count, feBlocked, fAlive, fQueueLock, destroyer, sealed>>
    BY <1>0, <1>2 DEF Flush, Goto, Only, PCs
  <2>2. /\ size' = 0 /\ tokens' \in [Sides -> Nat]
        /\ tokens'["put"] = tokens["put"] + size
    BY <1>0, <1>2 DEF Flush, IntEmptyQueue, Sides
  <2>3. \A s \in Sides : /\ Cardinality(Holding(s)') = Cardinality(Holding(s))
                         /\ Cardinality(Holding(s)) \in Nat
    BY <2>1, HoldingStep DEF Holds
  <2>4. TypeOK' /\ NobodyBlocks'
    BY <2>1, <2>2 DEF TypeOK, NobodyBlocks, Only
  <2>5. SlotsAddUp' /\ TokensCoverElements'
    BY <1>0, <2>2, <2>3 DEF SlotsAddUp, TokensCoverElements, Sides
  <2> QED
    BY <2>4, <2>5
<1> QED
  BY <1>1, <1>2 DEF Emptying

\* The constructor establishes all of it.
LEMMA InitOpen == Init => OpenInv /\ TokensExact
<1> SUFFICES ASSUME Init PROVE OpenInv /\ TokensExact
  OBVIOUS
<1>1. \A s \in Sides : Holding(s) = {}
  BY DEF Init, Holding, At
<1>2. Cardinality({}) = 0
  BY FS_EmptySet
<1>3. TypeOK /\ NobodyBlocks
  BY QueueSizeNat DEF Init, TypeOK, NobodyBlocks, Sides, PCs
<1>4. SlotsAddUp /\ TokensCoverElements /\ TokensExact
  BY QueueSizeNat, <1>1, <1>2
     DEF Init, SlotsAddUp, TokensCoverElements, TokensExact, Sides
<1> QED
  BY <1>3, <1>4 DEF OpenInv

\* Holding is finite.
LEMMA HoldingNat ==
  ASSUME NEW s \in Sides
  PROVE  Cardinality(Holding(s)) \in Nat /\ (Holding(s) # {} => Cardinality(Holding(s)) > 0)
<1>1. IsFiniteSet(Holding(s))
  BY ThreadsFinite, FS_Subset, Holding(s) \subseteq Threads DEF Holding, At
<1> QED
  BY <1>1, FS_CardinalityType, FS_EmptySet

\* Until Block is called for the first time, with any number of putters,
\* getters, try-callers and calls of EmptyQueue and UnBlock, slots are
\* conserved and elements are announced.
OpenAtFirst == blocks \in Nat /\ (blocks = 0 => OpenInv)

THEOREM Open == Spec => []OpenAtFirst
<1>1. Init => OpenAtFirst
  BY InitOpen DEF Init, OpenAtFirst
<1>2. OpenAtFirst /\ [Next]_vars => OpenAtFirst'
  <2> SUFFICES ASSUME OpenAtFirst, [Next]_vars PROVE OpenAtFirst'
    OBVIOUS
  <2>1. CASE UNCHANGED vars
    BY <2>1 DEF OpenAtFirst, OpenInv, TypeOK, NobodyBlocks, SlotsAddUp, TokensCoverElements,
                Holding, At, vars
  <2>2. ASSUME NEW t \in Threads, PutOrGet(t) PROVE OpenAtFirst'
    <3>1. ASSUME NEW s \in Sides,
                 Call(t, s, "enter") \/ Call(t, s, "try") \/ CallBlocked(t, s)
          PROVE  blocks' = blocks
      BY <3>1 DEF Call, CallBlocked, vars
    <3>2. ASSUME NEW s \in Sides, Enter(t, s) \/ Acquire(t, s) \/ TryFails(t, s)
          PROVE  blocks' = blocks
      BY <3>2 DEF Enter, Acquire, TryFails
    <3>3. ASSUME NEW s \in Sides, Check(t, s) \/ TryCheck(t, s)
          PROVE  blocks' = blocks
      BY <3>3 DEF Check, TryCheck
    <3>4. ASSUME NEW s \in Sides, Do(t, s) \/ Leave(t, s)
          PROVE  blocks' = blocks
      BY <3>4 DEF Do, Leave
    <3>5. blocks' = blocks
      BY <2>2, <3>1, <3>2, <3>3, <3>4 DEF PutOrGet, Inside
    <3> QED
      BY <2>2, <3>5, PutOrGetStep DEF OpenAtFirst
  <2>3. ASSUME NEW t \in Threads, Emptying(t) PROVE OpenAtFirst'
    <3>1. blocks' = blocks
      BY <2>3 DEF Emptying, EmptyQueue, Flush
    <3> QED
      BY <2>3, <3>1, EmptyingStep DEF OpenAtFirst
  <2>4. ASSUME NEW t \in Threads, NEW S \in SUBSET Sides, NEW d \in BOOLEAN, Block(t, S, d)
        PROVE  OpenAtFirst'
    BY <2>4 DEF Block, OpenAtFirst
  <2>5. ASSUME NEW t \in Threads, NEW S \in SUBSET Sides, UnBlock(t, S) PROVE OpenAtFirst'
    BY <2>5 DEF UnBlock, OpenAtFirst, OpenInv, TypeOK, NobodyBlocks, SlotsAddUp,
                TokensCoverElements, Holding, At
  <2>6. ASSUME NEW t \in Threads, Blocking(t) \/ Kill(t) PROVE OpenAtFirst'
    <3>1. blocks' = blocks /\ pc[t] \in {"lock", "release", "kill"}
      BY <2>6 DEF Blocking, BlockLock, IntReleaseBlocked, Kill
    <3>2. ~OpenInv
      BY <3>1 DEF OpenInv, NobodyBlocks
    <3> QED
      BY <3>1, <3>2 DEF OpenAtFirst
  <2> QED
    BY <2>1, <2>2, <2>3, <2>4, <2>5, <2>6 DEF Next, Admin, Destructor, Sides
<1> QED
  BY <1>1, <1>2, PTL DEF Spec

\* Put, Get, their try variants and EmptyQueue conserve the empty slots.
COROLLARY Slots == Spec => []SlotsConserved
<1>1. OpenAtFirst => SlotsConserved
  BY DEF OpenAtFirst, OpenInv, SlotsConserved
<1> QED
  BY <1>1, Open, PTL

\* No getter sleeps in Acquire while there is an element to get.
COROLLARY Announced == Spec => []ElementsAnnounced
<1>1. OpenAtFirst => ElementsAnnounced
  BY DEF OpenAtFirst, OpenInv, ElementsAnnounced
<1> QED
  BY <1>1, Open, PTL

\* They never put more than fQueueSize elements into the container.
COROLLARY Capacity == Spec => []CapacityRespected
<1>1. OpenAtFirst => CapacityRespected
  BY HoldingNat, QueueSizeNat
     DEF OpenAtFirst, OpenInv, TypeOK, SlotsAddUp, CapacityRespected, Sides
<1> QED
  BY <1>1, Open, PTL

\* Put with bTryLock answers eFull only if all slots are taken or reserved.
COROLLARY Full == Spec => []FullMeansFull
<1>1. OpenAtFirst => FullMeansFull
  BY HoldingNat, QueueSizeNat DEF OpenAtFirst, OpenInv, TypeOK, SlotsAddUp, FullMeansFull, Sides
<1> QED
  BY <1>1, Open, PTL

-----------------------------------------------------------------------------
\* Without Block and EmptyQueue the semaphores are exact.
THEOREM Clients == ClientSpec => [](OpenInv /\ TokensExact)
<1>1. Init => OpenInv /\ TokensExact
  BY InitOpen
<1>2. OpenInv /\ TokensExact /\ [ClientNext]_vars => (OpenInv /\ TokensExact)'
  <2> SUFFICES ASSUME OpenInv, TokensExact, [ClientNext]_vars PROVE OpenInv' /\ TokensExact'
    OBVIOUS
  <2>1. CASE UNCHANGED vars
    BY <2>1 DEF OpenInv, TypeOK, NobodyBlocks, SlotsAddUp, TokensCoverElements,
                TokensExact, Holding, At, vars
  <2>2. ASSUME NEW t \in Threads, PutOrGet(t) PROVE OpenInv' /\ TokensExact'
    BY <2>2, PutOrGetStep
  <2> QED
    BY <2>1, <2>2 DEF ClientNext
<1> QED
  BY <1>1, <1>2, PTL DEF ClientSpec

\* The branch "accessed empty Queue!?" of DoGet is then never taken.
COROLLARY ElementFound == ClientSpec => []GetFindsElement
<1>1. OpenInv /\ TokensExact => GetFindsElement
  <2> SUFFICES ASSUME OpenInv, TokensExact,
                      NEW t \in At({"do", "tryDo"}), arg[t] = {"get"}
               PROVE  size > 0
    BY DEF GetFindsElement
  <2>1. t \in Holding("get")
    BY DEF Holding, At
  <2>2. Cardinality(Holding("get")) \in Nat /\ Cardinality(Holding("get")) > 0
    BY <2>1, HoldingNat DEF Sides
  <2> QED
    BY <2>2 DEF OpenInv, TypeOK, TokensExact, Sides
<1> QED
  BY <1>1, Clients, PTL

\* Putters and getters then never all sleep on the semaphores together.
COROLLARY Flowing == ClientSpec => []NoMutualWait
<1>1. OpenInv /\ TokensExact => NoMutualWait
  <2> SUFFICES ASSUME OpenInv, TokensExact, QueueSize > 0,
                      \A s \in Sides : tokens[s] = 0, \A s \in Sides : Holding(s) = {}
               PROVE  FALSE
    BY DEF NoMutualWait
  <2>1. Cardinality(Holding("put")) = 0 /\ Cardinality(Holding("get")) = 0
    BY FS_EmptySet DEF Sides
  <2>2. tokens["put"] = 0 /\ tokens["get"] = 0 /\ size \in Nat
    BY DEF OpenInv, TypeOK, Sides
  <2> QED
    BY <2>1, <2>2, QueueSizeNat DEF OpenInv, SlotsAddUp, TokensExact
<1> QED
  BY <1>1, Clients, PTL

-----------------------------------------------------------------------------
\* What Block relies on, with every operation allowed: the counters are
\* exact, and a side Block has finished with stays marked and quiet.
BlockInv == TypeOK /\ CountExact /\ SealedIsQuiet /\ sealed \subseteq feBlocked

\* The steps move thread t, and Leave wakes the Block that waits.
Others(t) ==
  /\ pc' \in [Threads -> PCs] /\ arg' \in [Threads -> SUBSET Sides]
  /\ \A u \in Threads :
       u # t => /\ arg'[u] = arg[u]
                /\ pc'[u] = pc[u] \/ (pc[u] = "relWait" /\ pc'[u] = "release")

\* Whether a thread at l with argument a is counted for side s.
IsCounted(l, a, s) == l \in {"acquire", "acquired", "do", "leave"} /\ a = {s}

\* How the number of counted callers changes in such a step.
LEMMA CountedStep ==
  ASSUME TypeOK, NEW t \in Threads, Others(t), NEW s \in Sides
  PROVE  LET in  == IsCounted(pc[t], arg[t], s)
             in1 == IsCounted(pc'[t], arg'[t], s)
         IN  /\ Cardinality(Counted(s)) \in Nat /\ Cardinality(Counted(s)') \in Nat
             /\ (in <=> in1) => Cardinality(Counted(s)') = Cardinality(Counted(s))
             /\ ~in /\ in1 => Cardinality(Counted(s)') = Cardinality(Counted(s)) + 1
             /\ in /\ ~in1 => Cardinality(Counted(s)') = Cardinality(Counted(s)) - 1
<1>1. Counted(s) \in SUBSET Threads /\ Counted(s)' \in SUBSET Threads
  BY DEF Counted, At
<1>2. \A u \in Threads : u # t => (u \in Counted(s) <=> u \in Counted(s)')
  BY DEF Others, Counted, At
<1>3. /\ t \in Counted(s) <=> IsCounted(pc[t], arg[t], s)
      /\ t \in Counted(s)' <=> IsCounted(pc'[t], arg'[t], s)
  BY DEF Counted, At, IsCounted
<1>4. /\ Cardinality(Counted(s)) \in Nat /\ Cardinality(Counted(s)') \in Nat
      /\ (t \in Counted(s) <=> t \in Counted(s)')
           => Cardinality(Counted(s)') = Cardinality(Counted(s))
      /\ t \notin Counted(s) /\ t \in Counted(s)'
           => Cardinality(Counted(s)') = Cardinality(Counted(s)) + 1
      /\ t \in Counted(s) /\ t \notin Counted(s)'
           => Cardinality(Counted(s)') = Cardinality(Counted(s)) - 1
  BY <1>1, <1>2, Differ
<1> QED
  BY <1>3, <1>4

\* A step that counts and uncounts nobody.
LEMMA SameCount ==
  ASSUME TypeOK, CountExact, NEW t \in Threads, Others(t), UNCHANGED count,
         \A s \in Sides : IsCounted(pc[t], arg[t], s) <=> IsCounted(pc'[t], arg'[t], s)
  PROVE  CountExact'
<1>1. \A s \in Sides : Cardinality(Counted(s)') = Cardinality(Counted(s))
  BY CountedStep
<1> QED
  BY <1>1 DEF CountExact

\* A step that seals nothing keeps the sealed sides quiet if its thread does
\* not come to "do" on one of them.
LEMMA StillQuiet ==
  ASSUME SealedIsQuiet, NEW t \in Threads, Others(t), sealed' \subseteq sealed,
         pc'[t] = "do" => \/ pc[t] = "do" /\ arg'[t] = arg[t]
                          \/ \A s \in sealed' : arg'[t] # {s}
  PROVE  SealedIsQuiet'
<1> SUFFICES ASSUME NEW s \in sealed', NEW u \in Threads, pc'[u] = "do", arg'[u] = {s}
             PROVE  FALSE
  BY DEF SealedIsQuiet, Counted, At
<1>1. pc[u] = "do" /\ arg[u] = {s}
  BY DEF Others
<1>2. u \in At({"do"}) \cap Counted(s)
  BY <1>1 DEF At, Counted
<1> QED
  BY <1>2 DEF SealedIsQuiet

\* A step of t outside the counted places that leaves feBlocked and sealed.
LEMMA Uncounted ==
  ASSUME BlockInv, NEW t \in Threads, Others(t), UNCHANGED <<count, sealed>>,
         sealed \subseteq feBlocked',
         pc[t] \notin {"acquire", "acquired", "do", "leave"},
         pc'[t] \notin {"acquire", "acquired", "do", "leave"}
  PROVE  CountExact' /\ SealedIsQuiet' /\ (sealed \subseteq feBlocked)'
<1>1. CountExact'
  BY SameCount DEF BlockInv, IsCounted
<1>2. SealedIsQuiet'
  BY StillQuiet DEF BlockInv
<1> QED
  BY <1>1, <1>2

\* Steps of Put and Get.
LEMMA PutOrGetQuiet ==
  ASSUME BlockInv, NEW t \in Threads, PutOrGet(t)
  PROVE  BlockInv'
<1> USE DEF BlockInv
<1>0. /\ pc \in [Threads -> PCs] /\ arg \in [Threads -> SUBSET Sides]
      /\ count \in [Sides -> Nat] /\ tokens \in [Sides -> Nat] /\ size \in Nat
  BY DEF TypeOK
<1>1. ASSUME NEW s \in Sides, NEW l \in {"enter", "try"}, Call(t, s, l) PROVE BlockInv'
  <2>1. /\ pc[t] = "out" /\ pc'[t] = l /\ Others(t)
        /\ UNCHANGED <<size, tokens, count, feBlocked, fAlive, fQueueLock, destroyer, sealed>>
    BY <1>0, <1>1 DEF Call, Goto, Others, PCs
  <2>2. TypeOK'
    BY <2>1 DEF TypeOK, Others
  <2> QED
    BY <2>1, <2>2, Uncounted
<1>2. ASSUME NEW s \in Sides, CallBlocked(t, s) PROVE BlockInv'
  BY <1>2 DEF CallBlocked, TypeOK, CountExact, SealedIsQuiet, Counted, At, vars
<1>3. ASSUME NEW s \in Sides, Enter(t, s) PROVE BlockInv'
  <2>1. /\ pc[t] = "enter" /\ arg[t] = {s} /\ arg'[t] = {s}
        /\ pc'[t] \in {"acquire", "leave"} /\ Others(t)
        /\ UNCHANGED <<size, tokens, feBlocked, fAlive, fQueueLock, destroyer, sealed>>
        /\ count' \in [Sides -> Nat] /\ count'[s] = count[s] + 1
        /\ \A r \in Sides : r # s => count'[r] = count[r]
    BY <1>0, <1>3 DEF Enter, Goto, Others, PCs
  <2>2. TypeOK'
    BY <2>1 DEF TypeOK, Others
  <2>3. Cardinality(Counted(s)') = Cardinality(Counted(s)) + 1
    BY <2>1, CountedStep DEF IsCounted
  <2>4. ASSUME NEW r \in Sides, r # s
        PROVE  Cardinality(Counted(r)') = Cardinality(Counted(r))
    <3>1. {r} # {s}
      BY <2>4
    <3> QED
      BY <2>1, <3>1, CountedStep DEF IsCounted
  <2>5. CountExact'
    BY <2>1, <2>3, <2>4 DEF CountExact
  <2>6. SealedIsQuiet'
    BY <2>1, StillQuiet
  <2> QED
    BY <2>1, <2>2, <2>5, <2>6
<1>4. ASSUME NEW s \in Sides, Acquire(t, s) PROVE BlockInv'
  <2>1. /\ Others(t) /\ arg'[t] = arg[t]
        /\ \/ pc[t] = "acquire" /\ pc'[t] = "acquired"
           \/ pc[t] = "try" /\ pc'[t] = "tryAcquired"
        /\ UNCHANGED <<size, count, feBlocked, fAlive, fQueueLock, destroyer, sealed>>
        /\ tokens' \in [Sides -> Nat]
    BY <1>0, <1>4 DEF Acquire, Goto, Others, PCs
  <2>2. TypeOK'
    BY <2>1 DEF TypeOK, Others
  <2>3. CountExact'
    BY <2>1, SameCount DEF IsCounted
  <2>4. SealedIsQuiet'
    BY <2>1, StillQuiet
  <2> QED
    BY <2>1, <2>2, <2>3, <2>4
<1>5. ASSUME NEW s \in Sides, TryFails(t, s) PROVE BlockInv'
  <2>1. /\ pc[t] = "try" /\ pc'[t] = "out" /\ Others(t)
        /\ UNCHANGED <<size, tokens, count, feBlocked, fAlive, fQueueLock, destroyer, sealed>>
    BY <1>0, <1>5 DEF TryFails, Return, Goto, Others, PCs
  <2>2. TypeOK'
    BY <2>1 DEF TypeOK, Others
  <2> QED
    BY <2>1, <2>2, Uncounted
<1>6. ASSUME NEW s \in Sides, Check(t, s) PROVE BlockInv'
  <2>1. /\ pc[t] = "acquired" /\ arg[t] = {s} /\ arg'[t] = {s} /\ Others(t)
        /\ pc'[t] = "leave" \/ (pc'[t] = "do" /\ s \notin feBlocked)
        /\ UNCHANGED <<size, count, feBlocked, fAlive, fQueueLock, destroyer, sealed>>
        /\ tokens' \in [Sides -> Nat]
    BY <1>0, <1>6 DEF Check, Goto, Others, PCs, IsBlocked
  <2>2. TypeOK'
    BY <2>1 DEF TypeOK, Others
  <2>3. CountExact'
    BY <2>1, SameCount DEF IsCounted
  <2>4. pc'[t] = "do" => \A r \in sealed' : arg'[t] # {r}
    BY <2>1
  <2>5. SealedIsQuiet'
    BY <2>1, <2>4, StillQuiet
  <2> QED
    BY <2>1, <2>2, <2>3, <2>5
<1>7. ASSUME NEW s \in Sides, TryCheck(t, s) PROVE BlockInv'
  <2>1. /\ pc[t] = "tryAcquired" /\ pc'[t] \in {"out", "tryDo"} /\ Others(t)
        /\ UNCHANGED <<size, tokens, count, feBlocked, fAlive, fQueueLock, destroyer, sealed>>
    BY <1>0, <1>7 DEF TryCheck, Return, Goto, Others, PCs
  <2>2. TypeOK'
    BY <2>1 DEF TypeOK, Others
  <2> QED
    BY <2>1, <2>2, Uncounted
<1>8. ASSUME NEW s \in Sides, Do(t, s) PROVE BlockInv'
  <2>1. /\ Others(t)
        /\ \/ pc[t] = "do" /\ pc'[t] = "leave" /\ arg'[t] = arg[t]
           \/ pc[t] = "tryDo" /\ pc'[t] = "out"
        /\ UNCHANGED <<count, feBlocked, fAlive, fQueueLock, destroyer, sealed>>
    BY <1>0, <1>8 DEF Do, Return, Goto, Others, PCs
  <2>2. tokens' \in [Sides -> Nat] /\ size' \in Nat
    BY <1>0, <1>8 DEF Do, Other, Sides
  <2>3. TypeOK'
    BY <2>1, <2>2 DEF TypeOK, Others
  <2>4. CountExact'
    BY <2>1, SameCount DEF IsCounted
  <2>5. SealedIsQuiet'
    BY <2>1, StillQuiet
  <2> QED
    BY <2>1, <2>3, <2>4, <2>5
<1>9. ASSUME NEW s \in Sides, Leave(t, s) PROVE BlockInv'
  <2>1. /\ pc[t] = "leave" /\ arg[t] = {s} /\ pc'[t] = "out" /\ Others(t)
        /\ UNCHANGED <<size, tokens, feBlocked, fAlive, fQueueLock, destroyer, sealed>>
    BY <1>0, <1>9 DEF Leave, Others, PCs
  <2>2. /\ count' \in [Sides -> Nat] /\ count'[s] = IF count[s] > 0 THEN count[s] - 1 ELSE count[s]
        /\ \A r \in Sides : r # s => count'[r] = count[r]
    BY <1>0, <1>9 DEF Leave
  <2>3. TypeOK'
    BY <2>1, <2>2 DEF TypeOK, Others
  <2>4. /\ Cardinality(Counted(s)') = Cardinality(Counted(s)) - 1
        /\ Cardinality(Counted(s)') \in Nat /\ Cardinality(Counted(s)) \in Nat
    BY <2>1, CountedStep DEF IsCounted
  <2>5. ASSUME NEW r \in Sides, r # s
        PROVE  Cardinality(Counted(r)') = Cardinality(Counted(r))
    <3>1. {r} # {s}
      BY <2>5
    <3> QED
      BY <2>1, <3>1, CountedStep DEF IsCounted
  <2>6. CountExact'
    BY <2>2, <2>4, <2>5 DEF CountExact
  <2>7. SealedIsQuiet'
    BY <2>1, StillQuiet
  <2> QED
    BY <2>1, <2>3, <2>6, <2>7
<1> QED
  BY <1>1, <1>2, <1>3, <1>4, <1>5, <1>6, <1>7, <1>8, <1>9 DEF PutOrGet, Inside

\* Steps of EmptyQueue, Block, UnBlock and the destructor.
LEMMA OtherQuiet ==
  ASSUME BlockInv, NEW t \in Threads, Emptying(t) \/ Admin(t) \/ Destructor(t)
  PROVE  BlockInv'
<1> USE DEF BlockInv
<1>0. /\ pc \in [Threads -> PCs] /\ arg \in [Threads -> SUBSET Sides]
      /\ count \in [Sides -> Nat] /\ tokens \in [Sides -> Nat] /\ size \in Nat
      /\ feBlocked \in SUBSET Sides /\ sealed \in SUBSET Sides
  BY DEF TypeOK
<1>1. CASE EmptyQueue(t)
  <2>1. /\ pc[t] = "out" /\ pc'[t] = "flush" /\ Others(t)
        /\ UNCHANGED <<size, tokens, count, feBlocked, fAlive, fQueueLock, destroyer, sealed>>
    BY <1>0, <1>1 DEF EmptyQueue, Goto, Others, PCs
  <2>2. TypeOK'
    BY <2>1 DEF TypeOK, Others
  <2> QED
    BY <2>1, <2>2, Uncounted
<1>2. CASE Flush(t) \/ Kill(t)
  <2>1. /\ pc[t] \in {"flush", "kill"} /\ pc'[t] = "out" /\ Others(t)
        /\ UNCHANGED <<count, feBlocked, fQueueLock, destroyer, sealed>>
        /\ fAlive' \in BOOLEAN
    BY <1>0, <1>2 DEF Flush, Kill, Goto, Others, PCs, TypeOK
  <2>2. tokens' \in [Sides -> Nat] /\ size' \in Nat
    BY <1>0, <1>2 DEF Flush, Kill, IntEmptyQueue
  <2>3. TypeOK'
    BY <2>1, <2>2 DEF TypeOK, Others
  <2> QED
    BY <2>1, <2>3, Uncounted
<1>3. ASSUME NEW S \in SUBSET Sides, NEW d \in BOOLEAN, Block(t, S, d) PROVE BlockInv'
  <2>1. /\ pc[t] = "out" /\ pc'[t] = "lock" /\ Others(t)
        /\ UNCHANGED <<size, tokens, count, fAlive, fQueueLock, sealed>>
        /\ feBlocked' = feBlocked \cup S /\ destroyer' \in Threads \cup {None}
    BY <1>0, <1>3 DEF Block, Goto, Others, PCs, TypeOK
  <2>2. TypeOK'
    BY <1>0, <2>1 DEF TypeOK, Others
  <2> QED
    BY <2>1, <2>2, Uncounted
<1>4. ASSUME NEW S \in SUBSET Sides, UnBlock(t, S) PROVE BlockInv'
  <2>1. /\ Others(t) /\ pc' = pc /\ arg' = arg
        /\ UNCHANGED <<size, tokens, count, fAlive, fQueueLock, destroyer>>
        /\ feBlocked' = feBlocked \ S /\ sealed' = sealed \ S
    BY <1>0, <1>4 DEF UnBlock, Others
  <2>2. TypeOK'
    BY <1>0, <2>1 DEF TypeOK, Others
  <2>3. CountExact'
    BY <2>1, SameCount
  <2>4. SealedIsQuiet'
    BY <2>1, StillQuiet
  <2> QED
    BY <2>1, <2>2, <2>3, <2>4
<1>5. CASE BlockLock(t)
  <2>1. /\ pc[t] = "lock" /\ pc'[t] = "release" /\ Others(t)
        /\ UNCHANGED <<size, tokens, count, feBlocked, fAlive, destroyer, sealed>>
        /\ fQueueLock' \in Threads \cup {None}
    BY <1>0, <1>5 DEF BlockLock, Goto, Others, PCs
  <2>2. TypeOK'
    BY <2>1 DEF TypeOK, Others
  <2> QED
    BY <2>1, <2>2, Uncounted
<1>6. CASE IntReleaseBlocked(t)
  <2>0. pc[t] = "release" /\ UNCHANGED <<size, count, feBlocked, fAlive, destroyer>>
    BY <1>6 DEF IntReleaseBlocked
  <2>1. PICK s \in arg[t] : ReleaseOne(t, s) \/ AllReleased(t, s)
    BY <1>6 DEF IntReleaseBlocked
  <2>2. s \in Sides
    BY <1>0, <2>1
  <2>3. CASE ReleaseOne(t, s)
    <3>1. /\ pc'[t] = "relWait" /\ Others(t) /\ UNCHANGED <<fQueueLock, sealed>>
          /\ tokens' \in [Sides -> Nat]
      BY <1>0, <2>2, <2>3 DEF ReleaseOne, Goto, Others, PCs
    <3>2. TypeOK'
      BY <2>0, <3>1 DEF TypeOK, Others
    <3> QED
      BY <2>0, <3>1, <3>2, Uncounted
  <2>4. CASE AllReleased(t, s)
    <3>1. /\ pc'[t] \in {"release", "kill", "out"} /\ Others(t)
          /\ fQueueLock' \in Threads \cup {None} /\ UNCHANGED tokens
          /\ sealed' = sealed \cup (feBlocked \cap {s}) /\ count[s] = 0
      BY <1>0, <2>0, <2>2, <2>4 DEF AllReleased, Goto, Others, PCs, TypeOK
    <3>2. TypeOK'
      BY <1>0, <2>0, <3>1 DEF TypeOK, Others
    <3>3. CountExact'
      BY <2>0, <3>1, SameCount DEF IsCounted
    <3>4. Counted(s)' = {}
      <4>1. Cardinality(Counted(s)') = 0
        BY <2>0, <2>2, <3>1, <3>3 DEF CountExact
      <4>2. IsFiniteSet(Counted(s)')
        BY ThreadsFinite, FS_Subset, Counted(s)' \subseteq Threads DEF Counted, At
      <4> QED
        BY <4>1, <4>2, FS_EmptySet
    <3>5. SealedIsQuiet'
      <4> SUFFICES ASSUME NEW r \in sealed', NEW u \in Threads, pc'[u] = "do", arg'[u] = {r}
                   PROVE  FALSE
        BY DEF SealedIsQuiet, Counted, At
      <4>1. CASE r = s
        BY <3>4, <4>1 DEF Counted, At
      <4>2. CASE r # s
        <5>1. r \in sealed /\ pc[u] = "do" /\ arg[u] = {r}
          BY <2>0, <3>1, <4>2 DEF Others
        <5>2. u \in At({"do"}) \cap Counted(r)
          BY <5>1 DEF At, Counted
        <5> QED
          BY <5>1, <5>2 DEF SealedIsQuiet
      <4> QED
        BY <4>1, <4>2
    <3> QED
      BY <2>0, <3>1, <3>2, <3>3, <3>5
  <2> QED
    BY <2>1, <2>3, <2>4
<1> QED
  BY <1>1, <1>2, <1>3, <1>4, <1>5, <1>6 DEF Emptying, Admin, Blocking, Destructor

\* With every operation allowed, any number of callers and any number of
\* calls of Block, UnBlock and EmptyQueue: the counters are exact and no
\* blocking caller passes a side that Block has finished with.
THEOREM BlockSafety == Spec => []BlockInv
<1>1. Init => BlockInv
  <2> SUFFICES ASSUME Init PROVE BlockInv
    OBVIOUS
  <2>1. \A s \in Sides : Counted(s) = {}
    BY DEF Init, Counted, At
  <2>2. CountExact
    BY <2>1, FS_EmptySet DEF Init, CountExact
  <2>3. TypeOK
    BY QueueSizeNat DEF Init, TypeOK, Sides, PCs
  <2> QED
    BY <2>2, <2>3 DEF Init, BlockInv, SealedIsQuiet
<1>2. BlockInv /\ [Next]_vars => BlockInv'
  <2> SUFFICES ASSUME BlockInv, [Next]_vars PROVE BlockInv'
    OBVIOUS
  <2>1. CASE UNCHANGED vars
    BY <2>1 DEF BlockInv, TypeOK, CountExact, SealedIsQuiet, Counted, At, vars
  <2>2. ASSUME NEW t \in Threads, PutOrGet(t) PROVE BlockInv'
    BY <2>2, PutOrGetQuiet
  <2>3. ASSUME NEW t \in Threads, Emptying(t) \/ Admin(t) \/ Destructor(t) PROVE BlockInv'
    BY <2>3, OtherQuiet
  <2> QED
    BY <2>1, <2>2, <2>3 DEF Next
<1> QED
  BY <1>1, <1>2, PTL DEF Spec

\* The variables keep their types under every operation.
COROLLARY TypeCorrect == Spec => []TypeOK
<1>1. BlockInv => TypeOK
  BY DEF BlockInv
<1> QED
  BY <1>1, BlockSafety, PTL

\* fBlockingPutCount and fBlockingGetCount are exact under every operation.
COROLLARY Counts == Spec => []CountExact
<1>1. BlockInv => CountExact
  BY DEF BlockInv
<1> QED
  BY <1>1, BlockSafety, PTL

\* Block(aSide) drains its side under every operation.
COROLLARY Sealed == Spec => []SealedIsQuiet
<1>1. BlockInv => SealedIsQuiet
  BY DEF BlockInv
<1> QED
  BY <1>1, BlockSafety, PTL
=============================================================================
