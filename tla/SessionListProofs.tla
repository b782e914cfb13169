-------------------------- MODULE SessionListProofs --------------------------
(***************************************************************************)
(* Proofs about the session list (module SessionList), for every set of    *)
(* requests, sessions and ids.                                             *)
(***************************************************************************)
EXTENDS SessionList, FiniteSetTheorems, TLAPS

\* The places at which a thread keeps fSessionsMutex.
Locking == {"reset", "askPush", "ask", "asked", "list", "listPush", "listed", "scan", "stop", "stopped"}

\* What a thread knows at its place.
Place(a) ==
  /\ pc[a] \in Locking => fSessionsMutex = a
  /\ pc[a] = "lookup" => want[a] \in Keys
  /\ pc[a] \in {"add", "askPush"} => hand[a] \in Sessions
  /\ pc[a] \in {"page", "notify"} => ctx[a] \in {render[a], None}
  /\ pc[a] \in {"asked", "listed"} => ctx[a] = render[a]
  /\ pc[a] \in Pinning => render[a] \in Sessions
  /\ pc[a] = "scan" => todo[a] \subseteq Active \cup fDisabledSessions

\* s is about to be deleted, or to be added.
Doomed(s) == \E a \in Actors : s \in sessions2Delete[a]
Fresh(s)  == \E a \in Actors : pc[a] = "add" /\ hand[a] = s

\* One kind of home at most, and, for a session that exists, one.
OneKind(s) ==
  /\ s \in Active => ~(s \in fDisabledSessions \/ Doomed(s) \/ Fresh(s) \/ s \in deleted)
  /\ s \in fDisabledSessions => ~(Doomed(s) \/ Fresh(s) \/ s \in deleted)
  /\ Doomed(s) => ~(Fresh(s) \/ s \in deleted)
  /\ Fresh(s) => s \notin deleted
  /\ s \in unborn <=> ~(s \in Active \/ s \in fDisabledSessions \/ Doomed(s) \/ Fresh(s) \/ s \in deleted)

\* No two ids lead to a session, and no two threads delete or add it.
OnePlace ==
  /\ \A k, l \in Keys : fSessions[k] = fSessions[l] /\ fSessions[k] # None => k = l
  /\ \A a, b \in Actors : sessions2Delete[a] \cap sessions2Delete[b] # {} => a = b
  /\ \A a, b \in Actors : pc[a] = "add" /\ pc[b] = "add" /\ hand[a] = hand[b] => a = b

\* The inductive invariant.
ListInv ==
  /\ TypeOK /\ RefExact /\ OnePlace
  /\ \A s \in Sessions : OneKind(s)
  /\ \A a \in Actors : Place(a)

-----------------------------------------------------------------------------
(* What a step of thread a leaves alone.                                   *)

\* The other threads' variables.
Only(a) ==
  \A b \in Actors \ {a} :
    /\ pc'[b] = pc[b] /\ ctx'[b] = ctx[b] /\ drop'[b] = drop[b] /\ hand'[b] = hand[b] /\ want'[b] = want[b]
    /\ render'[b] = render[b] /\ todo'[b] = todo[b] /\ sessions2Delete'[b] = sessions2Delete[b]

\* fSessionsMutex, if another thread has it.
MutexMove(a) == fSessionsMutex' = fSessionsMutex \/ fSessionsMutex \in {None, a}

\* The actors are threads, and there are finitely many of them.
LEMMA ActorFacts ==
  /\ None \notin Actors /\ Cleaner \in Actors /\ Manager \in Actors /\ Requests \subseteq Actors
  /\ IsFiniteSet(Actors)
<1>1. None \notin Actors /\ Cleaner \in Actors /\ Manager \in Actors /\ Requests \subseteq Actors
  BY NoneDiffers DEF Actors
<1>2. IsFiniteSet(Requests \cup {Cleaner}) /\ IsFiniteSet((Requests \cup {Cleaner}) \cup {Manager})
  BY Finitely, FS_AddElement
<1>3. Actors = (Requests \cup {Cleaner}) \cup {Manager}
  BY DEF Actors
<1> QED
  BY <1>1, <1>2, <1>3

\* A set of actors and its number.
LEMMA ActorCount ==
  ASSUME NEW S \in SUBSET Actors
  PROVE  IsFiniteSet(S) /\ Cardinality(S) \in Nat
BY ActorFacts, FS_Subset, FS_CardinalityType

\* The active sessions and their number.
LEMMA ActiveCount ==
  ASSUME TypeOK
  PROVE  Active \subseteq Sessions /\ Cardinality(Active) \in Nat
<1>1. Active \subseteq Sessions
  BY DEF Active, TypeOK
<1> QED
  BY <1>1, Finitely, FS_Subset, FS_CardinalityType

\* The other threads know what they knew.
LEMMA OthersPlace ==
  ASSUME NEW a \in Actors, \A b \in Actors : Place(b), Only(a), MutexMove(a),
         UNCHANGED lists \/ \A b \in Actors \ {a} : pc[b] # "scan"
  PROVE  \A b \in Actors \ {a} : Place(b)'
<1> SUFFICES ASSUME NEW b \in Actors \ {a} PROVE Place(b)'
  OBVIOUS
<1>1. Place(b) /\ b # None /\ b # a
  BY ActorFacts
<1>2. pc[b] \in Locking => fSessionsMutex' = b
  BY <1>1 DEF MutexMove, Place
<1>3. pc[b] = "scan" => todo[b] \subseteq (Active \cup fDisabledSessions)'
  BY <1>1 DEF Place, lists, Active
<1> QED
  BY <1>1, <1>2, <1>3 DEF Only, Place

\* The sessions stay where they are.
LEMMA HomesKept ==
  ASSUME NEW a \in Actors, OnePlace, \A s \in Sessions : OneKind(s), Only(a),
         UNCHANGED <<lists, unborn, deleted, sessions2Delete>>, pc[a] # "add", pc'[a] # "add"
  PROVE  OnePlace' /\ \A s \in Sessions : OneKind(s)'
<1>1. Active' = Active
  BY DEF Active, lists
<1>2. \A b \in Actors : pc'[b] = "add" => pc[b] = "add" /\ hand'[b] = hand[b]
  BY DEF Only
<1>3. \A b \in Actors : pc[b] = "add" => pc'[b] = "add" /\ hand'[b] = hand[b]
  BY DEF Only
<1>4. \A s : Fresh(s)' <=> Fresh(s)
  BY <1>2, <1>3 DEF Fresh
<1>5. \A s : Doomed(s)' <=> Doomed(s)
  BY DEF Doomed
<1>6. OnePlace'
  BY <1>2 DEF OnePlace, lists
<1> QED
  BY <1>1, <1>4, <1>5, <1>6 DEF OneKind, lists

\* The contexts and the counts stay as they are.
LEMMA RefKept ==
  ASSUME NEW a \in Actors, RefExact, Only(a), UNCHANGED <<fRefCount, ctx, drop>>,
         pc[a] \notin Pinning, pc'[a] \notin Pinning
  PROVE  RefExact'
<1> SUFFICES ASSUME NEW s \in Sessions
             PROVE  fRefCount'[s] = Cardinality({b \in Actors : ctx'[b] = s}) + Cardinality({b \in Actors : drop'[b] = s})
                                    + Cardinality({b \in Actors : pc'[b] \in Pinning /\ render'[b] = s})
  BY DEF RefExact
<1>1. {b \in Actors : pc'[b] \in Pinning /\ render'[b] = s}
        = {b \in Actors : pc[b] \in Pinning /\ render[b] = s}
  BY DEF Only
<1> QED
  BY <1>1 DEF RefExact

\* A step that changes neither the lists nor a context.
LEMMA QuietStep ==
  ASSUME ListInv, NEW a \in Actors, Only(a), MutexMove(a),
         UNCHANGED <<lists, unborn, deleted, fRefCount, ctx, drop, sessions2Delete>>,
         pc[a] \notin Pinning \cup {"add"}, pc'[a] \notin Pinning \cup {"add"},
         TypeOK', Place(a)'
  PROVE  ListInv'
<1>1. \A b \in Actors \ {a} : Place(b)'
  BY OthersPlace DEF ListInv
<1>2. OnePlace' /\ \A s \in Sessions : OneKind(s)'
  BY HomesKept DEF ListInv
<1>3. RefExact'
  BY RefKept DEF ListInv
<1> QED
  BY <1>1, <1>2, <1>3 DEF ListInv

\* Context::Push: the counts follow the contexts.
LEMMA PushRef ==
  ASSUME TypeOK, RefExact, NEW a \in Actors, NEW s \in Sessions \cup {None}, Push(a, s), drop[a] = None,
         \A b \in Actors : (pc'[b] \in Pinning <=> pc[b] \in Pinning) /\ (pc[b] \in Pinning => render'[b] = render[b])
  PROVE  /\ RefExact' /\ fRefCount' \in [Sessions -> Nat]
         /\ ctx' \in [Actors -> Sessions \cup {None}] /\ drop' \in [Actors -> Sessions \cup {None}]
<1>1. /\ ctx' \in [Actors -> Sessions \cup {None}] /\ \A b \in Actors : ctx'[b] = (IF b = a THEN s ELSE ctx[b])
      /\ drop' \in [Actors -> Sessions \cup {None}]
      /\ \A b \in Actors : drop'[b] = (IF b # a THEN drop[b] ELSE IF fCopySessionStore /\ ctx[a] # s THEN ctx[a] ELSE None)
  BY DEF Push, TypeOK
<1>2. ASSUME NEW x \in Sessions
      PROVE  /\ fRefCount'[x] = Cardinality({b \in Actors : ctx'[b] = x}) + Cardinality({b \in Actors : drop'[b] = x})
                                + Cardinality({b \in Actors : pc'[b] \in Pinning /\ render'[b] = x})
             /\ fRefCount'[x] \in Nat
  <2> DEFINE C == {b \in Actors : ctx[b] = x}
             D == {b \in Actors : ctx'[b] = x}
             E == {b \in Actors : drop[b] = x}
             F == {b \in Actors : drop'[b] = x}
             P == {b \in Actors : pc[b] \in Pinning /\ render[b] = x}
             Q == {b \in Actors : pc'[b] \in Pinning /\ render'[b] = x}
  <2> SUFFICES fRefCount'[x] = Cardinality(D) + Cardinality(F) + Cardinality(Q) /\ fRefCount'[x] \in Nat
    OBVIOUS
  <2>0. x # None
    BY NoneDiffers
  <2>1. Q = P
    OBVIOUS
  <2>2. /\ IsFiniteSet(C) /\ Cardinality(C) \in Nat /\ Cardinality(P) \in Nat /\ IsFiniteSet(E) /\ Cardinality(E) \in Nat
        /\ Cardinality(D) \in Nat /\ Cardinality(F) \in Nat
        /\ fRefCount[x] = Cardinality(C) + Cardinality(E) + Cardinality(P)
    <3>1. C \in SUBSET Actors /\ D \in SUBSET Actors /\ E \in SUBSET Actors /\ F \in SUBSET Actors /\ P \in SUBSET Actors
      OBVIOUS
    <3>2. fRefCount[x] = Cardinality(C) + Cardinality(E) + Cardinality(P)
      BY DEF RefExact
    <3> QED
      BY <3>1, <3>2, ActorCount
  <2>3. fRefCount'[x] = (IF ctx[a] = s THEN fRefCount[x]
                         ELSE IF x = s THEN fRefCount[x] + 1
                         ELSE IF x = ctx[a] /\ ~fCopySessionStore THEN fRefCount[x] - 1 ELSE fRefCount[x])
    BY DEF Push
  <2>4. /\ ctx[a] = s \/ (x # s /\ x # ctx[a]) => D = C
        /\ ctx[a] # s /\ x = s => D = C \cup {a} /\ a \notin C
        /\ ctx[a] # s /\ x = ctx[a] => D = C \ {a} /\ a \in C
    BY <1>1
  <2>5. /\ ctx[a] = s \/ x # ctx[a] \/ ~fCopySessionStore => F = E
        /\ ctx[a] # s /\ x = ctx[a] /\ fCopySessionStore => F = E \cup {a} /\ a \notin E
    BY <1>1, <2>0
  <2> HIDE DEF C, D, E, F, P, Q
  <2>6. CASE ctx[a] = s \/ (x # s /\ x # ctx[a])
    BY <2>1, <2>2, <2>3, <2>4, <2>5, <2>6
  <2>7. CASE ctx[a] # s /\ x = s
    <3>1. Cardinality(D) = Cardinality(C) + 1
      BY <2>2, <2>4, <2>7, FS_AddElement
    <3> QED
      BY <2>1, <2>2, <2>3, <2>5, <2>7, <3>1
  <2>8. CASE ctx[a] # s /\ x = ctx[a]
    <3>1. Cardinality(D) = Cardinality(C) - 1
      BY <2>2, <2>4, <2>8, FS_RemoveElement
    <3>2. CASE fCopySessionStore
      <4>1. Cardinality(F) = Cardinality(E) + 1
        BY <2>2, <2>5, <2>8, <3>2, FS_AddElement
      <4> QED
        BY <2>1, <2>2, <2>3, <2>8, <3>1, <3>2, <4>1
    <3>3. CASE ~fCopySessionStore
      BY <2>1, <2>2, <2>3, <2>5, <2>8, <3>1, <3>3
    <3> QED
      BY <3>2, <3>3
  <2> QED
    BY <2>6, <2>7, <2>8
<1>3. fRefCount' \in [Sessions -> Nat]
  BY <1>2 DEF Push
<1> QED
  BY <1>1, <1>2, <1>3 DEF RefExact

\* A step that pushes a session and leaves the lists alone.
LEMMA PushStep ==
  ASSUME ListInv, NEW a \in Actors, NEW s \in Sessions \cup {None}, Push(a, s), drop[a] = None, Only(a), MutexMove(a),
         UNCHANGED <<lists, unborn, deleted, sessions2Delete>>,
         pc[a] # "add", pc'[a] # "add",
         pc[a] \in Pinning <=> pc'[a] \in Pinning, pc[a] \in Pinning => render'[a] = render[a],
         (/\ fRefCount' \in [Sessions -> Nat]
          /\ ctx' \in [Actors -> Sessions \cup {None}] /\ drop' \in [Actors -> Sessions \cup {None}]) => TypeOK',
         Place(a)'
  PROVE  ListInv'
<1>1. \A b \in Actors \ {a} : Place(b)'
  BY OthersPlace DEF ListInv
<1>2. OnePlace' /\ \A x \in Sessions : OneKind(x)'
  BY HomesKept DEF ListInv
<1>3. \A b \in Actors : (pc'[b] \in Pinning <=> pc[b] \in Pinning) /\ (pc[b] \in Pinning => render'[b] = render[b])
  BY DEF Only
<1>4. RefExact' /\ TypeOK'
  BY <1>3, PushRef DEF ListInv
<1> QED
  BY <1>1, <1>2, <1>4 DEF ListInv

-----------------------------------------------------------------------------
\* The initial state.
LEMMA ListInit == Init => ListInv
<1> SUFFICES ASSUME Init PROVE ListInv
  OBVIOUS
<1>1. TypeOK
  <2>1. fCopySessionStore \in BOOLEAN
    BY Limits DEF Init
  <2> QED
    BY <2>1 DEF Init, TypeOK, Places
<1>2. Active = {}
  BY DEF Init, Active
<1>3. RefExact
  <2> SUFFICES ASSUME NEW s \in Sessions
               PROVE  0 = Cardinality({a \in Actors : ctx[a] = s}) + Cardinality({a \in Actors : drop[a] = s})
                          + Cardinality({a \in Actors : pc[a] \in Pinning /\ render[a] = s})
    BY DEF Init, RefExact
  <2>1. /\ {a \in Actors : ctx[a] = s} = {} /\ {a \in Actors : drop[a] = s} = {}
        /\ {a \in Actors : pc[a] \in Pinning /\ render[a] = s} = {}
    BY NoneDiffers DEF Init, Pinning
  <2> QED
    BY <2>1, FS_EmptySet
<1>4. OnePlace
  BY DEF Init, OnePlace
<1>5. \A s \in Sessions : OneKind(s)
  BY <1>2 DEF Init, OneKind, Doomed, Fresh
<1>6. \A a \in Actors : Place(a)
  BY DEF Init, Place, Locking, Pinning
<1> QED
  BY <1>1, <1>3, <1>4, <1>5, <1>6 DEF ListInv

\* A request that looks a session up and verifies it.
LEMMA LookupInv ==
  ASSUME ListInv, NEW r \in Requests,
         \/ \E k \in Keys \cup {None} : Begin(r, k)
         \/ IntLookupSession(r) \/ ResetTimeAndFlags(r) \/ SessionIsBusy(r) \/ Verify(r) \/ VerifyFails(r) \/ NotifyAdded(r)
  PROVE  ListInv'
<1> USE DEF Begin, IntLookupSession, ResetTimeAndFlags, SessionIsBusy, Verify, VerifyFails, NotifyAdded,
        NoPush, NoList, NoCopy, NoState, NoCall, Goto, At, MutexFree
<1>0. r \in Actors /\ TypeOK
  BY ActorFacts DEF ListInv
<1>1. /\ UNCHANGED <<fCopySessionStore, lists, fMaxSessionsAllowed, unborn, deleted, fRefCount, ctx, drop, count,
                     render, todo, sessions2Delete>>
      /\ pc[r] \notin Pinning \cup {"add"}
  BY DEF state, Pinning
<1>2. /\ pc' \in [Actors -> Places] /\ hand' \in [Actors -> Sessions \cup {None}]
      /\ want' \in [Actors -> Keys \cup {None}]
      /\ pc'[r] \in {"count", "lookup", "reset", "found", "verify", "push", "render"}
      /\ \A b \in Actors \ {r} : pc'[b] = pc[b] /\ hand'[b] = hand[b] /\ want'[b] = want[b]
  <2>1. /\ pc' \in [Actors -> Places] /\ want' \in [Actors -> Keys \cup {None}]
        /\ pc'[r] \in {"count", "lookup", "reset", "found", "verify", "push", "render"}
        /\ \A b \in Actors \ {r} : pc'[b] = pc[b] /\ want'[b] = want[b]
    BY <1>0 DEF TypeOK, Places
  <2>2. pc[r] = "lookup" => fSessions[want[r]] \in Sessions \cup {None}
    BY <1>0 DEF ListInv, Place, TypeOK
  <2>3. hand' \in [Actors -> Sessions \cup {None}] /\ \A b \in Actors \ {r} : hand'[b] = hand[b]
    BY <1>0, <2>2 DEF TypeOK
  <2> QED
    BY <2>1, <2>3
<1>3. Only(r)
  BY <1>1, <1>2 DEF Only
<1>4. fSessionsMutex' \in Actors \cup {None} /\ fTerminated' \subseteq Sessions /\ old' \subseteq Sessions
  BY <1>0 DEF TypeOK, state
<1>5. TypeOK'
  BY <1>0, <1>1, <1>2, <1>4 DEF TypeOK, lists
<1>6. MutexMove(r)
  BY <1>0 DEF ListInv, Place, Locking, Pinning, MutexMove
<1>7. Place(r)'
  BY <1>0, <1>2 DEF TypeOK, Place, Locking, Pinning
<1> QED
  BY <1>0, <1>1, <1>2, <1>3, <1>5, <1>6, <1>7, QuietStep DEF Pinning

\* A request that makes room and renders a page.
LEMMA RenderInv ==
  ASSUME ListInv, NEW r \in Requests,
         \/ GetNumberOfSessions(r) \/ MakeRoom(r) \/ RenderNextPage(r) \/ PageDone(r) \/ ResetAccessTime(r)
         \/ SessionListInfo(r) \/ ListOne(r) \/ ListDone(r)
  PROVE  ListInv'
<1> USE DEF GetNumberOfSessions, MakeRoom, RenderNextPage, PageDone, ResetAccessTime, SessionListInfo, ListOne, ListDone,
        NoPush, NoList, NoCopy, NoState, NoCall, Goto, At, MutexFree
<1>0. r \in Actors /\ TypeOK
  BY ActorFacts DEF ListInv
<1>1. /\ UNCHANGED <<fCopySessionStore, lists, fMaxSessionsAllowed, unborn, deleted, fRefCount, fTerminated,
                     ctx, drop, want, sessions2Delete>>
      /\ pc[r] \notin Pinning \cup {"add"}
  BY DEF state, Pinning
<1>2. /\ pc' \in [Actors -> Places] /\ hand' \in [Actors -> Sessions \cup {None}]
      /\ render' \in [Actors -> Sessions \cup {None}]
      /\ pc'[r] \in {"room", "cleanup", "made", "page", "timer", "end", "list", "listPush"}
      /\ \A b \in Actors \ {r} : pc'[b] = pc[b] /\ hand'[b] = hand[b] /\ render'[b] = render[b]
  BY <1>0 DEF TypeOK, Places
<1>3. /\ todo' \in [Actors -> SUBSET Sessions] /\ \A b \in Actors \ {r} : todo'[b] = todo[b]
  BY <1>0, ActiveCount DEF TypeOK
<1>4. Only(r)
  BY <1>1, <1>2, <1>3 DEF Only
<1>5. count' \in [Actors -> Nat]
  BY <1>0, ActiveCount DEF TypeOK
<1>6. fSessionsMutex' \in Actors \cup {None} /\ old' \subseteq Sessions
  BY <1>0 DEF TypeOK, state
<1>7. TypeOK'
  BY <1>0, <1>1, <1>2, <1>3, <1>5, <1>6 DEF TypeOK, lists
<1>8. MutexMove(r)
  BY <1>0 DEF ListInv, Place, Locking, MutexMove
<1>9. Place(r)'
  BY <1>0, <1>2 DEF ListInv, TypeOK, Place, Locking, Pinning
<1> QED
  BY <1>0, <1>1, <1>2, <1>4, <1>7, <1>8, <1>9, QuietStep DEF Pinning

\* A cleanup begins and has gone through the lists.
LEMMA CleanupInv ==
  ASSUME ListInv, NEW a \in Requests \cup {Cleaner},
         CleanupSessions(a) \/ Scanned(a) \/ (a = Cleaner /\ Period)
  PROVE  ListInv'
<1> USE DEF CleanupSessions, Scanned, Period, NoPush, NoList, NoCopy, NoState, NoCall, Goto, At, MutexFree
<1>0. a \in Actors /\ TypeOK
  BY ActorFacts DEF ListInv
<1>1. /\ UNCHANGED <<fCopySessionStore, lists, fMaxSessionsAllowed, unborn, deleted, state,
                     ctx, drop, hand, want, render, sessions2Delete>>
      /\ pc[a] \notin Pinning \cup {"add"}
  BY DEF Pinning
<1>2. /\ pc' \in [Actors -> Places] /\ pc'[a] \in {"scan", "idle", "made", "delete"}
      /\ \A b \in Actors \ {a} : pc'[b] = pc[b]
  BY <1>0 DEF TypeOK, Places, Return
<1>3. /\ todo' \in [Actors -> SUBSET Sessions] /\ \A b \in Actors \ {a} : todo'[b] = todo[b]
  BY <1>0, ActiveCount DEF TypeOK
<1>4. Only(a)
  BY <1>1, <1>2, <1>3 DEF Only
<1>5. count' \in [Actors -> Nat]
  BY <1>0, ActiveCount DEF TypeOK
<1>6. fSessionsMutex' \in Actors \cup {None}
  BY <1>0 DEF TypeOK
<1>7. TypeOK'
  BY <1>0, <1>1, <1>2, <1>3, <1>5, <1>6 DEF TypeOK, lists, state
<1>8. MutexMove(a)
  BY <1>0 DEF ListInv, Place, Locking, Pinning, MutexMove
<1>9. Place(a)'
  <2>1. pc'[a] = "scan" => fSessionsMutex' = a /\ todo'[a] = (Active \cup fDisabledSessions)
    BY <1>0 DEF TypeOK, Return
  <2>2. Active' = Active
    BY <1>1 DEF Active, lists
  <2> QED
    BY <1>1, <1>2, <2>1, <2>2 DEF Place, Locking, Pinning, lists
<1> QED
  BY <1>0, <1>1, <1>2, <1>4, <1>7, <1>8, <1>9, QuietStep DEF Pinning, state

\* The restart of the manager.
LEMMA RestartInv ==
  ASSUME ListInv, EnterReInit \/ CleanerTerminated \/ ResetInit
  PROVE  ListInv'
<1> USE DEF EnterReInit, CleanerTerminated, ResetInit, NoPush, NoList, NoCopy, NoState, NoCall, Goto, At, MutexFree
<1>0. Manager \in Actors /\ TypeOK
  BY ActorFacts DEF ListInv
<1>1. /\ UNCHANGED <<fCopySessionStore, lists, unborn, deleted, state,
                     ctx, drop, hand, want, count, render, todo, sessions2Delete>>
      /\ pc[Manager] \notin Pinning \cup {"add"}
  BY DEF Pinning
<1>2. /\ pc' \in [Actors -> Places] /\ pc'[Manager] \in {"idle", "stop", "stopped"}
      /\ \A b \in Actors \ {Manager} : pc'[b] = pc[b]
  BY <1>0 DEF TypeOK, Places
<1>3. Only(Manager)
  BY <1>1, <1>2 DEF Only
<1>4. fSessionsMutex' \in Actors \cup {None} /\ fMaxSessionsAllowed' \in {0, MaxSessions}
  BY <1>0 DEF TypeOK
<1>5. TypeOK'
  BY <1>0, <1>1, <1>2, <1>4 DEF TypeOK, lists, state
<1>6. MutexMove(Manager) /\ Place(Manager)'
  BY <1>0 DEF ListInv, TypeOK, Place, Locking, Pinning, MutexMove
<1> QED
  BY <1>0, <1>1, <1>2, <1>3, <1>5, <1>6, QuietStep DEF Pinning, state

\* Time passes.
LEMMA AgeInv ==
  ASSUME ListInv, NEW s \in Sessions, Age(s)
  PROVE  ListInv'
<1>1. /\ UNCHANGED <<fCopySessionStore, fSessionsMutex, lists, fMaxSessionsAllowed, unborn, deleted, fRefCount,
                     fTerminated, pc, ctx, drop, hand, want, count, render, todo, sessions2Delete>>
      /\ old' = old \cup {s}
  BY DEF Age, NoList, NoCopy, NoCall
<1>2. TypeOK'
  BY <1>1 DEF ListInv, TypeOK, lists
<1>3. RefExact' /\ OnePlace'
  BY <1>1 DEF ListInv, RefExact, OnePlace, lists
<1>4. Active' = Active
  BY <1>1 DEF Active, lists
<1>5. \A x \in Sessions : OneKind(x)'
  BY <1>1, <1>4 DEF ListInv, OneKind, Doomed, Fresh, lists
<1>6. \A a \in Actors : Place(a)'
  BY <1>1, <1>4 DEF ListInv, Place, lists
<1> QED
  BY <1>2, <1>3, <1>5, <1>6 DEF ListInv

\* The steps that push a session: the request's own, another one that is asked
\* or listed, or none.
LEMMA PushInv ==
  ASSUME ListInv, NEW r \in Requests,
         \/ Found(r) \/ PrepareSession(r) \/ EndRequest(r) \/ AskPush(r) \/ AskEnd(r) \/ ListPush(r) \/ ListEnd(r)
         \/ NotifyRemoved(r) /\ ctx[r] = hand[r]
  PROVE  ListInv'
<1> USE DEF Found, PrepareSession, EndRequest, AskPush, AskEnd, ListPush, ListEnd, NotifyRemoved,
        NoList, NoCopy, NoState, NoCall, Goto, At
<1>0. r \in Actors /\ TypeOK
  BY ActorFacts DEF ListInv
<1>1. /\ UNCHANGED <<fCopySessionStore, fSessionsMutex, lists, fMaxSessionsAllowed, unborn, deleted, fTerminated, old, count,
                     render, todo, sessions2Delete>>
      /\ pc[r] # "add" /\ drop[r] = None
  OBVIOUS
<1>2. /\ pc' \in [Actors -> Places] /\ hand' \in [Actors -> Sessions \cup {None}]
      /\ want' \in [Actors -> Keys \cup {None}]
      /\ pc'[r] \in {"prepare", "render", "idle", "page", "ask", "asked", "list", "listed"}
      /\ pc[r] = "askPush" <=> pc'[r] = "ask"
      /\ pc[r] = "ask" <=> pc'[r] = "asked"
      /\ pc[r] # "asked"
      /\ pc'[r] \in {"list", "listed"} => pc[r] \in {"list", "listPush"}
      /\ \A b \in Actors \ {r} : pc'[b] = pc[b] /\ hand'[b] = hand[b] /\ want'[b] = want[b]
  BY <1>0 DEF TypeOK, Places
<1>3. PICK s \in Sessions \cup {None} :
        /\ Push(r, s)
        /\ pc'[r] = "page" => s \in {render[r], None}
        /\ pc'[r] \in {"asked", "listed"} => s = render[r]
  BY <1>0, <1>2 DEF TypeOK
<1>4. ctx'[r] = s /\ \A b \in Actors \ {r} : ctx'[b] = ctx[b] /\ drop'[b] = drop[b]
  BY <1>0, <1>3 DEF Push, TypeOK
<1>5. Only(r)
  BY <1>1, <1>2, <1>4 DEF Only
<1>6. MutexMove(r)
  BY <1>1 DEF MutexMove
<1>7. (/\ fRefCount' \in [Sessions -> Nat]
       /\ ctx' \in [Actors -> Sessions \cup {None}] /\ drop' \in [Actors -> Sessions \cup {None}]) => TypeOK'
  BY <1>0, <1>1, <1>2 DEF TypeOK, lists
<1>8. Place(r)'
  <2>1. Place(r)
    BY <1>0 DEF ListInv
  <2>2. pc'[r] \in Locking => fSessionsMutex' = r
    BY <1>1, <1>2, <2>1 DEF Place, Locking
  <2>3. pc'[r] \in Pinning => render'[r] \in Sessions
    BY <1>1, <1>2, <2>1 DEF Place, Pinning
  <2> QED
    BY <1>2, <1>3, <1>4, <2>2, <2>3, <1>1 DEF Place
<1> QED
  BY <1>0, <1>1, <1>2, <1>3, <1>5, <1>6, <1>7, <1>8, PushStep DEF Pinning

\* The end of a Push: what the context has left loses its count.
LEMMA UnRefInv ==
  ASSUME ListInv, NEW r \in Requests, UnRef(r)
  PROVE  ListInv'
<1>0. r \in Actors /\ TypeOK /\ RefExact
  BY ActorFacts DEF ListInv
<1>1. /\ UNCHANGED <<fCopySessionStore, fSessionsMutex, lists, fMaxSessionsAllowed, unborn, deleted, fTerminated, old,
                     pc, ctx, hand, want, count, render, todo, sessions2Delete>>
      /\ drop[r] \in Sessions /\ drop' = [drop EXCEPT ![r] = None]
      /\ fRefCount' = [fRefCount EXCEPT ![drop[r]] = @ - 1]
  BY <1>0 DEF UnRef, NoList, NoCopy, NoCall, TypeOK
<1>2. /\ Only(r) /\ MutexMove(r) /\ drop' \in [Actors -> Sessions \cup {None}]
      /\ drop'[r] = None /\ \A b \in Actors \ {r} : drop'[b] = drop[b]
  BY <1>0, <1>1 DEF TypeOK, Only, MutexMove
<1>3. ASSUME NEW s \in Sessions
      PROVE  /\ fRefCount'[s] = Cardinality({b \in Actors : ctx'[b] = s}) + Cardinality({b \in Actors : drop'[b] = s})
                                + Cardinality({b \in Actors : pc'[b] \in Pinning /\ render'[b] = s})
             /\ fRefCount'[s] \in Nat
  <2> DEFINE C == {b \in Actors : ctx[b] = s}
             E == {b \in Actors : drop[b] = s}
             F == {b \in Actors : drop'[b] = s}
             P == {b \in Actors : pc[b] \in Pinning /\ render[b] = s}
  <2> SUFFICES fRefCount'[s] = Cardinality(C) + Cardinality(F) + Cardinality(P) /\ fRefCount'[s] \in Nat
    BY <1>1
  <2>1. P \in SUBSET Actors /\ C \in SUBSET Actors /\ E \in SUBSET Actors /\ F \in SUBSET Actors
    OBVIOUS
  <2>2. fRefCount[s] = Cardinality(C) + Cardinality(E) + Cardinality(P)
    BY <1>0 DEF RefExact
  <2>3. /\ s = drop[r] => F = E \ {r} /\ r \in E
        /\ s # drop[r] => F = E
    BY <1>0, <1>2, NoneDiffers
  <2>4. fRefCount'[s] = (IF s = drop[r] THEN fRefCount[s] - 1 ELSE fRefCount[s])
    BY <1>0, <1>1 DEF TypeOK
  <2> HIDE DEF C, E, F, P
  <2>5. /\ IsFiniteSet(E) /\ Cardinality(E) \in Nat /\ Cardinality(P) \in Nat /\ Cardinality(C) \in Nat
        /\ Cardinality(F) \in Nat
    BY <2>1, ActorCount
  <2>6. Cardinality(F) = (IF s = drop[r] THEN Cardinality(E) - 1 ELSE Cardinality(E))
    BY <2>3, <2>5, FS_RemoveElement
  <2> QED
    BY <2>2, <2>4, <2>5, <2>6
<1>4. RefExact'
  BY <1>3 DEF RefExact
<1>5. TypeOK'
  <2>1. fRefCount' \in [Sessions -> Nat]
    BY <1>0, <1>1, <1>3 DEF TypeOK
  <2> QED
    BY <1>0, <1>1, <1>2, <2>1 DEF TypeOK, lists
<1>6. Active' = Active
  BY <1>1 DEF Active, lists
<1>7. OnePlace' /\ \A s \in Sessions : OneKind(s)'
  BY <1>1, <1>6 DEF ListInv, OnePlace, OneKind, Doomed, Fresh, lists
<1>8. \A b \in Actors : Place(b)'
  BY <1>1, <1>6 DEF ListInv, Place, lists
<1> QED
  BY <1>4, <1>5, <1>7, <1>8 DEF ListInv

\* NotifyRemoved of another session, or of one's own when it has left already.
LEMMA NotifyInv ==
  ASSUME ListInv, NEW r \in Requests, NotifyRemoved(r), ctx[r] # hand[r]
  PROVE  ListInv'
<1> USE DEF NotifyRemoved, NoPush, NoList, NoCopy, Goto, At
<1>0. r \in Actors /\ TypeOK /\ Place(r)
  BY ActorFacts DEF ListInv
<1>1. /\ UNCHANGED <<fCopySessionStore, fSessionsMutex, lists, fMaxSessionsAllowed, unborn, deleted, fRefCount, fTerminated, old,
                     ctx, drop, want, count, render, todo, sessions2Delete>>
      /\ pc[r] = "notify" /\ hand' = [hand EXCEPT ![r] = None] /\ pc' = [pc EXCEPT ![r] = "page"]
  OBVIOUS
<1>2. Only(r) /\ MutexMove(r)
  BY <1>0, <1>1 DEF TypeOK, Only, MutexMove
<1>3. TypeOK'
  BY <1>0, <1>1 DEF TypeOK, Places, lists
<1>4. Place(r)'
  BY <1>0, <1>1 DEF TypeOK, Place, Locking, Pinning
<1>5. pc'[r] = "page"
  BY <1>0, <1>1 DEF TypeOK
<1> QED
  BY <1>0, <1>1, <1>2, <1>3, <1>4, <1>5, QuietStep DEF Pinning

\* GetASessionsInfo counts its own session once more ...
LEMMA AskInv ==
  ASSUME ListInv, NEW r \in Requests, NEW k \in Keys, GetASessionsInfo(r, k)
  PROVE  ListInv'
<1> USE DEF GetASessionsInfo, NoPush, NoList, NoCopy, Goto, At, MutexFree
<1>0. r \in Actors /\ TypeOK /\ Place(r) /\ RefExact
  BY ActorFacts DEF ListInv
<1>1. /\ UNCHANGED <<fCopySessionStore, lists, fMaxSessionsAllowed, unborn, deleted, fTerminated, old,
                     ctx, drop, want, count, render, todo, sessions2Delete>>
      /\ fSessionsMutex = None /\ fSessionsMutex' = r /\ pc[r] = "page" /\ pc' = [pc EXCEPT ![r] = "askPush"]
      /\ hand' = [hand EXCEPT ![r] = fSessions[k]] /\ fSessions[k] \in Sessions
      /\ ctx[r] = render[r] /\ ctx[r] \in Sessions
  BY <1>0 DEF TypeOK, Place
<1>2. /\ Only(r) /\ MutexMove(r) /\ pc'[r] = "askPush" /\ hand'[r] = fSessions[k]
      /\ pc' \in [Actors -> Places] /\ hand' \in [Actors -> Sessions \cup {None}]
  BY <1>0, <1>1 DEF TypeOK, Only, MutexMove, Places
<1>3. ASSUME NEW s \in Sessions
      PROVE  /\ fRefCount'[s] = Cardinality({b \in Actors : ctx'[b] = s}) + Cardinality({b \in Actors : drop'[b] = s})
                                + Cardinality({b \in Actors : pc'[b] \in Pinning /\ render'[b] = s})
             /\ fRefCount'[s] \in Nat
  <2> DEFINE C == {b \in Actors : ctx[b] = s}
             E == {b \in Actors : drop[b] = s}
             P == {b \in Actors : pc[b] \in Pinning /\ render[b] = s}
             Q == {b \in Actors : pc'[b] \in Pinning /\ render'[b] = s}
  <2> SUFFICES fRefCount'[s] = Cardinality(C) + Cardinality(E) + Cardinality(Q) /\ fRefCount'[s] \in Nat
    BY <1>1
  <2>1. P \in SUBSET Actors /\ C \in SUBSET Actors /\ E \in SUBSET Actors
    OBVIOUS
  <2>2. fRefCount[s] = Cardinality(C) + Cardinality(E) + Cardinality(P)
    BY <1>0 DEF RefExact
  <2>3. /\ s = ctx[r] => Q = P \cup {r} /\ r \notin P
        /\ s # ctx[r] => Q = P
    BY <1>0, <1>1, <1>2 DEF Only, Pinning
  <2>4. fRefCount'[s] = (IF s = ctx[r] THEN fRefCount[s] + 1 ELSE fRefCount[s])
    BY <1>0 DEF TypeOK
  <2> HIDE DEF C, E, P, Q
  <2>5. IsFiniteSet(P) /\ Cardinality(P) \in Nat /\ Cardinality(C) \in Nat /\ Cardinality(E) \in Nat
    BY <2>1, ActorCount
  <2>6. Cardinality(Q) = (IF s = ctx[r] THEN Cardinality(P) + 1 ELSE Cardinality(P))
    BY <2>3, <2>5, FS_AddElement
  <2> QED
    BY <2>2, <2>4, <2>5, <2>6
<1>4. RefExact'
  BY <1>3 DEF RefExact
<1>5. TypeOK'
  <2>1. fRefCount' \in [Sessions -> Nat]
    BY <1>0, <1>3 DEF TypeOK
  <2> QED
    BY <1>0, <1>1, <1>2, <2>1 DEF TypeOK, lists
<1>6. Place(r)'
  BY <1>1, <1>2 DEF Place, Pinning
<1>7. \A b \in Actors \ {r} : Place(b)'
  BY <1>0, <1>1, <1>2, OthersPlace DEF ListInv
<1>8. OnePlace' /\ \A s \in Sessions : OneKind(s)'
  BY <1>0, <1>1, <1>2, HomesKept DEF ListInv
<1> QED
  BY <1>4, <1>5, <1>6, <1>7, <1>8 DEF ListInv

\* ... and gives that up when the own session is in the context again.
LEMMA AskDoneInv ==
  ASSUME ListInv, NEW r \in Requests, AskDone(r)
  PROVE  ListInv'
<1> USE DEF AskDone, NoPush, NoList, NoCopy, Goto, At
<1>0. r \in Actors /\ TypeOK /\ Place(r) /\ RefExact
  BY ActorFacts DEF ListInv
<1>1. /\ UNCHANGED <<fCopySessionStore, lists, fMaxSessionsAllowed, unborn, deleted, fTerminated, old,
                     ctx, drop, want, count, render, todo, sessions2Delete>>
      /\ fSessionsMutex = r /\ fSessionsMutex' = None /\ pc[r] = "asked" /\ pc' = [pc EXCEPT ![r] = "page"]
      /\ hand' = [hand EXCEPT ![r] = None] /\ render[r] \in Sessions /\ ctx[r] = render[r]
      /\ fRefCount' = [fRefCount EXCEPT ![render[r]] = @ - 1]
  BY <1>0 DEF Place, Locking, Pinning
<1>2. /\ Only(r) /\ MutexMove(r) /\ pc'[r] = "page"
      /\ pc' \in [Actors -> Places] /\ hand' \in [Actors -> Sessions \cup {None}]
  BY <1>0, <1>1 DEF TypeOK, Only, MutexMove, Places
<1>3. ASSUME NEW s \in Sessions
      PROVE  /\ fRefCount'[s] = Cardinality({b \in Actors : ctx'[b] = s}) + Cardinality({b \in Actors : drop'[b] = s})
                                + Cardinality({b \in Actors : pc'[b] \in Pinning /\ render'[b] = s})
             /\ fRefCount'[s] \in Nat
  <2> DEFINE C == {b \in Actors : ctx[b] = s}
             E == {b \in Actors : drop[b] = s}
             P == {b \in Actors : pc[b] \in Pinning /\ render[b] = s}
             Q == {b \in Actors : pc'[b] \in Pinning /\ render'[b] = s}
  <2> SUFFICES fRefCount'[s] = Cardinality(C) + Cardinality(E) + Cardinality(Q) /\ fRefCount'[s] \in Nat
    BY <1>1
  <2>1. P \in SUBSET Actors /\ C \in SUBSET Actors /\ E \in SUBSET Actors /\ Q \in SUBSET Actors
    OBVIOUS
  <2>2. fRefCount[s] = Cardinality(C) + Cardinality(E) + Cardinality(P)
    BY <1>0 DEF RefExact
  <2>3. Q = P \ {r} /\ (r \in P <=> render[r] = s)
    BY <1>0, <1>1, <1>2 DEF Only, Pinning
  <2>4. fRefCount'[s] = (IF s = render[r] THEN fRefCount[s] - 1 ELSE fRefCount[s])
    BY <1>0, <1>1 DEF TypeOK
  <2> HIDE DEF C, E, P, Q
  <2>5. /\ IsFiniteSet(P) /\ Cardinality(P) \in Nat /\ Cardinality(C) \in Nat /\ Cardinality(E) \in Nat
        /\ Cardinality(Q) \in Nat
    BY <2>1, ActorCount
  <2>6. Cardinality(Q) = (IF s = render[r] THEN Cardinality(P) - 1 ELSE Cardinality(P))
    BY <2>3, <2>5, FS_RemoveElement
  <2> QED
    BY <2>2, <2>4, <2>5, <2>6
<1>4. RefExact'
  BY <1>3 DEF RefExact
<1>5. TypeOK'
  <2>1. fRefCount' \in [Sessions -> Nat]
    BY <1>0, <1>1, <1>3 DEF TypeOK
  <2> QED
    BY <1>0, <1>1, <1>2, <2>1 DEF TypeOK, lists
<1>6. Place(r)'
  BY <1>1, <1>2 DEF Place, Locking, Pinning
<1>7. \A b \in Actors \ {r} : Place(b)'
  BY <1>0, <1>1, <1>2, OthersPlace DEF ListInv
<1>8. OnePlace' /\ \A s \in Sessions : OneKind(s)'
  BY <1>0, <1>1, <1>2, HomesKept DEF ListInv
<1> QED
  BY <1>4, <1>5, <1>6, <1>7, <1>8 DEF ListInv

\* MakeSession: a session begins to exist in the hand of the request.
LEMMA MakeInv ==
  ASSUME ListInv, NEW r \in Requests, MakeSession(r)
  PROVE  ListInv'
<1>0. r \in Actors /\ TypeOK /\ Place(r) /\ RefExact
  BY ActorFacts DEF ListInv
<1>1. /\ UNCHANGED <<fCopySessionStore, fSessionsMutex, lists, fMaxSessionsAllowed, deleted, fTerminated, old,
                     want, render, todo, sessions2Delete>>
      /\ pc[r] = "made" /\ drop[r] = None /\ count' = [count EXCEPT ![r] = 0] /\ count' \in [Actors -> Nat] /\ MutexMove(r)
  BY <1>0 DEF MakeSession, NoCopy, At, TypeOK, MutexMove
<1>2. CASE pc' = [pc EXCEPT ![r] = "end"] /\ UNCHANGED <<ctx, drop, fRefCount, unborn, hand>>
  <2>1. Only(r) /\ pc'[r] = "end" /\ pc' \in [Actors -> Places]
    BY <1>0, <1>1, <1>2 DEF TypeOK, Only, Places
  <2>2. TypeOK'
    BY <1>0, <1>1, <1>2, <2>1 DEF TypeOK, lists
  <2>3. Place(r)'
    BY <2>1 DEF Place, Locking, Pinning
  <2> QED
    BY <1>0, <1>1, <1>2, <2>1, <2>2, <2>3, QuietStep DEF Pinning
<1>3. ASSUME NEW s \in unborn, Push(r, s), unborn' = unborn \ {s}, hand' = [hand EXCEPT ![r] = s],
             pc' = [pc EXCEPT ![r] = "add"]
      PROVE  ListInv'
  <2>0. s \in Sessions /\ s # None
    BY <1>0, <1>3, NoneDiffers DEF TypeOK
  <2>1. /\ pc' \in [Actors -> Places] /\ pc'[r] = "add" /\ hand' \in [Actors -> Sessions \cup {None}] /\ hand'[r] = s
        /\ \A b \in Actors \ {r} : pc'[b] = pc[b] /\ hand'[b] = hand[b] /\ ctx'[b] = ctx[b] /\ drop'[b] = drop[b]
    BY <1>0, <1>3, <2>0 DEF TypeOK, Places, Push
  <2>2. Only(r)
    BY <1>1, <2>1 DEF Only
  <2>3. \A b \in Actors : (pc'[b] \in Pinning <=> pc[b] \in Pinning) /\ (pc[b] \in Pinning => render'[b] = render[b])
    BY <1>1, <2>1 DEF Pinning
  <2>4. /\ RefExact' /\ fRefCount' \in [Sessions -> Nat] /\ ctx' \in [Actors -> Sessions \cup {None}]
        /\ drop' \in [Actors -> Sessions \cup {None}]
    BY <1>0, <1>1, <1>3, <2>0, <2>3, PushRef
  <2>5. TypeOK'
    BY <1>0, <1>1, <1>3, <2>1, <2>4 DEF TypeOK, lists
  <2>6. Place(r)'
    BY <2>0, <2>1 DEF Place, Locking, Pinning
  <2>7. \A b \in Actors \ {r} : Place(b)'
    BY <1>0, <1>1, <2>2, OthersPlace DEF ListInv
  <2>8. Active' = Active
    BY <1>1 DEF Active, lists
  <2>9. OneKind(s) /\ ~Fresh(s)
    BY <1>3, <2>0 DEF ListInv, OneKind
  <2>10. \A x : Fresh(x)' <=> (Fresh(x) \/ x = s)
    BY <1>0, <1>1, <2>1 DEF Fresh
  <2>11. \A x : Doomed(x)' <=> Doomed(x)
    BY <1>1 DEF Doomed
  <2>12. OnePlace'
    <3>1. \A b \in Actors \ {r} : pc'[b] = "add" => hand'[b] # s
      BY <2>1, <2>9 DEF Fresh
    <3> QED
      BY <1>1, <2>1, <3>1 DEF ListInv, OnePlace, lists
  <2>13. \A x \in Sessions : OneKind(x)'
    <3> SUFFICES ASSUME NEW x \in Sessions PROVE OneKind(x)'
      OBVIOUS
    <3>1. OneKind(x)
      BY DEF ListInv
    <3> QED
      BY <1>1, <1>3, <2>8, <2>9, <2>10, <2>11, <3>1 DEF OneKind, lists
  <2> QED
    BY <2>4, <2>5, <2>6, <2>7, <2>12, <2>13 DEF ListInv
<1> QED
  BY <1>2, <1>3 DEF MakeSession, Goto

\* A thread that takes fSessionsMutex for one step meets no scan.
LEMMA NoScan ==
  ASSUME ListInv, NEW a \in Actors, fSessionsMutex \in {None, a}
  PROVE  \A b \in Actors \ {a} : pc[b] # "scan"
BY ActorFacts DEF ListInv, Place, Locking, Pinning

\* AddSession: the new session takes the id, the one that had it is disabled.
LEMMA AddInv ==
  ASSUME ListInv, NEW r \in Requests, AddSession(r)
  PROVE  ListInv'
<1>0. r \in Actors /\ TypeOK /\ Place(r) /\ RefExact /\ OnePlace
  BY ActorFacts DEF ListInv
<1>1. /\ UNCHANGED <<fCopySessionStore, fSessionsMutex, fMaxSessionsAllowed, unborn, deleted, fRefCount, fTerminated,
                     ctx, drop, count, render, todo, sessions2Delete>>
      /\ pc[r] = "add" /\ fSessionsMutex = None /\ pc' = [pc EXCEPT ![r] = "added"]
      /\ hand' = [hand EXCEPT ![r] = None] /\ want' = [want EXCEPT ![r] = None]
      /\ old' \subseteq old
  BY DEF AddSession, NoCopy, At, Goto, MutexFree
<1>2. hand[r] \in Sessions /\ NewId(r) \in Keys
  BY <1>0, <1>1 DEF Place, NewId, Keys, TypeOK
<1>3. PICK s \in Sessions, k \in Keys, p \in Sessions \cup {None} :
        /\ s = hand[r] /\ p = fSessions[k]
        /\ fDisabledSessions' = fDisabledSessions \cup ({p} \ {None})
        /\ fSessions' = [fSessions EXCEPT ![k] = s]
  BY <1>0, <1>2 DEF AddSession, TypeOK
<1>4. s # None
  BY NoneDiffers
<1>5. /\ pc' \in [Actors -> Places] /\ pc'[r] = "added"
      /\ hand' \in [Actors -> Sessions \cup {None}] /\ want' \in [Actors -> Keys \cup {None}]
      /\ \A b \in Actors \ {r} : pc'[b] = pc[b] /\ hand'[b] = hand[b] /\ want'[b] = want[b]
  BY <1>0, <1>1 DEF TypeOK, Places
<1>6. Only(r) /\ MutexMove(r)
  BY <1>1, <1>5 DEF Only, MutexMove
<1>7. RefExact'
  BY <1>0, <1>1, <1>5, <1>6, RefKept DEF Pinning
<1>8. TypeOK'
  <2>1. fSessions' \in [Keys -> Sessions \cup {None}] /\ fDisabledSessions' \subseteq Sessions
    BY <1>0, <1>3 DEF TypeOK
  <2> QED
    BY <1>0, <1>1, <1>5, <2>1 DEF TypeOK
<1>9. \A b \in Actors \ {r} : Place(b)'
  BY <1>0, <1>1, <1>6, NoScan, OthersPlace DEF ListInv
<1>10. Place(r)'
  BY <1>5 DEF Place, Locking, Pinning
<1>11. Fresh(s) /\ OneKind(s) /\ s \notin Active
  BY <1>0, <1>1, <1>3 DEF ListInv, Fresh, OneKind
<1>12. \A l \in Keys : fSessions'[l] = (IF l = k THEN s ELSE fSessions[l])
  BY <1>0, <1>3 DEF TypeOK
<1>13. \A l \in Keys : fSessions[l] # s
  BY <1>4, <1>11 DEF Active
<1>14. OnePlace'
  BY <1>0, <1>1, <1>5, <1>12, <1>13 DEF OnePlace
<1>15. \A x \in Sessions : x \in Active' <=> (x = s \/ (x \in Active /\ x # p))
  <2>1. \A x \in Sessions : x \in Active' <=> \E l \in Keys : fSessions'[l] = x
    BY NoneDiffers DEF Active
  <2>2. \A x \in Sessions : x \in Active <=> \E l \in Keys : fSessions[l] = x
    BY NoneDiffers DEF Active
  <2>3. \A l \in Keys \ {k} : fSessions[l] # None => fSessions[l] # p
    BY <1>0, <1>3 DEF OnePlace
  <2> QED
    BY <1>3, <1>12, <2>1, <2>2, <2>3, NoneDiffers
<1>16. p # None => p \in Active
  BY <1>3 DEF Active
<1>17. \A x : Fresh(x)' <=> (Fresh(x) /\ x # s)
  BY <1>0, <1>1, <1>3, <1>5 DEF Fresh, OnePlace
<1>18. \A x : Doomed(x)' <=> Doomed(x)
  BY <1>1 DEF Doomed
<1>19. \A x \in Sessions : OneKind(x)'
  <2> SUFFICES ASSUME NEW x \in Sessions PROVE OneKind(x)'
    OBVIOUS
  <2>1. OneKind(x) /\ x # None
    BY NoneDiffers DEF ListInv
  <2>2. x \in fDisabledSessions' <=> (x \in fDisabledSessions \/ x = p)
    BY <1>3, <2>1
  <2>3. x = p => x \in Active
    BY <1>16, <2>1
  <2>4. (x \in Active' <=> (x = s \/ (x \in Active /\ x # p))) /\ (Fresh(x)' <=> (Fresh(x) /\ x # s))
    BY <1>15, <1>17
  <2> QED
    BY <1>1, <1>11, <1>18, <2>1, <2>2, <2>3, <2>4 DEF OneKind
<1> QED
  BY <1>7, <1>8, <1>9, <1>10, <1>14, <1>19 DEF ListInv

\* DisableSession: a session changes the list.
LEMMA DisableInv ==
  ASSUME ListInv, NEW r \in Requests, NEW k \in Keys, DisableSession(r, k)
  PROVE  ListInv'
<1>0. r \in Actors /\ TypeOK /\ Place(r) /\ RefExact /\ OnePlace
  BY ActorFacts DEF ListInv
<1>1. /\ UNCHANGED <<fCopySessionStore, fSessionsMutex, fMaxSessionsAllowed, unborn, deleted, fRefCount, fTerminated,
                     ctx, drop, want, count, render, todo, sessions2Delete>>
      /\ pc[r] = "page" /\ fSessionsMutex = None /\ pc' = [pc EXCEPT ![r] = "notify"]
      /\ old' \subseteq old
  BY DEF DisableSession, NoCopy, At, Goto, MutexFree
<1>2. PICK p \in Sessions :
        /\ p = fSessions[k]
        /\ fDisabledSessions' = fDisabledSessions \cup {p}
        /\ fSessions' = [fSessions EXCEPT ![k] = None]
        /\ hand' = [hand EXCEPT ![r] = p]
  BY <1>0 DEF DisableSession, TypeOK
<1>3. /\ pc' \in [Actors -> Places] /\ pc'[r] = "notify" /\ hand' \in [Actors -> Sessions \cup {None}]
      /\ \A b \in Actors \ {r} : pc'[b] = pc[b] /\ hand'[b] = hand[b]
  BY <1>0, <1>1, <1>2 DEF TypeOK, Places
<1>4. Only(r) /\ MutexMove(r)
  BY <1>1, <1>3 DEF Only, MutexMove
<1>5. RefExact'
  BY <1>0, <1>1, <1>3, <1>4, RefKept DEF Pinning
<1>6. TypeOK'
  <2>1. fSessions' \in [Keys -> Sessions \cup {None}] /\ fDisabledSessions' \subseteq Sessions
    BY <1>0, <1>2 DEF TypeOK
  <2> QED
    BY <1>0, <1>1, <1>3, <2>1 DEF TypeOK
<1>7. \A b \in Actors \ {r} : Place(b)'
  BY <1>0, <1>1, <1>4, NoScan, OthersPlace DEF ListInv
<1>8. Place(r)'
  BY <1>0, <1>1, <1>3 DEF Place, Locking, Pinning
<1>9. \A l \in Keys : fSessions'[l] = (IF l = k THEN None ELSE fSessions[l])
  BY <1>0, <1>2 DEF TypeOK
<1>10. OnePlace'
  BY <1>0, <1>1, <1>3, <1>9 DEF OnePlace
<1>11. \A x \in Sessions : x \in Active' <=> (x \in Active /\ x # p)
  <2>1. \A x \in Sessions : x \in Active' <=> \E l \in Keys : fSessions'[l] = x
    BY NoneDiffers DEF Active
  <2>2. \A x \in Sessions : x \in Active <=> \E l \in Keys : fSessions[l] = x
    BY NoneDiffers DEF Active
  <2>3. \A l \in Keys \ {k} : fSessions[l] # p
    BY <1>0, <1>2, NoneDiffers DEF OnePlace
  <2> QED
    BY <1>2, <1>9, <2>1, <2>2, <2>3, NoneDiffers
<1>12. p \in Active
  BY <1>2, NoneDiffers DEF Active
<1>13. \A x : (Fresh(x)' <=> Fresh(x)) /\ (Doomed(x)' <=> Doomed(x))
  BY <1>1, <1>3 DEF Fresh, Doomed
<1>14. \A x \in Sessions : OneKind(x)'
  <2> SUFFICES ASSUME NEW x \in Sessions PROVE OneKind(x)'
    OBVIOUS
  <2>1. OneKind(x)
    BY DEF ListInv
  <2>2. x \in fDisabledSessions' <=> (x \in fDisabledSessions \/ x = p)
    BY <1>2
  <2>3. x \in Active' <=> (x \in Active /\ x # p)
    BY <1>11
  <2> QED
    BY <1>1, <1>12, <1>13, <2>1, <2>2, <2>3 DEF OneKind
<1> QED
  BY <1>5, <1>6, <1>7, <1>8, <1>10, <1>14 DEF ListInv

\* DoCleanup: a session stays in its list, or goes over to the thread that
\* will delete it.
LEMMA DoCleanupInv ==
  ASSUME ListInv, NEW a \in Requests \cup {Cleaner}, DoCleanup(a)
  PROVE  ListInv'
<1>0. a \in Actors /\ TypeOK /\ Place(a) /\ RefExact /\ OnePlace
  BY ActorFacts DEF ListInv
<1>1. /\ UNCHANGED <<fCopySessionStore, fSessionsMutex, fMaxSessionsAllowed, unborn, deleted, old,
                     pc, hand, want, count, render>>
      /\ pc[a] = "scan" /\ drop[a] = None /\ fSessionsMutex = a
  BY <1>0 DEF DoCleanup, NoCopy, At, Place, Locking, Pinning
<1>2. PICK s \in todo[a] :
       /\ todo' = [todo EXCEPT ![a] = @ \ {s}]
       /\ fTerminated' \in {fTerminated, fTerminated \cup {s}}
       /\ \/ /\ sessions2Delete' = [sessions2Delete EXCEPT ![a] = @ \cup {s}]
             /\ fDisabledSessions' = fDisabledSessions \ {s}
             /\ fSessions' = [k \in Keys |-> IF fSessions[k] = s THEN None ELSE fSessions[k]]
          \/ UNCHANGED <<sessions2Delete, lists>>
       /\ Push(a, None) \/ UNCHANGED <<ctx, drop, fRefCount>>
  BY DEF DoCleanup
<1>3. s \in Sessions /\ s # None /\ s \in Active \cup fDisabledSessions
  BY <1>0, <1>1, NoneDiffers DEF TypeOK, Place
<1>4. /\ RefExact' /\ fRefCount' \in [Sessions -> Nat] /\ ctx' \in [Actors -> Sessions \cup {None}]
      /\ drop' \in [Actors -> Sessions \cup {None}]
  <2>1. CASE Push(a, None)
    BY <1>0, <1>1, <2>1, PushRef
  <2>2. CASE UNCHANGED <<ctx, drop, fRefCount>>
    BY <1>0, <1>1, <2>2 DEF RefExact, TypeOK
  <2> QED
    BY <1>2, <2>1, <2>2
<1>5. /\ sessions2Delete' \in [Actors -> SUBSET Sessions] /\ todo' \in [Actors -> SUBSET Sessions]
      /\ todo'[a] = todo[a] \ {s}
      /\ \A b \in Actors \ {a} : ctx'[b] = ctx[b] /\ drop'[b] = drop[b] /\ todo'[b] = todo[b] /\ sessions2Delete'[b] = sessions2Delete[b]
  BY <1>0, <1>2, <1>3 DEF TypeOK, Push
<1>6. TypeOK'
  <2>1. /\ fSessions' \in [Keys -> Sessions \cup {None}] /\ fDisabledSessions' \subseteq Sessions
        /\ fTerminated' \subseteq Sessions
    BY <1>0, <1>2, <1>3 DEF TypeOK, lists
  <2> QED
    BY <1>0, <1>1, <1>4, <1>5, <2>1 DEF TypeOK
<1>7. Only(a) /\ MutexMove(a)
  BY <1>1, <1>5 DEF Only, MutexMove
<1>8. \A b \in Actors \ {a} : Place(b)'
  BY <1>0, <1>1, <1>7, NoScan, OthersPlace DEF ListInv
<1>9. \A x : Fresh(x)' <=> Fresh(x)
  BY <1>1 DEF Fresh
<1>10. CASE UNCHANGED <<sessions2Delete, lists>>
  <2>1. Active' = Active
    BY <1>10 DEF Active, lists
  <2>2. Place(a)'
    BY <1>0, <1>1, <1>5, <1>10, <2>1 DEF Place, Locking, Pinning, lists
  <2>3. OnePlace' /\ \A x \in Sessions : OneKind(x)'
    BY <1>0, <1>1, <1>7, <1>10, HomesKept DEF ListInv
  <2> QED
    BY <1>4, <1>6, <1>8, <2>2, <2>3 DEF ListInv
<1>11. CASE /\ sessions2Delete' = [sessions2Delete EXCEPT ![a] = @ \cup {s}]
            /\ fDisabledSessions' = fDisabledSessions \ {s}
            /\ fSessions' = [k \in Keys |-> IF fSessions[k] = s THEN None ELSE fSessions[k]]
  <2>1. Active' = Active \ {s}
    BY <1>3, <1>11 DEF Active
  <2>2. Place(a)'
    BY <1>0, <1>1, <1>5, <1>11, <2>1 DEF Place, Locking, Pinning
  <2>3. OneKind(s) /\ ~Doomed(s)
    BY <1>3 DEF ListInv, OneKind
  <2>4. sessions2Delete'[a] = sessions2Delete[a] \cup {s}
    BY <1>0, <1>11 DEF TypeOK
  <2>5. \A x : Doomed(x)' <=> (Doomed(x) \/ x = s)
    BY <1>0, <1>5, <2>4 DEF Doomed
  <2>6. OnePlace'
    <3>1. \A b \in Actors \ {a} : s \notin sessions2Delete[b]
      BY <2>3 DEF Doomed
    <3>2. \A b, c \in Actors : sessions2Delete'[b] \cap sessions2Delete'[c] # {} => b = c
      BY <1>0, <1>5, <2>4, <3>1 DEF OnePlace
    <3> QED
      BY <1>0, <1>1, <1>11, <3>2 DEF OnePlace
  <2>7. \A x \in Sessions : OneKind(x)'
    <3> SUFFICES ASSUME NEW x \in Sessions PROVE OneKind(x)'
      OBVIOUS
    <3>1. OneKind(x)
      BY DEF ListInv
    <3>2. x \in fDisabledSessions' <=> (x \in fDisabledSessions /\ x # s)
      BY <1>11
    <3>3. x \in Active' <=> (x \in Active /\ x # s)
      BY <2>1
    <3> QED
      BY <1>1, <1>3, <1>9, <2>5, <3>1, <3>2, <3>3 DEF OneKind
  <2> QED
    BY <1>4, <1>6, <1>8, <2>2, <2>6, <2>7 DEF ListInv
<1> QED
  BY <1>2, <1>10, <1>11

\* DoDeleteSessions: a session ends to exist.
LEMMA DeleteInv ==
  ASSUME ListInv, NEW a \in Requests \cup {Cleaner}, DoDeleteSessions(a)
  PROVE  ListInv'
<1>0. a \in Actors /\ TypeOK /\ Place(a) /\ RefExact /\ OnePlace
  BY ActorFacts DEF ListInv
<1>1. /\ UNCHANGED <<fCopySessionStore, fSessionsMutex, lists, fMaxSessionsAllowed, unborn, fRefCount,
                     ctx, drop, hand, want, count, render, todo>>
      /\ pc[a] = "delete"
  BY DEF DoDeleteSessions, NoCopy, At
<1>2. PICK s \in sessions2Delete[a] :
        /\ deleted' = deleted \cup {s}
        /\ fTerminated' = fTerminated \ {s} /\ old' = old \ {s}
        /\ sessions2Delete' = [sessions2Delete EXCEPT ![a] = @ \ {s}]
        /\ pc' = [pc EXCEPT ![a] = IF sessions2Delete[a] = {s} THEN Return(a) ELSE "delete"]
  BY DEF DoDeleteSessions, Goto
<1>3. s \in Sessions
  BY <1>0 DEF TypeOK
<1>4. /\ pc' \in [Actors -> Places] /\ pc'[a] \in {"idle", "made", "delete"}
      /\ sessions2Delete' \in [Actors -> SUBSET Sessions]
      /\ sessions2Delete'[a] = sessions2Delete[a] \ {s}
      /\ \A b \in Actors \ {a} : pc'[b] = pc[b] /\ sessions2Delete'[b] = sessions2Delete[b]
  BY <1>0, <1>2 DEF TypeOK, Places, Return
<1>5. TypeOK'
  <2>1. deleted' \subseteq Sessions /\ fTerminated' \subseteq Sessions /\ old' \subseteq Sessions
    BY <1>0, <1>2, <1>3 DEF TypeOK
  <2> QED
    BY <1>0, <1>1, <1>4, <2>1 DEF TypeOK, lists
<1>6. Only(a) /\ MutexMove(a)
  BY <1>1, <1>4 DEF Only, MutexMove
<1>7. RefExact'
  BY <1>0, <1>1, <1>4, <1>6, RefKept DEF Pinning
<1>8. \A b \in Actors \ {a} : Place(b)'
  BY <1>0, <1>1, <1>6, OthersPlace DEF ListInv
<1>9. Place(a)'
  BY <1>4 DEF Place, Locking, Pinning
<1>10. Active' = Active
  BY <1>1 DEF Active, lists
<1>11. \A b \in Actors \ {a} : s \notin sessions2Delete[b]
  BY <1>0 DEF OnePlace
<1>12. Doomed(s) /\ \A x : Doomed(x)' <=> (Doomed(x) /\ x # s)
  BY <1>0, <1>4, <1>11 DEF Doomed
<1>13. \A x : Fresh(x)' <=> Fresh(x)
  BY <1>0, <1>1, <1>4 DEF Fresh
<1>14. OnePlace'
  <2>1. \A b, c \in Actors : sessions2Delete'[b] \cap sessions2Delete'[c] # {} => b = c
    BY <1>0, <1>4 DEF OnePlace
  <2> QED
    BY <1>0, <1>1, <1>4, <2>1 DEF OnePlace, lists
<1>15. \A x \in Sessions : OneKind(x)'
  <2> SUFFICES ASSUME NEW x \in Sessions PROVE OneKind(x)'
    OBVIOUS
  <2>1. OneKind(x)
    BY DEF ListInv
  <2>2. x \in deleted' <=> (x \in deleted \/ x = s)
    BY <1>2
  <2> QED
    BY <1>1, <1>10, <1>12, <1>13, <2>1, <2>2 DEF OneKind, lists
<1> QED
  BY <1>5, <1>7, <1>8, <1>9, <1>14, <1>15 DEF ListInv

\* Finis: all that is in a list is deleted.
LEMMA FinisInv ==
  ASSUME ListInv, Finis
  PROVE  ListInv'
<1>0. Manager \in Actors /\ TypeOK /\ Place(Manager) /\ RefExact /\ OnePlace
  BY ActorFacts DEF ListInv
<1>1. /\ UNCHANGED <<fCopySessionStore, fMaxSessionsAllowed, unborn, fRefCount, fTerminated, old,
                     ctx, drop, hand, want, count, render, todo, sessions2Delete>>
      /\ pc[Manager] = "stopped" /\ fSessionsMutex = Manager /\ fSessionsMutex' = None
      /\ pc' = [pc EXCEPT ![Manager] = "ended"]
      /\ deleted' = deleted \cup Active \cup fDisabledSessions
      /\ fSessions' = [k \in Keys |-> None] /\ fDisabledSessions' = {}
  BY <1>0 DEF Finis, NoCopy, NoState, NoCall, state, At, Goto, Place, Locking, Pinning
<1>2. /\ pc' \in [Actors -> Places] /\ pc'[Manager] = "ended" /\ \A b \in Actors \ {Manager} : pc'[b] = pc[b]
  BY <1>0, <1>1 DEF TypeOK, Places
<1>3. TypeOK'
  <2>1. deleted' \subseteq Sessions
    BY <1>0, <1>1, ActiveCount DEF TypeOK
  <2> QED
    BY <1>0, <1>1, <1>2, <2>1 DEF TypeOK
<1>4. Only(Manager) /\ MutexMove(Manager)
  BY <1>1, <1>2 DEF Only, MutexMove
<1>5. RefExact'
  BY <1>0, <1>1, <1>2, <1>4, RefKept DEF Pinning
<1>6. \A b \in Actors \ {Manager} : Place(b)'
  BY <1>0, <1>1, <1>4, NoScan, OthersPlace DEF ListInv
<1>7. Place(Manager)'
  BY <1>2 DEF Place, Locking, Pinning
<1>8. Active' = {}
  BY <1>1 DEF Active
<1>9. \A x : (Fresh(x)' <=> Fresh(x)) /\ (Doomed(x)' <=> Doomed(x))
  BY <1>0, <1>1, <1>2 DEF Fresh, Doomed
<1>10. OnePlace'
  BY <1>0, <1>1, <1>2 DEF OnePlace
<1>11. \A x \in Sessions : OneKind(x)'
  <2> SUFFICES ASSUME NEW x \in Sessions PROVE OneKind(x)'
    OBVIOUS
  <2>1. OneKind(x)
    BY DEF ListInv
  <2> QED
    BY <1>1, <1>8, <1>9, <2>1 DEF OneKind
<1> QED
  BY <1>3, <1>5, <1>6, <1>7, <1>10, <1>11 DEF ListInv

-----------------------------------------------------------------------------
\* Whatever lookups, pages, cleanups and restarts do at the same time, the
\* counts of the sessions are right, each session has one home, and a thread
\* knows at its place what it found out before.
THEOREM ListSafety == Spec => []ListInv
<1>1. Init => ListInv
  BY ListInit
<1>2. ListInv /\ [Next]_vars => ListInv'
  <2> SUFFICES ASSUME ListInv, [Next]_vars PROVE ListInv'
    OBVIOUS
  <2>1. ASSUME NEW r \in Requests, RequestStep(r) PROVE ListInv'
    <3>1. CASE IntLookupSession(r) \/ ResetTimeAndFlags(r) \/ SessionIsBusy(r) \/ Verify(r) \/ VerifyFails(r) \/ NotifyAdded(r)
      BY <3>1, LookupInv
    <3>2. CASE \/ GetNumberOfSessions(r) \/ MakeRoom(r) \/ RenderNextPage(r) \/ PageDone(r) \/ ResetAccessTime(r)
               \/ ListOne(r) \/ ListDone(r)
      BY <3>2, RenderInv
    <3>3. CASE \/ Found(r) \/ PrepareSession(r) \/ EndRequest(r) \/ AskPush(r) \/ AskEnd(r)
               \/ ListPush(r) \/ ListEnd(r)
      BY <3>3, PushInv
    <3>4. CASE NotifyRemoved(r)
      BY <3>4, PushInv, NotifyInv
    <3>5. CASE MakeSession(r)
      BY <3>5, MakeInv
    <3>6. CASE AddSession(r)
      BY <3>6, AddInv
    <3>7. CASE AskDone(r)
      BY <3>7, AskDoneInv
    <3>8. CASE UnRef(r)
      BY <3>8, UnRefInv
    <3> QED
      BY <2>1, <3>1, <3>2, <3>3, <3>4, <3>5, <3>6, <3>7, <3>8 DEF RequestStep
  <2>2. ASSUME NEW r \in Requests, PageCalls(r) PROVE ListInv'
    BY <2>2, RenderInv, DisableInv, AskInv DEF PageCalls
  <2>3. ASSUME NEW r \in Requests, NEW k \in Keys \cup {None}, Begin(r, k) PROVE ListInv'
    BY <2>3, LookupInv
  <2>4. ASSUME NEW a \in Requests \cup {Cleaner}, CleanupStep(a) PROVE ListInv'
    BY <2>4, CleanupInv, DoCleanupInv, DeleteInv DEF CleanupStep
  <2>5. CASE Period
    BY <2>5, CleanupInv
  <2>6. CASE EnterReInit \/ ManagerStep
    BY <2>6, RestartInv, FinisInv DEF ManagerStep
  <2>7. ASSUME NEW s \in Sessions, Age(s) PROVE ListInv'
    BY <2>7, AgeInv
  <2>8. CASE UNCHANGED vars
    <3>1. Active' = Active
      BY <2>8 DEF vars, lists, Active
    <3>2. TypeOK' /\ RefExact' /\ OnePlace'
      BY <2>8 DEF vars, lists, state, ListInv, TypeOK, RefExact, OnePlace
    <3>3. \A s \in Sessions : OneKind(s)'
      BY <2>8, <3>1 DEF vars, lists, ListInv, OneKind, Doomed, Fresh
    <3>4. \A a \in Actors : Place(a)'
      BY <2>8, <3>1 DEF vars, lists, ListInv, Place
    <3> QED
      BY <3>2, <3>3, <3>4 DEF ListInv
  <2> QED
    BY <2>1, <2>2, <2>3, <2>4, <2>5, <2>6, <2>7, <2>8 DEF Next
<1> QED
  BY <1>1, <1>2, PTL DEF Spec

\* Types of the session list.
COROLLARY TypeCorrect == Spec => []TypeOK
<1>1. ListInv => TypeOK
  BY DEF ListInv
<1> QED
  BY <1>1, ListSafety, PTL

\* fRefCount of a session is the number of the contexts that refer to it,
\* through every Push, however often the own session is pushed again.
COROLLARY References == Spec => []RefExact
<1>1. ListInv => RefExact
  BY DEF ListInv
<1> QED
  BY <1>1, ListSafety, PTL

\* One kind of home, and one place of that kind, make one home.
LEMMA HomeFact ==
  ASSUME ListInv, NEW s \in Sessions \ unborn
  PROVE  \E h : Homes(s) = {h}
<1>0. OneKind(s) /\ OnePlace /\ s # None
  BY NoneDiffers DEF ListInv
<1>1. s \in Active <=> \E k \in Keys : fSessions[k] = s
  BY <1>0 DEF Active
<1>2. CASE s \in Active
  <2>1. PICK k \in Keys : fSessions[k] = s
    BY <1>1, <1>2
  <2>2. \A l \in Keys : fSessions[l] = s <=> l = k
    BY <1>0, <2>1 DEF OnePlace
  <2>3. Homes(s) = {<<"active", k>>}
    BY <1>0, <1>2, <2>2 DEF Homes, OneKind, Doomed, Fresh
  <2> QED
    BY <2>3
<1>3. CASE s \in fDisabledSessions
  <2>1. Homes(s) = {<<"disabled", None>>}
    BY <1>0, <1>1, <1>3 DEF Homes, OneKind, Doomed, Fresh
  <2> QED
    BY <2>1
<1>4. CASE Doomed(s)
  <2>1. PICK a \in Actors : s \in sessions2Delete[a]
    BY <1>4 DEF Doomed
  <2>2. \A b \in Actors : s \in sessions2Delete[b] <=> b = a
    BY <1>0, <2>1 DEF OnePlace
  <2>3. Homes(s) = {<<"delete", a>>}
    BY <1>0, <1>1, <1>4, <2>2 DEF Homes, OneKind, Fresh
  <2> QED
    BY <2>3
<1>5. CASE Fresh(s)
  <2>1. PICK a \in Actors : pc[a] = "add" /\ hand[a] = s
    BY <1>5 DEF Fresh
  <2>2. \A b \in Actors : (pc[b] = "add" /\ hand[b] = s) <=> b = a
    BY <1>0, <2>1 DEF OnePlace
  <2>3. Homes(s) = {<<"new", a>>}
    BY <1>0, <1>1, <1>5, <2>2 DEF Homes, OneKind, Doomed
  <2> QED
    BY <2>3
<1>6. CASE s \in deleted
  <2>1. Homes(s) = {<<"deleted", None>>}
    BY <1>0, <1>1, <1>6 DEF Homes, OneKind, Doomed, Fresh
  <2> QED
    BY <2>1
<1> QED
  BY <1>0, <1>2, <1>3, <1>4, <1>5, <1>6 DEF OneKind

\* No session is lost, and none is in two lists or deleted twice.
THEOREM Home == Spec => []OneHome
<1>1. ListInv => OneHome
  BY HomeFact, FS_Singleton DEF OneHome
<1> QED
  BY <1>1, ListSafety, PTL

-----------------------------------------------------------------------------
(* The use of sessions that are given up.                                  *)

\* The places inside a page, and those at which a call is about a session.
PagePlaces == {"page", "notify", "askPush", "ask", "asked", "list", "listPush", "listed"}
Handing    == {"reset", "found", "add", "notify", "askPush", "ask", "asked", "listPush", "timer"}

\* What a thread knows of the sessions it will push, and where it uses none.
Known(a) ==
  /\ pc[a] \in {"askPush", "listPush"} => hand[a] \in Active
  /\ pc[a] \in {"list", "listPush"} => todo[a] \subseteq Active
  /\ a \notin Requests \/ pc[a] \notin PagePlaces => render[a] = None
  /\ a \notin Requests \/ pc[a] \notin Handing => hand[a] = None
  /\ a \notin Requests \/ pc[a] = "idle" => ctx[a] = None
  /\ a \notin Requests => drop[a] = None

\* The inductive invariant of OnlyBareUses.
UseInv == ListInv /\ \A a \in Actors : Known(a)

\* The step does what OnlyBareUses says.
NoRace ==
  \A a \in Actors, s \in Sessions :
    Gone(s)' /\ s \in Uses(a)' => (Gone(s) /\ s \in Uses(a)) \/ s \in Bare(a)'

\* A session in a list, or one that does not exist yet, is not given up.
LEMMA ListedNotGone ==
  ASSUME ListInv, NEW s \in Sessions, s \in Active \cup fDisabledSessions \cup unborn
  PROVE  ~Gone(s)
BY DEF ListInv, OneKind, Gone, Doomed

\* The lists change only when no other thread keeps fSessionsMutex, so that
\* the others know what they knew.
LEMMA OthersKnown ==
  ASSUME UseInv, NEW a \in Actors, Only(a), UNCHANGED lists \/ fSessionsMutex \in {None, a}
  PROVE  \A b \in Actors \ {a} : Known(b)'
<1> SUFFICES ASSUME NEW b \in Actors \ {a} PROVE Known(b)'
  OBVIOUS
<1>1. Known(b) /\ Place(b) /\ b # None /\ b # a
  BY ActorFacts DEF UseInv, ListInv
<1>2. pc[b] \in {"askPush", "list", "listPush"} => Active' = Active
  BY <1>1 DEF Place, Locking, Pinning, lists, Active
<1> QED
  BY <1>1, <1>2 DEF Only, Known

\* The step of thread a keeps its own knowledge, gives no session up, and a
\* comes by none that is given up.
Orderly(a) ==
  /\ Only(a) /\ Known(a)'
  /\ UNCHANGED lists \/ fSessionsMutex \in {None, a}
  /\ UNCHANGED <<deleted, sessions2Delete>>
  /\ \A s \in Uses(a)' : s \in Uses(a) \/ ~Gone(s)

\* That suffices.
LEMMA OrderlyStep ==
  ASSUME UseInv, NEW a \in Actors, Orderly(a)
  PROVE  (\A b \in Actors : Known(b)') /\ NoRace
<1>1. \A b \in Actors : Known(b)'
  BY OthersKnown DEF Orderly
<1>2. ASSUME NEW b \in Actors, NEW s \in Sessions, Gone(s)', s \in Uses(b)'
      PROVE  Gone(s) /\ s \in Uses(b)
  <2>1. Gone(s)
    BY <1>2 DEF Orderly, Gone
  <2>2. CASE b = a
    BY <1>2, <2>1, <2>2 DEF Orderly
  <2>3. CASE b # a
    BY <1>2, <2>1, <2>3 DEF Orderly, Only, Uses
  <2> QED
    BY <2>2, <2>3
<1> QED
  BY <1>1, <1>2 DEF NoRace

\* The steps that leave the contexts and the pages alone.
LEMMA OrderlyQuiet ==
  ASSUME UseInv, NEW a \in Actors,
         \/ /\ a \in Requests
            /\ \/ \E k \in Keys \cup {None} : Begin(a, k)
               \/ IntLookupSession(a) \/ ResetTimeAndFlags(a) \/ SessionIsBusy(a) \/ Verify(a) \/ VerifyFails(a)
               \/ GetNumberOfSessions(a) \/ MakeRoom(a) \/ AddSession(a) \/ NotifyAdded(a)
         \/ a # Manager /\ (CleanupSessions(a) \/ Scanned(a))
         \/ a = Cleaner /\ Period
         \/ a = Manager /\ (EnterReInit \/ CleanerTerminated \/ ResetInit)
  PROVE  Orderly(a)
<1> USE DEF Begin, IntLookupSession, ResetTimeAndFlags, SessionIsBusy, Verify, VerifyFails, GetNumberOfSessions,
        MakeRoom, AddSession, NotifyAdded, CleanupSessions, Scanned, Period, EnterReInit, CleanerTerminated, ResetInit,
        NoPush, NoList, NoCopy, NoState, NoCall, Goto, At, MutexFree
<1>0. TypeOK /\ Known(a) /\ Place(a)
  BY DEF UseInv, ListInv
<1>1. UNCHANGED <<deleted, ctx, drop, render, sessions2Delete>> /\ (UNCHANGED lists \/ fSessionsMutex \in {None, a})
  OBVIOUS
<1>2. /\ \A b \in Actors \ {a} : pc'[b] = pc[b] /\ hand'[b] = hand[b] /\ want'[b] = want[b] /\ todo'[b] = todo[b]
      /\ pc[a] \notin PagePlaces /\ pc'[a] \notin PagePlaces
      /\ pc'[a] = "idle" => a \notin Requests
  BY <1>0, ActorsDiffer DEF TypeOK, PagePlaces, Return
<1>3. Only(a)
  BY <1>1, <1>2 DEF Only
<1>4. /\ pc[a] = "lookup" => fSessions[want[a]] \in Active \cup {None}
      /\ Active \subseteq Sessions
  BY <1>0, ActiveCount DEF Place, Active
<1>5. hand'[a] \in {hand[a], None} \cup Active
  BY <1>0, <1>4 DEF TypeOK
<1>6. a \notin Requests \/ pc'[a] \notin Handing => hand'[a] = None
  BY <1>0, ActorsDiffer DEF TypeOK, Known, Handing, Return
<1>7. Known(a)'
  BY <1>0, <1>1, <1>2, <1>6 DEF Known, PagePlaces
<1>8. \A s \in Active : ~Gone(s)
  BY <1>4, ListedNotGone DEF UseInv
<1>9. \A s \in Uses(a)' : s \in Uses(a) \/ ~Gone(s)
  BY <1>1, <1>5, <1>8 DEF Uses
<1> QED
  BY <1>1, <1>3, <1>7, <1>9 DEF Orderly

\* The steps of a page that push nothing.
LEMMA OrderlyPage ==
  ASSUME UseInv, NEW r \in Requests,
         \/ RenderNextPage(r) \/ PageDone(r) \/ ResetAccessTime(r) \/ SessionListInfo(r) \/ ListOne(r)
         \/ ListDone(r) \/ AskDone(r)
         \/ \E k \in Keys : DisableSession(r, k) \/ GetASessionsInfo(r, k)
  PROVE  Orderly(r)
<1> USE DEF RenderNextPage, PageDone, ResetAccessTime, SessionListInfo, ListOne, ListDone, AskDone,
        DisableSession, GetASessionsInfo, NoPush, NoList, NoCopy, NoState, NoCall, Goto, At, MutexFree
<1>0. r \in Actors /\ TypeOK /\ Known(r) /\ Place(r)
  BY ActorFacts DEF UseInv, ListInv
<1>1. UNCHANGED <<deleted, ctx, drop, want, sessions2Delete>> /\ (UNCHANGED lists \/ fSessionsMutex \in {None, r})
  OBVIOUS
<1>2. /\ \A b \in Actors \ {r} : pc'[b] = pc[b] /\ hand'[b] = hand[b] /\ render'[b] = render[b] /\ todo'[b] = todo[b]
      /\ pc'[r] \in PagePlaces \cup {"timer", "end"}
      /\ render'[r] \in {ctx[r], render[r], None}
      /\ pc'[r] \in {"timer", "end"} => render'[r] = None
  BY <1>0 DEF TypeOK, PagePlaces, Known
<1>3. Only(r)
  BY <1>1, <1>2 DEF Only
<1>4. /\ pc'[r] \in {"askPush", "listPush"} => hand'[r] \in Active
      /\ pc'[r] \in {"list", "listPush"} => todo'[r] \subseteq Active
      /\ pc'[r] \in {"askPush", "list", "listPush"} => UNCHANGED lists
  BY <1>0 DEF TypeOK, Known, Active
<1>5. UNCHANGED lists => Active' = Active
  BY DEF Active, lists
<1>6. pc'[r] \notin Handing => hand'[r] = None
  BY <1>0 DEF TypeOK, Known, Handing
<1>7. Known(r)'
  BY <1>1, <1>2, <1>4, <1>5, <1>6 DEF Known, PagePlaces
<1>8. hand'[r] \in {hand[r], render[r], None} \cup Active
  BY <1>0 DEF TypeOK, Known, Active
<1>9. \A s \in Active : ~Gone(s)
  BY <1>0, ActiveCount, ListedNotGone DEF UseInv
<1>10. \A s \in Uses(r)' : s \in Uses(r) \/ ~Gone(s)
  BY <1>1, <1>2, <1>8, <1>9 DEF Uses
<1> QED
  BY <1>1, <1>3, <1>7, <1>10 DEF Orderly

\* The steps that push, and the end of a Push.
LEMMA OrderlyPush ==
  ASSUME UseInv, NEW r \in Requests,
         \/ Found(r) \/ MakeSession(r) \/ PrepareSession(r) \/ EndRequest(r) \/ NotifyRemoved(r)
         \/ AskPush(r) \/ AskEnd(r) \/ ListPush(r) \/ ListEnd(r) \/ UnRef(r)
  PROVE  Orderly(r)
<1> USE DEF Found, MakeSession, PrepareSession, EndRequest, NotifyRemoved, AskPush, AskEnd, ListPush, ListEnd, UnRef, Push,
        NoPush, NoList, NoCopy, NoState, NoCall, Goto, At, MutexFree
<1>0. r \in Actors /\ TypeOK /\ Known(r) /\ unborn \subseteq Sessions /\ Active \subseteq Sessions
  BY ActorFacts, ActiveCount DEF UseInv, ListInv, TypeOK
<1>1. UNCHANGED <<deleted, lists, render, todo, sessions2Delete>>
  OBVIOUS
<1>2. Active' = Active
  BY <1>1 DEF Active, lists
<1>3. \A b \in Actors \ {r} : pc'[b] = pc[b] /\ ctx'[b] = ctx[b] /\ drop'[b] = drop[b] /\ hand'[b] = hand[b] /\ want'[b] = want[b]
  BY <1>0 DEF TypeOK
<1>4. Only(r)
  BY <1>1, <1>3 DEF Only
<1>5. ctx'[r] \in {ctx[r], render[r], hand[r], None} \cup unborn
  BY <1>0 DEF TypeOK
<1>6. drop'[r] \in {ctx[r], drop[r], None} /\ hand'[r] \in {hand[r], None} \cup unborn
  BY <1>0 DEF TypeOK
<1>7. \A s \in unborn : ~Gone(s)
  BY <1>0, ListedNotGone DEF UseInv
<1>8. \A s \in Uses(r)' : s \in Uses(r) \/ ~Gone(s)
  BY <1>1, <1>5, <1>6, <1>7 DEF Uses
<1>9. CASE UnRef(r)
  <2>1. Known(r)'
    BY <1>0, <1>1, <1>2, <1>9 DEF Known
  <2> QED
    BY <1>1, <1>4, <1>8, <2>1 DEF Orderly
<1>10. CASE ~UnRef(r)
  <2>1. /\ pc'[r] \in {"add", "end"} => pc[r] = "made"
        /\ pc'[r] = "idle" => pc[r] = "end" /\ ctx'[r] = None
        /\ pc'[r] \in {"add", "end", "prepare", "render", "idle", "page", "ask", "asked", "list", "listed"}
        /\ pc'[r] = "list" => pc[r] = "listPush"
        /\ pc'[r] = "prepare" => pc[r] = "found"
        /\ pc'[r] = "render" => pc[r] = "push"
        /\ pc'[r] \notin Handing => hand'[r] = None
    BY <1>0, <1>10 DEF TypeOK, Known, Handing
  <2>2. Known(r)'
    BY <1>0, <1>1, <1>2, <2>1 DEF Known, PagePlaces
  <2> QED
    BY <1>1, <1>4, <1>8, <2>2 DEF Orderly
<1> QED
  BY <1>9, <1>10

\* DoCleanup gives up a session that the threads have barely, if at all.
LEMMA CleanupUse ==
  ASSUME UseInv, NEW a \in Requests \cup {Cleaner}, DoCleanup(a)
  PROVE  (\A b \in Actors : Known(b)') /\ NoRace
<1>0. a \in Actors /\ TypeOK /\ Known(a) /\ Place(a) /\ RefExact
  BY ActorFacts DEF UseInv, ListInv
<1>1. /\ UNCHANGED <<deleted, pc, hand, want, render>> /\ pc[a] = "scan" /\ fSessionsMutex = a
  BY <1>0 DEF DoCleanup, At, Place, Locking
<1>2. PICK s \in todo[a] :
        /\ todo' = [todo EXCEPT ![a] = @ \ {s}]
        /\ \/ IsDeletable(a, s) /\ sessions2Delete' = [sessions2Delete EXCEPT ![a] = @ \cup {s}]
           \/ UNCHANGED sessions2Delete
        /\ \/ /\ ctx' = [ctx EXCEPT ![a] = None] /\ ctx[a] = s
              /\ drop' = [drop EXCEPT ![a] = IF fCopySessionStore /\ ctx[a] # None THEN ctx[a] ELSE None]
           \/ UNCHANGED <<ctx, drop>>
  BY DEF DoCleanup, Push
<1>3. s \in Sessions /\ s \in Active \cup fDisabledSessions
  BY <1>0, <1>1, <1>2 DEF TypeOK, Place
<1>4. /\ \A b \in Actors \ {a} : /\ ctx'[b] = ctx[b] /\ drop'[b] = drop[b] /\ todo'[b] = todo[b]
                                 /\ sessions2Delete'[b] = sessions2Delete[b]
      /\ ctx'[a] \in {ctx[a], None} /\ drop'[a] \in {ctx[a], drop[a], None}
      /\ \A x : x \in sessions2Delete'[a] => x \in sessions2Delete[a] \/ (IsDeletable(a, s) /\ x = s)
  BY <1>0, <1>2 DEF TypeOK
<1>5. Only(a)
  BY <1>1, <1>4 DEF Only
<1>6. \A b \in Actors \ {a} : Known(b)'
  BY <1>0, <1>1, <1>5, OthersKnown
<1>7. Known(a)'
  <2>1. a \notin Requests => ctx[a] = None /\ drop[a] = None
    BY <1>0 DEF Known
  <2> QED
    BY <1>0, <1>1, <1>4, <2>1 DEF Known, PagePlaces
<1>8. \A b \in Actors : Uses(b)' \subseteq Uses(b)
  BY <1>1, <1>4 DEF Uses
<1>9. ASSUME IsDeletable(a, s), NEW b \in Actors, s \in Uses(b) PROVE s \in Bare(b)'
  <2>0. Known(b) /\ Place(b) /\ s # None
    BY NoneDiffers, <1>3 DEF UseInv, ListInv
  <2>1. render[b] # s
    BY <1>0, <1>1, <1>9, <2>0 DEF IsDeletable, Free, Holds, Known, PagePlaces
  <2>2. ctx[b] # s /\ drop[b] # s
    <3> DEFINE C == {c \in Actors : ctx[c] = s}
               E == {c \in Actors : drop[c] = s}
               P == {c \in Actors : pc[c] \in Pinning /\ render[c] = s}
    <3>1. 0 = Cardinality(C) + Cardinality(E) + Cardinality(P)
      BY <1>0, <1>3, <1>9 DEF RefExact, IsDeletable
    <3>2. C \in SUBSET Actors /\ E \in SUBSET Actors /\ P \in SUBSET Actors
      OBVIOUS
    <3>3. (ctx[b] = s => b \in C) /\ (drop[b] = s => b \in E)
      OBVIOUS
    <3> HIDE DEF C, E, P
    <3>4. IsFiniteSet(C) /\ Cardinality(C) \in Nat /\ IsFiniteSet(E) /\ Cardinality(E) \in Nat /\ Cardinality(P) \in Nat
      BY <3>2, ActorCount
    <3>5. Cardinality(C) = 0 /\ Cardinality(E) = 0
      BY <3>1, <3>4
    <3>6. C = {} /\ E = {}
      BY <3>4, <3>5, FS_EmptySet
    <3> QED
      BY <3>3, <3>6
  <2>3. hand[b] = s
    BY <1>9, <2>1, <2>2 DEF Uses
  <2>4. pc[b] \in Handing /\ b # a
    BY <1>1, <2>0, <2>3, <1>0 DEF Known, Handing
  <2>5. pc[b] \notin Locking
    BY <1>1, <2>0, <2>4 DEF Place
  <2>6. pc[b] # "add"
    <3>1. OneKind(s)
      BY <1>3 DEF UseInv, ListInv
    <3>2. ~Fresh(s)
      BY <1>3, <3>1 DEF OneKind
    <3> QED
      BY <2>3, <3>2 DEF Fresh
  <2>7. pc[b] \in {"found", "notify", "timer"}
    BY <2>4, <2>5, <2>6 DEF Handing, Locking
  <2> QED
    BY <1>1, <1>4, <2>1, <2>2, <2>3, <2>4, <2>7 DEF Bare
<1>10. \A x \in Sessions : Gone(x)' => Gone(x) \/ (IsDeletable(a, s) /\ x = s)
  BY <1>0, <1>1, <1>4 DEF Gone
<1>11. NoRace
  <2> SUFFICES ASSUME NEW b \in Actors, NEW x \in Sessions, Gone(x)', x \in Uses(b)', ~(Gone(x) /\ x \in Uses(b))
               PROVE  x \in Bare(b)'
    BY DEF NoRace
  <2>1. x \in Uses(b)
    BY <1>8
  <2>2. IsDeletable(a, s) /\ x = s
    BY <1>10, <2>1
  <2> QED
    BY <1>9, <2>1, <2>2
<1> QED
  BY <1>6, <1>7, <1>11

\* DoDeleteSessions deletes what is given up.
LEMMA DeleteUse ==
  ASSUME UseInv, NEW a \in Requests \cup {Cleaner}, DoDeleteSessions(a)
  PROVE  (\A b \in Actors : Known(b)') /\ NoRace
<1>0. a \in Actors /\ TypeOK /\ Known(a)
  BY ActorFacts DEF UseInv, ListInv
<1>1. UNCHANGED <<lists, ctx, drop, hand, want, render, todo>> /\ pc[a] = "delete"
  BY DEF DoDeleteSessions, At
<1>2. PICK s \in sessions2Delete[a] :
        /\ deleted' = deleted \cup {s}
        /\ sessions2Delete' = [sessions2Delete EXCEPT ![a] = @ \ {s}]
        /\ pc' = [pc EXCEPT ![a] = IF sessions2Delete[a] = {s} THEN Return(a) ELSE "delete"]
  BY DEF DoDeleteSessions, Goto
<1>3. /\ \A b \in Actors \ {a} : pc'[b] = pc[b] /\ sessions2Delete'[b] = sessions2Delete[b]
      /\ sessions2Delete'[a] \subseteq sessions2Delete[a]
      /\ pc'[a] \in {"delete", "idle", "made"} /\ (pc'[a] = "idle" => a \notin Requests)
  BY <1>0, <1>2, ActorsDiffer DEF TypeOK, Return
<1>4. Only(a)
  BY <1>1, <1>3 DEF Only
<1>5. \A b \in Actors \ {a} : Known(b)'
  BY <1>0, <1>1, <1>4, OthersKnown
<1>6. Known(a)'
  BY <1>0, <1>1, <1>3 DEF Known, PagePlaces, Handing
<1>7. \A x \in Sessions : Gone(x)' => Gone(x)
  <2>1. \A b \in Actors : sessions2Delete'[b] \subseteq sessions2Delete[b]
    BY <1>3
  <2> QED
    BY <1>0, <1>2, <2>1 DEF Gone
<1>8. \A b \in Actors : Uses(b)' = Uses(b)
  BY <1>1 DEF Uses
<1> QED
  BY <1>5, <1>6, <1>7, <1>8 DEF NoRace

\* Finis deletes all there is when no request uses a session.
LEMMA FinisUse ==
  ASSUME UseInv, Finis
  PROVE  (\A b \in Actors : Known(b)') /\ NoRace
<1>0. Manager \in Actors /\ TypeOK /\ Place(Manager) /\ \A b \in Actors : Known(b)
  BY ActorFacts DEF UseInv, ListInv
<1>1. /\ UNCHANGED <<ctx, drop, hand, want, render, todo, sessions2Delete>>
      /\ pc[Manager] = "stopped" /\ fSessionsMutex = Manager
      /\ pc' = [pc EXCEPT ![Manager] = "ended"]
      /\ \A r \in Requests : pc[r] = "idle" /\ drop[r] = None
  BY <1>0 DEF Finis, NoCall, At, Goto, Place, Locking, Pinning
<1>2. pc'[Manager] = "ended" /\ \A b \in Actors \ {Manager} : pc'[b] = pc[b]
  BY <1>0, <1>1 DEF TypeOK
<1>3. Only(Manager)
  BY <1>1, <1>2 DEF Only
<1>4. \A b \in Actors \ {Manager} : Known(b)'
  BY <1>0, <1>1, <1>3, OthersKnown
<1>5. Known(Manager)'
  BY <1>0, <1>1, <1>2, ActorsDiffer DEF Known, PagePlaces
<1>6. \A b \in Actors : ctx[b] = None /\ drop[b] = None /\ render[b] = None /\ hand[b] = None
  BY <1>0, <1>1 DEF Known, PagePlaces, Handing
<1>7. \A b \in Actors : Uses(b)' = {}
  BY <1>1, <1>6 DEF Uses
<1> QED
  BY <1>4, <1>5, <1>7 DEF NoRace

\* Every step keeps what the threads know, and gives up no session but those
\* that the threads have barely.
LEMMA UseStep ==
  ASSUME UseInv, [Next]_vars
  PROVE  (\A b \in Actors : Known(b)') /\ NoRace
<1>0. Requests \subseteq Actors /\ Cleaner \in Actors /\ Manager \in Actors
  BY ActorFacts
<1>1. ASSUME NEW r \in Requests, RequestStep(r) PROVE (\A b \in Actors : Known(b)') /\ NoRace
  <2>2. CASE \/ IntLookupSession(r) \/ ResetTimeAndFlags(r) \/ SessionIsBusy(r) \/ Verify(r) \/ VerifyFails(r) \/ NotifyAdded(r)
             \/ GetNumberOfSessions(r) \/ MakeRoom(r) \/ AddSession(r)
    BY <1>0, <2>2, OrderlyQuiet, OrderlyStep
  <2>3. CASE RenderNextPage(r) \/ PageDone(r) \/ ResetAccessTime(r) \/ ListOne(r) \/ ListDone(r) \/ AskDone(r)
    BY <1>0, <2>3, OrderlyPage, OrderlyStep
  <2>4. CASE \/ Found(r) \/ MakeSession(r) \/ PrepareSession(r) \/ EndRequest(r) \/ NotifyRemoved(r)
             \/ AskPush(r) \/ AskEnd(r) \/ ListPush(r) \/ ListEnd(r) \/ UnRef(r)
    BY <1>0, <2>4, OrderlyPush, OrderlyStep
  <2> QED
    BY <1>1, <2>2, <2>3, <2>4 DEF RequestStep
<1>2. ASSUME NEW r \in Requests, PageCalls(r) PROVE (\A b \in Actors : Known(b)') /\ NoRace
  BY <1>0, <1>2, OrderlyPage, OrderlyStep DEF PageCalls
<1>3. ASSUME NEW r \in Requests, NEW k \in Keys \cup {None}, Begin(r, k) PROVE (\A b \in Actors : Known(b)') /\ NoRace
  BY <1>0, <1>3, OrderlyQuiet, OrderlyStep
<1>4. ASSUME NEW a \in Requests \cup {Cleaner}, CleanupStep(a) PROVE (\A b \in Actors : Known(b)') /\ NoRace
  <2>1. a \in Actors /\ a # Manager
    BY <1>0, ActorsDiffer
  <2>2. CASE CleanupSessions(a) \/ Scanned(a)
    BY <2>1, <2>2, OrderlyQuiet, OrderlyStep
  <2>3. CASE DoCleanup(a)
    BY <2>3, CleanupUse
  <2>4. CASE DoDeleteSessions(a)
    BY <2>4, DeleteUse
  <2> QED
    BY <1>4, <2>2, <2>3, <2>4 DEF CleanupStep
<1>5. CASE Period
  BY <1>0, <1>5, OrderlyQuiet, OrderlyStep
<1>6. CASE EnterReInit \/ CleanerTerminated \/ ResetInit
  BY <1>0, <1>6, OrderlyQuiet, OrderlyStep
<1>7. CASE Finis
  BY <1>7, FinisUse
<1>8. CASE UNCHANGED vars \/ \E s \in Sessions : Age(s)
  <2>1. UNCHANGED <<lists, deleted, pc, ctx, drop, hand, render, todo, sessions2Delete>>
    BY <1>8 DEF vars, Age, NoList, NoCall
  <2>2. Active' = Active
    BY <2>1 DEF Active, lists
  <2>3. \A b \in Actors : Known(b)'
    BY <2>1, <2>2 DEF UseInv, Known
  <2> QED
    BY <2>1, <2>3 DEF NoRace, Gone, Uses
<1> QED
  BY <1>1, <1>2, <1>3, <1>4, <1>5, <1>6, <1>7, <1>8 DEF Next, ManagerStep

\* A session is given up for deletion only while no thread has it, but for three
\* windows: between IntLookupSession and Context::Push, between the end of
\* the section of DisableSession and its Notify, and between fMutex.Unlock and the
\* AccessTimer of RenderNextPage.
THEOREM UseWindows == Spec => OnlyBareUses
<1>1. Init => UseInv
  <2>1. Init => \A a \in Actors : Known(a)
    BY DEF Init, Known
  <2> QED
    BY <2>1, ListInit DEF UseInv
<1>2. UseInv /\ ListInv' /\ [Next]_vars => UseInv'
  BY UseStep DEF UseInv
<1>3. UseInv /\ [Next]_vars => [NoRace]_vars
  BY UseStep
<1>4. Spec => [][NoRace]_vars
  BY <1>1, <1>2, <1>3, ListSafety, PTL DEF Spec
<1>5. (Spec => [][NoRace]_vars) <=> (Spec => OnlyBareUses)
  BY DEF OnlyBareUses, NoRace
<1> QED
  BY <1>4, <1>5

-----------------------------------------------------------------------------
(* The threads do not wait for each other in a circle.                     *)

\* Where a thread has no session in its context, which sessions it has, which
\* one it drops, and the places of each kind of thread.
Standing(a) ==
  /\ pc[a] \in {"lookup", "reset", "found"} => ctx[a] = None
  /\ pc[a] \in {"reset", "found"} => hand[a] \in Sessions \ unborn
  /\ pc[a] \in {"prepare", "verify", "add", "added", "push", "render"} => ctx[a] \in Sessions
  /\ pc[a] \in PagePlaces => render[a] \in Sessions
  /\ ctx[a] \notin unborn /\ render[a] \notin unborn
  /\ pc[a] = "page" => drop[a] \in {render[a], None}
  /\ pc[a] = "notify" \/ ~fCopySessionStore => drop[a] = None
  /\ pc[a] = "delete" => sessions2Delete[a] # {}
  /\ a = Manager => pc[a] \in {"idle", "stop", "stopped", "ended"}
  /\ a = Cleaner => pc[a] \in {"idle", "scan", "delete"}
  /\ a \in Requests => pc[a] \notin {"stop", "stopped", "ended"}

\* fSessionsMutex is kept only at the places where it is.
Keeper == fSessionsMutex # None => pc[fSessionsMutex] \in Locking

\* The mutex of a session is a mutex.
Exclusive == \A a, b \in Actors, s \in Sessions : Holds(a, s) /\ Holds(b, s) => a = b

\* The inductive invariant of NoCircle.
CircleInv ==
  /\ UseInv /\ Keeper /\ Exclusive
  /\ \A a \in Actors : Standing(a)

\* A step of thread a that takes only what is free and keeps what a knows.
Steady(a) ==
  /\ Only(a) /\ UNCHANGED fCopySessionStore /\ unborn' \subseteq unborn
  /\ fSessionsMutex' \in {fSessionsMutex, None, a} /\ (fSessionsMutex' = a => pc'[a] \in Locking)
  /\ ctx'[a] \in {ctx[a], render[a], None} \/ Free(a, ctx'[a])
  /\ render'[a] \in {render[a], None} \/ Free(a, render'[a])
  /\ Standing(a)'

\* Such a step keeps the invariant.
LEMMA SteadyStep ==
  ASSUME CircleInv, NEW a \in Actors, Steady(a)
  PROVE  (\A b \in Actors : Standing(b)') /\ Keeper' /\ Exclusive'
<1>1. \A b \in Actors \ {a} : pc'[b] = pc[b] /\ ctx'[b] = ctx[b] /\ drop'[b] = drop[b] /\ hand'[b] = hand[b]
                              /\ render'[b] = render[b] /\ sessions2Delete'[b] = sessions2Delete[b]
  BY DEF Steady, Only
<1>2. \A b \in Actors : Standing(b)'
  <2>1. \A b \in Actors \ {a} : Standing(b)'
    BY <1>1 DEF CircleInv, Steady, Standing
  <2> QED
    BY <2>1 DEF Steady
<1>3. Keeper'
  <2>1. fSessionsMutex \in Actors \cup {None}
    BY DEF CircleInv, UseInv, ListInv, TypeOK
  <2> QED
    BY <1>1, <2>1 DEF CircleInv, Steady, Keeper
<1>4. Exclusive'
  <2>1. \A s \in Sessions : Holds(a, s)' => Holds(a, s) \/ Free(a, s)
    BY NoneDiffers DEF Steady, Holds
  <2>2. \A b \in Actors \ {a}, s \in Sessions : Holds(b, s)' => Holds(b, s)
    BY <1>1 DEF Steady, Holds
  <2>3. ASSUME NEW b \in Actors, NEW c \in Actors, NEW s \in Sessions, Holds(b, s)', Holds(c, s)'
        PROVE  b = c
    BY <2>1, <2>2, <2>3 DEF CircleInv, Exclusive, Free
  <2> QED
    BY <2>3 DEF Exclusive
<1> QED
  BY <1>2, <1>3, <1>4

\* The steps that leave the contexts and the pages alone.
LEMMA SteadyQuiet ==
  ASSUME CircleInv, NEW a \in Actors,
         \/ /\ a \in Requests
            /\ \/ \E k \in Keys \cup {None} : Begin(a, k)
               \/ IntLookupSession(a) \/ ResetTimeAndFlags(a) \/ SessionIsBusy(a) \/ Verify(a) \/ VerifyFails(a)
               \/ GetNumberOfSessions(a) \/ MakeRoom(a) \/ AddSession(a) \/ NotifyAdded(a)
         \/ a # Manager /\ (CleanupSessions(a) \/ Scanned(a))
         \/ a = Cleaner /\ Period
         \/ a = Manager /\ (EnterReInit \/ CleanerTerminated \/ ResetInit)
  PROVE  Steady(a)
<1>0. TypeOK /\ Known(a) /\ Standing(a) /\ Place(a)
  BY DEF CircleInv, UseInv, ListInv
<1>1. Only(a)
  BY OrderlyQuiet DEF CircleInv, Orderly
<1> USE DEF Begin, IntLookupSession, ResetTimeAndFlags, SessionIsBusy, Verify, VerifyFails, GetNumberOfSessions,
        MakeRoom, AddSession, NotifyAdded, CleanupSessions, Scanned, Period, EnterReInit, CleanerTerminated, ResetInit,
        NoPush, NoList, NoCopy, NoState, NoCall, Goto, At, MutexFree
<1>2. UNCHANGED <<fCopySessionStore, unborn, ctx, drop, render, sessions2Delete>>
  OBVIOUS
<1>3. /\ fSessionsMutex' \in {fSessionsMutex, None, a} /\ (fSessionsMutex' = a => pc'[a] \in Locking)
  BY <1>0, ActorFacts DEF TypeOK, Locking, CircleInv, Keeper
<1>4. \A k \in Keys : fSessions[k] # None => fSessions[k] \in Sessions \ unborn
  BY NoneDiffers DEF CircleInv, UseInv, ListInv, OneKind, Active, TypeOK
<1>5. Standing(a)'
  <2>1. /\ pc'[a] \in {"reset", "found"} => hand'[a] \in Sessions \ unborn
        /\ pc'[a] \in {"lookup", "reset", "found"} => pc[a] \in {"idle", "lookup", "reset"} /\ a \in Requests
        /\ pc'[a] = "delete" => sessions2Delete[a] # {}
    BY <1>0, <1>4, ActorsDiffer DEF TypeOK, Standing, Place, Return
  <2>2. /\ pc'[a] \in {"prepare", "verify", "add", "added", "push", "render"} => pc[a] \in {"prepare", "verify", "add", "added"}
        /\ pc'[a] \notin PagePlaces
    BY <1>0 DEF TypeOK, Return, PagePlaces
  <2>3. /\ a = Manager => pc'[a] \in {"idle", "stop", "stopped", "ended"}
        /\ a = Cleaner => pc'[a] \in {"idle", "scan", "delete"}
        /\ a \in Requests => pc'[a] \notin {"stop", "stopped", "ended"}
    BY <1>0, ActorsDiffer DEF TypeOK, Standing, Return
  <2> QED
    BY <1>0, <1>2, <2>1, <2>2, <2>3 DEF Standing, Known, PagePlaces
<1> QED
  BY <1>1, <1>2, <1>3, <1>5 DEF Steady

\* The steps of a page that push nothing.
LEMMA SteadyPage ==
  ASSUME CircleInv, NEW r \in Requests,
         \/ RenderNextPage(r) \/ PageDone(r) \/ ResetAccessTime(r) \/ SessionListInfo(r) \/ ListOne(r)
         \/ AskDone(r) \/ ListDone(r)
         \/ \E k \in Keys : DisableSession(r, k) \/ GetASessionsInfo(r, k)
  PROVE  Steady(r)
<1>0. r \in Actors /\ TypeOK /\ Known(r) /\ Standing(r)
  BY ActorFacts DEF CircleInv, UseInv, ListInv
<1> USE DEF RenderNextPage, PageDone, ResetAccessTime, SessionListInfo, ListOne, AskDone, ListDone,
        DisableSession, GetASessionsInfo, NoPush, NoList, NoCopy, NoState, NoCall, Goto, At, MutexFree
<1>1. UNCHANGED <<fCopySessionStore, unborn, ctx, drop, want, sessions2Delete>> /\ drop[r] = None
  OBVIOUS
<1>2. Only(r)
  <2>1. \A b \in Actors \ {r} : pc'[b] = pc[b] /\ hand'[b] = hand[b] /\ render'[b] = render[b] /\ todo'[b] = todo[b]
    BY <1>0 DEF TypeOK
  <2> QED
    BY <1>1, <2>1 DEF Only
<1>3. fSessionsMutex' \in {fSessionsMutex, None, r} /\ (fSessionsMutex' = r => pc'[r] \in Locking)
  BY <1>0, ActorFacts DEF TypeOK, Locking, CircleInv, Keeper
<1>4. /\ \/ render'[r] \in {render[r], None} 
         \/ Free(r, render'[r]) /\ render'[r] = ctx[r]
      /\ pc'[r] \in PagePlaces \cup {"timer", "end"}
      /\ pc'[r] \in PagePlaces => render'[r] \in Sessions
  BY <1>0 DEF TypeOK, PagePlaces, Standing
<1>5. Standing(r)'
  <2>1. None \notin unborn
    BY <1>0, NoneDiffers DEF TypeOK
  <2> QED
    BY <1>0, <1>1, <1>4, <2>1, ActorsDiffer DEF Standing, PagePlaces
<1> QED
  BY <1>1, <1>2, <1>3, <1>4, <1>5 DEF Steady

\* The steps that push.
LEMMA SteadyPush ==
  ASSUME CircleInv, NEW r \in Requests,
         \/ Found(r) \/ MakeSession(r) \/ PrepareSession(r) \/ EndRequest(r) \/ NotifyRemoved(r) \/ AskPush(r)
         \/ AskEnd(r) \/ ListPush(r) \/ ListEnd(r) \/ UnRef(r)
  PROVE  Steady(r)
<1>0. r \in Actors /\ TypeOK /\ Known(r) /\ Standing(r) /\ Place(r) /\ None \notin unborn
  BY ActorFacts, NoneDiffers DEF CircleInv, UseInv, ListInv, TypeOK
<1> USE DEF Found, MakeSession, PrepareSession, EndRequest, NotifyRemoved, AskPush, AskEnd, ListPush, ListEnd, Push,
        UnRef, NoPush, NoList, NoCopy, NoState, NoCall, Goto, At, MutexFree
<1>1. UNCHANGED <<fCopySessionStore, deleted, lists, render, todo, sessions2Delete>> /\ unborn' \subseteq unborn
  OBVIOUS
<1>2. \A b \in Actors \ {r} : /\ pc'[b] = pc[b] /\ ctx'[b] = ctx[b] /\ drop'[b] = drop[b]
                              /\ hand'[b] = hand[b] /\ want'[b] = want[b]
  BY <1>0 DEF TypeOK
<1>3. Only(r)
  BY <1>1, <1>2 DEF Only
<1>4. UnRef(r) => Steady(r)
  <2> SUFFICES ASSUME UnRef(r) PROVE Steady(r)
    OBVIOUS
  <2>1. UNCHANGED <<fCopySessionStore, fSessionsMutex, unborn, pc, ctx, hand, render, sessions2Delete>> /\ drop'[r] = None
    BY <1>0 DEF TypeOK
  <2>2. Standing(r)'
    BY <1>0, <2>1 DEF Standing
  <2>3. fSessionsMutex' = r => pc'[r] \in Locking
    BY <1>0, <2>1, ActorFacts DEF CircleInv, Keeper
  <2> QED
    BY <1>1, <1>3, <2>1, <2>2, <2>3 DEF Steady
<1>5. CASE ~UnRef(r)
  <2>1. fSessionsMutex' \in {fSessionsMutex, None, r} /\ (fSessionsMutex' = r => pc'[r] \in Locking)
    BY <1>0, <1>5, ActorFacts DEF TypeOK, Locking, CircleInv, Keeper
  <2>2. /\ ctx'[r] \in {ctx[r], render[r], None} \/ Free(r, ctx'[r])
        /\ pc'[r] \in {"prepare", "add", "render", "end", "idle", "page", "ask", "asked", "list", "listed"}
        /\ pc'[r] \in PagePlaces => pc[r] \in PagePlaces
    BY <1>0, <1>5 DEF TypeOK, PagePlaces
  <2>3. ctx'[r] \notin unborn'
    <3>1. \A s \in Active : s \notin unborn
      BY ActiveCount DEF CircleInv, UseInv, ListInv, OneKind
    <3> QED
      BY <1>0, <1>1, <1>5, <3>1 DEF TypeOK, Standing, Known
  <2>4. pc'[r] \in {"prepare", "add", "render"} => ctx'[r] \in Sessions
    BY <1>0, <1>5 DEF TypeOK, Standing
  <2>5. /\ pc'[r] = "page" => drop'[r] \in {render[r], None}
        /\ ~fCopySessionStore => drop'[r] = None
    BY <1>0, <1>5 DEF TypeOK, Place, Standing
  <2>6. Standing(r)'
    BY <1>0, <1>1, <2>2, <2>3, <2>4, <2>5, ActorsDiffer DEF Standing, PagePlaces
  <2> QED
    BY <1>1, <1>3, <2>1, <2>2, <2>6 DEF Steady
<1> QED
  BY <1>4, <1>5

\* DoCleanup drops its own session, DoDeleteSessions none.
LEMMA SteadyCleanup ==
  ASSUME CircleInv, NEW a \in Requests \cup {Cleaner}, DoCleanup(a) \/ DoDeleteSessions(a)
  PROVE  Steady(a)
<1>0. a \in Actors /\ a # Manager /\ TypeOK /\ Known(a) /\ Standing(a) /\ None \notin unborn
  BY ActorFacts, ActorsDiffer, NoneDiffers DEF CircleInv, UseInv, ListInv, TypeOK
<1> USE DEF DoCleanup, DoDeleteSessions, Push, NoCopy, Goto, At
<1>1. UNCHANGED <<fCopySessionStore, fSessionsMutex, unborn, hand, want, render>>
  OBVIOUS
<1>2. /\ \A b \in Actors \ {a} : /\ pc'[b] = pc[b] /\ ctx'[b] = ctx[b] /\ drop'[b] = drop[b]
                                 /\ todo'[b] = todo[b] /\ sessions2Delete'[b] = sessions2Delete[b]
      /\ ctx'[a] \in {ctx[a], None}
      /\ ~fCopySessionStore => drop'[a] = None
  BY <1>0 DEF TypeOK
<1>3. Only(a)
  BY <1>1, <1>2 DEF Only
<1>4. /\ pc'[a] \in {"scan", "delete", Return(a)}
      /\ pc'[a] = "delete" => sessions2Delete'[a] # {}
      /\ fSessionsMutex = a => pc[a] = "scan" /\ pc' = pc
  BY <1>0, ActorFacts DEF TypeOK, CircleInv, Keeper, Locking, Return
<1>5. Standing(a)'
  BY <1>0, <1>1, <1>2, <1>4, ActorsDiffer DEF Standing, Return, PagePlaces
<1> QED
  BY <1>1, <1>2, <1>3, <1>4, <1>5 DEF Steady, Locking

\* The end of the manager.
LEMMA SteadyFinis ==
  ASSUME CircleInv, Finis
  PROVE  Steady(Manager)
<1>0. Manager \in Actors /\ TypeOK /\ Standing(Manager) /\ Manager # None
  BY ActorFacts DEF CircleInv, UseInv, ListInv
<1>1. /\ UNCHANGED <<fCopySessionStore, unborn, ctx, drop, hand, want, render, todo, sessions2Delete>>
      /\ fSessionsMutex' = None
      /\ pc'[Manager] = "ended" /\ \A b \in Actors \ {Manager} : pc'[b] = pc[b]
  BY <1>0 DEF Finis, NoCopy, NoCall, Goto, TypeOK
<1>2. Only(Manager)
  BY <1>1 DEF Only
<1>3. Standing(Manager)'
  BY <1>0, <1>1, ActorsDiffer DEF Standing, PagePlaces
<1> QED
  BY <1>0, <1>1, <1>2, <1>3 DEF Steady

\* Every step keeps the invariant.
LEMMA CircleStep ==
  ASSUME CircleInv, [Next]_vars
  PROVE  (\A b \in Actors : Standing(b)') /\ Keeper' /\ Exclusive'
<1> DEFINE Kept == (\A b \in Actors : Standing(b)') /\ Keeper' /\ Exclusive'
<1>0. Requests \subseteq Actors /\ Cleaner \in Actors /\ Manager \in Actors
  BY ActorFacts
<1>1. ASSUME NEW r \in Requests, RequestStep(r) \/ PageCalls(r) \/ \E k \in Keys \cup {None} : Begin(r, k) PROVE Kept
  <2>1. Steady(r)
    BY <1>0, <1>1, SteadyQuiet, SteadyPage, SteadyPush DEF RequestStep, PageCalls
  <2> QED
    BY <1>0, <2>1, SteadyStep
<1>2. ASSUME NEW a \in Requests \cup {Cleaner}, CleanupStep(a) PROVE Kept
  <2>1. Steady(a)
    BY <1>0, <1>2, ActorsDiffer, SteadyQuiet, SteadyCleanup DEF CleanupStep
  <2> QED
    BY <1>0, <2>1, SteadyStep
<1>3. CASE Period
  BY <1>0, <1>3, SteadyQuiet, SteadyStep
<1>4. CASE EnterReInit \/ ManagerStep
  <2>1. Steady(Manager)
    BY <1>0, <1>4, SteadyQuiet, SteadyFinis DEF ManagerStep
  <2> QED
    BY <1>0, <2>1, SteadyStep
<1>5. CASE UNCHANGED vars \/ \E s \in Sessions : Age(s)
  <2>1. UNCHANGED <<fCopySessionStore, fSessionsMutex, unborn, pc, ctx, drop, hand, render, sessions2Delete>>
    BY <1>5 DEF vars, Age, NoList, NoCall, NoCopy
  <2> QED
    BY <2>1 DEF CircleInv, Standing, Keeper, Exclusive, Holds
<1> QED
  BY <1>1, <1>2, <1>3, <1>4, <1>5 DEF Next

\* The initial state.
LEMMA CircleInit == Init => CircleInv
<1> SUFFICES ASSUME Init PROVE CircleInv
  OBVIOUS
<1>1. UseInv
  BY ListInit DEF Init, Known, UseInv
<1>2. Keeper /\ Exclusive
  BY NoneDiffers DEF Init, Keeper, Exclusive, Holds
<1>3. \A a \in Actors : Standing(a)
  BY NoneDiffers DEF Init, Standing, PagePlaces
<1> QED
  BY <1>1, <1>2, <1>3 DEF CircleInv

\* The inductive invariant holds.
THEOREM CircleSafety == Spec => []CircleInv
<1>1. CircleInv /\ ListInv' /\ [Next]_vars => CircleInv'
  <2>1. CircleInv /\ [Next]_vars => (\A b \in Actors : Standing(b)') /\ Keeper' /\ Exclusive'
    BY CircleStep
  <2>2. CircleInv /\ [Next]_vars => \A b \in Actors : Known(b)'
    BY UseStep DEF CircleInv
  <2> QED
    BY <2>1, <2>2 DEF CircleInv, UseInv
<1> QED
  BY <1>1, CircleInit, ListSafety, PTL DEF Spec

\* What a thread holds is free for it.
LEMMA HeldFree ==
  ASSUME CircleInv, NEW c \in Actors, NEW s \in Sessions, Holds(c, s)
  PROVE  Free(c, s)
BY DEF CircleInv, Exclusive, Free

\* A thread that renders a page and keeps fSessionsMutex nowhere goes on, or it
\* waits in DisableSession.
LEMMA RendererGoesOn ==
  ASSUME CircleInv, NEW c \in Actors, NEW s \in Sessions, render[c] = s, pc[c] \notin Locking
  PROVE  HoldsAndWaits \/ \E d \in Busy : ~Waits(d)
<1>1. Known(c) /\ Standing(c) /\ s # None
  BY NoneDiffers DEF CircleInv, UseInv
<1>2. c \in Requests /\ pc[c] \in {"page", "notify"}
  BY <1>1 DEF Known, PagePlaces, Locking
<1>3. c \in Busy
  BY <1>2 DEF Busy
<1>4. Free(c, s)
  BY HeldFree DEF Holds
<1>5. drop[c] # None => drop[c] = s
  BY <1>1, <1>2 DEF Standing
<1>6. Waits(c) => pc[c] = "notify" /\ IsBusy(c, hand[c])
  BY <1>2, <1>4, <1>5 DEF Waits, IsBusy
<1> QED
  BY <1>2, <1>3, <1>6 DEF HoldsAndWaits

\* UnRef goes on, or the page of the session it waits for does.
LEMMA DropGoesOn ==
  ASSUME CircleInv, NEW a \in Actors, drop[a] # None,
         \A c \in Actors \ {a} : pc[c] \in PagePlaces => pc[c] \notin Locking
  PROVE  HoldsAndWaits \/ \E d \in Busy : ~Waits(d)
<1>1. Standing(a) /\ TypeOK /\ a \in Busy
  BY DEF CircleInv, UseInv, ListInv, Busy
<1>2. fCopySessionStore /\ drop[a] \in Sessions
  BY <1>1 DEF Standing, TypeOK
<1>3. CASE ~Waits(a)
  BY <1>1, <1>3
<1>4. CASE Waits(a)
  <2>1. PICK c \in Actors \ {a} : render[c] = drop[a]
    BY <1>2, <1>4 DEF Waits, IsBusy, Free, Holds
  <2>2. Known(c)
    BY DEF CircleInv, UseInv
  <2>3. pc[c] \notin Locking
    BY <2>1, <2>2 DEF Known
  <2> QED
    BY <1>2, <2>1, <2>3, RendererGoesOn
<1> QED
  BY <1>3, <1>4

\* DoDeleteSessions goes on, or the thread that holds the session it waits for
\* does, if no page keeps fSessionsMutex.
LEMMA DeleterGoesOn ==
  ASSUME CircleInv, NEW a \in Actors, pc[a] = "delete",
         \A c \in Actors : pc[c] \in PagePlaces => pc[c] \notin Locking
  PROVE  HoldsAndWaits \/ \E d \in Busy : ~Waits(d)
<1>1. Standing(a) /\ TypeOK
  BY DEF CircleInv, UseInv, ListInv
<1>2. PICK s \in Sessions : s \in sessions2Delete[a]
  BY <1>1 DEF Standing, TypeOK
<1>3. a \in Busy
  BY DEF Busy
<1>4. CASE drop[a] # None
  BY <1>4, DropGoesOn
<1>5. CASE ~Waits(a)
  BY <1>3, <1>5
<1>6. CASE drop[a] = None /\ Waits(a)
  <2>1. IsBusy(a, s)
    BY <1>2, <1>6 DEF Waits
  <2>2. PICK c \in Actors : Holds(c, s)
    BY <2>1 DEF IsBusy, Free
  <2>3. Known(c) /\ s # None
    BY NoneDiffers DEF CircleInv, UseInv
  <2>4. CASE ctx[c] = s
    BY <1>2, <2>3, <2>4 DEF Known, HoldsAndWaits
  <2>5. CASE render[c] = s
    <3>1. pc[c] \notin Locking
      BY <2>3, <2>5 DEF Known
    <3> QED
      BY <2>5, <3>1, RendererGoesOn
  <2> QED
    BY <2>2, <2>4, <2>5 DEF Holds
<1> QED
  BY <1>4, <1>5, <1>6

\* While fSessionsMutex is free, the holder of a session goes on.
LEMMA HolderGoesOn ==
  ASSUME CircleInv, MutexFree, NEW c \in Actors, NEW s \in Sessions, Holds(c, s)
  PROVE  HoldsAndWaits \/ \E d \in Busy : ~Waits(d)
<1>1. TypeOK /\ Known(c) /\ Standing(c) /\ s # None /\ \A b \in Actors : Place(b) /\ Standing(b)
  BY NoneDiffers DEF CircleInv, UseInv, ListInv
<1>2. \A b \in Actors : pc[b] \notin Locking
  BY <1>1, ActorFacts DEF Place, MutexFree
<1>3. CASE render[c] = s
  BY <1>2, <1>3, RendererGoesOn
<1>4. CASE ~fCopySessionStore /\ ctx[c] = s
  <2>0. drop[c] = None /\ Free(c, s)
    BY <1>1, <1>4, HeldFree DEF Standing
  <2>1. /\ c \in Requests /\ c \in Busy
        /\ pc[c] \in {"prepare", "verify", "count", "room", "cleanup", "made", "add", "added", "push",
                      "render", "page", "notify", "timer", "end", "delete"}
    BY <1>1, <1>2, <1>4 DEF Known, Standing, Busy, TypeOK, Places, Locking
  <2>2. CASE pc[c] = "notify"
    <3>1. Waits(c) => IsBusy(c, hand[c])
      BY <2>0, <2>2 DEF Waits
    <3> QED
      BY <2>1, <2>2, <3>1 DEF HoldsAndWaits
  <2>3. CASE pc[c] = "delete"
    BY <1>2, <2>3, DeleterGoesOn
  <2>4. CASE pc[c] = "made"
    <3>1. \A x \in unborn : Free(c, x)
      BY <1>1, <1>4 DEF Free, Holds, Standing
    <3>2. ~Waits(c)
      BY <2>0, <2>4, <3>1 DEF Waits, IsBusy
    <3> QED
      BY <2>1, <3>2
  <2>5. CASE pc[c] \in {"prepare", "verify", "count", "room", "cleanup", "add", "added", "push", "render",
                        "page", "timer", "end"}
    <3>1. ~Waits(c)
      BY <1>4, <2>0, <2>5 DEF Waits, IsBusy
    <3> QED
      BY <2>1, <3>1
  <2> QED
    BY <2>1, <2>2, <2>3, <2>4, <2>5
<1> QED
  BY <1>3, <1>4 DEF Holds

\* While fSessionsMutex is free, one of the threads in the middle of something
\* goes on.
LEMMA FreeGoesOn ==
  ASSUME CircleInv, MutexFree, NEW a \in Busy
  PROVE  HoldsAndWaits \/ \E d \in Busy : ~Waits(d)
<1>1. a \in Actors /\ TypeOK /\ Standing(a) /\ \A b \in Actors : Place(b)
  BY DEF CircleInv, UseInv, ListInv, Busy
<1>2. \A b \in Actors : pc[b] \notin Locking
  BY <1>1, ActorFacts DEF Place, MutexFree
<1>3. ASSUME NEW x \in Sessions, IsBusy(a, x)
      PROVE  HoldsAndWaits \/ \E d \in Busy : ~Waits(d)
  <2>1. PICK c \in Actors : Holds(c, x)
    BY <1>3 DEF IsBusy, Free
  <2> QED
    BY <2>1, HolderGoesOn
<1>4. CASE drop[a] # None
  BY <1>1, <1>2, <1>4, DropGoesOn
<1>5. CASE pc[a] = "delete"
  BY <1>1, <1>2, <1>5, DeleterGoesOn
<1>6. CASE drop[a] = None /\ pc[a] = "notify"
  <2>1. a \in Requests
    BY <1>1, <1>6 DEF Actors, Standing
  <2>2. Waits(a) => IsBusy(a, hand[a])
    BY <1>6 DEF Waits
  <2> QED
    BY <1>6, <2>1, <2>2 DEF HoldsAndWaits
<1>7. CASE drop[a] = None /\ pc[a] \notin {"delete", "notify"} /\ Waits(a)
  <2>1. \E x \in Sessions : IsBusy(a, x)
    BY <1>1, <1>2, <1>7 DEF Waits, Locking, MutexFree, TypeOK, Standing
  <2> QED
    BY <1>3, <2>1
<1> QED
  BY <1>4, <1>5, <1>6, <1>7

\* The thread that keeps fSessionsMutex goes on, or the one it waits for.
LEMMA KeeperGoesOn ==
  ASSUME CircleInv, ~MutexFree
  PROVE  HoldsAndWaits \/ \E d \in Busy : ~Waits(d)
<1>1. PICK b \in Actors : fSessionsMutex = b
  BY DEF CircleInv, UseInv, ListInv, TypeOK, MutexFree
<1>2. TypeOK /\ Known(b) /\ Standing(b) /\ Place(b) /\ Known(Cleaner) /\ Standing(Cleaner)
  BY <1>1, ActorFacts DEF CircleInv, UseInv, ListInv
<1>3. pc[b] \in Locking /\ b \in Busy
  BY <1>1, ActorFacts DEF CircleInv, Keeper, Locking, Busy
<1>4. \A c \in Actors : pc[c] \in Locking => c = b
  BY <1>1 DEF CircleInv, UseInv, ListInv, Place
<1>5. CASE drop[b] # None
  BY <1>4, <1>5, DropGoesOn
<1>6. CASE drop[b] = None /\ pc[b] \in {"reset", "asked", "listed", "scan", "stopped"}
  <2>1. ~Waits(b)
    BY <1>6 DEF Waits
  <2> QED
    BY <1>3, <2>1
<1>7. CASE drop[b] = None /\ pc[b] \in {"askPush", "listPush"}
  <2>1. b \in Requests
    BY <1>2, <1>7 DEF Actors, Standing
  <2>2. Waits(b) => IsBusy(b, hand[b])
    BY <1>7 DEF Waits
  <2> QED
    BY <1>3, <1>7, <2>1, <2>2 DEF HoldsAndWaits
<1>8. CASE drop[b] = None /\ pc[b] \in {"ask", "list"}
  <2>1. render[b] \in Sessions
    BY <1>2, <1>8 DEF Standing, PagePlaces
  <2>2. Free(b, render[b])
    BY <2>1, HeldFree DEF Holds
  <2>3. ~Waits(b)
    BY <1>8, <2>2 DEF Waits, IsBusy
  <2> QED
    BY <1>3, <2>3
<1>9. CASE drop[b] = None /\ pc[b] = "stop"
  <2>1. b = Manager /\ b # Cleaner /\ Cleaner \in Actors
    BY <1>2, <1>9, ActorsDiffer, ActorFacts DEF Actors, Standing
  <2>2. pc[Cleaner] \in {"idle", "delete"} /\ drop[Cleaner] = None
    BY <1>2, <1>4, <2>1, ActorsDiffer DEF Standing, Locking, Known
  <2>3. CASE pc[Cleaner] = "idle"
    <3>1. ~Waits(b)
      BY <1>9, <2>2, <2>3 DEF Waits, At
    <3> QED
      BY <1>3, <3>1
  <2>4. CASE pc[Cleaner] = "delete"
    <3>1. \A c \in Actors : pc[c] \in PagePlaces => pc[c] \notin Locking
      BY <1>4, <1>9 DEF PagePlaces
    <3> QED
      BY <2>1, <2>4, <3>1, DeleterGoesOn
  <2> QED
    BY <2>2, <2>3, <2>4
<1> QED
  BY <1>3, <1>5, <1>6, <1>7, <1>8, <1>9 DEF Locking

\* Requests, the cleaner and the restart never all wait for each other, for any
\* number of requests and sessions: from the thread that keeps fSessionsMutex, or
\* from any if none does, the chain of who waits for whom ends at one that goes on.
THEOREM NoCircles == Spec => []NoCircle
<1>1. CircleInv => NoCircle
  BY FreeGoesOn, KeeperGoesOn DEF NoCircle
<1> QED
  BY <1>1, CircleSafety, PTL

-----------------------------------------------------------------------------
(* The limit on the number of sessions.                                    *)

\* The requests that have found room and have not added their session yet:
\* MakeSession compares a number that may be out of date by then.
Permits ==
  {r \in Requests : \/ pc[r] = "add"
                    \/ pc[r] \in {"room", "made", "delete"} /\ count[r] < MaxSessions}

\* Each of them can exceed the limit, the first of them excepted.
Limited == Cardinality(Active) + Cardinality(Permits) <= MaxSessions - 1 + Cardinality(Requests)

\* The sets that are counted are finite.
LEMMA LimitCounts ==
  ASSUME TypeOK
  PROVE  /\ IsFiniteSet(Active) /\ Cardinality(Active) \in Nat
         /\ IsFiniteSet(Permits) /\ Cardinality(Permits) \in Nat /\ Cardinality(Permits) <= Cardinality(Requests)
         /\ Cardinality(Requests) \in Nat /\ MaxSessions \in Nat /\ MaxSessions >= 1
<1>1. Active \subseteq Sessions /\ Permits \subseteq Requests
  BY ActiveCount DEF Permits
<1>2. IsFiniteSet(Active) /\ IsFiniteSet(Permits) /\ Cardinality(Permits) <= Cardinality(Requests)
  BY <1>1, Finitely, FS_Subset
<1>3. Cardinality(Active) \in Nat /\ Cardinality(Permits) \in Nat /\ Cardinality(Requests) \in Nat
  BY <1>2, Finitely, FS_CardinalityType
<1> QED
  BY <1>2, <1>3, Limits

\* A step after which there are no more sessions and no more permits.
LEMMA LimitLess ==
  ASSUME TypeOK, Limited, Active' \subseteq Active, Permits' \subseteq Permits
  PROVE  Limited'
<1>1. PICK A, P : A = Active' /\ P = Permits'
  OBVIOUS
<1>2. Cardinality(A) <= Cardinality(Active) /\ Cardinality(P) <= Cardinality(Permits)
  BY <1>1, LimitCounts, FS_Subset
<1>3. Cardinality(A) \in Nat /\ Cardinality(P) \in Nat
  BY <1>1, LimitCounts, FS_Subset, FS_CardinalityType
<1> QED
  BY <1>1, <1>2, <1>3, LimitCounts DEF Limited

\* A step that counts the sessions: whoever gets a permit saw room.
LEMMA LimitCounted ==
  ASSUME TypeOK, Limited, TypeOK', NEW r \in Requests, UNCHANGED lists,
         pc'[r] \in {"room", "made", "delete"}, count'[r] = Cardinality(Active),
         \A q \in Requests \ {r} : pc'[q] = pc[q] /\ count'[q] = count[q]
  PROVE  Limited'
<1>1. PICK A, P : A = Active' /\ P = Permits'
  OBVIOUS
<1>2. A = Active
  BY <1>1 DEF Active, lists
<1>3. CASE Cardinality(Active) < MaxSessions
  <2>1. P \subseteq Requests
    BY <1>1 DEF Permits
  <2>2. Cardinality(P) <= Cardinality(Requests) /\ Cardinality(P) \in Nat
    BY <2>1, Finitely, FS_Subset, FS_CardinalityType
  <2> QED
    BY <1>1, <1>2, <1>3, <2>2, LimitCounts DEF Limited
<1>4. CASE ~(Cardinality(Active) < MaxSessions)
  <2>1. r \notin P
    BY <1>1, <1>4 DEF Permits
  <2>2. P \subseteq Permits
    BY <1>1, <2>1 DEF Permits
  <2> QED
    BY <1>1, <1>2, <2>2, LimitLess
<1> QED
  BY <1>3, <1>4

\* AddSession uses a permit up.
LEMMA LimitAdd ==
  ASSUME ListInv, Limited, NEW r \in Requests, AddSession(r)
  PROVE  Limited'
<1>0. r \in Actors /\ TypeOK /\ Place(r)
  BY ActorFacts DEF ListInv
<1>1. PICK A, P : A = Active' /\ P = Permits'
  OBVIOUS
<1>2. /\ pc[r] = "add" /\ hand[r] \in Sessions
      /\ pc'[r] = "added" /\ count' = count /\ \A q \in Actors \ {r} : pc'[q] = pc[q]
  BY <1>0 DEF AddSession, At, Goto, TypeOK, Place
<1>3. A \subseteq Active \cup {hand[r]}
  <2>1. NewId(r) \in Keys
    BY <1>0, <1>2 DEF NewId, Keys, TypeOK
  <2>2. \A k \in Keys : fSessions'[k] \in {fSessions[k], hand[r]}
    BY <1>0, <2>1 DEF AddSession, TypeOK
  <2> QED
    BY <1>1, <2>2 DEF Active
<1>4. P = Permits \ {r} /\ r \in Permits
  <2>1. r \in Permits /\ r \notin P
    BY <1>1, <1>2 DEF Permits
  <2>2. \A q \in Requests \ {r} : q \in P <=> q \in Permits
    BY <1>1, <1>2, ActorFacts DEF Permits
  <2>3. P \subseteq Requests /\ Permits \subseteq Requests
    BY <1>1 DEF Permits
  <2> QED
    BY <2>1, <2>2, <2>3
<1>5. Cardinality(P) = Cardinality(Permits) - 1
  BY <1>0, <1>4, LimitCounts, FS_RemoveElement
<1>6. Cardinality(A) <= Cardinality(Active) + 1 /\ Cardinality(A) \in Nat
  <2>1. /\ IsFiniteSet(Active \cup {hand[r]})
        /\ Cardinality(Active \cup {hand[r]}) \in {Cardinality(Active), Cardinality(Active) + 1}
    BY <1>0, LimitCounts, FS_AddElement
  <2>2. Cardinality(A) <= Cardinality(Active \cup {hand[r]}) /\ Cardinality(A) \in Nat
    BY <1>3, <2>1, FS_Subset, FS_CardinalityType
  <2> QED
    BY <1>0, <2>1, <2>2, LimitCounts
<1> QED
  BY <1>0, <1>1, <1>5, <1>6, LimitCounts DEF Limited

\* Every step keeps the limit.
LEMMA LimitStep ==
  ASSUME ListInv, ListInv', Limited, [Next]_vars
  PROVE  Limited'
<1>0. TypeOK /\ TypeOK' /\ Requests \subseteq Actors /\ Cleaner \notin Requests /\ Manager \notin Requests
  BY ActorFacts, ActorsDiffer DEF ListInv
<1>1. CASE \E r \in Requests : AddSession(r)
  BY <1>1, LimitAdd
<1>2. CASE \E r \in Requests : GetNumberOfSessions(r) \/ Scanned(r)
  <2>1. PICK r \in Requests : GetNumberOfSessions(r) \/ Scanned(r)
    BY <1>2
  <2>2. /\ UNCHANGED lists /\ pc'[r] \in {"room", "made", "delete"} /\ count'[r] = Cardinality(Active)
        /\ \A q \in Requests \ {r} : pc'[q] = pc[q] /\ count'[q] = count[q]
    BY <1>0, <2>1 DEF GetNumberOfSessions, Scanned, NoList, Goto, Return, TypeOK
  <2> QED
    BY <1>0, <2>2, LimitCounted
<1>3. ASSUME NEW a \in Actors, \A q \in Requests \ {a} : pc'[q] = pc[q] /\ count'[q] = count[q],
             a \in Requests => a \notin Permits' \/ a \in Permits, Active' \subseteq Active
      PROVE  Limited'
  <2>1. Permits' \subseteq Permits
    BY <1>3 DEF Permits
  <2> QED
    BY <1>0, <1>3, <2>1, LimitLess
<1>4. UNCHANGED lists => Active' = Active
  BY DEF Active, lists
<1>5. ASSUME NEW r \in Requests, RequestStep(r) \/ PageCalls(r) \/ \E k \in Keys \cup {None} : Begin(r, k),
             ~GetNumberOfSessions(r), ~AddSession(r)
      PROVE  Limited'
  <2> USE DEF Begin, IntLookupSession, ResetTimeAndFlags, Found, SessionIsBusy, Verify, VerifyFails, MakeRoom, MakeSession,
          NotifyAdded, PrepareSession, RenderNextPage, PageDone, ResetAccessTime, EndRequest, NotifyRemoved,
          AskPush, AskEnd, AskDone, ListOne, ListPush, ListEnd, ListDone, UnRef, SessionListInfo,
          DisableSession, GetASessionsInfo, RequestStep, PageCalls, NoPush, NoList, NoCopy, NoState, NoCall, Goto, At
  <2>1. \A q \in Requests \ {r} : pc'[q] = pc[q] /\ count'[q] = count[q]
    BY <1>0, <1>5 DEF TypeOK
  <2>2. r \notin Permits' \/ r \in Permits
    <3>1. \/ pc'[r] \notin {"add", "room", "made", "delete"}
          \/ pc'[r] = "made" /\ pc[r] = "room" /\ count' = count
          \/ pc'[r] = "add" /\ pc[r] = "made" /\ count[r] < fMaxSessionsAllowed
          \/ UNCHANGED <<pc, count>>
      BY <1>0, <1>5 DEF TypeOK
    <3>2. count[r] < fMaxSessionsAllowed => count[r] < MaxSessions
      BY <1>0, Limits DEF TypeOK
    <3> QED
      BY <3>1, <3>2 DEF Permits
  <2>3. UNCHANGED lists \/ \E k \in Keys : fSessions' = [fSessions EXCEPT ![k] = None]
    BY <1>5
  <2>4. UNCHANGED lists \/ \A k \in Keys : fSessions'[k] \in {fSessions[k], None}
    BY <1>0, <2>3 DEF TypeOK
  <2>5. Active' \subseteq Active
    BY <1>4, <2>4 DEF Active
  <2> QED
    BY <1>0, <1>3, <2>1, <2>2, <2>5
<1>6. ASSUME NEW a \in Requests \cup {Cleaner}, CleanupStep(a), ~(a \in Requests /\ Scanned(a))
      PROVE  Limited'
  <2> USE DEF CleanupStep, CleanupSessions, DoCleanup, Scanned, DoDeleteSessions, NoList, NoState, NoCopy, Goto, At
  <2>0. a \in Actors
    BY ActorFacts
  <2>1. \A q \in Requests \ {a} : pc'[q] = pc[q] /\ count'[q] = count[q]
    BY <1>0, <1>6, <2>0 DEF TypeOK
  <2>2. a \in Requests => a \notin Permits' \/ a \in Permits
    <3>1. a \in Requests => pc'[a] = "scan" \/ (pc[a] = "delete" /\ pc'[a] \in {"delete", "made"} /\ count' = count)
      BY <1>0, <1>6, <2>0 DEF TypeOK, Return
    <3> QED
      BY <3>1 DEF Permits
  <2>3. UNCHANGED lists \/ \A k \in Keys : fSessions'[k] \in {fSessions[k], None}
    BY <1>6
  <2>4. Active' \subseteq Active
    BY <1>4, <2>3 DEF Active
  <2> QED
    BY <1>3, <2>0, <2>1, <2>2, <2>4
<1>7. CASE Period \/ EnterReInit \/ ManagerStep
  <2> USE DEF Period, EnterReInit, ManagerStep, CleanerTerminated, ResetInit, Finis, NoList, NoState, NoCopy, NoCall, Goto, At
  <2>1. \A q \in Requests : pc'[q] = pc[q] /\ count'[q] = count[q]
    BY <1>0, <1>7 DEF TypeOK
  <2>2. UNCHANGED lists \/ \A k \in Keys : fSessions'[k] = None
    BY <1>7
  <2>3. Active' \subseteq Active
    BY <1>4, <2>2 DEF Active
  <2> QED
    BY <1>0, <1>3, <2>1, <2>3, ActorFacts
<1>8. CASE UNCHANGED vars \/ \E s \in Sessions : Age(s)
  <2>1. UNCHANGED <<lists, pc, count>>
    BY <1>8 DEF vars, Age, NoList, NoCall
  <2>2. Permits' = Permits
    BY <2>1 DEF Permits
  <2> QED
    BY <1>0, <1>4, <2>1, <2>2, LimitLess
<1> QED
  BY <1>1, <1>2, <1>5, <1>6, <1>7, <1>8 DEF Next

\* MakeSession looks at the number of sessions before AddSession adds one, and
\* other requests may be between the two; the limit is exceeded by less than
\* one session for each request that can run at the same time.
THEOREM Overshoot == Spec => [](Cardinality(Active) <= MaxSessions - 1 + Cardinality(Requests))
<1>1. Init => Limited
  <2> SUFFICES ASSUME Init PROVE Limited
    OBVIOUS
  <2>1. TypeOK
    BY ListInit DEF ListInv
  <2>2. Active = {} /\ Permits = {}
    BY ActorFacts DEF Init, Active, Permits
  <2> QED
    BY <2>1, <2>2, LimitCounts, FS_EmptySet DEF Limited
<1>2. ListInv /\ ListInv' /\ Limited /\ [Next]_vars => Limited'
  BY LimitStep
<1>3. ListInv /\ Limited => Cardinality(Active) <= MaxSessions - 1 + Cardinality(Requests)
  BY LimitCounts DEF ListInv, Limited
<1> QED
  BY <1>1, <1>2, <1>3, ListSafety, PTL DEF Spec
=============================================================================
