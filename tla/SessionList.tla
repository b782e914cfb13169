---------------------------- MODULE SessionList ----------------------------
(***************************************************************************)
(* SessionListManager (wdbase/SessionListManager.cpp) with the sessions it *)
(* keeps (Session.cpp) and the contexts that refer to them (Context.cpp):  *)
(* requests look a session up, verify it or create one and render a page,  *)
(* the cleaner thread deletes what has timed out, pages disable sessions   *)
(* or ask for information about them, and the server restarts the manager  *)
(* or ends it.                                                             *)
(*                                                                         *)
(* A section under fSessionsMutex is one step unless it waits for a        *)
(* session or goes through a list.  The mutex of a session is not a        *)
(* variable: who holds it follows from the contexts (Holds).  Time is the  *)
(* set old of the sessions whose timeout has passed.  The id GetNextId     *)
(* makes for a session is the session itself: no other one gets it.        *)
(***************************************************************************)
EXTENDS Naturals, FiniteSets

CONSTANTS
  Requests,      \* threads that process one request after the other
  Cleaner,       \* the thread of fSessionCleaner
  Manager,       \* the thread that restarts and ends the manager
  Sessions,      \* the Session objects there can be
  Ids,           \* ids that come from a query and not from GetNextId
  None,          \* a null pointer, an empty id, a free mutex
  MaxSessions,   \* /MaxSessionsAllowed
  CopyModes      \* values /CopySessionStore is configured with

ASSUME ActorsDiffer == Cleaner # Manager /\ {Cleaner, Manager} \cap Requests = {}
ASSUME NoneDiffers  == None \notin Requests \cup {Cleaner, Manager} \cup Sessions \cup Ids
ASSUME IdsDiffer    == Ids \cap Sessions = {}
ASSUME Limits       == MaxSessions \in Nat \ {0} /\ CopyModes \subseteq BOOLEAN
ASSUME Finitely     == IsFiniteSet(Requests) /\ IsFiniteSet(Sessions)

Actors == Requests \cup {Cleaner, Manager}
Keys   == Ids \cup Sessions

VARIABLES
  fCopySessionStore,        \* configuration of the contexts
  fSessionsMutex,           \* who holds it over several steps
  fSessions,                \* id -> session
  fDisabledSessions,        \* the sessions in that list
  fMaxSessionsAllowed,
  unborn, deleted,          \* sessions that do not exist yet and any more
  fRefCount, fTerminated,
  old,                      \* of the sessions in fSessions, those that are out of
                            \* time (a disabled one always is)
  pc,
  ctx,                      \* fSession of each context
  drop,                     \* the session a context has left and not yet unreferenced
  hand,                     \* the session a call is about
  want,                     \* the id of the request
  count,                    \* sessionsCount in MakeSession
  render,                   \* the session in whose RenderNextPage a thread is
  todo,                     \* sessions a loop has still to visit
  sessions2Delete

lists == <<fSessions, fDisabledSessions>>
state == <<fRefCount, fTerminated, old>>
vars  == <<fCopySessionStore, fSessionsMutex, lists, fMaxSessionsAllowed, unborn, deleted, state,
           pc, ctx, drop, hand, want, count, render, todo, sessions2Delete>>

Active == {fSessions[k] : k \in Keys} \ {None}

Init ==
  /\ fCopySessionStore \in CopyModes
  /\ fSessionsMutex = None
  /\ fSessions = [k \in Keys |-> None] /\ fDisabledSessions = {}
  /\ fMaxSessionsAllowed = MaxSessions
  /\ unborn = Sessions /\ deleted = {}
  /\ fRefCount = [s \in Sessions |-> 0] /\ fTerminated = {} /\ old = {}
  /\ pc = [a \in Actors |-> "idle"]
  /\ ctx = [a \in Actors |-> None] /\ drop = [a \in Actors |-> None] /\ hand = [a \in Actors |-> None]
  /\ want = [a \in Actors |-> None] /\ count = [a \in Actors |-> 0]
  /\ render = [a \in Actors |-> None]
  /\ todo = [a \in Actors |-> {}] /\ sessions2Delete = [a \in Actors |-> {}]

-----------------------------------------------------------------------------
\* a has locked fMutex of s: by Push, without a copy of the store until the
\* context drops s, or by RenderNextPage.
Holds(a, s) == render[a] = s \/ (~fCopySessionStore /\ ctx[a] = s)

\* a can lock fMutex of s; IsBusy tells whether TryLock fails.
Free(a, s)   == ~\E b \in Actors : b # a /\ Holds(b, s)
IsBusy(a, s) == ~Free(a, s)

\* A thread goes on when its Push is over.
At(a, l)   == pc[a] = l /\ drop[a] = None
Goto(a, l) == pc' = [pc EXCEPT ![a] = l]

MutexFree == fSessionsMutex = None

\* Mutant: the session that was in the context keeps its count.
Push_NoUnRef(a, s) ==
  /\ s # None => Free(a, s)
  /\ ctx' = [ctx EXCEPT ![a] = s]
  /\ fRefCount' = [x \in Sessions |-> IF x = s /\ ctx[a] # s THEN fRefCount[x] + 1 ELSE fRefCount[x]]
  /\ UNCHANGED drop

\* Context::Push: s is locked and counted, then the old session loses its count
\* and its lock.  With a copy of the store it is not locked any more: the
\* count waits for UnRef.
Push(a, s) ==
  /\ s # None => Free(a, s)
  /\ ctx' = [ctx EXCEPT ![a] = s]
  /\ drop' = [drop EXCEPT ![a] = IF fCopySessionStore /\ ctx[a] # s THEN ctx[a] ELSE None]
  /\ fRefCount' = [x \in Sessions |->
       IF ctx[a] = s THEN fRefCount[x]
       ELSE IF x = s THEN fRefCount[x] + 1
       ELSE IF x = ctx[a] /\ ~fCopySessionStore THEN fRefCount[x] - 1 ELSE fRefCount[x]]

NoPush   == UNCHANGED <<ctx, drop>>
NoList   == UNCHANGED <<lists, fMaxSessionsAllowed, unborn, deleted>>
NoCopy   == UNCHANGED fCopySessionStore
NoState  == UNCHANGED state
NoCall   == UNCHANGED <<hand, want, count, render, todo, sessions2Delete>>

\* The end of a Push with a copy of the store.
UnRef(a) ==
  /\ drop[a] # None /\ Free(a, drop[a])
  /\ fRefCount' = [fRefCount EXCEPT ![drop[a]] = @ - 1]
  /\ drop' = [drop EXCEPT ![a] = None]
  /\ NoList /\ NoCopy /\ NoCall /\ UNCHANGED <<fSessionsMutex, fTerminated, old, pc, ctx>>

-----------------------------------------------------------------------------
(* A request: WebAppService::DoHandleService.                              *)

\* A request with an id or without one; a generated id is that of a session
\* there was.
Begin(r, k) ==
  /\ At(r, "idle") /\ k \notin unborn /\ ~At(Manager, "ended")
  /\ want' = [want EXCEPT ![r] = k]
  /\ Goto(r, IF k = None THEN "count" ELSE "lookup")
  /\ NoList /\ NoState /\ NoCopy /\ UNCHANGED <<fSessionsMutex, ctx, drop, hand, count, render, todo, sessions2Delete>>

\* IntLookupSession: a session that is terminated is not found.
IntLookupSession(r) ==
  /\ At(r, "lookup") /\ MutexFree
  /\ LET s == fSessions[want[r]] IN
     IF s = None \/ (~IsBusy(r, s) /\ s \in fTerminated)
     THEN Goto(r, "count") /\ UNCHANGED <<fSessionsMutex, hand>>
     ELSE Goto(r, "reset") /\ fSessionsMutex' = r /\ hand' = [hand EXCEPT ![r] = s]
  /\ NoList /\ NoState /\ NoCopy /\ UNCHANGED <<ctx, drop, want, count, render, todo, sessions2Delete>>

\* ResetTimeAndFlags, if the session is not busy; then the mutex is released.
ResetTimeAndFlags(r) ==
  /\ At(r, "reset")
  /\ LET fresh == IF Free(r, hand[r]) THEN {hand[r]} ELSE {} IN
       fTerminated' = fTerminated \ fresh /\ old' = old \ fresh
  /\ fSessionsMutex' = None /\ Goto(r, "found")
  /\ NoList /\ NoCopy /\ NoCall /\ UNCHANGED <<fRefCount, ctx, drop>>

\* ctx.Push(s) of the session that was found.
Found(r) ==
  /\ At(r, "found")
  /\ Push(r, hand[r])
  /\ hand' = [hand EXCEPT ![r] = None] /\ want' = [want EXCEPT ![r] = None]
  /\ Goto(r, "prepare")
  /\ NoList /\ NoCopy /\ UNCHANGED <<fSessionsMutex, fTerminated, old, count, render, todo, sessions2Delete>>

\* PrepareSession: a session that stays busy for a minute is not verified.
SessionIsBusy(r) ==
  /\ At(r, "prepare")
  /\ Goto(r, IF IsBusy(r, ctx[r]) THEN "render" ELSE "verify")
  /\ NoList /\ NoState /\ NoCopy /\ NoCall /\ NoPush /\ UNCHANGED fSessionsMutex

\* Session::Verify locks fMutex, which may be taken again, and succeeds.
Verify(r) ==
  /\ At(r, "verify") /\ Free(r, ctx[r]) /\ ctx[r] \notin fTerminated
  /\ old' = old \ {ctx[r]}
  /\ Goto(r, "push")
  /\ NoList /\ NoCopy /\ NoCall /\ NoPush /\ UNCHANGED <<fSessionsMutex, fRefCount, fTerminated>>

\* It fails, since the session is terminated or the client another one, and
\* the request gets a new id.
VerifyFails(r) ==
  /\ At(r, "verify") /\ Free(r, ctx[r])
  /\ old' = IF ctx[r] \in fTerminated THEN old ELSE old \ {ctx[r]}
  /\ Goto(r, "count")
  /\ NoList /\ NoCopy /\ NoCall /\ NoPush /\ UNCHANGED <<fSessionsMutex, fRefCount, fTerminated>>

\* MakeSession: GetNumberOfSessions.
GetNumberOfSessions(r) ==
  /\ At(r, "count") /\ MutexFree
  /\ count' = [count EXCEPT ![r] = Cardinality(Active)]
  /\ Goto(r, "room")
  /\ NoList /\ NoState /\ NoCopy /\ UNCHANGED <<fSessionsMutex, ctx, drop, hand, want, render, todo, sessions2Delete>>

\* Is there room?  If not, CleanupSessions(ctx, true) comes first.
MakeRoom(r) ==
  /\ At(r, "room")
  /\ Goto(r, IF count[r] >= fMaxSessionsAllowed THEN "cleanup" ELSE "made")
  /\ NoList /\ NoState /\ NoCopy /\ NoCall /\ UNCHANGED <<fSessionsMutex, ctx, drop>>

\* DoMakeSession and its Push, if there is room now.  Bound: when all objects
\* of the model are used there is no room either.
MakeSession(r) ==
  /\ At(r, "made")
  /\ IF count[r] < fMaxSessionsAllowed /\ unborn # {}
     THEN \E s \in unborn :
            /\ Push(r, s)
            /\ unborn' = unborn \ {s}
            /\ hand' = [hand EXCEPT ![r] = s]
            /\ Goto(r, "add")
     ELSE Goto(r, "end") /\ UNCHANGED <<ctx, drop, fRefCount, unborn, hand>>
  /\ count' = [count EXCEPT ![r] = 0]
  /\ NoCopy /\ UNCHANGED <<fSessionsMutex, lists, fMaxSessionsAllowed, deleted, fTerminated, old, want, render, todo, sessions2Delete>>

\* InitSession: the id of the query, or a new one.
NewId(r) == IF want[r] = None THEN hand[r] ELSE want[r]

\* Mutant: the session that had the id before is forgotten.
AddSession_Overwrite(r) ==
  /\ At(r, "add") /\ MutexFree
  /\ fSessions' = [fSessions EXCEPT ![NewId(r)] = hand[r]]
  /\ hand' = [hand EXCEPT ![r] = None] /\ want' = [want EXCEPT ![r] = None]
  /\ Goto(r, "added")
  /\ old' = old \ {fSessions[NewId(r)]}
  /\ NoCopy /\ UNCHANGED <<fRefCount, fTerminated, fSessionsMutex, fDisabledSessions, fMaxSessionsAllowed, unborn, deleted, ctx, drop, count, render, todo, sessions2Delete>>

\* AddSession: a session that had the id before is disabled.
AddSession(r) ==
  /\ At(r, "add") /\ MutexFree
  /\ fDisabledSessions' = fDisabledSessions \cup ({fSessions[NewId(r)]} \ {None})
  /\ fSessions' = [fSessions EXCEPT ![NewId(r)] = hand[r]]
  /\ hand' = [hand EXCEPT ![r] = None] /\ want' = [want EXCEPT ![r] = None]
  /\ Goto(r, "added")
  /\ old' = old \ {fSessions[NewId(r)]}
  /\ NoCopy /\ UNCHANGED <<fRefCount, fTerminated, fSessionsMutex, fMaxSessionsAllowed, unborn, deleted, ctx, drop, count, render, todo, sessions2Delete>>

\* Its end: Notify(eAdded) locks fMutex of the new session.
NotifyAdded(r) ==
  /\ At(r, "added") /\ Free(r, ctx[r])
  /\ Goto(r, "push")
  /\ NoList /\ NoState /\ NoCopy /\ NoCall /\ NoPush /\ UNCHANGED fSessionsMutex

\* PrepareSession pushes the session, which is in the context already.
PrepareSession(r) ==
  /\ At(r, "push")
  /\ Push(r, ctx[r])
  /\ Goto(r, "render")
  /\ NoList /\ NoCopy /\ NoCall /\ UNCHANGED <<fSessionsMutex, fTerminated, old>>

\* RenderNextPage: TryLock, or the busy page.
RenderNextPage(r) ==
  /\ At(r, "render")
  /\ IF Free(r, ctx[r])
     THEN Goto(r, "page") /\ render' = [render EXCEPT ![r] = ctx[r]]
     ELSE Goto(r, "end") /\ UNCHANGED render
  /\ NoList /\ NoState /\ NoCopy /\ UNCHANGED <<fSessionsMutex, ctx, drop, hand, want, count, todo, sessions2Delete>>

\* The page is done: fMutex is unlocked ...
PageDone(r) ==
  /\ At(r, "page")
  /\ render' = [render EXCEPT ![r] = None] /\ hand' = [hand EXCEPT ![r] = render[r]]
  /\ Goto(r, "timer")
  /\ NoList /\ NoState /\ NoCopy /\ NoPush /\ UNCHANGED <<fSessionsMutex, want, count, todo, sessions2Delete>>

\* ... and then the AccessTimer resets the time of the session.
ResetAccessTime(r) ==
  /\ At(r, "timer")
  /\ old' = old \ {hand[r]}
  /\ hand' = [hand EXCEPT ![r] = None]
  /\ Goto(r, "end")
  /\ NoList /\ NoCopy /\ NoPush
  /\ UNCHANGED <<fSessionsMutex, fRefCount, fTerminated, want, count, render, todo, sessions2Delete>>

\* The destructor of the context.
EndRequest(r) ==
  /\ At(r, "end")
  /\ Push(r, None)
  /\ want' = [want EXCEPT ![r] = None]
  /\ Goto(r, "idle")
  /\ NoList /\ NoCopy /\ UNCHANGED <<fSessionsMutex, fTerminated, old, hand, count, render, todo, sessions2Delete>>

-----------------------------------------------------------------------------
(* What the actions of a page may call.                                    *)

\* DisableSession: the session is moved to the other list.
DisableSession(r, k) ==
  /\ At(r, "page") /\ MutexFree /\ fSessions[k] # None
  /\ fDisabledSessions' = fDisabledSessions \cup {fSessions[k]}
  /\ fSessions' = [fSessions EXCEPT ![k] = None]
  /\ hand' = [hand EXCEPT ![r] = fSessions[k]]
  /\ Goto(r, "notify")
  /\ old' = old \ {fSessions[k]}
  /\ NoCopy /\ UNCHANGED <<fRefCount, fTerminated, fSessionsMutex, fMaxSessionsAllowed, unborn, deleted, ctx, drop, want, count, render, todo, sessions2Delete>>

\* Its end: Notify(eRemoved), and one's own session leaves the context.
NotifyRemoved(r) ==
  /\ At(r, "notify") /\ Free(r, hand[r])
  /\ IF ctx[r] = hand[r] THEN Push(r, None) ELSE UNCHANGED <<ctx, drop, fRefCount>>
  /\ hand' = [hand EXCEPT ![r] = None]
  /\ Goto(r, "page")
  /\ NoList /\ NoCopy /\ UNCHANGED <<fSessionsMutex, fTerminated, old, want, count, render, todo, sessions2Delete>>

\* GetASessionsInfo takes the mutex and counts its own session once more.  It
\* is called with a session in the context.
GetASessionsInfo(r, k) ==
  /\ At(r, "page") /\ MutexFree /\ ctx[r] # None
  /\ fSessions[k] \notin {None, ctx[r]} /\ ~IsBusy(r, fSessions[k])
  /\ fSessionsMutex' = r
  /\ hand' = [hand EXCEPT ![r] = fSessions[k]]
  /\ fRefCount' = [fRefCount EXCEPT ![ctx[r]] = @ + 1]
  /\ Goto(r, "askPush")
  /\ NoList /\ NoCopy /\ UNCHANGED <<fTerminated, old, ctx, drop, want, count, render, todo, sessions2Delete>>

\* GetSessionInfo pushes the session it found idle and runs its action.
AskPush(r) ==
  /\ At(r, "askPush")
  /\ Push(r, hand[r])
  /\ Goto(r, "ask")
  /\ NoList /\ NoCopy /\ NoCall /\ UNCHANGED <<fSessionsMutex, fTerminated, old>>

\* The own session comes back ...
AskEnd(r) ==
  /\ At(r, "ask")
  /\ Push(r, render[r])
  /\ Goto(r, "asked")
  /\ NoList /\ NoCopy /\ NoCall /\ UNCHANGED <<fSessionsMutex, fTerminated, old>>

\* ... and loses its extra count.
AskDone(r) ==
  /\ At(r, "asked")
  /\ fRefCount' = [fRefCount EXCEPT ![render[r]] = @ - 1]
  /\ fSessionsMutex' = None
  /\ hand' = [hand EXCEPT ![r] = None]
  /\ Goto(r, "page")
  /\ NoList /\ NoCopy /\ NoPush /\ UNCHANGED <<fTerminated, old, want, count, render, todo, sessions2Delete>>

\* SessionListInfo visits every active session, if TryLock succeeds.
SessionListInfo(r) ==
  /\ At(r, "page") /\ MutexFree /\ ctx[r] # None
  /\ fSessionsMutex' = r
  /\ todo' = [todo EXCEPT ![r] = Active]
  /\ Goto(r, "list")
  /\ NoList /\ NoState /\ NoCopy /\ UNCHANGED <<ctx, drop, hand, want, count, render, sessions2Delete>>

\* One session: busy ones are only named.
ListOne(r) ==
  /\ At(r, "list")
  /\ \E s \in todo[r] :
       /\ todo' = [todo EXCEPT ![r] = @ \ {s}]
       /\ IF IsBusy(r, s) THEN Goto(r, "list") /\ UNCHANGED hand
          ELSE Goto(r, "listPush") /\ hand' = [hand EXCEPT ![r] = s]
  /\ NoList /\ NoState /\ NoCopy /\ UNCHANGED <<fSessionsMutex, ctx, drop, want, count, render, sessions2Delete>>

\* GetSessionInfo pushes a session that was idle.
ListPush(r) ==
  /\ At(r, "listPush")
  /\ Push(r, hand[r])
  /\ hand' = [hand EXCEPT ![r] = None]
  /\ Goto(r, "list")
  /\ NoList /\ NoCopy /\ UNCHANGED <<fSessionsMutex, fTerminated, old, want, count, render, todo, sessions2Delete>>

\* The own session is pushed again ...
ListEnd(r) ==
  /\ At(r, "list") /\ todo[r] = {}
  /\ Push(r, render[r])
  /\ Goto(r, "listed")
  /\ NoList /\ NoCopy /\ NoCall /\ UNCHANGED <<fSessionsMutex, fTerminated, old>>

\* ... before the mutex is released.
ListDone(r) ==
  /\ At(r, "listed")
  /\ fSessionsMutex' = None
  /\ Goto(r, "page")
  /\ NoList /\ NoState /\ NoCopy /\ NoCall /\ NoPush

-----------------------------------------------------------------------------
(* CleanupSessions, called by the cleaner and, to make room, by requests.  *)

\* Mutant: the cleaner waits for the mutex.
Period_Lock ==
  /\ At(Cleaner, "idle") /\ ~At(Manager, "ended")
  /\ Goto(Cleaner, "cleanup")
  /\ NoList /\ NoState /\ NoCopy /\ NoCall /\ UNCHANGED <<fSessionsMutex, ctx, drop>>

\* The cleaner's period is over: it goes on only if TryLock succeeds.
Period ==
  /\ At(Cleaner, "idle") /\ MutexFree /\ ~At(Manager, "ended")
  /\ fSessionsMutex' = Cleaner
  /\ todo' = [todo EXCEPT ![Cleaner] = Active \cup fDisabledSessions]
  /\ Goto(Cleaner, "scan")
  /\ NoList /\ NoState /\ NoCopy /\ UNCHANGED <<ctx, drop, hand, want, count, render, sessions2Delete>>

\* The lock is taken with forceLock.
CleanupSessions(a) ==
  /\ At(a, "cleanup") /\ MutexFree
  /\ fSessionsMutex' = a
  /\ todo' = [todo EXCEPT ![a] = Active \cup fDisabledSessions]
  /\ Goto(a, "scan")
  /\ NoList /\ NoState /\ NoCopy /\ UNCHANGED <<ctx, drop, hand, want, count, render, sessions2Delete>>

\* Mutant: the reference count is not looked at.
IsDeletable_NoCount(a, s) == Free(a, s) /\ s \in old \cup fDisabledSessions

\* Session::IsDeletable: idle, without a reference and out of time; what is
\* disabled is out of time always.
IsDeletable(a, s) == Free(a, s) /\ fRefCount[s] = 0 /\ s \in old \cup fDisabledSessions

\* DoCleanup of one session; one's own leaves the context.
DoCleanup(a) ==
  /\ At(a, "scan")
  /\ \E s \in todo[a] :
       /\ todo' = [todo EXCEPT ![a] = @ \ {s}]
       /\ fTerminated' = IF Free(a, s) /\ s \in old \cup fDisabledSessions
                         THEN fTerminated \cup {s} ELSE fTerminated
       /\ IF IsDeletable(a, s)
          THEN /\ sessions2Delete' = [sessions2Delete EXCEPT ![a] = @ \cup {s}]
               /\ fDisabledSessions' = fDisabledSessions \ {s}
               /\ fSessions' = [k \in Keys |-> IF fSessions[k] = s THEN None ELSE fSessions[k]]
          ELSE UNCHANGED <<sessions2Delete, lists>>
       /\ IF ctx[a] = s THEN Push(a, None) ELSE UNCHANGED <<ctx, drop, fRefCount>>
  /\ NoCopy /\ UNCHANGED <<fSessionsMutex, fMaxSessionsAllowed, unborn, deleted, old, pc, hand, want, count, render>>

\* Where CleanupSessions returns to.
Return(a) == IF a = Cleaner THEN "idle" ELSE "made"

\* Both lists are done.
Scanned(a) ==
  /\ At(a, "scan") /\ todo[a] = {}
  /\ count' = IF a = Cleaner THEN count ELSE [count EXCEPT ![a] = Cardinality(Active)]
  /\ fSessionsMutex' = None
  /\ Goto(a, IF sessions2Delete[a] = {} THEN Return(a) ELSE "delete")
  /\ NoList /\ NoState /\ NoCopy /\ UNCHANGED <<ctx, drop, hand, want, render, todo, sessions2Delete>>

\* DoDeleteSessions: Notify and the destructor lock fMutex.
DoDeleteSessions(a) ==
  /\ At(a, "delete")
  /\ \E s \in sessions2Delete[a] :
       /\ Free(a, s)
       /\ deleted' = deleted \cup {s}
       /\ fTerminated' = fTerminated \ {s} /\ old' = old \ {s}
       /\ sessions2Delete' = [sessions2Delete EXCEPT ![a] = @ \ {s}]
       /\ Goto(a, IF sessions2Delete[a] = {s} THEN Return(a) ELSE "delete")
  /\ NoCopy /\ UNCHANGED <<fSessionsMutex, lists, fMaxSessionsAllowed, unborn, fRefCount, ctx, drop, hand, want, count, render, todo>>

-----------------------------------------------------------------------------
(* The manager as a module of the server.                                  *)

\* ResetFinis: EnterReInit takes the mutex and keeps it.
EnterReInit ==
  /\ At(Manager, "idle") /\ MutexFree
  /\ fSessionsMutex' = Manager
  /\ Goto(Manager, "stop")
  /\ NoList /\ NoState /\ NoCopy /\ NoCall /\ NoPush

\* fSessionCleaner->Terminate returns when the cleaner is done.
CleanerTerminated ==
  /\ At(Manager, "stop") /\ At(Cleaner, "idle")
  /\ fMaxSessionsAllowed' = 0
  /\ Goto(Manager, "stopped")
  /\ NoState /\ NoCopy /\ NoCall /\ UNCHANGED <<fSessionsMutex, lists, unborn, deleted, ctx, drop>>

\* ResetInit starts a new cleaner; LeaveReInit.
ResetInit ==
  /\ At(Manager, "stopped")
  /\ fMaxSessionsAllowed' = MaxSessions
  /\ fSessionsMutex' = None
  /\ Goto(Manager, "idle")
  /\ NoState /\ NoCopy /\ NoCall /\ UNCHANGED <<lists, unborn, deleted, ctx, drop>>

\* Finis: ForcedSessionCleanUp deletes all there is.  The modules end when
\* the server has no request any more.
Finis ==
  /\ At(Manager, "stopped") /\ \A r \in Requests : At(r, "idle")
  /\ deleted' = deleted \cup Active \cup fDisabledSessions
  /\ fSessions' = [k \in Keys |-> None] /\ fDisabledSessions' = {}
  /\ fSessionsMutex' = None
  /\ Goto(Manager, "ended")
  /\ NoState /\ NoCopy /\ NoCall /\ UNCHANGED <<fMaxSessionsAllowed, unborn, ctx, drop>>

-----------------------------------------------------------------------------
\* The timeout of a session passes, though not in the few instructions between
\* a lookup and its Push, where the time was reset just before, or between the
\* end of a page and that of the context, where it is reset.
Age(s) ==
  /\ s \in Active \ old
  /\ \A r \in Requests : hand[r] # s /\ ~(At(r, "end") /\ ctx[r] = s)
  /\ old' = old \cup {s}
  /\ NoList /\ NoCopy /\ NoCall /\ UNCHANGED <<fSessionsMutex, fRefCount, fTerminated, pc, ctx, drop>>

\* A request goes on by itself.
RequestStep(r) ==
  \/ IntLookupSession(r) \/ ResetTimeAndFlags(r) \/ Found(r) \/ SessionIsBusy(r) \/ Verify(r)
  \/ VerifyFails(r) \/ GetNumberOfSessions(r) \/ MakeRoom(r) \/ MakeSession(r) \/ AddSession(r)
  \/ NotifyAdded(r) \/ PrepareSession(r) \/ RenderNextPage(r) \/ PageDone(r) \/ ResetAccessTime(r)
  \/ EndRequest(r) \/ NotifyRemoved(r) \/ AskPush(r) \/ AskEnd(r) \/ AskDone(r)
  \/ ListOne(r) \/ ListPush(r) \/ ListEnd(r) \/ ListDone(r) \/ UnRef(r)

CleanupStep(a) ==
  CleanupSessions(a) \/ DoCleanup(a) \/ Scanned(a) \/ DoDeleteSessions(a)

\* A page calls the manager.
PageCalls(r) ==
  SessionListInfo(r) \/ \E k \in Keys : DisableSession(r, k) \/ GetASessionsInfo(r, k)

ManagerStep == CleanerTerminated \/ ResetInit \/ Finis

Next ==
  \/ \E r \in Requests : RequestStep(r) \/ PageCalls(r) \/ \E k \in Keys \cup {None} : Begin(r, k)
  \/ \E a \in Requests \cup {Cleaner} : CleanupStep(a)
  \/ Period \/ EnterReInit \/ ManagerStep
  \/ \E s \in Sessions : Age(s)

Spec == Init /\ [][Next]_vars

-----------------------------------------------------------------------------
\* The places of the threads.
Places == {"idle", "lookup", "reset", "found", "prepare", "verify", "count", "room", "cleanup", "scan", "delete",
           "made", "add", "added", "push", "render", "page", "notify", "askPush", "ask", "asked",
           "list", "listPush", "listed", "timer", "end", "stop", "stopped", "ended"}

\* Types of the state.
TypeOK ==
  /\ fCopySessionStore \in BOOLEAN
  /\ fSessionsMutex \in Actors \cup {None}
  /\ fSessions \in [Keys -> Sessions \cup {None}] /\ fDisabledSessions \subseteq Sessions
  /\ fMaxSessionsAllowed \in {0, MaxSessions}
  /\ unborn \subseteq Sessions /\ deleted \subseteq Sessions
  /\ fRefCount \in [Sessions -> Nat] /\ fTerminated \subseteq Sessions /\ old \subseteq Sessions
  /\ pc \in [Actors -> Places]
  /\ ctx \in [Actors -> Sessions \cup {None}] /\ drop \in [Actors -> Sessions \cup {None}]
  /\ hand \in [Actors -> Sessions \cup {None}]
  /\ want \in [Actors -> Keys \cup {None}] /\ count \in [Actors -> Nat]
  /\ render \in [Actors -> Sessions \cup {None}]
  /\ todo \in [Actors -> SUBSET Sessions] /\ sessions2Delete \in [Actors -> SUBSET Sessions]

\* Places where GetASessionsInfo counts its own session a second time.
Pinning == {"askPush", "ask", "asked"}

\* The reference count of a session is the number of contexts that have it or
\* are still to give it up, whichever sessions a context had on its way
\* (Context::InitSession).
RefExact ==
  \A s \in Sessions :
    fRefCount[s] = Cardinality({a \in Actors : ctx[a] = s}) + Cardinality({a \in Actors : drop[a] = s})
                   + Cardinality({a \in Actors : pc[a] \in Pinning /\ render[a] = s})

\* Where the manager or one of its callers is responsible for s.
Homes(s) ==
  {<<"active", k>> : k \in {k \in Keys : fSessions[k] = s}}
  \cup {<<"disabled", None>> : x \in fDisabledSessions \cap {s}}
  \cup {<<"delete", a>> : a \in {a \in Actors : s \in sessions2Delete[a]}}
  \cup {<<"new", a>> : a \in {a \in Actors : pc[a] = "add" /\ hand[a] = s}}
  \cup {<<"deleted", None>> : x \in deleted \cap {s}}

\* Every session is in exactly one list, or about to be added or deleted by
\* one thread, or deleted: none is lost and none is deleted twice, whatever
\* cleanups, disabling and new sessions with the same id do at the same time.
OneHome == \A s \in Sessions \ unborn : Cardinality(Homes(s)) = 1

\* A session that a request has looked up is not deleted before its Push, nor
\* one that is in a context: "make sure this session won't get deleted while
\* processing this request" (IntLookupSession).
NotDeletedInUse ==
  \A r \in Requests : ctx[r] \notin deleted /\ (pc[r] = "found" => hand[r] \notin deleted)

\* s is deleted or about to be.
Gone(s) == s \in deleted \/ \E a \in Actors : s \in sessions2Delete[a]

\* The sessions a thread has a pointer to.
Uses(a) == {ctx[a], drop[a], render[a], hand[a]} \ {None}

\* Those it will use again with neither a count nor a lock nor fSessionsMutex
\* to keep them: between a lookup and its Push, between the removal of another
\* session and its Notify, and between the end of a page and its AccessTimer.
Bare(a) == IF pc[a] \in {"found", "notify", "timer"} THEN {hand[a]} \ {ctx[a], render[a]} ELSE {}

\* These are the only windows: whatever is cleaned up, disabled, asked, listed,
\* dropped or ended, no session is given up for deletion while a thread has it
\* in another way, and no thread comes by one that was given up
\* (Session::IsDeletable, DoCleanup).
OnlyBareUses ==
  [][\A a \in Actors, s \in Sessions :
       Gone(s)' /\ s \in Uses(a)' => (Gone(s) /\ s \in Uses(a)) \/ s \in Bare(a)']_vars

\* A thread that keeps fSessionsMutex or the mutex of its own session waits
\* for that of another session, or a session that is in use is to be deleted.
HoldsAndWaits ==
  \E r \in Requests :
    \/ pc[r] \in {"askPush", "listPush", "notify"} /\ IsBusy(r, hand[r])
    \/ \E a \in Actors : ctx[r] \in sessions2Delete[a]

\* The threads in the middle of something.
Busy == {a \in Actors : pc[a] \notin {"idle", "ended"} \/ drop[a] # None}

\* What a thread in the middle of something can wait for: fSessionsMutex, the
\* mutex of a session it pushes, drops, verifies, notifies or deletes, or the
\* end of the cleaner.
Waits(a) ==
  \/ drop[a] # None /\ IsBusy(a, drop[a])
  \/ /\ drop[a] = None
     /\ \/ pc[a] \in {"lookup", "count", "add", "cleanup"} /\ ~MutexFree
        \/ pc[a] \in {"found", "askPush", "listPush", "notify"} /\ IsBusy(a, hand[a])
        \/ pc[a] \in {"verify", "added", "push"} /\ IsBusy(a, ctx[a])
        \/ pc[a] = "made" /\ count[a] < fMaxSessionsAllowed /\ unborn # {} /\ \A s \in unborn : IsBusy(a, s)
        \/ (pc[a] = "ask" \/ (pc[a] = "list" /\ todo[a] = {})) /\ IsBusy(a, render[a])
        \/ pc[a] = "delete" /\ \A s \in sessions2Delete[a] : IsBusy(a, s)
        \/ pc[a] = "stop" /\ ~At(Cleaner, "idle")

\* The threads never wait for each other in a circle, the restart of the
\* manager, which keeps fSessionsMutex while it waits for the cleaner (ResetFinis),
\* included.  The exceptions are the calls that keep one mutex while they wait
\* for another session (DisableSession, GetSessionInfo) and a session that is
\* deleted in use.
NoCircle == HoldsAndWaits \/ Busy = {} \/ \E a \in Busy : ~Waits(a)
=============================================================================
