------------------------------- MODULE RWLock -------------------------------
(***************************************************************************)
(* The read-write lock of mtfoundation: the POSIX implementation rwl_* in  *)
(* SystemAPI.cpp that the class RWLock of Threads.cpp wraps.               *)
(*                                                                         *)
(* rwl->mutex guards every field, so the code between pthread_mutex_lock   *)
(* and pthread_mutex_unlock (or pthread_cond_wait, which releases the      *)
(* mutex) is one step here.  A thread that sleeps in pthread_cond_wait is  *)
(* in state "rwait" or "wwait"; once signalled it is in "rwoken" or        *)
(* "wwoken" until it gets the mutex again and re-evaluates its while loop. *)
(* rwl->valid is tested before the mutex is taken and not again, so that   *)
(* a thread may have passed the test of a lock that is destroyed by now.   *)
(***************************************************************************)
EXTENDS Integers, FiniteSets

CONSTANT Threads            \* the threads that use the lock

ASSUME ThreadsFinite == IsFiniteSet(Threads)

VARIABLES
  valid,      \* rwl->valid = RWLOCK_VALID
  r_active,   \* readers active
  w_active,   \* writer active
  r_wait,     \* readers waiting
  w_wait,     \* writers waiting
  pc          \* where each thread is with respect to the lock

vars == <<valid, r_active, w_active, r_wait, w_wait, pc>>

\* The lock operations: a thread at such a place has found rwl->valid true
\* and wants rwl->mutex.
Ops == {"readlock", "readtrylock", "writelock", "writetrylock"}

\* "idle": outside; "reading", "writing": the lock operation has returned 0;
\* the others are inside its while loop.
Inside == {"reading", "writing", "rwait", "rwoken", "wwait", "wwoken"}
PCs    == {"idle"} \cup Ops \cup Inside

At(S) == {t \in Threads : pc[t] \in S}

Sleeping == At({"rwait", "wwait"})
Woken    == At({"rwoken", "wwoken"})

Goto(t, l) == pc' = [pc EXCEPT ![t] = l]

-----------------------------------------------------------------------------
\* rwl_init
Init ==
  /\ valid = TRUE
  /\ r_active = 0
  /\ w_active = FALSE
  /\ r_wait = 0
  /\ w_wait = 0
  /\ pc = [t \in Threads |-> "idle"]

\* Every lock operation begins with the test of rwl->valid, without the mutex.
Test(t, op) ==
  /\ valid
  /\ pc[t] = "idle"
  /\ Goto(t, op)
  /\ UNCHANGED <<valid, r_active, w_active, r_wait, w_wait>>

\* The test fails: EINVAL.
Invalid(t) ==
  /\ ~valid
  /\ pc[t] = "idle"
  /\ UNCHANGED vars

\* pthread_mutex_lock of a lock that has been destroyed since the test returns
\* an error, unless it comes before pthread_mutex_destroy: then the operation
\* goes on.
MutexFails(t) ==
  /\ ~valid
  /\ pc[t] \in Ops
  /\ Goto(t, "idle")
  /\ UNCHANGED <<valid, r_active, w_active, r_wait, w_wait>>

\* rwl_readlock: a reader waits only for an active writer.
ReadLock(t) ==
  /\ pc[t] = "readlock"
  /\ \/ /\ w_active
        /\ r_wait' = r_wait + 1
        /\ Goto(t, "rwait")
        /\ UNCHANGED r_active
     \/ /\ ~w_active
        /\ r_active' = r_active + 1
        /\ Goto(t, "reading")
        /\ UNCHANGED r_wait
  /\ UNCHANGED <<valid, w_active, w_wait>>

\* rwl_readlock, back from pthread_cond_wait with the mutex.
ReadRecheck(t) ==
  /\ pc[t] = "rwoken"
  /\ \/ /\ w_active
        /\ Goto(t, "rwait")
        /\ UNCHANGED <<r_active, r_wait>>
     \/ /\ ~w_active
        /\ r_wait' = r_wait - 1
        /\ r_active' = r_active + 1
        /\ Goto(t, "reading")
  /\ UNCHANGED <<valid, w_active, w_wait>>

\* rwl_readtrylock: EBUSY leaves everything as it is.
ReadTryLock(t) ==
  /\ pc[t] = "readtrylock"
  /\ \/ /\ w_active
        /\ Goto(t, "idle")
        /\ UNCHANGED r_active
     \/ /\ ~w_active
        /\ r_active' = r_active + 1
        /\ Goto(t, "reading")
  /\ UNCHANGED <<valid, w_active, r_wait, w_wait>>

\* pthread_cond_signal (&rwl->write) by t: one sleeping writer, if there is
\* one, becomes runnable.
SignalWrite(t) ==
  \/ /\ At({"wwait"}) = {}
     /\ Goto(t, "idle")
  \/ \E u \in At({"wwait"}) : pc' = [pc EXCEPT ![t] = "idle", ![u] = "wwoken"]

\* Mutant: pthread_cond_signal (&rwl->read), only one reader is woken.
BroadcastRead_Signal(t) ==
  \/ /\ At({"rwait"}) = {}
     /\ Goto(t, "idle")
  \/ \E u \in At({"rwait"}) : pc' = [pc EXCEPT ![t] = "idle", ![u] = "rwoken"]

\* pthread_cond_broadcast (&rwl->read) by t: every sleeping reader does.
BroadcastRead(t) ==
  pc' = [u \in Threads |-> IF u = t THEN "idle"
                           ELSE IF pc[u] = "rwait" THEN "rwoken" ELSE pc[u]]

\* Mutant: the last reader leaves without the signal.
ReadUnlock_NoSignal(t) ==
  /\ valid
  /\ pc[t] = "reading"
  /\ r_active' = r_active - 1
  /\ Goto(t, "idle")
  /\ UNCHANGED <<valid, w_active, r_wait, w_wait>>

\* rwl_readunlock: the last reader signals a waiting writer.
ReadUnlock(t) ==
  /\ valid
  /\ pc[t] = "reading"
  /\ r_active' = r_active - 1
  /\ IF r_active' = 0 /\ w_wait > 0 THEN SignalWrite(t) ELSE Goto(t, "idle")
  /\ UNCHANGED <<valid, w_active, r_wait, w_wait>>

\* rwl_writelock: a writer waits for the writer and for all readers.
WriteLock(t) ==
  /\ pc[t] = "writelock"
  /\ \/ /\ w_active \/ r_active > 0
        /\ w_wait' = w_wait + 1
        /\ Goto(t, "wwait")
        /\ UNCHANGED w_active
     \/ /\ ~w_active /\ r_active <= 0
        /\ w_active' = TRUE
        /\ Goto(t, "writing")
        /\ UNCHANGED w_wait
  /\ UNCHANGED <<valid, r_active, r_wait>>

\* Mutant: "if" in place of "while" around pthread_cond_wait.
WriteRecheck_If(t) ==
  /\ pc[t] = "wwoken"
  /\ w_wait' = w_wait - 1
  /\ w_active' = TRUE
  /\ Goto(t, "writing")
  /\ UNCHANGED <<valid, r_active, r_wait>>

\* rwl_writelock, back from pthread_cond_wait with the mutex.
WriteRecheck(t) ==
  /\ pc[t] = "wwoken"
  /\ \/ /\ w_active \/ r_active > 0
        /\ Goto(t, "wwait")
        /\ UNCHANGED <<w_active, w_wait>>
     \/ /\ ~w_active /\ r_active <= 0
        /\ w_wait' = w_wait - 1
        /\ w_active' = TRUE
        /\ Goto(t, "writing")
  /\ UNCHANGED <<valid, r_active, r_wait>>

\* Mutant: only an active writer is looked at.
WriteTryLock_IgnoreReaders(t) ==
  /\ pc[t] = "writetrylock"
  /\ \/ w_active /\ Goto(t, "idle") /\ UNCHANGED w_active
     \/ ~w_active /\ w_active' = TRUE /\ Goto(t, "writing")
  /\ UNCHANGED <<valid, r_active, r_wait, w_wait>>

\* rwl_writetrylock
WriteTryLock(t) ==
  /\ pc[t] = "writetrylock"
  /\ \/ /\ w_active \/ r_active > 0
        /\ Goto(t, "idle")
        /\ UNCHANGED w_active
     \/ /\ ~w_active /\ r_active <= 0
        /\ w_active' = TRUE
        /\ Goto(t, "writing")
  /\ UNCHANGED <<valid, r_active, r_wait, w_wait>>

\* rwl_writeunlock: waiting readers are preferred to waiting writers.
WriteUnlock(t) ==
  /\ valid
  /\ pc[t] = "writing"
  /\ w_active' = FALSE
  /\ IF r_wait > 0 THEN BroadcastRead(t)
     ELSE IF w_wait > 0 THEN SignalWrite(t)
     ELSE Goto(t, "idle")
  /\ UNCHANGED <<valid, r_active, r_wait, w_wait>>

\* The unlock operations of a destroyed lock return EINVAL and leave the
\* counters as they are.  (The test is not a step of its own: a lock that
\* somebody holds does not become invalid.)
UnlockInvalid(t) ==
  /\ ~valid
  /\ pc[t] \in {"reading", "writing"}
  /\ Goto(t, "idle")
  /\ UNCHANGED <<valid, r_active, w_active, r_wait, w_wait>>

\* pthread_cond_wait of a destroyed lock may return an error, which ends the
\* wait without the lock.
WaitFails(t) ==
  /\ ~valid
  /\ \/ /\ pc[t] \in {"rwait", "rwoken"}
        /\ r_wait' = r_wait - 1
        /\ UNCHANGED w_wait
     \/ /\ pc[t] \in {"wwait", "wwoken"}
        /\ w_wait' = w_wait - 1
        /\ UNCHANGED r_wait
  /\ Goto(t, "idle")
  /\ UNCHANGED <<valid, r_active, w_active>>

\* Mutant: the waiting threads are not looked at.
Destroy_IgnoreWaiters ==
  /\ valid
  /\ r_active <= 0 /\ ~w_active
  /\ valid' = FALSE
  /\ UNCHANGED <<r_active, w_active, r_wait, w_wait, pc>>

\* rwl_destroy: EBUSY while the lock is held or waited for.
Destroy ==
  /\ valid
  /\ r_active <= 0 /\ ~w_active
  /\ r_wait = 0 /\ w_wait = 0
  /\ valid' = FALSE
  /\ UNCHANGED <<r_active, w_active, r_wait, w_wait, pc>>

\* POSIX lets pthread_cond_wait return although nobody signalled.
SpuriousWakeup(t) ==
  /\ \/ pc[t] = "rwait" /\ Goto(t, "rwoken")
     \/ pc[t] = "wwait" /\ Goto(t, "wwoken")
  /\ UNCHANGED <<valid, r_active, w_active, r_wait, w_wait>>

-----------------------------------------------------------------------------
Lock(t)    == ReadLock(t) \/ ReadTryLock(t) \/ WriteLock(t) \/ WriteTryLock(t)
Recheck(t) == ReadRecheck(t) \/ WriteRecheck(t)
Unlock(t)  == ReadUnlock(t) \/ WriteUnlock(t) \/ UnlockInvalid(t)

Next ==
  \/ \E t \in Threads : \/ Lock(t) \/ Recheck(t) \/ Unlock(t)
                        \/ SpuriousWakeup(t) \/ Invalid(t) \/ MutexFails(t) \/ WaitFails(t)
                        \/ \E op \in Ops : Test(t, op)
  \/ Destroy

Spec == Init /\ [][Next]_vars

\* A thread that was woken is scheduled again, and a thread that holds the
\* lock gives it back (LockUnlockEntry unlocks in its destructor).  Nothing
\* obliges a thread to ask for the lock, and no spurious wakeup is promised.
Fairness == \A t \in Threads : WF_vars(Recheck(t)) /\ WF_vars(Unlock(t))

FairSpec == Spec /\ Fairness

-----------------------------------------------------------------------------
Readers == At({"reading"})
Writers == At({"writing"})

\* The fields have their C types and pc is a known place.
TypeOK ==
  /\ valid \in BOOLEAN
  /\ w_active \in BOOLEAN
  /\ r_active \in Nat /\ r_wait \in Nat /\ w_wait \in Nat
  /\ pc \in [Threads -> PCs]

\* r_active, r_wait and w_wait, which only ever change by ++ and --, count
\* the threads that hold the lock for reading or wait in rwl_readlock or
\* rwl_writelock, and w_active says that there is a writer.  After the
\* destruction the unlock operations do not count any more: r_active and
\* w_active then tell of holders that are gone, but forget none.
CountsExact ==
  /\ valid => r_active = Cardinality(Readers) /\ (w_active <=> Writers # {})
  /\ Readers # {} => r_active > 0
  /\ Writers # {} => w_active
  /\ r_wait = Cardinality(At({"rwait", "rwoken"}))
  /\ w_wait = Cardinality(At({"wwait", "wwoken"}))

\* What RWLock is for: a writer excludes every other holder.  This is true of
\* the threads, too, that get into a lock that has just been destroyed.
WriterExcludes == \A t, u \in Threads : pc[t] = "writing" /\ pc[u] \in {"reading", "writing"} => t = u

\* No lost wakeup: whoever frees the lock (rwl_readunlock, rwl_writeunlock)
\* leaves a woken thread behind if anybody sleeps, although
\* rwl_writeunlock signals readers only and a woken thread may lose the race
\* for the lock and go back to sleep.  (In a destroyed lock nobody signals.)
NoLostWakeup == valid /\ Readers = {} /\ Writers = {} /\ Sleeping # {} => Woken # {}

\* A reader sleeps only while a writer is active: rwl_writeunlock has to
\* broadcast, one signal would leave readers behind that nobody wakes.
ReadersSleepForWriter == At({"rwait"}) # {} => w_active

\* All of the above: the inductive invariant.
Inv == /\ TypeOK /\ CountsExact /\ WriterExcludes
       /\ NoLostWakeup /\ ReadersSleepForWriter

\* What rwl_destroy promises, which answers EBUSY while anybody is inside: no
\* thread that holds the lock or waits for it finds it destroyed.  The one way
\* into a destroyed lock is that of a thread which had passed the test of
\* rwl->valid when rwl_destroy set it to 0.
DestroyWindow ==
  [][\A t \in Threads :
       ~valid' /\ pc'[t] \in Inside => pc[t] \in Ops \/ (~valid /\ pc[t] \in Inside)]_vars

\* Every unlock hands the lock on: once no new thread takes the lock, every
\* reader and every writer still in rwl_readlock or rwl_writelock gets it.
\* (New readers can keep a writer out for ever, and new writers a reader, so
\* nothing stronger holds.  Who waits in a destroyed lock may wait for ever.)
WaitersServed ==
  <>[][\A u \in Threads : ~Lock(u)]_vars
    => \A t \in Threads : /\ (valid /\ pc[t] = "rwait") ~> (pc[t] = "reading")
                          /\ (valid /\ pc[t] = "wwait") ~> (pc[t] = "writing")

-----------------------------------------------------------------------------
Abs == INSTANCE ReadersWriters WITH readers <- Readers, writers <- Writers

\* The lock implements the abstract one: readers together or one writer
\* alone, and nobody loses the lock but by unlocking.
Refinement == Abs!ASpec
=============================================================================
