---------------------------- MODULE RWLockProofs ----------------------------
(***************************************************************************)
(* Proofs, for every finite set of threads, of the safety properties of    *)
(* RWLock and of its refinement of ReadersWriters.                         *)
(***************************************************************************)
EXTENDS RWLock, FiniteSetTheorems, TLAPS

\* The set At(S) for a given assignment f of places to threads.
Of(f, S) == {u \in Threads : f[u] \in S}

\* Of is finite, and its cardinality tells whether it is empty.
LEMMA OfFinite ==
  ASSUME NEW f, NEW S
  PROVE  /\ IsFiniteSet(Of(f, S))
         /\ Cardinality(Of(f, S)) \in Nat
         /\ Cardinality(Of(f, S)) = 0 <=> Of(f, S) = {}
<1>1. IsFiniteSet(Of(f, S))
  BY ThreadsFinite, FS_Subset, Of(f, S) \subseteq Threads DEF Of
<1> QED
  BY <1>1, FS_CardinalityType, FS_EmptySet

\* When only thread t may enter or leave the class S of places, the number of
\* threads in S changes as t does.
LEMMA Move ==
  ASSUME NEW f, NEW g, NEW t \in Threads, NEW S,
         \A u \in Threads : u # t => (f[u] \in S <=> g[u] \in S)
  PROVE  /\ (f[t] \in S <=> g[t] \in S) => Cardinality(Of(g, S)) = Cardinality(Of(f, S))
         /\ f[t] \notin S /\ g[t] \in S => Cardinality(Of(g, S)) = Cardinality(Of(f, S)) + 1
         /\ f[t] \in S /\ g[t] \notin S => Cardinality(Of(g, S)) = Cardinality(Of(f, S)) - 1
<1>1. ASSUME f[t] \in S <=> g[t] \in S
      PROVE  Of(f, S) = Of(g, S)
  BY <1>1 DEF Of
<1>2. ASSUME f[t] \notin S, g[t] \in S
      PROVE  Cardinality(Of(g, S)) = Cardinality(Of(f, S)) + 1
  <2>1. Of(g, S) = Of(f, S) \cup {t} /\ t \notin Of(f, S)
    BY <1>2 DEF Of
  <2> QED
    BY <2>1, OfFinite, FS_AddElement
<1>3. ASSUME f[t] \in S, g[t] \notin S
      PROVE  Cardinality(Of(g, S)) = Cardinality(Of(f, S)) - 1
  <2>1. Of(g, S) = Of(f, S) \ {t} /\ t \in Of(f, S)
    BY <1>3 DEF Of
  <2> QED
    BY <2>1, OfFinite, FS_RemoveElement
<1> QED
  BY <1>1, <1>2, <1>3

\* One for a place of the class S, zero for another one.
In(l, S) == IF l \in S THEN 1 ELSE 0

\* The steps of the lock move one thread t from its place to l and wake some
\* others; waking does not change what the four counters count.
StepOf(t, l) ==
  /\ pc' \in [Threads -> PCs]
  /\ pc'[t] = l
  /\ \A u \in Threads : u # t => \/ pc'[u] = pc[u]
                                 \/ pc[u] = "rwait" /\ pc'[u] = "rwoken"
                                 \/ pc[u] = "wwait" /\ pc'[u] = "wwoken"

\* How such a step changes the number of threads in the classes that the
\* counters count.
LEMMA Deltas ==
  ASSUME NEW t \in Threads, NEW l, StepOf(t, l)
  PROVE  /\ \A S \in {{"reading"}, {"rwait", "rwoken"}, {"wwait", "wwoken"}} :
              Cardinality(At(S))' = Cardinality(At(S)) + In(l, S) - In(pc[t], S)
         /\ \A u \in Threads : u # t => (pc'[u] = "writing" <=> pc[u] = "writing")
<1>1. ASSUME NEW S \in {{"reading"}, {"rwait", "rwoken"}, {"wwait", "wwoken"}}
      PROVE  Cardinality(At(S))' = Cardinality(At(S)) + In(l, S) - In(pc[t], S)
  <2>1. \A u \in Threads : u # t => (pc[u] \in S <=> pc'[u] \in S)
    BY DEF StepOf
  <2>2. At(S) = Of(pc, S) /\ At(S)' = Of(pc', S)
    BY DEF At, Of
  <2>3. Cardinality(Of(pc, S)) \in Nat
    BY OfFinite
  <2>4. /\ (pc[t] \in S <=> pc'[t] \in S) => Cardinality(Of(pc', S)) = Cardinality(Of(pc, S))
        /\ pc[t] \notin S /\ pc'[t] \in S => Cardinality(Of(pc', S)) = Cardinality(Of(pc, S)) + 1
        /\ pc[t] \in S /\ pc'[t] \notin S => Cardinality(Of(pc', S)) = Cardinality(Of(pc, S)) - 1
    <3>1. \A f, g : (\A u \in Threads : u # t => (f[u] \in S <=> g[u] \in S))
             => /\ (f[t] \in S <=> g[t] \in S) => Cardinality(Of(g, S)) = Cardinality(Of(f, S))
                /\ f[t] \notin S /\ g[t] \in S => Cardinality(Of(g, S)) = Cardinality(Of(f, S)) + 1
                /\ f[t] \in S /\ g[t] \notin S => Cardinality(Of(g, S)) = Cardinality(Of(f, S)) - 1
      BY Move
    <3> QED
      BY <2>1, <3>1
  <2>5. Cardinality(Of(pc', S)) = Cardinality(Of(pc, S)) + In(l, S) - In(pc[t], S)
    BY <2>3, <2>4 DEF StepOf, In
  <2> QED
    BY <2>2, <2>5
<1>2. \A u \in Threads : u # t => (pc'[u] = "writing" <=> pc[u] = "writing")
  BY DEF StepOf
<1> QED
  BY <1>1, <1>2

\* The counters as facts about the places of single threads.
LEMMA Occupied ==
  ASSUME TypeOK, CountsExact
  PROVE  /\ valid => (r_active = 0 <=> \A u \in Threads : pc[u] # "reading")
         /\ valid => (w_active <=> \E u \in Threads : pc[u] = "writing")
         /\ (\E u \in Threads : pc[u] = "reading") => r_active > 0
         /\ (\E u \in Threads : pc[u] = "writing") => w_active
         /\ r_wait = 0 <=> \A u \in Threads : pc[u] \notin {"rwait", "rwoken"}
         /\ w_wait = 0 <=> \A u \in Threads : pc[u] \notin {"wwait", "wwoken"}
<1>1. ASSUME NEW S
      PROVE  Cardinality(At(S)) = 0 <=> \A u \in Threads : pc[u] \notin S
  <2>1. At(S) = Of(pc, S)
    BY DEF At, Of
  <2> QED
    BY <2>1, OfFinite DEF Of
<1>2. /\ Writers # {} <=> \E u \in Threads : pc[u] = "writing"
      /\ Readers # {} <=> \E u \in Threads : pc[u] = "reading"
  BY DEF Writers, Readers, At
<1>3. /\ Cardinality(At({"reading"})) = 0 <=> \A u \in Threads : pc[u] \notin {"reading"}
      /\ Cardinality(At({"rwait", "rwoken"})) = 0
           <=> \A u \in Threads : pc[u] \notin {"rwait", "rwoken"}
      /\ Cardinality(At({"wwait", "wwoken"})) = 0
           <=> \A u \in Threads : pc[u] \notin {"wwait", "wwoken"}
  BY <1>1
<1> QED
  BY <1>2, <1>3 DEF CountsExact, Readers

\* Every move of one thread t to l that adjusts the fields as the code does
\* keeps the counters exact.
LEMMA CountsStep ==
  ASSUME TypeOK, CountsExact, NEW t \in Threads, NEW l \in PCs, StepOf(t, l),
         valid => r_active' = r_active + In(l, {"reading"}) - In(pc[t], {"reading"}),
         r_active' \in Nat,
         r_wait' = r_wait + In(l, {"rwait", "rwoken"}) - In(pc[t], {"rwait", "rwoken"}),
         w_wait' = w_wait + In(l, {"wwait", "wwoken"}) - In(pc[t], {"wwait", "wwoken"}),
         w_active' \in BOOLEAN,
         valid => (w_active' <=> \E u \in Threads : pc'[u] = "writing"),
         ~valid => ((\E u \in Threads : pc'[u] = "reading") => r_active' > 0),
         ~valid => ((\E u \in Threads : pc'[u] = "writing") => w_active'),
         valid' = valid
  PROVE  TypeOK' /\ CountsExact'
<1>1. /\ valid => Cardinality(At({"reading"}))' = r_active'
      /\ Cardinality(At({"rwait", "rwoken"}))' = r_wait'
      /\ Cardinality(At({"wwait", "wwoken"}))' = w_wait'
  BY Deltas DEF CountsExact, Readers
<1>2. \A S : Cardinality(At(S)') \in Nat
  BY OfFinite DEF At, Of
<1>3. r_wait' \in Nat /\ w_wait' \in Nat
  BY <1>1, <1>2
<1>4. /\ Writers' # {} <=> \E u \in Threads : pc'[u] = "writing"
      /\ Readers' # {} <=> \E u \in Threads : pc'[u] = "reading"
  BY DEF Writers, Readers, At
<1>a. valid /\ Readers' # {} => r_active' > 0
  <2>1. Readers' = Of(pc', {"reading"}) /\ At({"reading"})' = Of(pc', {"reading"})
    BY DEF Readers, At, Of
  <2>2. Readers' # {} => Cardinality(At({"reading"}))' # 0
    BY <2>1, OfFinite
  <2> QED
    BY <1>1, <2>2
<1>5. TypeOK'
  BY <1>3 DEF TypeOK, StepOf
<1>6. CountsExact'
  BY <1>1, <1>4, <1>a DEF CountsExact, Readers
<1> QED
  BY <1>5, <1>6

\* The initial state satisfies the invariant.
LEMMA InitInv == Init => Inv
<1> SUFFICES ASSUME Init PROVE Inv
  OBVIOUS
<1>1. \A S : "idle" \notin S => At(S) = {}
  BY DEF Init, At
<1>2. /\ At({"reading"}) = {} /\ At({"writing"}) = {}
      /\ At({"rwait", "rwoken"}) = {} /\ At({"wwait", "wwoken"}) = {}
      /\ At({"rwait", "wwait"}) = {} /\ At({"rwait"}) = {}
  BY <1>1
<1>3. TypeOK
  BY DEF Init, TypeOK, PCs
<1>4. CountsExact
  BY <1>2, FS_EmptySet DEF Init, CountsExact, Readers, Writers
<1>5. WriterExcludes /\ NoLostWakeup /\ ReadersSleepForWriter
  BY <1>2 DEF Init, WriterExcludes, NoLostWakeup, ReadersSleepForWriter, Sleeping
<1> QED
  BY <1>3, <1>4, <1>5 DEF Inv

-----------------------------------------------------------------------------

\* What is left of the invariant once the counters are exact again, in terms
\* of the places of single threads.
LEMMA InvFromPlaces ==
  ASSUME TypeOK', CountsExact', WriterExcludes',
         valid' /\ (\A u \in Threads : pc'[u] \notin {"reading", "writing"})
           /\ (\E u \in Threads : pc'[u] \in {"rwait", "wwait"})
           => \E u \in Threads : pc'[u] \in {"rwoken", "wwoken"},
         (\E u \in Threads : pc'[u] = "rwait") => w_active'
  PROVE  Inv'
<1>1. NoLostWakeup'
  BY DEF NoLostWakeup, Readers, Writers, Sleeping, Woken, At
<1>2. ReadersSleepForWriter'
  BY DEF ReadersSleepForWriter, At
<1> QED
  BY <1>1, <1>2 DEF Inv

\* A reader is left if r_active says so.
LEMMA ReadersNext ==
  ASSUME CountsExact', valid'
  PROVE  r_active' # 0 => \E u \in Threads : pc'[u] = "reading"
<1>1. Readers' = Of(pc', {"reading"})
  BY DEF Readers, At, Of
<1>2. r_active' # 0 => Of(pc', {"reading"}) # {}
  BY <1>1, OfFinite DEF CountsExact
<1> QED
  BY <1>2 DEF Of

\* The same facts of the state before a step.
LEMMA PlacesFromInv ==
  ASSUME Inv
  PROVE  /\ TypeOK /\ CountsExact /\ WriterExcludes
         /\ valid => (r_active = 0 <=> \A u \in Threads : pc[u] # "reading")
         /\ valid => (w_active <=> \E u \in Threads : pc[u] = "writing")
         /\ (\E u \in Threads : pc[u] = "reading") => r_active > 0
         /\ (\E u \in Threads : pc[u] = "writing") => w_active
         /\ r_wait = 0 <=> \A u \in Threads : pc[u] \notin {"rwait", "rwoken"}
         /\ w_wait = 0 <=> \A u \in Threads : pc[u] \notin {"wwait", "wwoken"}
         /\ valid /\ (\A u \in Threads : pc[u] \notin {"reading", "writing"})
              /\ (\E u \in Threads : pc[u] \in {"rwait", "wwait"})
              => \E u \in Threads : pc[u] \in {"rwoken", "wwoken"}
         /\ (\E u \in Threads : pc[u] = "rwait") => w_active
<1>1. TypeOK /\ CountsExact /\ WriterExcludes
  BY DEF Inv
<1>2. valid /\ (\A u \in Threads : pc[u] \notin {"reading", "writing"})
        /\ (\E u \in Threads : pc[u] \in {"rwait", "wwait"})
        => \E u \in Threads : pc[u] \in {"rwoken", "wwoken"}
  BY DEF Inv, NoLostWakeup, Readers, Writers, Sleeping, Woken, At
<1>3. (\E u \in Threads : pc[u] = "rwait") => w_active
  BY DEF Inv, ReadersSleepForWriter, At
<1> QED
  BY <1>1, <1>2, <1>3, Occupied

\* The free lock is given to t, by the blocking or by the trying operation.
LEMMA ReadTakenInv ==
  ASSUME Inv, NEW t \in Threads, pc[t] \in Ops, ~w_active, r_active' = r_active + 1,
         pc' = [pc EXCEPT ![t] = "reading"], UNCHANGED <<valid, w_active, r_wait, w_wait>>
  PROVE  Inv'
<1> USE PlacesFromInv
<1>1. StepOf(t, "reading")
  BY DEF StepOf, TypeOK, PCs, Ops, Inside
<1>a. /\ w_active' \in BOOLEAN /\ r_active' \in Nat /\ valid' = valid
      /\ valid => (w_active' <=> \E u \in Threads : pc'[u] = "writing")
      /\ ~valid => ((\E u \in Threads : pc'[u] = "reading") => r_active' > 0)
      /\ ~valid => ((\E u \in Threads : pc'[u] = "writing") => w_active')
  BY DEF WriterExcludes, TypeOK, Ops
<1>2. TypeOK' /\ CountsExact'
  BY <1>1, <1>a, CountsStep DEF In, PCs, Ops, Inside, TypeOK
<1>3. WriterExcludes'
  BY DEF WriterExcludes, TypeOK, Ops
<1>4. valid' /\ (\A u \in Threads : pc'[u] \notin {"reading", "writing"})
        /\ (\E u \in Threads : pc'[u] \in {"rwait", "wwait"})
        => \E u \in Threads : pc'[u] \in {"rwoken", "wwoken"}
  BY DEF TypeOK, Ops
<1>5. (\E u \in Threads : pc'[u] = "rwait") => w_active'
  BY DEF TypeOK, Ops
<1> QED
  BY <1>2, <1>3, <1>4, <1>5, InvFromPlaces

\* rwl_readlock, on entry, keeps the invariant.
LEMMA ReadLockInv ==
  ASSUME Inv, NEW t \in Threads, ReadLock(t)
  PROVE  Inv'
<1> USE PlacesFromInv
<1>1. CASE w_active
  <2>1. StepOf(t, "rwait")
    BY <1>1 DEF ReadLock, StepOf, Goto, SignalWrite, BroadcastRead, At, TypeOK, PCs, Ops, Inside
  <2>a. /\ w_active' \in BOOLEAN /\ r_active' \in Nat /\ valid' = valid
        /\ valid => (w_active' <=> \E u \in Threads : pc'[u] = "writing")
        /\ ~valid => ((\E u \in Threads : pc'[u] = "reading") => r_active' > 0)
        /\ ~valid => ((\E u \in Threads : pc'[u] = "writing") => w_active')
    BY <1>1 DEF ReadLock, WriterExcludes, TypeOK, Goto, SignalWrite, BroadcastRead, At
  <2>2. TypeOK' /\ CountsExact'
    BY <1>1, <2>1, <2>a, CountsStep DEF ReadLock, In, PCs, Ops, Inside, TypeOK
  <2>3. WriterExcludes'
    BY <1>1 DEF ReadLock, WriterExcludes, TypeOK, Goto, SignalWrite, BroadcastRead, At
  <2>4. valid' /\ (\A u \in Threads : pc'[u] \notin {"reading", "writing"})
          /\ (\E u \in Threads : pc'[u] \in {"rwait", "wwait"})
          => \E u \in Threads : pc'[u] \in {"rwoken", "wwoken"}
    BY <1>1 DEF ReadLock, TypeOK, Goto, SignalWrite, BroadcastRead, At
  <2>5. (\E u \in Threads : pc'[u] = "rwait") => w_active'
    BY <1>1 DEF ReadLock, TypeOK, Goto, SignalWrite, BroadcastRead, At
  <2> QED
    BY <2>2, <2>3, <2>4, <2>5, InvFromPlaces
<1>2. CASE ~w_active
  BY <1>2, ReadTakenInv DEF ReadLock, Ops, Goto
<1> QED
  BY <1>1, <1>2 DEF ReadLock, TypeOK

\* rwl_readlock, woken, keeps the invariant.
LEMMA ReadRecheckInv ==
  ASSUME Inv, NEW t \in Threads, ReadRecheck(t)
  PROVE  Inv'
<1> USE PlacesFromInv
<1>1. CASE w_active
  <2>1. StepOf(t, "rwait")
    BY <1>1 DEF ReadRecheck, StepOf, Goto, SignalWrite, BroadcastRead, At, TypeOK, PCs, Ops, Inside
  <2>a. /\ w_active' \in BOOLEAN /\ r_active' \in Nat /\ valid' = valid
        /\ valid => (w_active' <=> \E u \in Threads : pc'[u] = "writing")
        /\ ~valid => ((\E u \in Threads : pc'[u] = "reading") => r_active' > 0)
        /\ ~valid => ((\E u \in Threads : pc'[u] = "writing") => w_active')
    BY <1>1 DEF ReadRecheck, WriterExcludes, TypeOK, Goto, SignalWrite, BroadcastRead, At
  <2>2. TypeOK' /\ CountsExact'
    BY <1>1, <2>1, <2>a, CountsStep DEF ReadRecheck, In, PCs, Ops, Inside, TypeOK
  <2>3. WriterExcludes'
    BY <1>1 DEF ReadRecheck, WriterExcludes, TypeOK, Goto, SignalWrite, BroadcastRead, At
  <2>4. valid' /\ (\A u \in Threads : pc'[u] \notin {"reading", "writing"})
          /\ (\E u \in Threads : pc'[u] \in {"rwait", "wwait"})
          => \E u \in Threads : pc'[u] \in {"rwoken", "wwoken"}
    BY <1>1 DEF ReadRecheck, TypeOK, Goto, SignalWrite, BroadcastRead, At
  <2>5. (\E u \in Threads : pc'[u] = "rwait") => w_active'
    BY <1>1 DEF ReadRecheck, TypeOK, Goto, SignalWrite, BroadcastRead, At
  <2> QED
    BY <2>2, <2>3, <2>4, <2>5, InvFromPlaces
<1>2. CASE ~w_active
  <2>1. StepOf(t, "reading")
    BY <1>2 DEF ReadRecheck, StepOf, Goto, SignalWrite, BroadcastRead, At, TypeOK, PCs, Ops, Inside
  <2>a. /\ w_active' \in BOOLEAN /\ r_active' \in Nat /\ valid' = valid
        /\ valid => (w_active' <=> \E u \in Threads : pc'[u] = "writing")
        /\ ~valid => ((\E u \in Threads : pc'[u] = "reading") => r_active' > 0)
        /\ ~valid => ((\E u \in Threads : pc'[u] = "writing") => w_active')
    BY <1>2 DEF ReadRecheck, WriterExcludes, TypeOK, Goto, SignalWrite, BroadcastRead, At
  <2>2. TypeOK' /\ CountsExact'
    BY <1>2, <2>1, <2>a, CountsStep DEF ReadRecheck, In, PCs, Ops, Inside, TypeOK
  <2>3. WriterExcludes'
    BY <1>2 DEF ReadRecheck, WriterExcludes, TypeOK, Goto, SignalWrite, BroadcastRead, At
  <2>4. valid' /\ (\A u \in Threads : pc'[u] \notin {"reading", "writing"})
          /\ (\E u \in Threads : pc'[u] \in {"rwait", "wwait"})
          => \E u \in Threads : pc'[u] \in {"rwoken", "wwoken"}
    BY <1>2 DEF ReadRecheck, TypeOK, Goto, SignalWrite, BroadcastRead, At
  <2>5. (\E u \in Threads : pc'[u] = "rwait") => w_active'
    BY <1>2 DEF ReadRecheck, TypeOK, Goto, SignalWrite, BroadcastRead, At
  <2> QED
    BY <2>2, <2>3, <2>4, <2>5, InvFromPlaces
<1> QED
  BY <1>1, <1>2 DEF ReadRecheck, TypeOK

\* The free lock is given to t, by the blocking or by the trying operation.
LEMMA WriteTakenInv ==
  ASSUME Inv, NEW t \in Threads, pc[t] \in Ops, ~w_active, r_active <= 0, w_active' = TRUE,
         pc' = [pc EXCEPT ![t] = "writing"], UNCHANGED <<valid, r_active, r_wait, w_wait>>
  PROVE  Inv'
<1> USE PlacesFromInv
<1>1. StepOf(t, "writing")
  BY DEF StepOf, TypeOK, PCs, Ops, Inside
<1>a. /\ w_active' \in BOOLEAN /\ r_active' \in Nat /\ valid' = valid
      /\ valid => (w_active' <=> \E u \in Threads : pc'[u] = "writing")
      /\ ~valid => ((\E u \in Threads : pc'[u] = "reading") => r_active' > 0)
      /\ ~valid => ((\E u \in Threads : pc'[u] = "writing") => w_active')
  <2>1. pc'[t] = "writing" /\ \A u \in Threads : u # t => (pc'[u] = "reading" <=> pc[u] = "reading")
    BY <1>1 DEF StepOf
  <2>2. w_active' = TRUE /\ UNCHANGED <<r_active, valid>> /\ r_active \in Nat
    BY DEF TypeOK
  <2> QED
    BY <2>1, <2>2
<1>2. TypeOK' /\ CountsExact'
  BY <1>1, <1>a, CountsStep DEF In, PCs, Ops, Inside, TypeOK
<1>3. WriterExcludes'
  BY DEF WriterExcludes, TypeOK, Ops
<1>4. valid' /\ (\A u \in Threads : pc'[u] \notin {"reading", "writing"})
        /\ (\E u \in Threads : pc'[u] \in {"rwait", "wwait"})
        => \E u \in Threads : pc'[u] \in {"rwoken", "wwoken"}
  BY DEF TypeOK, Ops
<1>5. (\E u \in Threads : pc'[u] = "rwait") => w_active'
  BY DEF TypeOK, Ops
<1> QED
  BY <1>2, <1>3, <1>4, <1>5, InvFromPlaces

\* rwl_writelock, on entry, keeps the invariant.
LEMMA WriteLockInv ==
  ASSUME Inv, NEW t \in Threads, WriteLock(t)
  PROVE  Inv'
<1> USE PlacesFromInv
<1>1. CASE w_active \/ r_active > 0
  <2>1. StepOf(t, "wwait")
    BY <1>1 DEF WriteLock, StepOf, Goto, SignalWrite, BroadcastRead, At, TypeOK, PCs, Ops, Inside
  <2>a. /\ w_active' \in BOOLEAN /\ r_active' \in Nat /\ valid' = valid
        /\ valid => (w_active' <=> \E u \in Threads : pc'[u] = "writing")
        /\ ~valid => ((\E u \in Threads : pc'[u] = "reading") => r_active' > 0)
        /\ ~valid => ((\E u \in Threads : pc'[u] = "writing") => w_active')
    <3>1. \A u \in Threads : /\ pc'[u] = "writing" <=> pc[u] = "writing"
                             /\ pc'[u] = "reading" <=> pc[u] = "reading"
      <4>1. pc[t] = "writelock"
        BY DEF WriteLock
      <4> QED
        BY <2>1, <4>1 DEF StepOf
    <3>2. UNCHANGED <<w_active, r_active, valid>> /\ w_active \in BOOLEAN /\ r_active \in Nat
      BY <1>1 DEF WriteLock, TypeOK
    <3>3. (\E u \in Threads : pc'[u] = "reading") => r_active' > 0
      <4>1. (\E u \in Threads : pc'[u] = "reading") => \E u \in Threads : pc[u] = "reading"
        BY <3>1
      <4> QED
        BY <3>2, <4>1
    <3>4. (\E u \in Threads : pc'[u] = "writing") <=> \E u \in Threads : pc[u] = "writing"
      BY <3>1
    <3> QED
      BY <3>2, <3>3, <3>4
  <2>2. TypeOK' /\ CountsExact'
    BY <1>1, <2>1, <2>a, CountsStep DEF WriteLock, In, PCs, Ops, Inside, TypeOK
  <2>3. WriterExcludes'
    BY <1>1 DEF WriteLock, WriterExcludes, TypeOK, Goto, SignalWrite, BroadcastRead, At
  <2>4. valid' /\ (\A u \in Threads : pc'[u] \notin {"reading", "writing"})
          /\ (\E u \in Threads : pc'[u] \in {"rwait", "wwait"})
          => \E u \in Threads : pc'[u] \in {"rwoken", "wwoken"}
    BY <1>1 DEF WriteLock, TypeOK, Goto, SignalWrite, BroadcastRead, At
  <2>5. (\E u \in Threads : pc'[u] = "rwait") => w_active'
    BY <1>1 DEF WriteLock, TypeOK, Goto, SignalWrite, BroadcastRead, At
  <2> QED
    BY <2>2, <2>3, <2>4, <2>5, InvFromPlaces
<1>2. CASE ~w_active /\ r_active <= 0
  <2>1. /\ pc[t] \in Ops /\ w_active' = TRUE /\ pc' = [pc EXCEPT ![t] = "writing"]
        /\ UNCHANGED <<valid, r_active, r_wait, w_wait>>
    BY <1>2 DEF WriteLock, Ops, Goto, TypeOK
  <2> QED
    BY <1>2, <2>1, WriteTakenInv
<1> QED
  BY <1>1, <1>2 DEF WriteLock, TypeOK

\* rwl_writelock, woken, keeps the invariant.
LEMMA WriteRecheckInv ==
  ASSUME Inv, NEW t \in Threads, WriteRecheck(t)
  PROVE  Inv'
<1> USE PlacesFromInv
<1>1. CASE w_active \/ r_active > 0
  <2>1. StepOf(t, "wwait")
    BY <1>1 DEF WriteRecheck, StepOf, Goto, SignalWrite, BroadcastRead, At, TypeOK, PCs, Ops, Inside
  <2>a. /\ w_active' \in BOOLEAN /\ r_active' \in Nat /\ valid' = valid
        /\ valid => (w_active' <=> \E u \in Threads : pc'[u] = "writing")
        /\ ~valid => ((\E u \in Threads : pc'[u] = "reading") => r_active' > 0)
        /\ ~valid => ((\E u \in Threads : pc'[u] = "writing") => w_active')
    <3>1. \A u \in Threads : /\ pc'[u] = "writing" <=> pc[u] = "writing"
                             /\ pc'[u] = "reading" <=> pc[u] = "reading"
      <4>1. pc[t] = "wwoken"
        BY DEF WriteRecheck
      <4> QED
        BY <2>1, <4>1 DEF StepOf
    <3>2. UNCHANGED <<w_active, r_active, valid>> /\ w_active \in BOOLEAN /\ r_active \in Nat
      BY <1>1 DEF WriteRecheck, TypeOK
    <3>3. (\E u \in Threads : pc'[u] = "reading") => r_active' > 0
      <4>1. (\E u \in Threads : pc'[u] = "reading") => \E u \in Threads : pc[u] = "reading"
        BY <3>1
      <4> QED
        BY <3>2, <4>1
    <3>4. (\E u \in Threads : pc'[u] = "writing") <=> \E u \in Threads : pc[u] = "writing"
      BY <3>1
    <3> QED
      BY <3>2, <3>3, <3>4
  <2>2. TypeOK' /\ CountsExact'
    BY <1>1, <2>1, <2>a, CountsStep DEF WriteRecheck, In, PCs, Ops, Inside, TypeOK
  <2>3. WriterExcludes'
    BY <1>1 DEF WriteRecheck, WriterExcludes, TypeOK, Goto, SignalWrite, BroadcastRead, At
  <2>4. valid' /\ (\A u \in Threads : pc'[u] \notin {"reading", "writing"})
          /\ (\E u \in Threads : pc'[u] \in {"rwait", "wwait"})
          => \E u \in Threads : pc'[u] \in {"rwoken", "wwoken"}
    BY <1>1 DEF WriteRecheck, TypeOK, Goto, SignalWrite, BroadcastRead, At
  <2>5. (\E u \in Threads : pc'[u] = "rwait") => w_active'
    BY <1>1 DEF WriteRecheck, TypeOK, Goto, SignalWrite, BroadcastRead, At
  <2> QED
    BY <2>2, <2>3, <2>4, <2>5, InvFromPlaces
<1>2. CASE ~w_active /\ r_active <= 0
  <2>1. StepOf(t, "writing")
    BY <1>2 DEF WriteRecheck, StepOf, Goto, SignalWrite, BroadcastRead, At, TypeOK, PCs, Ops, Inside
  <2>a. /\ w_active' \in BOOLEAN /\ r_active' \in Nat /\ valid' = valid
        /\ valid => (w_active' <=> \E u \in Threads : pc'[u] = "writing")
        /\ ~valid => ((\E u \in Threads : pc'[u] = "reading") => r_active' > 0)
        /\ ~valid => ((\E u \in Threads : pc'[u] = "writing") => w_active')
    <3>1. pc'[t] = "writing" /\ \A u \in Threads : u # t => (pc'[u] = "reading" <=> pc[u] = "reading")
      BY <2>1 DEF StepOf
    <3>2. w_active' = TRUE /\ UNCHANGED <<r_active, valid>> /\ r_active \in Nat
      BY <1>2 DEF WriteRecheck, TypeOK
    <3> QED
      BY <3>1, <3>2
  <2>2. TypeOK' /\ CountsExact'
    BY <1>2, <2>1, <2>a, CountsStep DEF WriteRecheck, In, PCs, Ops, Inside, TypeOK
  <2>3. WriterExcludes'
    BY <1>2 DEF WriteRecheck, WriterExcludes, TypeOK, Goto, SignalWrite, BroadcastRead, At
  <2>4. valid' /\ (\A u \in Threads : pc'[u] \notin {"reading", "writing"})
          /\ (\E u \in Threads : pc'[u] \in {"rwait", "wwait"})
          => \E u \in Threads : pc'[u] \in {"rwoken", "wwoken"}
    BY <1>2 DEF WriteRecheck, TypeOK, Goto, SignalWrite, BroadcastRead, At
  <2>5. (\E u \in Threads : pc'[u] = "rwait") => w_active'
    BY <1>2 DEF WriteRecheck, TypeOK, Goto, SignalWrite, BroadcastRead, At
  <2> QED
    BY <2>2, <2>3, <2>4, <2>5, InvFromPlaces
<1> QED
  BY <1>1, <1>2 DEF WriteRecheck, TypeOK

\* rwl_writeunlock keeps the invariant.
LEMMA WriteUnlockInv ==
  ASSUME Inv, NEW t \in Threads, WriteUnlock(t)
  PROVE  Inv'
<1> USE PlacesFromInv
<1>1. CASE r_wait > 0
  <2>1. StepOf(t, "idle")
    BY <1>1 DEF WriteUnlock, StepOf, Goto, SignalWrite, BroadcastRead, At, TypeOK, PCs, Ops, Inside
  <2>a. /\ w_active' \in BOOLEAN /\ r_active' \in Nat /\ valid' = valid
        /\ valid => (w_active' <=> \E u \in Threads : pc'[u] = "writing")
        /\ ~valid => ((\E u \in Threads : pc'[u] = "reading") => r_active' > 0)
        /\ ~valid => ((\E u \in Threads : pc'[u] = "writing") => w_active')
    BY <1>1 DEF WriteUnlock, WriterExcludes, TypeOK, Goto, SignalWrite, BroadcastRead, At
  <2>2. TypeOK' /\ CountsExact'
    BY <1>1, <2>1, <2>a, CountsStep DEF WriteUnlock, In, PCs, Ops, Inside, TypeOK
  <2>3. WriterExcludes'
    BY <1>1 DEF WriteUnlock, WriterExcludes, TypeOK, Goto, SignalWrite, BroadcastRead, At
  <2>4. valid' /\ (\A u \in Threads : pc'[u] \notin {"reading", "writing"})
          /\ (\E u \in Threads : pc'[u] \in {"rwait", "wwait"})
          => \E u \in Threads : pc'[u] \in {"rwoken", "wwoken"}
    BY <1>1 DEF WriteUnlock, TypeOK, Goto, SignalWrite, BroadcastRead, At
  <2>5. (\E u \in Threads : pc'[u] = "rwait") => w_active'
    BY <1>1 DEF WriteUnlock, TypeOK, Goto, SignalWrite, BroadcastRead, At
  <2> QED
    BY <2>2, <2>3, <2>4, <2>5, InvFromPlaces
<1>2. CASE r_wait = 0 /\ w_wait > 0
  <2>1. StepOf(t, "idle")
    BY <1>2 DEF WriteUnlock, StepOf, Goto, SignalWrite, BroadcastRead, At, TypeOK, PCs, Ops, Inside
  <2>a. /\ w_active' \in BOOLEAN /\ r_active' \in Nat /\ valid' = valid
        /\ valid => (w_active' <=> \E u \in Threads : pc'[u] = "writing")
        /\ ~valid => ((\E u \in Threads : pc'[u] = "reading") => r_active' > 0)
        /\ ~valid => ((\E u \in Threads : pc'[u] = "writing") => w_active')
    BY <1>2 DEF WriteUnlock, WriterExcludes, TypeOK, Goto, SignalWrite, BroadcastRead, At
  <2>2. TypeOK' /\ CountsExact'
    BY <1>2, <2>1, <2>a, CountsStep DEF WriteUnlock, In, PCs, Ops, Inside, TypeOK
  <2>3. WriterExcludes'
    BY <1>2 DEF WriteUnlock, WriterExcludes, TypeOK, Goto, SignalWrite, BroadcastRead, At
  <2>4. valid' /\ (\A u \in Threads : pc'[u] \notin {"reading", "writing"})
          /\ (\E u \in Threads : pc'[u] \in {"rwait", "wwait"})
          => \E u \in Threads : pc'[u] \in {"rwoken", "wwoken"}
    BY <1>2 DEF WriteUnlock, TypeOK, Goto, SignalWrite, BroadcastRead, At
  <2>5. (\E u \in Threads : pc'[u] = "rwait") => w_active'
    BY <1>2 DEF WriteUnlock, TypeOK, Goto, SignalWrite, BroadcastRead, At
  <2> QED
    BY <2>2, <2>3, <2>4, <2>5, InvFromPlaces
<1>3. CASE r_wait = 0 /\ w_wait = 0
  <2>1. StepOf(t, "idle")
    BY <1>3 DEF WriteUnlock, StepOf, Goto, SignalWrite, BroadcastRead, At, TypeOK, PCs, Ops, Inside
  <2>a. /\ w_active' \in BOOLEAN /\ r_active' \in Nat /\ valid' = valid
        /\ valid => (w_active' <=> \E u \in Threads : pc'[u] = "writing")
        /\ ~valid => ((\E u \in Threads : pc'[u] = "reading") => r_active' > 0)
        /\ ~valid => ((\E u \in Threads : pc'[u] = "writing") => w_active')
    BY <1>3 DEF WriteUnlock, WriterExcludes, TypeOK, Goto, SignalWrite, BroadcastRead, At
  <2>2. TypeOK' /\ CountsExact'
    BY <1>3, <2>1, <2>a, CountsStep DEF WriteUnlock, In, PCs, Ops, Inside, TypeOK
  <2>3. WriterExcludes'
    BY <1>3 DEF WriteUnlock, WriterExcludes, TypeOK, Goto, SignalWrite, BroadcastRead, At
  <2>4. valid' /\ (\A u \in Threads : pc'[u] \notin {"reading", "writing"})
          /\ (\E u \in Threads : pc'[u] \in {"rwait", "wwait"})
          => \E u \in Threads : pc'[u] \in {"rwoken", "wwoken"}
    BY <1>3 DEF WriteUnlock, TypeOK, Goto, SignalWrite, BroadcastRead, At
  <2>5. (\E u \in Threads : pc'[u] = "rwait") => w_active'
    BY <1>3 DEF WriteUnlock, TypeOK, Goto, SignalWrite, BroadcastRead, At
  <2> QED
    BY <2>2, <2>3, <2>4, <2>5, InvFromPlaces
<1> QED
  BY <1>1, <1>2, <1>3 DEF WriteUnlock, TypeOK

\* rwl_readunlock keeps the invariant.
LEMMA ReadUnlockInv ==
  ASSUME Inv, NEW t \in Threads, ReadUnlock(t)
  PROVE  Inv'
<1> USE PlacesFromInv
<1>1. CASE r_active - 1 = 0 /\ w_wait > 0
  <2>1. StepOf(t, "idle")
    BY <1>1 DEF ReadUnlock, StepOf, Goto, SignalWrite, BroadcastRead, At, TypeOK, PCs, Ops, Inside
  <2>a. /\ w_active' \in BOOLEAN /\ r_active' \in Nat /\ valid' = valid
        /\ valid => (w_active' <=> \E u \in Threads : pc'[u] = "writing")
        /\ ~valid => ((\E u \in Threads : pc'[u] = "reading") => r_active' > 0)
        /\ ~valid => ((\E u \in Threads : pc'[u] = "writing") => w_active')
    BY <1>1 DEF ReadUnlock, WriterExcludes, TypeOK, Goto, SignalWrite, BroadcastRead, At
  <2>2. TypeOK' /\ CountsExact'
    BY <1>1, <2>1, <2>a, CountsStep DEF ReadUnlock, In, PCs, Ops, Inside, TypeOK
  <2>3. WriterExcludes'
    BY <1>1 DEF ReadUnlock, WriterExcludes, TypeOK, Goto, SignalWrite, BroadcastRead, At
  <2>4. valid' /\ (\A u \in Threads : pc'[u] \notin {"reading", "writing"})
          /\ (\E u \in Threads : pc'[u] \in {"rwait", "wwait"})
          => \E u \in Threads : pc'[u] \in {"rwoken", "wwoken"}
    BY <1>1, <2>2, ReadersNext DEF ReadUnlock, TypeOK, Goto, SignalWrite, BroadcastRead, At
  <2>5. (\E u \in Threads : pc'[u] = "rwait") => w_active'
    BY <1>1 DEF ReadUnlock, TypeOK, Goto, SignalWrite, BroadcastRead, At
  <2> QED
    BY <2>2, <2>3, <2>4, <2>5, InvFromPlaces
<1>2. CASE ~(r_active - 1 = 0 /\ w_wait > 0)
  <2>1. StepOf(t, "idle")
    BY <1>2 DEF ReadUnlock, StepOf, Goto, SignalWrite, BroadcastRead, At, TypeOK, PCs, Ops, Inside
  <2>a. /\ w_active' \in BOOLEAN /\ r_active' \in Nat /\ valid' = valid
        /\ valid => (w_active' <=> \E u \in Threads : pc'[u] = "writing")
        /\ ~valid => ((\E u \in Threads : pc'[u] = "reading") => r_active' > 0)
        /\ ~valid => ((\E u \in Threads : pc'[u] = "writing") => w_active')
    BY <1>2 DEF ReadUnlock, WriterExcludes, TypeOK, Goto, SignalWrite, BroadcastRead, At
  <2>2. TypeOK' /\ CountsExact'
    BY <1>2, <2>1, <2>a, CountsStep DEF ReadUnlock, In, PCs, Ops, Inside, TypeOK
  <2>3. WriterExcludes'
    BY <1>2 DEF ReadUnlock, WriterExcludes, TypeOK, Goto, SignalWrite, BroadcastRead, At
  <2>4. valid' /\ (\A u \in Threads : pc'[u] \notin {"reading", "writing"})
          /\ (\E u \in Threads : pc'[u] \in {"rwait", "wwait"})
          => \E u \in Threads : pc'[u] \in {"rwoken", "wwoken"}
    BY <1>2, <2>2, ReadersNext DEF ReadUnlock, TypeOK, Goto, SignalWrite, BroadcastRead, At
  <2>5. (\E u \in Threads : pc'[u] = "rwait") => w_active'
    BY <1>2 DEF ReadUnlock, TypeOK, Goto, SignalWrite, BroadcastRead, At
  <2> QED
    BY <2>2, <2>3, <2>4, <2>5, InvFromPlaces
<1> QED
  BY <1>1, <1>2 DEF ReadUnlock, TypeOK

\* A wakeup that nobody caused keeps the invariant.
LEMMA SpuriousWakeupInv ==
  ASSUME Inv, NEW t \in Threads, SpuriousWakeup(t)
  PROVE  Inv'
<1> USE PlacesFromInv
<1>1. CASE pc[t] = "rwait"
  <2>1. StepOf(t, "rwoken")
    BY <1>1 DEF SpuriousWakeup, StepOf, Goto, SignalWrite, BroadcastRead, At, TypeOK, PCs, Ops, Inside
  <2>a. /\ w_active' \in BOOLEAN /\ r_active' \in Nat /\ valid' = valid
        /\ valid => (w_active' <=> \E u \in Threads : pc'[u] = "writing")
        /\ ~valid => ((\E u \in Threads : pc'[u] = "reading") => r_active' > 0)
        /\ ~valid => ((\E u \in Threads : pc'[u] = "writing") => w_active')
    BY <1>1 DEF SpuriousWakeup, WriterExcludes, TypeOK, Goto, SignalWrite, BroadcastRead, At
  <2>2. TypeOK' /\ CountsExact'
    BY <1>1, <2>1, <2>a, CountsStep DEF SpuriousWakeup, In, PCs, Ops, Inside, TypeOK
  <2>3. WriterExcludes'
    BY <1>1 DEF SpuriousWakeup, WriterExcludes, TypeOK, Goto, SignalWrite, BroadcastRead, At
  <2>4. valid' /\ (\A u \in Threads : pc'[u] \notin {"reading", "writing"})
          /\ (\E u \in Threads : pc'[u] \in {"rwait", "wwait"})
          => \E u \in Threads : pc'[u] \in {"rwoken", "wwoken"}
    BY <1>1 DEF SpuriousWakeup, TypeOK, Goto, SignalWrite, BroadcastRead, At
  <2>5. (\E u \in Threads : pc'[u] = "rwait") => w_active'
    BY <1>1 DEF SpuriousWakeup, TypeOK, Goto, SignalWrite, BroadcastRead, At
  <2> QED
    BY <2>2, <2>3, <2>4, <2>5, InvFromPlaces
<1>2. CASE pc[t] = "wwait"
  <2>1. StepOf(t, "wwoken")
    BY <1>2 DEF SpuriousWakeup, StepOf, Goto, SignalWrite, BroadcastRead, At, TypeOK, PCs, Ops, Inside
  <2>a. /\ w_active' \in BOOLEAN /\ r_active' \in Nat /\ valid' = valid
        /\ valid => (w_active' <=> \E u \in Threads : pc'[u] = "writing")
        /\ ~valid => ((\E u \in Threads : pc'[u] = "reading") => r_active' > 0)
        /\ ~valid => ((\E u \in Threads : pc'[u] = "writing") => w_active')
    BY <1>2 DEF SpuriousWakeup, WriterExcludes, TypeOK, Goto, SignalWrite, BroadcastRead, At
  <2>2. TypeOK' /\ CountsExact'
    BY <1>2, <2>1, <2>a, CountsStep DEF SpuriousWakeup, In, PCs, Ops, Inside, TypeOK
  <2>3. WriterExcludes'
    BY <1>2 DEF SpuriousWakeup, WriterExcludes, TypeOK, Goto, SignalWrite, BroadcastRead, At
  <2>4. valid' /\ (\A u \in Threads : pc'[u] \notin {"reading", "writing"})
          /\ (\E u \in Threads : pc'[u] \in {"rwait", "wwait"})
          => \E u \in Threads : pc'[u] \in {"rwoken", "wwoken"}
    BY <1>2 DEF SpuriousWakeup, TypeOK, Goto, SignalWrite, BroadcastRead, At
  <2>5. (\E u \in Threads : pc'[u] = "rwait") => w_active'
    BY <1>2 DEF SpuriousWakeup, TypeOK, Goto, SignalWrite, BroadcastRead, At
  <2> QED
    BY <2>2, <2>3, <2>4, <2>5, InvFromPlaces
<1> QED
  BY <1>1, <1>2 DEF SpuriousWakeup, TypeOK

\* A step of a thread outside the lock that changes no field keeps the
\* invariant: the test of rwl->valid, a mutex that is destroyed, EBUSY.
LEMMA AsideInv ==
  ASSUME Inv, NEW t \in Threads, NEW l \in {"idle"} \cup Ops, pc[t] \in {"idle"} \cup Ops,
         pc' = [pc EXCEPT ![t] = l], UNCHANGED <<valid, r_active, w_active, r_wait, w_wait>>
  PROVE  Inv'
<1> USE PlacesFromInv
<1>0. pc \in [Threads -> PCs]
  BY DEF TypeOK
<1>1. StepOf(t, l)
  BY <1>0 DEF StepOf, PCs
<1>2. \A u \in Threads : \A x \in Inside : pc'[u] = x <=> pc[u] = x
  BY <1>0 DEF Inside, Ops
<1>3. \A S \in {{"reading"}, {"rwait", "rwoken"}, {"wwait", "wwoken"}} : In(l, S) = 0 /\ In(pc[t], S) = 0
  BY DEF In, Ops
<1>4. TypeOK' /\ CountsExact'
  <2>1. /\ r_active \in Nat /\ r_wait \in Nat /\ w_wait \in Nat
        /\ w_active \in BOOLEAN /\ l \in PCs
    BY DEF TypeOK, PCs
  <2>2. \A u \in Threads : /\ pc'[u] = "writing" <=> pc[u] = "writing"
                           /\ pc'[u] = "reading" <=> pc[u] = "reading"
    BY <1>2 DEF Inside
  <2>3. /\ valid => (w_active' <=> \E u \in Threads : pc'[u] = "writing")
        /\ ~valid => ((\E u \in Threads : pc'[u] = "reading") => r_active' > 0)
        /\ ~valid => ((\E u \in Threads : pc'[u] = "writing") => w_active')
    BY <2>2
  <2>4. /\ r_active' = r_active + In(l, {"reading"}) - In(pc[t], {"reading"})
        /\ r_wait' = r_wait + In(l, {"rwait", "rwoken"}) - In(pc[t], {"rwait", "rwoken"})
        /\ w_wait' = w_wait + In(l, {"wwait", "wwoken"}) - In(pc[t], {"wwait", "wwoken"})
    BY <1>3, <2>1
  <2> QED
    BY <1>1, <2>1, <2>3, <2>4, CountsStep
<1>5. WriterExcludes'
  BY <1>2 DEF WriterExcludes, Inside
<1>6. valid' /\ (\A u \in Threads : pc'[u] \notin {"reading", "writing"})
        /\ (\E u \in Threads : pc'[u] \in {"rwait", "wwait"})
        => \E u \in Threads : pc'[u] \in {"rwoken", "wwoken"}
  BY <1>2 DEF Inside
<1>7. (\E u \in Threads : pc'[u] = "rwait") => w_active'
  BY <1>2 DEF Inside
<1> QED
  BY <1>4, <1>5, <1>6, <1>7, InvFromPlaces

\* rwl_readtrylock and rwl_writetrylock take the lock as the blocking calls do,
\* or return to where they came from.
LEMMA TryLockInv ==
  ASSUME Inv, NEW t \in Threads, ReadTryLock(t) \/ WriteTryLock(t)
  PROVE  Inv'
<1>1. CASE ReadTryLock(t)
  BY <1>1, ReadTakenInv, AsideInv DEF ReadTryLock, Goto, Ops
<1>2. CASE WriteTryLock(t)
  BY <1>2, WriteTakenInv, AsideInv DEF WriteTryLock, Goto, Ops
<1> QED
  BY <1>1, <1>2

\* In a destroyed lock a holder that leaves, or a waiter whose wait fails,
\* keeps the invariant.
LEMMA GiveUpInv ==
  ASSUME Inv, NEW t \in Threads, UnlockInvalid(t) \/ WaitFails(t)
  PROVE  Inv'
<1> USE PlacesFromInv
<1>1. ~valid /\ pc' = [pc EXCEPT ![t] = "idle"] /\ UNCHANGED <<valid, r_active, w_active>>
  BY DEF UnlockInvalid, WaitFails, Goto
<1>2. StepOf(t, "idle")
  BY <1>1 DEF StepOf, TypeOK, PCs
<1>3. \A u \in Threads : u # t => pc'[u] = pc[u]
  BY <1>1 DEF TypeOK
<1>4. pc'[t] = "idle"
  BY <1>2 DEF StepOf
<1>5. TypeOK' /\ CountsExact'
  <2>1. /\ r_active' \in Nat /\ w_active' \in BOOLEAN /\ valid' = valid /\ "idle" \in PCs
    BY <1>1 DEF TypeOK, PCs
  <2>2. /\ ~valid => ((\E u \in Threads : pc'[u] = "reading") => r_active' > 0)
        /\ ~valid => ((\E u \in Threads : pc'[u] = "writing") => w_active')
    BY <1>1, <1>3, <1>4
  <2>3. /\ r_wait' = r_wait + In("idle", {"rwait", "rwoken"}) - In(pc[t], {"rwait", "rwoken"})
        /\ w_wait' = w_wait + In("idle", {"wwait", "wwoken"}) - In(pc[t], {"wwait", "wwoken"})
    BY DEF UnlockInvalid, WaitFails, In, TypeOK
  <2> QED
    BY <1>1, <1>2, <2>1, <2>2, <2>3, CountsStep
<1>6. WriterExcludes'
  BY <1>3, <1>4 DEF WriterExcludes
<1>7. (\E u \in Threads : pc'[u] = "rwait") => w_active'
  BY <1>1, <1>3, <1>4
<1> QED
  BY <1>1, <1>5, <1>6, <1>7, InvFromPlaces

\* The tests of rwl_destroy leave nobody inside.
LEMMA DestroyFindsNobody ==
  ASSUME Inv, Destroy
  PROVE  \A u \in Threads : pc[u] \notin Inside
<1>1. r_active = 0
  BY DEF Destroy, Inv, TypeOK
<1> QED
  BY <1>1, PlacesFromInv DEF Destroy, Inside

\* rwl_destroy keeps the invariant.
LEMMA DestroyInv ==
  ASSUME Inv, Destroy
  PROVE  Inv'
<1>1. pc' = pc /\ r_active' = r_active /\ w_active' = w_active
        /\ r_wait' = r_wait /\ w_wait' = w_wait /\ valid' = FALSE
  BY DEF Destroy
<1>2. TypeOK'
  BY <1>1 DEF Inv, TypeOK
<1>3. CountsExact' /\ WriterExcludes' /\ NoLostWakeup' /\ ReadersSleepForWriter'
  BY <1>1 DEF Inv, CountsExact, WriterExcludes, NoLostWakeup, ReadersSleepForWriter,
              Readers, Writers, Sleeping, Woken, At
<1> QED
  BY <1>2, <1>3 DEF Inv

\* A step that changes nothing keeps the invariant.
LEMMA StutterInv ==
  ASSUME Inv, UNCHANGED vars
  PROVE  Inv'
BY DEF vars, Inv, TypeOK, CountsExact, WriterExcludes, NoLostWakeup, ReadersSleepForWriter,
       Readers, Writers, Sleeping, Woken, At

\* Every step keeps the invariant.
LEMMA NextInv ==
  ASSUME Inv, [Next]_vars
  PROVE  Inv'
<1>1. CASE UNCHANGED vars
  BY <1>1, StutterInv
<1>2. CASE Destroy
  BY <1>2, DestroyInv
<1>3. ASSUME NEW t \in Threads, Lock(t)
      PROVE  Inv'
  BY <1>3, ReadLockInv, WriteLockInv, TryLockInv DEF Lock
<1>4. ASSUME NEW t \in Threads, Recheck(t)
      PROVE  Inv'
  BY <1>4, ReadRecheckInv, WriteRecheckInv DEF Recheck
<1>5. ASSUME NEW t \in Threads, Unlock(t)
      PROVE  Inv'
  BY <1>5, ReadUnlockInv, WriteUnlockInv, GiveUpInv DEF Unlock
<1>6. ASSUME NEW t \in Threads, SpuriousWakeup(t)
      PROVE  Inv'
  BY <1>6, SpuriousWakeupInv
<1>7. ASSUME NEW t \in Threads, Invalid(t)
      PROVE  Inv'
  BY <1>7, StutterInv DEF Invalid
<1>8. ASSUME NEW t \in Threads, NEW op \in Ops, Test(t, op)
      PROVE  Inv'
  BY <1>8, AsideInv DEF Test, Goto
<1>9. ASSUME NEW t \in Threads, MutexFails(t)
      PROVE  Inv'
  BY <1>9, AsideInv DEF MutexFails, Goto
<1>10. ASSUME NEW t \in Threads, WaitFails(t)
       PROVE  Inv'
  BY <1>10, GiveUpInv
<1> QED
  BY <1>1, <1>2, <1>3, <1>4, <1>5, <1>6, <1>7, <1>8, <1>9, <1>10 DEF Next

\* Every reachable state of the lock, whatever the number of threads and
\* destroyed or not, satisfies the invariant: counters that are exact, or
\* forget nobody after the destruction, exclusion of writers, and no lost
\* wakeup.
THEOREM Safety == Spec => []Inv
<1>1. Init => Inv
  BY InitInv
<1>2. Inv /\ [Next]_vars => Inv'
  BY NextInv
<1> QED
  BY <1>1, <1>2, PTL DEF Spec

\* The type invariant of the lock.
COROLLARY TypeCorrect == Spec => []TypeOK
<1>1. Inv => TypeOK
  BY DEF Inv
<1> QED
  BY Safety, <1>1, PTL

\* A writer is alone: rwl_writelock never returns while somebody reads or
\* writes, in a lock that is being destroyed either.
COROLLARY MutualExclusion == Spec => []WriterExcludes
<1>1. Inv => WriterExcludes
  BY DEF Inv
<1> QED
  BY Safety, <1>1, PTL

\* Whoever frees the lock leaves a woken thread if anybody sleeps.
COROLLARY WakeupsKept == Spec => []NoLostWakeup
<1>1. Inv => NoLostWakeup
  BY DEF Inv
<1> QED
  BY Safety, <1>1, PTL

\* rwl_destroy takes the lock from no holder and no waiter: only a thread that
\* had passed the test of rwl->valid before gets into a destroyed lock.
THEOREM Destroyed == Spec => DestroyWindow
<1>1. Inv /\ [Next]_vars =>
        [\A t \in Threads :
           ~valid' /\ pc'[t] \in Inside => pc[t] \in Ops \/ (~valid /\ pc[t] \in Inside)]_vars
  <2> SUFFICES ASSUME Inv, [Next]_vars, NEW t \in Threads, ~valid', pc'[t] \in Inside,
                      pc[t] \notin Ops
               PROVE  ~valid /\ pc[t] \in Inside
    OBVIOUS
  <2>1. pc \in [Threads -> PCs]
    BY DEF Inv, TypeOK
  <2>2. CASE valid
    <3>1. Destroy
      BY <2>2 DEF Next, vars, Test, Invalid, MutexFails, WaitFails, SpuriousWakeup, Lock, Recheck, Unlock,
                  ReadLock, ReadTryLock, ReadRecheck, ReadUnlock, WriteLock, WriteTryLock, WriteRecheck,
                  WriteUnlock, UnlockInvalid
    <3>2. pc[t] \in Inside
      BY <3>1 DEF Destroy
    <3> QED
      BY <3>1, <3>2, DestroyFindsNobody
  <2>3. CASE ~valid
    <3>1. CASE pc'[t] = pc[t]
      BY <2>3, <3>1
    <3>2. CASE pc'[t] # pc[t]
      <4>1. pc[t] # "idle"
        BY <2>1, <2>3, <3>2
           DEF Next, vars, Destroy, Test, Invalid, MutexFails, WaitFails, SpuriousWakeup, Lock, Recheck, Unlock,
               ReadLock, ReadTryLock, ReadRecheck, ReadUnlock, WriteLock, WriteTryLock, WriteRecheck,
               WriteUnlock, UnlockInvalid, Goto, Inside
      <4> QED
        BY <2>1, <2>3, <4>1 DEF PCs
    <3> QED
      BY <3>1, <3>2
  <2> QED
    BY <2>2, <2>3 DEF Inv, TypeOK
<1> QED
  BY <1>1, Safety, PTL DEF Spec, DestroyWindow

\* The implementation by counters and condition variables implements the
\* abstract readers-writers lock, up to and beyond its destruction.
THEOREM Implements == Spec => Refinement
<1>1. Init => Abs!AInit
  BY DEF Init, Abs!AInit, Readers, Writers, At
<1>2. Inv /\ [Next]_vars => [Abs!ANext]_(Abs!avars)
  <2> SUFFICES ASSUME Inv, [Next]_vars
               PROVE  Abs!ANext \/ UNCHANGED Abs!avars
    BY DEF Abs!avars
  <2> USE PlacesFromInv
  <2>0. ASSUME pc' = pc
        PROVE  UNCHANGED Abs!avars
    BY <2>0 DEF Abs!avars, Readers, Writers, At
  <2>a. ASSUME NEW t \in Threads, NEW l \in PCs \ {"reading", "writing"},
               pc' = [pc EXCEPT ![t] = l], pc[t] \notin {"reading", "writing"}
        PROVE  UNCHANGED Abs!avars
    BY <2>a DEF Abs!avars, Readers, Writers, At, TypeOK
  <2>1. CASE UNCHANGED vars \/ Destroy
    BY <2>0, <2>1 DEF vars, Destroy
  <2>2. ASSUME NEW t \in Threads, Lock(t) \/ Recheck(t)
        PROVE  Abs!ANext \/ UNCHANGED Abs!avars
    <3>1. ASSUME NEW l \in {"idle", "rwait", "wwait"}, pc' = [pc EXCEPT ![t] = l],
                 pc[t] \in Ops \cup {"rwoken", "wwoken"}
          PROVE  UNCHANGED Abs!avars
      <4>1. l \in PCs \ {"reading", "writing"} /\ pc[t] \notin {"reading", "writing"}
        BY <3>1 DEF PCs, Ops, Inside
      <4> QED
        BY <3>1, <4>1, <2>a
    <3>2. ASSUME pc' = [pc EXCEPT ![t] = "reading"], ~w_active,
                 pc[t] \in {"readlock", "readtrylock", "rwoken"}
          PROVE  Abs!AcquireRead(t)
      BY <3>2 DEF Abs!AcquireRead, Readers, Writers, At, TypeOK
    <3>3. ASSUME pc' = [pc EXCEPT ![t] = "writing"], ~w_active, r_active <= 0,
                 pc[t] \in {"writelock", "writetrylock", "wwoken"}
          PROVE  Abs!AcquireWrite(t)
      <4>1. \A u \in Threads : pc[u] \notin {"reading", "writing"}
        BY <3>3 DEF TypeOK
      <4> QED
        BY <3>3, <4>1 DEF Abs!AcquireWrite, Readers, Writers, At, TypeOK
    <3> QED
      BY <2>2, <3>1, <3>2, <3>3
         DEF Lock, Recheck, ReadLock, ReadTryLock, ReadRecheck,
             WriteLock, WriteTryLock, WriteRecheck, Goto, Ops, Abs!ANext
  <2>3. ASSUME NEW t \in Threads, Unlock(t)
        PROVE  Abs!ANext
    <3>1. StepOf(t, "idle")
      BY <2>3 DEF Unlock, ReadUnlock, WriteUnlock, UnlockInvalid, StepOf, Goto, SignalWrite,
                  BroadcastRead, At, TypeOK, PCs, Ops, Inside
    <3>2. CASE pc[t] = "reading"
      <4>1. Abs!ReleaseRead(t)
        BY <3>1, <3>2 DEF StepOf, Abs!ReleaseRead, Readers, Writers, At
      <4> QED
        BY <4>1 DEF Abs!ANext
    <3>3. CASE pc[t] = "writing"
      <4>1. Abs!ReleaseWrite(t)
        BY <3>1, <3>3 DEF StepOf, Abs!ReleaseWrite, Readers, Writers, At, WriterExcludes
      <4> QED
        BY <4>1 DEF Abs!ANext
    <3> QED
      BY <2>3, <3>2, <3>3 DEF Unlock, ReadUnlock, WriteUnlock, UnlockInvalid
  <2>4. ASSUME NEW t \in Threads, SpuriousWakeup(t) \/ MutexFails(t) \/ WaitFails(t)
        PROVE  UNCHANGED Abs!avars
    <3>1. PICK l \in {"rwoken", "wwoken", "idle"} :
            pc' = [pc EXCEPT ![t] = l] /\ pc[t] \notin {"reading", "writing"}
      BY <2>4 DEF SpuriousWakeup, MutexFails, WaitFails, Goto, Ops
    <3>2. l \in PCs \ {"reading", "writing"}
      BY DEF PCs, Inside
    <3> QED
      BY <3>1, <3>2, <2>a
  <2>5. ASSUME NEW t \in Threads, NEW op \in Ops, Test(t, op)
        PROVE  UNCHANGED Abs!avars
    <3>1. op \in PCs \ {"reading", "writing"} /\ pc[t] \notin {"reading", "writing"}
            /\ pc' = [pc EXCEPT ![t] = op]
      BY <2>5 DEF Test, Goto, PCs, Ops
    <3> QED
      BY <3>1, <2>a
  <2>6. ASSUME NEW t \in Threads, Invalid(t)
        PROVE  UNCHANGED Abs!avars
    BY <2>0, <2>6 DEF Invalid, vars
  <2> QED
    BY <2>1, <2>2, <2>3, <2>4, <2>5, <2>6 DEF Next
<1> QED
  BY <1>1, <1>2, Safety, PTL DEF Spec, Refinement, Abs!ASpec

=============================================================================
