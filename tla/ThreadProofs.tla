---------------------------- MODULE ThreadProofs ----------------------------
(***************************************************************************)
(* Proofs about Thread, for any number of controllers and of starts: when  *)
(* the calls of Start, Terminate and the destructor do not overlap, the    *)
(* state machine keeps what its documentation promises.                    *)
(***************************************************************************)
EXTENDS Thread, TLAPS

\* The states as numbers, and what SetState does.
USE DEF eCreated, eStartRequested, eStartInProgress, eStarted, eRunning,
        eTerminationRequested, eTerminatedRunMethod, eTerminated

\* The transitions that the documentation of EThreadState orders.
Ordered == fState' = fState \/ fState' > fState \/ (fState = eTerminated /\ fState' = eCreated)

\* The constructor.
LEMMA InitSerial == Init => SerialInv
<1> SUFFICES ASSUME Init PROVE SerialInv
  OBVIOUS
<1>1. TypeOK
  <2>1. fState \in 0 .. 7
    BY DEF Init
  <2>2. pc \in [Controllers -> PCs] /\ os \in [Runs -> OSs]
    BY DEF Init, PCs, OSs
  <2>3. fThreadId \in Runs \cup {None}
    BY DEF Init
  <2>4. fSignature \in BOOLEAN /\ destroyed \in BOOLEAN
    BY DEF Init
  <2> QED
    BY <2>1, <2>2, <2>3, <2>4 DEF TypeOK
<1>2. \A o \in Runs : os[o] = "none"
  BY DEF Init
<1>3. TerminatedIsOver /\ OneThread /\ RunningInRun /\ RunPlaces
  BY <1>2 DEF Init, TerminatedIsOver, OneThread, RunningInRun, RunPlaces, Alive
<1>4. CallPlaces
  BY DEF Init, CallPlaces
<1> QED
  BY <1>1, <1>3, <1>4 DEF SerialInv

\* A call can begin only when nobody else is in a call.
LEMMA CallStep ==
  ASSUME SerialInv, NEW c \in Controllers, Call(c), \A d \in Controllers : pc[d] = "out"
  PROVE  SerialInv' /\ Ordered
<1> USE DEF SerialInv, Ordered
<1>0. /\ pc \in [Controllers -> PCs] /\ os \in [Runs -> OSs] /\ fState \in 0 .. 7
  BY DEF TypeOK
<1>1. CASE Start(c)
  <2>1. pc' = [pc EXCEPT ![c] = "signature"] /\ fState \in {eCreated, eTerminated} /\ ~destroyed
    BY <1>0, <1>1 DEF Start, Goto
  <2>2. TypeOK' /\ CallPlaces'
    BY <1>0, <1>1, <2>1 DEF Start, TypeOK, CallPlaces, PCs, Alive
  <2>3. TerminatedIsOver' /\ OneThread' /\ RunningInRun'
    BY <1>1 DEF Start, TerminatedIsOver, OneThread, RunningInRun, Alive
  <2>4. RunPlaces'
    BY <1>0, <1>1, <2>1 DEF Start, RunPlaces
  <2> QED
    BY <1>1, <2>2, <2>3, <2>4 DEF Start
<1>2. CASE StartRefused(c)
  BY <1>2 DEF StartRefused, vars, TypeOK, TerminatedIsOver, OneThread, RunningInRun,
              CallPlaces, RunPlaces, Alive
<1>3. ASSUME NEW l \in {"await", "destroy"}, Terminate(c, l)
      PROVE  SerialInv' /\ Ordered
  <2>1. /\ pc' = [pc EXCEPT ![c] = l] /\ ~destroyed
        /\ UNCHANGED <<fThreadId, fSignature, os, destroyed>>
    BY <1>3 DEF Terminate, Goto
  <2>2. \/ fState \in {0, 1} /\ fState' = 7
        \/ fState \in {2, 3, 4} /\ fState' = 5
        \/ fState \in {5, 6, 7} /\ fState' = fState
    <3>1. fThreadId # c \/ fState' \in {fState, 5, 7}
      BY <1>3 DEF Terminate, SetState, Reached
    <3> QED
      BY <1>0, <1>3 DEF Terminate, SetState, Possible, Reached
  <2>3. fState' = 7 => Alive = {}
    <3>1. ASSUME fState \in {0, 1}, NEW o \in Runs PROVE os[o] \in {"none", "gone"}
      BY <1>0, <3>1 DEF RunPlaces, OSs
    <3> QED
      BY <2>2, <3>1 DEF Alive, TerminatedIsOver
  <2>4. TypeOK'
    BY <1>0, <2>1, <2>2 DEF TypeOK, PCs
  <2>5. CallPlaces'
    BY <1>0, <2>1, <2>2 DEF CallPlaces
  <2>6. OneThread'
    BY <2>1 DEF OneThread, Alive
  <2>7. TerminatedIsOver'
    BY <2>1, <2>3 DEF TerminatedIsOver, Alive
  <2>8. RunPlaces'
    BY <1>0, <2>1, <2>2 DEF RunPlaces
  <2>9. RunningInRun'
    <3>1. ASSUME NEW o \in Runs, os[o] = "run" PROVE fState' = 5
      BY <2>2, <3>1 DEF RunningInRun
    <3> QED
      BY <2>1, <2>2, <3>1 DEF RunningInRun
  <2> QED
    BY <2>2, <2>4, <2>5, <2>6, <2>7, <2>8, <2>9
<1> QED
  BY <1>1, <1>2, <1>3 DEF Call

\* The later steps of Start and Terminate.
LEMMA ControllerStep ==
  ASSUME SerialInv, NEW c \in Controllers, Starting(c) \/ Await(c) \/ Timeout(c)
  PROVE  SerialInv' /\ Ordered
<1> USE DEF SerialInv, Ordered
<1>0. /\ pc \in [Controllers -> PCs] /\ os \in [Runs -> OSs] /\ fState \in 0 .. 7
  BY DEF TypeOK
<1>1. CASE Sign(c)
  BY <1>0, <1>1 DEF Sign, Goto, TypeOK, TerminatedIsOver, OneThread, RunningInRun,
                    CallPlaces, RunPlaces, Alive, PCs
<1>2. CASE Reset(c)
  <2>1. fState = eTerminated /\ fState' = eCreated /\ Alive = {} /\ ~destroyed
    BY <1>0, <1>2 DEF Reset, SetState, Possible, Reached, CallPlaces, TerminatedIsOver
  <2>2. \A o \in Runs : os[o] \in {"none", "gone"}
    BY <2>1 DEF Alive
  <2> QED
    BY <1>0, <1>2, <2>1, <2>2 DEF Reset, Goto, TypeOK, TerminatedIsOver, OneThread,
                    RunningInRun, CallPlaces, RunPlaces, Alive, PCs
<1>3. CASE Below(c)
  BY <1>0, <1>3 DEF Below, Goto, TypeOK, TerminatedIsOver, OneThread, RunningInRun,
                    CallPlaces, RunPlaces, Alive, PCs
<1>4. CASE Request(c)
  <2>1. fState = eCreated /\ ~destroyed
    BY <1>4 DEF Request, CallPlaces
  <2>2. \A o \in Runs : os[o] \in {"none", "gone"}
    BY <1>0, <1>4, <2>1 DEF Request, RunPlaces, CallPlaces, OSs
  <2> QED
    BY <1>0, <1>4, <2>1, <2>2 DEF Request, Goto, TypeOK, TerminatedIsOver, OneThread,
                    RunningInRun, CallPlaces, RunPlaces, Alive, PCs
<1>5. CASE Create(c)
  <2>1. PICK o \in Runs : os[o] = "none" /\ os' = [os EXCEPT ![o] = "wait"] /\ fThreadId' = o
    BY <1>5 DEF Create, Move
  <2>2. fState = eStartRequested /\ Alive = {} /\ ~destroyed /\ fState' = fState
    BY <1>5 DEF Create, CallPlaces
  <2>3. \A q \in Runs : os[q] \in {"none", "gone"}
    BY <2>2 DEF Alive
  <2>4. TypeOK' /\ CallPlaces'
    BY <1>0, <1>5, <2>1, <2>2 DEF Create, Goto, TypeOK, CallPlaces, PCs, OSs
  <2>5. OneThread' /\ RunningInRun' /\ TerminatedIsOver'
    BY <1>0, <1>5, <2>1, <2>2, <2>3 DEF Create, OneThread, RunningInRun, TerminatedIsOver, Alive
  <2>6. RunPlaces'
    <3>1. pc'[c] = "inProgress"
      BY <1>0, <1>5 DEF Create, Goto
    <3> QED
      BY <1>0, <2>1, <2>3, <3>1 DEF RunPlaces
  <2> QED
    BY <2>2, <2>4, <2>5, <2>6
<1>6. CASE CreateFails(c)
  <2>1. fState = eStartRequested /\ Alive = {} /\ ~destroyed /\ fState' = fState
    BY <1>6 DEF CreateFails, CallPlaces
  <2>2. \A q \in Runs : os[q] \in {"none", "gone"}
    BY <2>1 DEF Alive
  <2>3. TypeOK'
    BY <1>0, <1>6, <2>1 DEF CreateFails, Goto, TypeOK, PCs
  <2>4. CallPlaces'
    BY <1>0, <1>6, <2>1 DEF CreateFails, Goto, CallPlaces, Alive
  <2>5. TerminatedIsOver' /\ OneThread' /\ RunningInRun' /\ RunPlaces'
    BY <1>6, <2>1, <2>2 DEF CreateFails, TerminatedIsOver, OneThread, RunningInRun, RunPlaces, Alive
  <2> QED
    BY <2>1, <2>3, <2>4, <2>5
<1>7. CASE InProgress(c)
  <2>1. fState = eStartRequested /\ fState' = eStartInProgress /\ ~destroyed
    BY <1>0, <1>7 DEF InProgress, SetState, Possible, Reached, CallPlaces
  <2>2. TypeOK' /\ CallPlaces' /\ TerminatedIsOver' /\ OneThread'
    BY <1>0, <1>7, <2>1 DEF InProgress, Goto, TypeOK, CallPlaces, TerminatedIsOver,
                            OneThread, Alive, PCs
  <2>3. pc'[c] = "started"
    BY <1>0, <1>7 DEF InProgress, Goto
  <2>4. \A o \in Runs : os[o] \in {"none", "gone", "wait"}
    BY <1>0, <2>1 DEF RunPlaces, OSs
  <2>5. RunPlaces' /\ RunningInRun'
    BY <1>7, <2>1, <2>3, <2>4 DEF InProgress, RunPlaces, RunningInRun
  <2> QED
    BY <2>1, <2>2, <2>5
<1>8. CASE Started(c)
  <2>1. fState = eStartInProgress /\ fState' = eStarted /\ ~destroyed
    BY <1>0, <1>8 DEF Started, SetState, Possible, Reached, CallPlaces
  <2>2. TypeOK' /\ CallPlaces' /\ TerminatedIsOver' /\ OneThread'
    BY <1>0, <1>8, <2>1 DEF Started, Goto, TypeOK, CallPlaces, TerminatedIsOver,
                            OneThread, Alive, PCs
  <2>3. \A o \in Runs : os[o] \in {"none", "gone", "wait"}
    BY <1>0, <2>1 DEF RunPlaces, OSs
  <2>4. RunPlaces' /\ RunningInRun'
    BY <1>8, <2>1, <2>3 DEF Started, RunPlaces, RunningInRun
  <2> QED
    BY <2>1, <2>2, <2>4
<1>9. CASE Fail(c)
  <2>1. fState = eCreated /\ fState' = eTerminated /\ ~destroyed
    BY <1>0, <1>9 DEF Fail, SetState, Possible, Reached, CallPlaces
  <2>2. \A o \in Runs : os[o] \in {"none", "gone"}
    BY <1>0, <1>9, <2>1 DEF Fail, RunPlaces, CallPlaces, OSs
  <2> QED
    BY <1>0, <1>9, <2>1, <2>2 DEF Fail, Goto, TypeOK, TerminatedIsOver, OneThread,
                    RunningInRun, CallPlaces, RunPlaces, Alive, PCs
<1>10. CASE Await(c)
  <2>1. fState = eTerminated /\ Alive = {}
    BY <1>0, <1>10 DEF Await, TerminatedIsOver
  <2>2. \A o \in Runs : os[o] \in {"none", "gone"}
    BY <2>1 DEF Alive
  <2> QED
    BY <1>0, <1>10, <2>1, <2>2 DEF Await, Goto, TypeOK, TerminatedIsOver, OneThread,
                    RunningInRun, CallPlaces, RunPlaces, Alive, PCs
<1>11. CASE Timeout(c)
  BY <1>0, <1>11 DEF Timeout, Goto, TypeOK, TerminatedIsOver, OneThread,
                    RunningInRun, CallPlaces, RunPlaces, Alive, PCs
<1> QED
  BY <1>1, <1>2, <1>3, <1>4, <1>5, <1>6, <1>7, <1>8, <1>9, <1>10, <1>11 DEF Starting

\* The steps of a system thread.
LEMMA RunStep ==
  ASSUME SerialInv, NEW o \in Runs, Running(o) \/ RunReturns(o)
  PROVE  SerialInv' /\ Ordered
<1> USE DEF SerialInv, Ordered
<1>0. /\ pc \in [Controllers -> PCs] /\ os \in [Runs -> OSs] /\ fState \in 0 .. 7
  BY DEF TypeOK
<1>1. os[o] \notin {"none", "gone"}
  BY DEF Running, RunWait, RunGo, RunLeft, Exit, ExitEnd, RunReturns
<1>2. /\ \A q \in Runs : q # o => os[q] \in {"none", "gone"}
      /\ ~destroyed /\ fState # eTerminated
  BY <1>1 DEF OneThread, Alive, TerminatedIsOver
<1>3. UNCHANGED <<pc, destroyed>> /\ \E l \in OSs : os' = [os EXCEPT ![o] = l]
  BY DEF Running, RunWait, RunGo, RunLeft, Exit, ExitEnd, RunReturns, Move, OSs
<1>4. TypeOK'
  <2>1. fState' \in 0 .. 7
    BY <1>0 DEF Running, RunWait, RunGo, RunLeft, Exit, ExitEnd, RunReturns, SetState, Reached
  <2>2. fThreadId' \in {fThreadId, None} /\ (fSignature' = fSignature \/ fSignature' = FALSE)
    BY DEF Running, RunWait, RunGo, RunLeft, Exit, ExitEnd, RunReturns
  <2> QED
    BY <1>0, <1>3, <2>1, <2>2 DEF TypeOK
<1>5. \/ os[o] = "wait" /\ os'[o] \in {"go", "left"} /\ fState' = fState /\ fThreadId' = fThreadId
         /\ fState >= eStarted /\ (os'[o] = "go" <=> fState = eStarted)
      \/ os[o] = "go" /\ fThreadId' = fThreadId
         /\ \/ os'[o] = "run" /\ fState = eStarted /\ fState' = eRunning
            \/ os'[o] = "left" /\ fState = eTerminationRequested /\ fState' = fState
      \/ os[o] = "run" /\ os'[o] = "left" /\ fState' = fState /\ fThreadId' = fThreadId
      \/ os[o] = "left" /\ os'[o] = "exit" /\ fState' = eTerminatedRunMethod /\ fThreadId' = fThreadId
      \/ os[o] = "exit" /\ os'[o] = "end" /\ fState' = fState
      \/ os[o] = "end" /\ os'[o] = "gone" /\ fState' = eTerminated /\ fThreadId' = fThreadId
  <2>1. CASE RunWait(o)
    BY <1>0, <2>1 DEF RunWait, Move, OSs
  <2>2. CASE RunGo(o)
    <3>1. fState \in {eStarted, eTerminationRequested}
      BY <2>2 DEF RunGo, RunPlaces
    <3>2. os[o] = "go" /\ fThreadId' = fThreadId
      BY <2>2 DEF RunGo
    <3>3. CASE fState = eStarted
      <4>1. Possible(eRunning, o)
        BY <3>3 DEF Possible
      <4>2. os'[o] = "run" /\ fState' = eRunning
        BY <1>0, <2>2, <4>1 DEF RunGo, Move, SetState, Reached
      <4> QED
        BY <3>2, <3>3, <4>2
    <3>4. CASE fState = eTerminationRequested
      <4>1. ~Possible(eRunning, o)
        BY <3>4 DEF Possible
      <4>2. os'[o] = "left" /\ fState' = fState
        BY <1>0, <2>2, <4>1 DEF RunGo, Move, SetState
      <4> QED
        BY <3>2, <3>4, <4>2
    <3> QED
      BY <3>1, <3>3, <3>4
  <2>3. CASE RunReturns(o)
    BY <1>0, <2>3 DEF RunReturns, Move, OSs
  <2>4. CASE RunLeft(o)
    <3>1. fThreadId = o
      BY <2>4 DEF RunLeft, OneThread
    <3> QED
      BY <1>0, <2>4, <3>1 DEF RunLeft, Move, SetState, Possible, Reached, OSs
  <2>5. CASE Exit(o)
    BY <1>0, <2>5 DEF Exit, Move, OSs
  <2>6. CASE ExitEnd(o)
    <3>1. fState = eTerminatedRunMethod
      BY <2>6 DEF ExitEnd, RunPlaces
    <3> QED
      BY <1>0, <2>6, <3>1 DEF ExitEnd, Move, SetState, Possible, Reached, OSs
  <2> QED
    BY <2>1, <2>2, <2>3, <2>4, <2>5, <2>6 DEF Running
<1>6. \A q \in Runs : q # o => os'[q] = os[q]
  BY <1>0, <1>3
<1>7. OneThread'
  BY <1>2, <1>5, <1>6 DEF OneThread, Alive
<1>8. TerminatedIsOver'
  BY <1>0, <1>2, <1>3, <1>5, <1>6 DEF TerminatedIsOver, Alive, RunPlaces
<1>9. RunningInRun'
  BY <1>0, <1>2, <1>5, <1>6 DEF RunningInRun, RunPlaces
<1>10. RunPlaces'
  <2>1. os[o] = "wait" /\ fState >= eStarted => fState \in {eStarted, eTerminationRequested}
    BY <1>0 DEF RunPlaces, CallPlaces
  <2>2. /\ os'[o] = "go" => fState' \in {eStarted, eTerminationRequested}
        /\ os'[o] \in {"run", "left"} => fState' \in {eRunning, eTerminationRequested}
        /\ os'[o] \in {"exit", "end"} => fState' = eTerminatedRunMethod
        /\ os'[o] # "wait"
    BY <1>5, <2>1 DEF RunPlaces
  <2>3. \A q \in Runs : q # o => os'[q] \in {"none", "gone"}
    BY <1>2, <1>6
  <2> QED
    BY <2>2, <2>3 DEF RunPlaces
<1>11. CallPlaces'
  <2>1. \A c \in Controllers : pc[c] \in {"out", "inProgress", "started", "await", "destroy"}
    <3> SUFFICES ASSUME NEW c \in Controllers,
                        pc[c] \in {"signature", "reset", "below", "request", "fail", "create"}
                 PROVE  FALSE
      BY <1>0 DEF PCs
    <3>1. fState \in {0, 1} /\ pc[c] # "create"
      BY <1>1, <1>2 DEF CallPlaces, Alive
    <3>2. fState = 0
      BY <3>1 DEF CallPlaces
    <3>3. \A d \in Controllers : pc[d] \notin {"inProgress", "started"}
      BY <3>2 DEF CallPlaces
    <3> QED
      BY <1>0, <1>1, <3>2, <3>3 DEF RunPlaces, OSs
  <2>2. ASSUME NEW c \in Controllers, pc[c] \in {"inProgress", "started"}
        PROVE  fState' = fState
    <3>1. fState \in {1, 2}
      BY <2>2 DEF CallPlaces
    <3> QED
      BY <1>5, <3>1 DEF RunPlaces
  <2>3. ASSUME NEW c \in Controllers, pc[c] \in {"await", "destroy"}
        PROVE  fState' >= eTerminationRequested
    BY <1>0, <1>5, <2>3 DEF CallPlaces
  <2> QED
    BY <1>2, <1>3, <2>1, <2>2, <2>3 DEF CallPlaces
<1>12. Ordered
  BY <1>0, <1>5 DEF RunPlaces
<1> QED
  BY <1>4, <1>7, <1>8, <1>9, <1>10, <1>11, <1>12

\* Every step of serial use keeps the invariant and the order of the states.
LEMMA SerialStep == SerialInv /\ [SerialNext]_vars => SerialInv' /\ Ordered
<1> SUFFICES ASSUME SerialInv, [SerialNext]_vars PROVE SerialInv' /\ Ordered
  OBVIOUS
<1>1. CASE UNCHANGED vars
  BY <1>1 DEF vars, SerialInv, Ordered, TypeOK, TerminatedIsOver, OneThread, RunningInRun,
              CallPlaces, RunPlaces, Alive
<1>2. ASSUME NEW c \in Controllers, Call(c), \A d \in Controllers : pc[d] = "out"
      PROVE  SerialInv' /\ Ordered
  BY <1>2, CallStep
<1>3. ASSUME NEW c \in Controllers, Starting(c) \/ Await(c) \/ Timeout(c)
      PROVE  SerialInv' /\ Ordered
  BY <1>3, ControllerStep
<1>4. ASSUME NEW o \in Runs, Running(o) \/ RunReturns(o)
      PROVE  SerialInv' /\ Ordered
  BY <1>4, RunStep
<1> QED
  BY <1>1, <1>2, <1>3, <1>4 DEF SerialNext, Step

\* With one call at a time the object and its system thread agree.
THEOREM Serial == SerialSpec => []SerialInv
<1>1. Init => SerialInv
  BY InitSerial
<1>2. SerialInv /\ [SerialNext]_vars => SerialInv'
  BY SerialStep
<1> QED
  BY <1>1, <1>2, PTL DEF SerialSpec

\* A thread object in eTerminated, or destroyed, is used by no system thread.
COROLLARY Terminated == SerialSpec => []TerminatedIsOver
<1>1. SerialInv => TerminatedIsOver
  BY DEF SerialInv
<1> QED
  BY <1>1, Serial, PTL

\* It never has two threads of control, however often it is restarted.
COROLLARY Single == SerialSpec => []OneThread
<1>1. SerialInv => OneThread
  BY DEF SerialInv
<1> QED
  BY <1>1, Serial, PTL

\* The states are passed in their order.
THEOREM Order == SerialSpec => StateOrder
<1>1. SerialInv /\ [SerialNext]_vars
        => [fState' > fState \/ (fState = eTerminated /\ fState' = eCreated)]_fState
  BY SerialStep DEF Ordered
<1> QED
  BY <1>1, Serial, PTL DEF SerialSpec, StateOrder
=============================================================================
