------------------------------- MODULE Thread -------------------------------
(***************************************************************************)
(* The class Thread of mtfoundation/Threads.cpp: an object with a state    *)
(* machine fState, which controllers start and terminate and which a new   *)
(* thread of the operating system drives from the other side.              *)
(*                                                                         *)
(* fState changes under fStateMutex only, so a call of SetState, GetState  *)
(* or CheckState is one step; fThreadId and fSignature are not guarded.    *)
(* Every change broadcasts fStateCond, so a wait is a guard.               *)
(***************************************************************************)
EXTENDS Integers, FiniteSets

CONSTANTS
  Controllers,   \* the threads that call Start, Terminate and the destructor
  Runs,          \* the system threads that can be created
  None           \* no system thread: fThreadId = 0

ASSUME NoneNotRun == None \notin Runs

\* EThreadState
eCreated              == 0
eStartRequested       == 1
eStartInProgress      == 2
eStarted              == 3
eRunning              == 4
eTerminationRequested == 5
eTerminatedRunMethod  == 6
eTerminated           == 7

VARIABLES
  fState,
  fThreadId,
  fSignature,   \* IsAlive()
  pc,           \* where each controller is
  os,           \* where each system thread is
  destroyed     \* the destructor has finished

vars == <<fState, fThreadId, fSignature, pc, os, destroyed>>

\* "out"         in no call
\* "signature" ... "fail"   the steps of Start
\* "await"       in CheckState(eTerminated) of Terminate
\* "destroy"     in the same place, called by the destructor
PCs == {"out", "signature", "reset", "below", "request", "create",
        "inProgress", "started", "fail", "await", "destroy"}

\* "none"   not created yet         "wait"  in CheckState(eStarted) of IntRun
\* "go"     before SetState(eRunning)   "run"   in Run()
\* "left"   before SetState(eTerminatedRunMethod)
\* "exit"   in Exit                 "end"   before SetState(eTerminated)
\* "gone"   has left the object
OSs == {"none", "wait", "go", "run", "left", "exit", "end", "gone"}

Goto(c, l) == pc' = [pc EXCEPT ![c] = l]
Move(o, l) == os' = [os EXCEPT ![o] = l]

\* The constructor.
Init ==
  /\ fState = eCreated
  /\ fThreadId = None
  /\ fSignature = FALSE
  /\ pc = [c \in Controllers |-> "out"]
  /\ os = [o \in Runs |-> "none"]
  /\ destroyed = FALSE

-----------------------------------------------------------------------------
\* The conditions of SetState(state) in thread me.
Possible(state, me) ==
  \/ state = fState + 1
  \/ state = eTerminationRequested /\ fState < eTerminationRequested
  \/ fState = eTerminated /\ state = eCreated
  \/ state \in {eTerminatedRunMethod, eTerminated} /\ me = fThreadId

\* Mutant: a termination request always ends in eTerminated.
Reached_AlwaysTerminated(state) == IF state = eTerminationRequested THEN eTerminated ELSE state

\* Mutant: a termination request always waits for the system thread.
Reached_NoShortcut(state) == state

\* The state that SetState(state) leads to: without a system thread a
\* termination request is fulfilled at once.
Reached(state) ==
  IF state = eTerminationRequested /\ fState \in {eCreated, eStartRequested}
  THEN eTerminated ELSE state

\* SetState; it changes nothing if the transition is not possible.
SetState(state, me) == fState' = IF Possible(state, me) THEN Reached(state) ELSE fState

-----------------------------------------------------------------------------
\* Start, the first test: a thread that is alive is left alone.
Start(c) ==
  /\ pc[c] = "out" /\ ~destroyed
  /\ fState <= eCreated \/ fState >= eTerminated
  /\ Goto(c, "signature")
  /\ UNCHANGED <<fState, fThreadId, fSignature, os, destroyed>>

StartRefused(c) ==
  /\ pc[c] = "out" /\ ~destroyed
  /\ fState > eCreated /\ fState < eTerminated
  /\ UNCHANGED vars

Sign(c) ==
  /\ pc[c] = "signature"
  /\ fSignature' = TRUE
  /\ Goto(c, IF fState = eTerminated THEN "reset" ELSE "below")
  /\ UNCHANGED <<fState, fThreadId, os, destroyed>>

Reset(c) ==
  /\ pc[c] = "reset"
  /\ SetState(eCreated, c)
  /\ Goto(c, "below")
  /\ UNCHANGED <<fThreadId, fSignature, os, destroyed>>

Below(c) ==
  /\ pc[c] = "below"
  /\ Goto(c, IF fState < eStartRequested THEN "request" ELSE "fail")
  /\ UNCHANGED <<fState, fThreadId, fSignature, os, destroyed>>

\* SetState(eStartRequested); DoStartRequestedHook may refuse.
Request(c) ==
  /\ pc[c] = "request"
  /\ \/ /\ Possible(eStartRequested, c)
        /\ fState' = eStartRequested
        /\ Goto(c, "create")
     \/ /\ Goto(c, "fail")
        /\ UNCHANGED fState
  /\ UNCHANGED <<fThreadId, fSignature, os, destroyed>>

\* STARTTHREAD
Create(c) ==
  /\ pc[c] = "create"
  /\ \E o \in Runs : /\ os[o] = "none"
                     /\ Move(o, "wait")
                     /\ fThreadId' = o
  /\ Goto(c, "inProgress")
  /\ UNCHANGED <<fState, fSignature, destroyed>>

CreateFails(c) ==
  /\ pc[c] = "create"
  /\ fThreadId' = None
  /\ fSignature' = FALSE
  /\ Goto(c, "out")
  /\ UNCHANGED <<fState, os, destroyed>>

\* Mutant: eStartInProgress is left out.
InProgress_Skipped(c) ==
  /\ pc[c] = "inProgress"
  /\ Goto(c, "started")
  /\ UNCHANGED <<fState, fThreadId, fSignature, os, destroyed>>

InProgress(c) ==
  /\ pc[c] = "inProgress"
  /\ SetState(eStartInProgress, c)
  /\ Goto(c, "started")
  /\ UNCHANGED <<fThreadId, fSignature, os, destroyed>>

Started(c) ==
  /\ pc[c] = "started"
  /\ SetState(eStarted, c)
  /\ Goto(c, "out")
  /\ UNCHANGED <<fThreadId, fSignature, os, destroyed>>

\* SetState(eTerminationRequested) at the end of Start.
Fail(c) ==
  /\ pc[c] = "fail"
  /\ SetState(eTerminationRequested, c)
  /\ Goto(c, "out")
  /\ UNCHANGED <<fThreadId, fSignature, os, destroyed>>

\* Terminate, called by a client (l = "await") or by the destructor.
Terminate(c, l) ==
  /\ pc[c] = "out" /\ ~destroyed
  /\ SetState(eTerminationRequested, c)
  /\ Goto(c, l)
  /\ UNCHANGED <<fThreadId, fSignature, os, destroyed>>

\* CheckState(eTerminated) returns true, ...
Await(c) ==
  /\ pc[c] \in {"await", "destroy"}
  /\ fState >= eTerminated
  /\ destroyed' = (destroyed \/ pc[c] = "destroy")
  /\ Goto(c, "out")
  /\ UNCHANGED <<fState, fThreadId, fSignature, os>>

\* ... or the timeout of Terminate is over.
Timeout(c) ==
  /\ pc[c] = "await"
  /\ Goto(c, "out")
  /\ UNCHANGED <<fState, fThreadId, fSignature, os, destroyed>>

-----------------------------------------------------------------------------
\* IntRun: CheckState(eStarted).
RunWait(o) ==
  /\ os[o] = "wait"
  /\ fState >= eStarted
  /\ Move(o, IF fState = eStarted THEN "go" ELSE "left")
  /\ UNCHANGED <<fState, fThreadId, fSignature, pc, destroyed>>

\* Mutant: the state is set whatever it was.
RunGo_Forced(o) ==
  /\ os[o] = "go"
  /\ fState' = eRunning
  /\ Move(o, "run")
  /\ UNCHANGED <<fThreadId, fSignature, pc, destroyed>>

\* SetState(eRunning)
RunGo(o) ==
  /\ os[o] = "go"
  /\ SetState(eRunning, o)
  /\ Move(o, IF Possible(eRunning, o) THEN "run" ELSE "left")
  /\ UNCHANGED <<fThreadId, fSignature, pc, destroyed>>

\* Run() returns, on request or of its own accord.
RunReturns(o) ==
  /\ os[o] = "run"
  /\ Move(o, "left")
  /\ UNCHANGED <<fState, fThreadId, fSignature, pc, destroyed>>

\* SetState(eTerminatedRunMethod) at the end of IntRun.
RunLeft(o) ==
  /\ os[o] = "left"
  /\ SetState(eTerminatedRunMethod, o)
  /\ Move(o, "exit")
  /\ UNCHANGED <<fThreadId, fSignature, pc, destroyed>>

\* Mutant: eTerminated is announced before the thread lets go of the object.
Exit_AnnounceFirst(o) ==
  /\ os[o] = "exit"
  /\ SetState(eTerminated, o)
  /\ Move(o, "end")
  /\ UNCHANGED <<fSignature, fThreadId, pc, destroyed>>

\* Exit: the object forgets the system thread ...
Exit(o) ==
  /\ os[o] = "exit"
  /\ fSignature' = FALSE
  /\ fThreadId' = None
  /\ Move(o, "end")
  /\ UNCHANGED <<fState, pc, destroyed>>

\* ... and SetState(eTerminated).
ExitEnd(o) ==
  /\ os[o] = "end"
  /\ SetState(eTerminated, o)
  /\ Move(o, "gone")
  /\ UNCHANGED <<fThreadId, fSignature, pc, destroyed>>

-----------------------------------------------------------------------------
\* The first step of a call, the later ones, and those of a system thread.
Call(c) == Start(c) \/ StartRefused(c) \/ Terminate(c, "await") \/ Terminate(c, "destroy")

Starting(c) == \/ Sign(c) \/ Reset(c) \/ Below(c) \/ Request(c) \/ Create(c) \/ CreateFails(c)
               \/ InProgress(c) \/ Started(c) \/ Fail(c)

Running(o) == RunWait(o) \/ RunGo(o) \/ RunLeft(o) \/ Exit(o) \/ ExitEnd(o)

Step == \/ \E c \in Controllers : Starting(c) \/ Await(c) \/ Timeout(c)
        \/ \E o \in Runs : Running(o) \/ RunReturns(o)

\* One call at a time: the pool managers start and terminate their threads
\* from one thread.
SerialNext ==
  \/ (\A c \in Controllers : pc[c] = "out") /\ \E c \in Controllers : Call(c)
  \/ Step

SerialSpec == Init /\ [][SerialNext]_vars

\* System threads run, Run() returns once it is asked to, and a call goes on.
Fairness ==
  /\ \A o \in Runs : /\ WF_vars(Running(o))
                     /\ WF_vars(fState # eRunning /\ RunReturns(o))
  /\ \A c \in Controllers : WF_vars(Starting(c)) /\ WF_vars(Await(c))

FairSerialSpec == SerialSpec /\ Fairness

-----------------------------------------------------------------------------
\* The variables have their types.
TypeOK ==
  /\ fState \in 0 .. 7
  /\ fThreadId \in Runs \cup {None}
  /\ fSignature \in BOOLEAN /\ destroyed \in BOOLEAN
  /\ pc \in [Controllers -> PCs]
  /\ os \in [Runs -> OSs]

\* The system threads that still use the object.
Alive == {o \in Runs : os[o] \notin {"none", "gone"}}

\* "eTerminated: Thread::Run has been left and its own thread of control is
\* terminated. The object still exists and can be restarted now": it can,
\* and it can be destroyed, without a system thread that still uses it.
TerminatedIsOver == fState = eTerminated \/ destroyed => Alive = {}

\* However often the object is started and terminated, it has at most one
\* thread of control, and GetId() is that thread until it exits: this is
\* what makes SetState(eTerminatedRunMethod) possible from every state.
OneThread ==
  /\ \A o, p \in Alive : o = p
  /\ \A o \in Runs : os[o] \in {"wait", "go", "run", "left", "exit"} => fThreadId = o

\* "eRunning: Thread::Run has been entered in its own thread of control":
\* only then, and in no earlier and no later state.
RunningInRun ==
  /\ \A o \in Runs : os[o] = "run" => fState \in {eRunning, eTerminationRequested}
  /\ fState = eRunning => \E o \in Runs : os[o] \in {"run", "left"}

\* "There is an implicit ordering in these states ... Only well defined
\* transitions are possible": a state is never left for an earlier one but
\* to use a terminated thread again.
StateOrder ==
  [][fState' > fState \/ (fState = eTerminated /\ fState' = eCreated)]_fState

\* Where a call of Start or Terminate can find fState, and where the system
\* thread can, when calls do not overlap.
CallPlaces ==
  /\ \A c, d \in Controllers : pc[c] # "out" /\ pc[d] # "out" => c = d
  /\ \A c \in Controllers :
       /\ pc[c] = "signature" => fState \in {eCreated, eTerminated}
       /\ pc[c] = "reset" => fState = eTerminated
       /\ pc[c] \in {"below", "request", "fail"} => fState = eCreated
       /\ pc[c] = "create" => fState = eStartRequested /\ Alive = {}
       /\ pc[c] = "inProgress" => fState = eStartRequested
       /\ pc[c] = "started" => fState = eStartInProgress
       /\ pc[c] \in {"await", "destroy"} => fState >= eTerminationRequested
  /\ destroyed => fState = eTerminated /\ \A c \in Controllers : pc[c] = "out"

RunPlaces ==
  \A o \in Runs :
    /\ os[o] = "wait" => \/ fState \in {eStarted, eTerminationRequested}
                         \/ \E c \in Controllers : pc[c] \in {"inProgress", "started"}
    /\ os[o] = "go" => fState \in {eStarted, eTerminationRequested}
    /\ os[o] \in {"run", "left"} => fState \in {eRunning, eTerminationRequested}
    /\ os[o] \in {"exit", "end"} => fState = eTerminatedRunMethod

\* The inductive invariant of serial use.
SerialInv == /\ TypeOK /\ TerminatedIsOver /\ OneThread /\ RunningInRun
             /\ CallPlaces /\ RunPlaces

\* "If timeout==0 ... the caller is blocked until the state eTerminated is
\* reached": it is reached.
TerminateEnds ==
  \A c \in Controllers : (pc[c] \in {"await", "destroy"}) ~> (pc[c] = "out")

\* A terminated object that is started again gets a thread of control
\* running, unless that start fails or is terminated.
RestartRuns ==
  \A c \in Controllers : (pc[c] = "inProgress") ~> (fState \in {eRunning, eTerminated})
=============================================================================
