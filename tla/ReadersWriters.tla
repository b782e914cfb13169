--------------------------- MODULE ReadersWriters ---------------------------
(***************************************************************************)
(* What a client of RWLock (Threads.h) relies on, without counters,        *)
(* condition variables or a destroyed state: sets of threads that hold the *)
(* lock in the mode eReading or eWriting.                                  *)
(***************************************************************************)
EXTENDS FiniteSets

CONSTANT Threads

VARIABLES readers, writers

avars == <<readers, writers>>

AInit == readers = {} /\ writers = {}

AcquireRead(t) ==
  /\ t \notin readers /\ writers = {}
  /\ readers' = readers \cup {t}
  /\ UNCHANGED writers

AcquireWrite(t) ==
  /\ readers = {} /\ writers = {}
  /\ writers' = {t}
  /\ UNCHANGED readers

ReleaseRead(t) ==
  /\ t \in readers
  /\ readers' = readers \ {t}
  /\ UNCHANGED writers

ReleaseWrite(t) ==
  /\ writers = {t}
  /\ writers' = {}
  /\ UNCHANGED readers

ANext == \E t \in Threads : \/ AcquireRead(t) \/ AcquireWrite(t)
                            \/ ReleaseRead(t) \/ ReleaseWrite(t)

ASpec == AInit /\ [][ANext]_avars
=============================================================================
