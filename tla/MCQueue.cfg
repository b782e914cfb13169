SPECIFICATION Spec
CONSTANTS
  Threads = {t1, t2, t3}
  None = None
  QueueSize = 2
  MaxBlocks = 2
SYMMETRY Symmetry
INVARIANTS CountExact SealedIsQuiet SlotsConserved ElementsAnnounced
CHECK_DEADLOCK FALSE
