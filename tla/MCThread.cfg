SPECIFICATION FairSerialSpec
CONSTANTS
  Controllers = {c1, c2}
  Runs = {o1, o2, o3}
  None = None
INVARIANTS TerminatedIsOver OneThread
PROPERTIES StateOrder TerminateEnds RestartRuns
CHECK_DEADLOCK FALSE
