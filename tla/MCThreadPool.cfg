SPECIFICATION Spec
CONSTANTS
  PoolSize = 2
  Objects = {o1, o2, o3, o4}
  MaxEnds = 1
  MaxInits = 2
  None = None
SYMMETRY Symmetry
INVARIANTS DeletedAreDone RunningExact
CHECK_DEADLOCK FALSE
