SPECIFICATION Spec
CONSTANTS
  Threads = {t1, t2, t3, t4}
  None = None
  MaxDepth = 3
SYMMETRY Symmetry
INVARIANTS LockerOwns MutualExclusion
PROPERTIES Refinement
