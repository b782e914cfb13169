SPECIFICATION Spec
CONSTANTS
  Requests = {r1, r2}
  Cleaner = Cleaner
  Manager = Manager
  Sessions = {s1, s2}
  Ids = {id1}
  None = None
  MaxSessions = 1
  CopyModes = {FALSE, TRUE}
SYMMETRY Symmetry
INVARIANTS RefExact OneHome 
PROPERTIES OnlyBareUses
CHECK_DEADLOCK FALSE
