SPECIFICATION Spec
CONSTANTS
  Keys = {1, 2, 3}
  NoKey = 0
  Values = {v1}
  Null = Null
  Hash <- Colliding
  ARRAY_BUF_SIZE = 2
  InitCapacity = 2
  cInitCapacity = 3
  MaxSize = 4
  MaxGap = 1
  MaxInsert = 2
INVARIANTS KeysFound CellsExact
PROPERTY Refinement
