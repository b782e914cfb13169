SPECIFICATION Spec
CONSTANTS
  Keys = {1}
  NoKey = 0
  Values = {v1}
  Null = Null
  Hash <- Colliding
  ARRAY_BUF_SIZE = 4
  InitCapacity = 4
  cInitCapacity = 17
  MaxSize = 14
  MaxGap = 12
  MaxInsert = 1
INVARIANT NextCellExists
