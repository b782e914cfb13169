SPECIFICATION Spec
CONSTANTS
  Threads = {t1, t2}
  NoLeader = NoLeader
  BlockPromotion = BlockPromotion
  Master = "lf"
  PoolSize = 1
  MaxReinits = 2
INVARIANT LeaderAlone
CHECK_DEADLOCK FALSE
