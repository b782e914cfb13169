SPECIFICATION FairSpec
CONSTANTS
  Threads = {t1, t2}
  NoLeader = NoLeader
  BlockPromotion = BlockPromotion
  Master = "acc"
  PoolSize = 1
  MaxReinits = 2
INVARIANTS AcceptorQuiet LeaderAlone IdleMeansOpen ManagerAlive
PROPERTIES PhoneAnswered ShutdownEnds
CHECK_DEADLOCK FALSE
