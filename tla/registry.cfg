SPECIFICATION FairSpec
CONSTANTS
  Nodes = {n1}
  Threads = {t1, t2}
  OfflineTimeout = 1
  MaxWait = 1
  Retention = 1
  Limit = 1
  MaxTime = 2
  MaxRestarts = 1
CHECK_DEADLOCK FALSE
INVARIANTS
  TypeOK
  SeenLagsLittle
  StatusIsHonest
  HistoryIsRecent
PROPERTIES
  PruneSparesWindow
  ExpiredIsPruned
