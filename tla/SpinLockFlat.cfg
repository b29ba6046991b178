SPECIFICATION FairSpec
CONSTANTS
  Threads = {t1, t2, t3, t4}
  NoThread = NoThread
  Depths = {1}
INVARIANTS MutualExclusion OwnerIsHolder
PROPERTIES Progress ImplementsMutex
