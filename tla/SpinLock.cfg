\* Four threads contend for the lock.
CONSTANTS
  Threads = {t1, t2, t3, t4}
  NoThread = NoThread
SPECIFICATION FairSpec
INVARIANTS MutualExclusion WordTellsInside
PROPERTIES ImplementsMutex SomebodyEnters
