CONSTANTS
  t1 = t1  t2 = t2  t3 = t3
  NoMutex = NoMutex
  Task <- MCTask
SPECIFICATION FairSpec
PROPERTIES ImplementsMutex EveryLockSucceeds
