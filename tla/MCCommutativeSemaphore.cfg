CONSTANTS
  t1 = t1  t2 = t2  t3 = t3  t4 = t4
  b1 = b1  b2 = b2
  NoTask = NoTask
  Task <- MCTask
  Bit <- MCBit
SPECIFICATION FairSpec
INVARIANTS Exclusion NoLostWakeUp
PROPERTIES EveryTaskRuns
\* Every task runs once, and then the system stops.
CHECK_DEADLOCK FALSE
