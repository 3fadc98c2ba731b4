CONSTANTS
  t1 = t1  t2 = t2  t3 = t3
  c1 = c1  c2 = c2  
  NoStorage = NoStorage  NoSlot = NoSlot
  WordBits = 1
  Task <- MCTask
  Cpu <- MCCpu
SPECIFICATION FairSpec
INVARIANTS SlotIsPrivate NothingIsLost
PROPERTY EverythingIsCombined
CHECK_DEADLOCK FALSE
