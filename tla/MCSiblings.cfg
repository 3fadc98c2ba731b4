CONSTANTS
  main = main  t1 = t1  t2 = t2  t3 = t3  t4 = t4
  x1 = x1  x2 = x2  b1 = b1  b2 = b2
  NoAccess = NoAccess  NoTask = NoTask
  Main = main
  Task <- MCTask
  Address <- TwoAddresses
  Programs <- SiblingPrograms
  Bit <- TwoBits
  Hash <- TwoHashes
SPECIFICATION Spec
INVARIANTS TypeOK CombinedWhenQuiet  AdditionsAreAtomic NothingLeaks
PROPERTIES ImplementsTaskDependencies
