CONSTANTS
  a = a  b = b  c = c  x1 = x1  x2 = x2
  NoNode = NoNode
  Launcher = Launcher
  Task <- MCTask
  Loops <- MCLoops
  MaxRounds = 3
  ChunkSize = 2
SPECIFICATION FairSpec
INVARIANTS TypeOK OneRunAtATime CombinedInTurn ConditionHeeded 
PROPERTIES ImplementsTaskDependencies LoopEnds
\* The loop ends.
CHECK_DEADLOCK FALSE
