CONSTANTS
  a = a  b = b  c = c  x1 = x1  x2 = x2
  NoNode = NoNode
  Launcher = Launcher
  Task <- MCTask
  Loops <- LastCombinationLoops
  MaxRounds = 3
  ChunkSize = 2
SPECIFICATION Spec
INVARIANTS PredecessorsNotNegative
CHECK_DEADLOCK FALSE
