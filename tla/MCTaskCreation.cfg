CONSTANTS
  a = a  b = b  c = c  d = d  x1 = x1  x2 = x2
  main = main  grouping = grouping  s1 = s1  s2 = s2
  NoNode = NoNode  Dynamic = Dynamic  Runtime = Runtime  Nobody = Nobody
  Loops <- TunedAsMeant
  NumCpus = 1
  NosvCpus = 2
  Modulus = 16
  Taskloops <- MCTaskloops
  Tuned <- MCTuned
  Declarer = {main, grouping}
  Spawner = {s1, s2}
  Info <- MCInfo
  InfoOf <- MCInfoOf
  Main = main
  Grouping = grouping
SPECIFICATION CreationSpec
INVARIANTS
  OneVertexEach ChildrenAreCounted OrderIsKept EveryVertexStarts
  ChunksPartitionLoop AccessesFit OneTypeEach SpawnedHasType
