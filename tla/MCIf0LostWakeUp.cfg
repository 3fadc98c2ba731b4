CONSTANTS
  main = main  a = a  b = b  d = d  s = s
  NoTask = NoTask
  Main = main
  Task <- MCTask
  Programs <- If0Programs
SPECIFICATION Spec
INVARIANTS If0CreatorResumed
CHECK_DEADLOCK FALSE
