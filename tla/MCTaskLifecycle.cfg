CONSTANTS
  main = main  a = a  b = b  d = d  s = s
  NoTask = NoTask
  Main = main
  Task <- MCTask
  Programs <- MCPrograms
SPECIFICATION FairSpec
INVARIANTS ReleasedOnce WakeUpsMatchPauses NoUseAfterFree
PROPERTIES TaskwaitWaits DelayedReleaseWaits AllDestroyed
\* The program with if0 tasks may stop for ever, see If0CreatorResumed.
CHECK_DEADLOCK FALSE
