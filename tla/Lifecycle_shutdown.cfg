CONSTANTS
  Creates = {c1, c2}
  Gets = {g1}
  CallWait = 3
  RestoreWait = 6
  ReadBlock = 3
  MaxSleep = 1
  MaxRetry = 1
  SignalGrace = 5
  ErrorGrace = 8
SPECIFICATION FairSpec
CHECK_DEADLOCK FALSE
INVARIANTS LifecycleTypeOK CleanExitCutsNothing MissedDeadlineHasCause
PROPERTIES ShutdownEnds FollowsOrEnds
