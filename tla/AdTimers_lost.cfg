CONSTANTS
  a1 = a1
  a2 = a2
  a3 = a3
  Ads = {a1, a2, a3}
  StartAt <- LaterStarts
  EndAt <- LaterEnds
  MaxTime = 5
  RestoreScheduled = TRUE
SPECIFICATION Spec
CHECK_DEADLOCK FALSE
INVARIANT StartedIsServed
