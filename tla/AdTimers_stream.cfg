CONSTANTS
  a1 = a1
  a2 = a2
  a3 = a3
  Ads = {a1, a2, a3}
  StartAt <- Starts
  EndAt <- Ends
  MaxTime = 5
  RestoreScheduled = FALSE
SPECIFICATION Spec
CHECK_DEADLOCK FALSE
INVARIANTS TimersTypeOK NeverEarly StartedIsServed DeletesAreKnown
PROPERTY NeverBack
