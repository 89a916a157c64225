CONSTANTS
  Readers = {r1}
  Creators = {c1, c2}
SPECIFICATION FairSpec
CHECK_DEADLOCK FALSE
INVARIANTS DispatcherTypeOK AnswerOnItsWay ReadYourWrites DeletionOnItsWay
PROPERTIES ImplementsAdInstance CallsReturnOrBlock DeletionsApplyOrBlock
