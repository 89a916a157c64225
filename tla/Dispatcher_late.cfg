CONSTANTS
  Readers = {r1}
  Creators = {c1}
SPECIFICATION FairSpec
CHECK_DEADLOCK FALSE
PROPERTY EveryCallReturns
