CONSTANTS
  w1 = w1
  w2 = w2
  i1 = i1
  i2 = i2
  Ads = {a1, a2, m1}
  Mocks = {m1}
  Writers = {w1, w2}
  Instances = {i1, i2}
  Home <- OneEach
  NoAd = NoAd
  Free = Free
  Orphan = Orphan
  Faulty <- InTime
  MaxFaults = 2
SPECIFICATION FairInjectSpec
CHECK_DEADLOCK FALSE
INVARIANT MocksStay
PROPERTIES EventuallyAnswered EventuallyDeleted
