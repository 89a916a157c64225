CONSTANTS
  w1 = w1
  w2 = w2
  i1 = i1
  i2 = i2
  Ads = {a1}
  Writers = {w1, w2}
  Instances = {i1, i2}
  Home <- OneEach
  NoAd = NoAd
  Free = Free
  Orphan = Orphan
  Faulty <- CrashOnly
  MaxFaults = 1
  MaxLen = 100
  MaxRuns = 3
SYMMETRY Symmetry
SPECIFICATION ClusterSpec
CHECK_DEADLOCK FALSE
INVARIANT DeletesAreKnown
