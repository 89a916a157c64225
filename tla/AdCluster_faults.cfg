CONSTANTS
  w1 = w1
  w2 = w2
  i1 = i1
  i2 = i2
  Ads = {a1, a2}
  Writers = {w1}
  Instances = {i1, i2}
  Home <- OneReader
  NoAd = NoAd
  Free = Free
  Orphan = Orphan
  Faulty <- FaultKinds
  MaxFaults = 1
  MaxLen = 2
  MaxRuns = 3
SYMMETRY AdSymmetry
SPECIFICATION ClusterSpec
CHECK_DEADLOCK FALSE
INVARIANTS ClusterTypeOK AnsweredIsServed
PROPERTY NoResurrection
