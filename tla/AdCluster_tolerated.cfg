CONSTANTS
  w1 = w1
  w2 = w2
  i1 = i1
  i2 = i2
  Ads = {a1, a2}
  Writers = {w1, w2}
  Instances = {i1, i2}
  Home <- OneEach
  NoAd = NoAd
  Free = Free
  Orphan = Orphan
  Faulty <- Tolerated
  MaxFaults = 2
  MaxLen = 100
  MaxRuns = 3
SYMMETRY Symmetry
SPECIFICATION ClusterSpec
CHECK_DEADLOCK FALSE
INVARIANTS MutualExclusion VersionsDistinct VersionTracksStream SnapshotMatchesLog DeletesAreKnown
PROPERTY ImplementsReplicatedAds
