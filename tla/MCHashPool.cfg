SPECIFICATION FairSpec
CONSTANTS
  f1 = f1
  f2 = f2
  f3 = f3
  k1 = k1
  k2 = k2
  w1 = w1
  w2 = w2
  NoJob = NoJob
  Jobs <- MCJobs
  Keys <- MCKeys
  Workers <- TwoWorkers
INVARIANTS
  ChannelsAreSound
  VerdictIsHonest
PROPERTIES
  PoolEnds
