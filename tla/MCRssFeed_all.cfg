CONSTANTS
  f1 = f1
  f2 = f2
  Feed <- TwoFeeds
  Timer = timer
  Request = {r1}
  Confs <- SomeConfs
  Window <- SomeWindow
  CacheMax = 2
  MaxItem = 3
  MaxBoot = 2
SPECIFICATION FairSpec
INVARIANTS TypeOK NoDuplicates NoGap LatestAnnounced
PROPERTY Arrives
