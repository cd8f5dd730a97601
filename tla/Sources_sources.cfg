SPECIFICATION FairSpec
CONSTANTS
  p1 = p1
  p2 = p2
  d1 = d1
  d2 = d2
  s1 = s1
  s2 = s2
  None = None
  Paths <- OnePath
  Digests <- TwoDigests
  Syncs <- TwoSyncs
  MaxCommits = 2
INVARIANTS
  TypeOK
PROPERTIES
  LoneSyncIsExact
  IndexFollowsRepository
