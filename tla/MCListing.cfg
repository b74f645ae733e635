SPECIFICATION Spec
CONSTANTS
  MaxPages = 2
  Retries = 0
  Hosts = {home, elsewhere}
  Trusted = {home}
  Nowhere = Nowhere
  MaxRelease = 4
  Deletions = 1
  PageSize = 2
PROPERTIES WalkReturns
INVARIANTS TypeOK NothingMissed RollingTagsAreHarmless LatestIsNewestComparable
CHECK_DEADLOCK FALSE
