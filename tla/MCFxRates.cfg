\* Two selects and the refresh of the start.
SPECIFICATION FairSpec
CONSTANTS
  t1 = t1
  t2 = t2
  t3 = t3
  Thread = {t1, t2, t3}
  Eager = {t3}
  REFRESH_TTL = 3
  RETRY_COOLDOWN = 1
  MaxPublished = 2
INVARIANT SingleFlight
PROPERTIES LastGoodStays StaleIsRefreshed
