\* The route, selects and reports overlap while the catalog is edited.
SPECIFICATION FairSpec
CONSTANTS
  t1 = t1
  t2 = t2
  NoCache = NoCache
  Thread = {t1, t2}
  Admin = {t1}
  Limit = {1, 2}
  MaxEdits = 2
PROPERTIES EditsArrive LimitsSettle
