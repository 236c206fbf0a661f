\* A sync that scrapes, one that loads its provider alone, and commands.
SPECIFICATION FairSpec
CONSTANTS
  s1 = s1
  s2 = s2
  e1 = e1
  e2 = e2
  B1 = B1
  B2 = B2
  v1 = v1
  v2 = v2
  v3 = v3
  NoCap = NoCap
  Brand = {B1, B2}
  Variant = {v1, v3}
  BrandOf <- Brands
  Id <- Ids
  Sync = {s1, s2}
  Editor = {e1}
  ProviderOf <- Providers
  Alone = {s2}
  Scraping = {s1}
  EnrichMax = 1
  MinSane = 1
  Dirs <- Directories
  Curated = {}
  ModelVerb = {"disable", "enable", "cap", "member", "unmember"}
  BrandVerb = {"brand_off", "brand_on", "brand_weight"}
  Backends = {"sqlite", "postgres"}
  MaxDisturbances = 2
  MaxBusy = 2
INVARIANTS EditsOutliveLoads SchemaKept
PROPERTIES ReferencesStayValidInPg Converges
CHECK_DEADLOCK FALSE
