\* Three callers race for two buckets of one model whose cap a reload changes.
SPECIFICATION Spec
CONSTANTS
  c1 = c1
  c2 = c2
  c3 = c3
  m1 = m1
  k1 = k1
  k2 = k2
  NoCap = NoCap
  Caller = {c1, c2, c3}
  Model = {m1}
  Key = {k1, k2}
  Caps <- SmallCaps
  Estimates = {1}
  Echoes = {0, 2}
  WindowBound = 3
  MisstateBound = 2
SYMMETRY Symmetry
INVARIANTS InFlightCountsHolders TokensWithinReports
PROPERTIES CapRespected PoolSpec
