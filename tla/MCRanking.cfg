\* Two tasks select from one group: two models of a brand with a quota of two
\* calls a minute, or two brands without quotas.
SPECIFICATION Spec
CONSTANTS
  t1 = t1
  t2 = t2
  a1 = a1
  a2 = a2
  g = g
  h = h
  A = A
  G = G
  H = H
  None = None
  NotLearned = NotLearned
  Task = {t1, t2}
  Model = {a1, a2, g, h}
  Brand = {A, G, H}
  BrandOf <- Brands
  Weight <- Weights
  Rpm <- Limits
  Merit <- Merits
  Priority <- Priorities
  Group <- Groups
  Remaining <- Reports
  Span = 1
  MaxLearned = 2
  TrafficSpan = 2
  StickyTtl = 2
  TrafficBound = 4
SYMMETRY Tasks
PROPERTIES QuotaSpilled WarmModelKept
