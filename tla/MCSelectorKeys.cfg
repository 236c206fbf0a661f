\* Two tasks select and report on two models that share two keys.
SPECIFICATION Spec
CONSTANTS
  t1 = t1
  t2 = t2
  m1 = m1
  m2 = m2
  m3 = m3
  B1 = B1
  B2 = B2
  k1 = k1
  k2 = k2
  NoKey = NoKey
  NoLimit = NoLimit
  None = None
  plain = plain
  open = open
  pair = pair
  off = off
  empty = empty
  Step = {plain}
  Group = {}
  Language = {"en"}
  Category = {"text", "audio"}
  Task = {t1, t2}
  Model = {m1, m2}
  Brand = {B1}
  Key = {k1, k2}
  Catalog <- SmallCatalog
  Pool <- TwoKeys
  Cap <- Caps
  Free = {m1, m2}
  Unknown = {}
  Latency <- Latencies
  Request <- AskSiblings
  ErrorType = {"rpm", "timeout"}
SYMMETRY Symmetry
PROPERTIES BlockedNeverServes SiblingsUnharmed KeyOrder
